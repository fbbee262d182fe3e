--------------------------- MODULE FluxoraPoolProofs ---------------------------
(***************************************************************************)
(* The pool of FluxoraStream is exact: PooledBalance, a running total the  *)
(* contract adds to and subtracts from, is at all times the sum of what    *)
(* every stream of the token is still owed.                                *)
(*                                                                         *)
(* And it is what guards the money: every call moves the balance of a      *)
(* token together with its pool or leaves it at least as large as the pool *)
(* (MoneyMove), so that no call opens a shortfall, one that a token opened *)
(* stops every payout in it, and without one the contract stays solvent.   *)
(***************************************************************************)
EXTENDS FluxoraStreamProofs

(* What each of n records is owed in token t, as a list.                   *)
OwedIn(recs, n, t) ==
  [k \in 1 .. n |-> IF recs[k - 1].token = t THEN Liability(recs[k - 1]) ELSE 0]

ClaimsOf(recs, n, t) == SumTo(OwedIn(recs, n, t), n)

(* What the streams are owed can be summed.                              *)
LEMMA OwedSummable ==
  ASSUME NEW n \in Nat, NEW recs \in [0 .. n - 1 -> Stream], NEW t
  PROVE  Summable(OwedIn(recs, n, t), n)
<1>1. ASSUME NEW k \in 1 .. n
      PROVE  Liability(recs[k - 1]) \in Int
  <2>1. recs[k - 1] \in Stream
    OBVIOUS
  <2> QED
    BY <2>1, StreamFields DEF Liability
<1> QED
  BY <1>1 DEF Summable, OwedIn

(* One record rewritten within its token.                                  *)
Rewritten(recs, after, n, i) ==
  /\ \A j \in 0 .. n - 1 : j # i => after[j] = recs[j]
  /\ after[i].token = recs[i].token

(* Rewriting one record moves the claims by the change of its liability. *)
LEMMA ClaimsOfRewrite ==
  ASSUME NEW n \in Nat, NEW recs \in [0 .. n - 1 -> Stream],
         NEW after \in [0 .. n - 1 -> Stream], NEW i \in 0 .. n - 1, NEW t,
         Rewritten(recs, after, n, i)
  PROVE  ClaimsOf(after, n, t) =
           ClaimsOf(recs, n, t)
             + (IF recs[i].token = t THEN Liability(after[i]) - Liability(recs[i]) ELSE 0)
<1> USE DEF Rewritten
<1> DEFINE f == OwedIn(recs, n, t)
           g == OwedIn(after, n, t)
           j == i + 1
<1>1. Summable(f, n) /\ Summable(g, n)
  BY OwedSummable
<1>2. j \in 1 .. n /\ j - 1 = i
  OBVIOUS
<1>3. \A k \in 1 .. n : k # j => g[k] = f[k]
  BY DEF OwedIn
<1>4. /\ f[j] = IF recs[i].token = t THEN Liability(recs[i]) ELSE 0
      /\ g[j] = IF recs[i].token = t THEN Liability(after[i]) ELSE 0
  BY <1>2 DEF OwedIn
<1> HIDE DEF f, g, j
<1>5. SumTo(g, n) = SumTo(f, n) + (g[j] - f[j])
  BY <1>1, <1>2, <1>3, SumToChange
<1> QED
  BY <1>4, <1>5 DEF ClaimsOf, f, g

(* m distinct records rewritten, the k-th of them down by amount[k].       *)
Lowered(recs, n, after, ids, amount, m) ==
  /\ n \in Nat /\ m \in Nat
  /\ recs \in [0 .. n - 1 -> Stream] /\ after \in [0 .. n - 1 -> Stream]
  /\ \A k \in 1 .. m : ids[k] \in 0 .. n - 1 /\ amount[k] \in Int
  /\ \A j, k \in 1 .. m : ids[j] = ids[k] => j = k
  /\ \A k \in 1 .. m :
       /\ after[ids[k]].token = recs[ids[k]].token
       /\ Liability(after[ids[k]]) = Liability(recs[ids[k]]) - amount[k]
  /\ \A i \in 0 .. n - 1 : (\A k \in 1 .. m : ids[k] # i) => after[i] = recs[i]

(* How much of that is in token t.                                         *)
LoweredIn(recs, ids, amount, m, t) ==
  SumTo([k \in 1 .. m |-> IF recs[ids[k]].token = t THEN amount[k] ELSE 0], m)

(* Lowering distinct records lowers the claims by the total of a batch.  *)
LEMMA ClaimsOfScatter ==
  ASSUME NEW recs, NEW n, NEW after, NEW ids, NEW amount, NEW m, NEW t,
         Lowered(recs, n, after, ids, amount, m)
  PROVE  ClaimsOf(after, n, t) =
           ClaimsOf(recs, n, t) - LoweredIn(recs, ids, amount, m, t)
<1> USE DEF Lowered
<1> DEFINE f == OwedIn(recs, n, t)
           g == OwedIn(after, n, t)
           d == [k \in 1 .. m |-> IF recs[ids[k]].token = t THEN amount[k] ELSE 0]
           place == [k \in 1 .. m |-> ids[k] + 1]
<1>1. Summable(f, n) /\ Summable(g, n)
  BY OwedSummable
<1>2. Summable(d, m)
  BY DEF Summable
<1>3. \A j, k \in 1 .. m : place[j] = place[k] => j = k
  OBVIOUS
<1>4. ASSUME NEW k \in 1 .. m
      PROVE  place[k] \in 1 .. n /\ g[place[k]] = f[place[k]] - d[k]
  <2> DEFINE i == ids[k]
  <2>1. i \in 0 .. n - 1 /\ place[k] = i + 1 /\ place[k] \in 1 .. n /\ place[k] - 1 = i
    OBVIOUS
  <2>2. recs[i] \in Stream /\ after[i] \in Stream
    BY <2>1
  <2>3. Liability(recs[i]) \in Int
    BY <2>2, StreamFields DEF Liability
  <2>4. after[i].token = recs[i].token
        /\ Liability(after[i]) = Liability(recs[i]) - amount[k] /\ amount[k] \in Int
    OBVIOUS
  <2>5. d[k] = IF recs[i].token = t THEN amount[k] ELSE 0
    OBVIOUS
  <2> HIDE DEF i, place, d
  <2>6. /\ f[place[k]] = IF recs[i].token = t THEN Liability(recs[i]) ELSE 0
        /\ g[place[k]] = IF after[i].token = t THEN Liability(after[i]) ELSE 0
    BY <2>1 DEF OwedIn
  <2> QED
    BY <2>1, <2>3, <2>4, <2>5, <2>6
<1>5. ASSUME NEW j \in 1 .. n, \A k \in 1 .. m : place[k] # j
      PROVE  g[j] = f[j]
  <2>1. j - 1 \in 0 .. n - 1 /\ \A k \in 1 .. m : ids[k] # j - 1
    BY <1>5
  <2>2. after[j - 1] = recs[j - 1]
    BY <2>1
  <2> QED
    BY <2>2 DEF OwedIn
<1> HIDE DEF f, g, d, place
<1>6. Scattered(f, g, n, place, d, m)
  BY <1>3, <1>4, <1>5 DEF Scattered
<1>7. SumTo(g, n) = SumTo(f, n) - SumTo(d, m)
  BY <1>1, <1>2, <1>6, SumToScatter
<1> QED
  BY <1>7, Zenon DEF ClaimsOf, LoweredIn, f, g, d

(* New records after the old ones; due lists what the new ones are owed.   *)
Grown(recs, n, after, m, due, t) ==
  /\ after \in [0 .. (n + m) - 1 -> Stream]
  /\ \A j \in 0 .. n - 1 : after[j] = recs[j]
  /\ \A k \in 1 .. m :
       due[k] = IF after[n + k - 1].token = t THEN Liability(after[n + k - 1]) ELSE 0

(* New records add their liabilities to the claims.                      *)
LEMMA ClaimsOfAppend ==
  ASSUME NEW n \in Nat, NEW recs \in [0 .. n - 1 -> Stream],
         NEW m \in Nat, NEW after, NEW t, NEW due, Summable(due, m),
         Grown(recs, n, after, m, due, t)
  PROVE  ClaimsOf(after, n + m, t) = ClaimsOf(recs, n, t) + SumTo(due, m)
<1> USE DEF Grown
<1> DEFINE f == OwedIn(recs, n, t)
           g == OwedIn(after, n + m, t)
<1>1. n + m \in Nat
  OBVIOUS
<1>2. Summable(f, n) /\ Summable(g, n + m)
  BY <1>1, OwedSummable
<1>3. \A k \in 1 .. n : g[k] = f[k]
  <2> TAKE k \in 1 .. n
  <2>1. k \in 1 .. (n + m) /\ k - 1 \in 0 .. n - 1
    OBVIOUS
  <2>2. after[k - 1] = recs[k - 1]
    BY <2>1
  <2> QED
    BY <2>1, <2>2 DEF OwedIn
<1>4. \A k \in 1 .. m : g[n + k] = due[k]
  <2> TAKE k \in 1 .. m
  <2>1. n + k \in 1 .. (n + m) /\ (n + k) - 1 = n + k - 1
    OBVIOUS
  <2> QED
    BY <2>1 DEF OwedIn
<1> HIDE DEF f, g
<1>5. Appended(f, n, due, m, g)
  BY <1>3, <1>4 DEF Appended
<1>6. SumTo(g, n + m) = SumTo(f, n) + SumTo(due, m)
  BY <1>2, <1>5, SumToAppend
<1> QED
  BY <1>6, Zenon DEF ClaimsOf, f, g

-----------------------------------------------------------------------------
(* What each operation does to a record's token and to what it owes.       *)
LEMMA PaidOutOwes ==
  ASSUME NEW s \in Stream, NEW payout \in Nat, NEW t \in Nat
  PROVE  /\ PaidOut(s, payout, t).token = s.token
         /\ Liability(PaidOut(s, payout, t)) = Liability(s) - payout
<1> DEFINE u == PaidOut(s, payout, t)
<1>1. u.token = s.token /\ u.withdrawn = s.withdrawn + payout /\ SameSchedule(s, u)
  BY PaidOutFields
<1>2. s.deposited \in Nat /\ s.withdrawn \in Nat
  BY StreamFields
<1> HIDE DEF u
<1>3. Liability(u) = Liability(s) - payout
  BY <1>1, <1>2 DEF Liability, SameSchedule
<1> QED
  BY <1>1, <1>3 DEF u

(* Cancelling lowers a stream's liability by the refund.                 *)
LEMMA SettledOwes ==
  ASSUME NEW s \in Stream, NEW t \in Nat
  PROVE  /\ Settled(s, t).token = s.token
         /\ Liability(Settled(s, t)) = Liability(s) - Refundable(s, t)
<1>1. /\ Settled(s, t).token = s.token
      /\ Settled(s, t).deposited = Vested(s, t)
      /\ Settled(s, t).withdrawn = s.withdrawn
  BY DEF Settled, Stream
<1>2. Vested(s, t) \in Nat /\ s.deposited \in Nat /\ s.withdrawn \in Nat
  BY VestedBounds, StreamFields
<1> QED
  BY <1>1, <1>2 DEF Liability, Refundable

(* A top-up raises a stream's liability by the amount.                   *)
LEMMA ExtendedOwes ==
  ASSUME NEW s \in Stream, NEW amount \in Nat, NEW delta \in Nat
  PROVE  /\ Extended(s, amount, delta).token = s.token
         /\ Liability(Extended(s, amount, delta)) = Liability(s) + amount
<1>1. /\ Extended(s, amount, delta).token = s.token
      /\ Extended(s, amount, delta).deposited = s.deposited + amount
      /\ Extended(s, amount, delta).withdrawn = s.withdrawn
  BY DEF Extended, Stream
<1>2. s.deposited \in Nat /\ s.withdrawn \in Nat
  BY StreamFields
<1> QED
  BY <1>1, <1>2 DEF Liability

(* The records that owe the same in the same token.                        *)
OwesAlike(s, u) == u.token = s.token /\ Liability(u) = Liability(s)

(* Pausing, resuming and transferring leave the liability alone.         *)
LEMMA QuietOwes ==
  ASSUME NEW s \in Stream, NEW t, NEW to
  PROVE  /\ OwesAlike(s, Paused(s, t))
         /\ OwesAlike(s, Resumed(s, t))
         /\ OwesAlike(s, [s EXCEPT !.recipient = to])
BY DEF OwesAlike, Paused, Resumed, Liability, Stream

-----------------------------------------------------------------------------
(* The invariant, and the calls that rewrite one stream.                   *)
PInv == IInv /\ PoolMatchesClaims

(* What the steps below use of the invariant.                            *)
LEMMA PInvParts ==
  ASSUME PInv
  PROVE  /\ IInv /\ now \in Nat /\ nextId \in Nat
         /\ streams \in [0 .. nextId - 1 -> Stream]
         /\ pooled \in [Tokens -> Int]
         /\ \A t \in Tokens : pooled[t] = ClaimsOf(streams, nextId, t)
<1>1. IInv /\ \A t \in Tokens : pooled[t] = Claims(t)
  BY DEF PInv, PoolMatchesClaims
<1>2. \A t : Claims(t) = ClaimsOf(streams, nextId, t)
  BY DEF Claims, ClaimsOf, OwedIn
<1> QED
  BY <1>1, <1>2, IInvParts DEF Ids, FundsTyped

(* It is enough that the pool follows the claims token by token.         *)
LEMMA PoolFollows ==
  ASSUME \A t \in Tokens : pooled'[t] = ClaimsOf(streams', nextId', t)
  PROVE  PoolMatchesClaims'
BY DEF PoolMatchesClaims, Claims, ClaimsOf, OwedIn

(* One record rewritten, the pool moved by the change of its liability.  *)
LEMMA WritePool ==
  ASSUME PInv, IInv', NEW i \in Ids, NEW u, Write(i, u), nextId' = nextId,
         u.token = streams[i].token,
         \A t \in Tokens : pooled'[t] = pooled[t] +
           (IF streams[i].token = t THEN Liability(u) - Liability(streams[i]) ELSE 0)
  PROVE  PoolMatchesClaims'
<1>1. /\ nextId \in Nat /\ streams \in [0 .. nextId - 1 -> Stream]
      /\ i \in 0 .. nextId - 1
  BY PInvParts DEF Ids
<1>2. streams' \in [0 .. nextId - 1 -> Stream]
  BY DEF IInv, TypeOK, Ids
<1>3. streams'[i] = u /\ Rewritten(streams, streams', nextId, i)
  BY <1>1 DEF Write, Rewritten
<1>4. ASSUME NEW t \in Tokens
      PROVE  pooled'[t] = ClaimsOf(streams', nextId', t)
  <2>1. ClaimsOf(streams', nextId, t) =
          ClaimsOf(streams, nextId, t)
            + (IF streams[i].token = t THEN Liability(u) - Liability(streams[i]) ELSE 0)
    <3>1. ClaimsOf(streams', nextId, t) =
            ClaimsOf(streams, nextId, t)
              + (IF streams[i].token = t
                 THEN Liability(streams'[i]) - Liability(streams[i]) ELSE 0)
      BY <1>1, <1>2, <1>3, ClaimsOfRewrite, SMTT(40)
    <3> QED
      BY <1>3, <3>1
  <2> QED
    BY <2>1, PInvParts
<1> QED
  BY <1>4, PoolFollows

(* A withdrawal keeps the pool exact.                                    *)
LEMMA WithdrawalPool ==
  ASSUME PInv, IInv', NEW i \in Ids, NEW payout, Withdrawal(i, payout)
  PROVE  PoolMatchesClaims'
<1> DEFINE s == streams[i]
           u == PaidOut(s, payout, now)
<1>1. /\ payout \in 1 .. Withdrawable(s, now) /\ Write(i, u)
      /\ PayOut(Only(s.token, payout)) /\ nextId' = nextId
  BY DEF Withdrawal
<1>2. s \in Stream /\ now \in Nat /\ Liability(s) \in Int
  BY PInvParts, StreamParties DEF Liability
<1>3. payout \in Nat
  BY <1>1, <1>2, WithdrawableBounds
<1>4. u.token = s.token /\ Liability(u) = Liability(s) - payout
  BY <1>2, <1>3, PaidOutOwes
<1>5. \A t \in Tokens : pooled'[t] =
        pooled[t] - (IF s.token = t THEN payout ELSE 0)
  BY <1>1 DEF PayOut, Only
<1> HIDE DEF u
<1>6. \A t \in Tokens : pooled'[t] = pooled[t] +
        (IF s.token = t THEN Liability(u) - Liability(s) ELSE 0)
  BY <1>2, <1>3, <1>4, <1>5, PInvParts
<1> QED
  BY <1>1, <1>4, <1>6, WritePool

(* A cancellation keeps the pool exact.                                  *)
LEMMA CancellationPool ==
  ASSUME PInv, IInv', NEW i \in Ids, Cancellation(i)
  PROVE  PoolMatchesClaims'
<1> DEFINE s == streams[i]
           u == Settled(s, now)
           refund == Refundable(s, now)
<1>1. Write(i, u) /\ PayOut(Only(s.token, refund)) /\ nextId' = nextId
  BY DEF Cancellation
<1>2. s \in Stream /\ now \in Nat /\ Liability(s) \in Int /\ refund \in Int
  BY PInvParts, StreamParties DEF Liability, Refundable
<1>3. u.token = s.token /\ Liability(u) = Liability(s) - refund
  BY <1>2, SettledOwes
<1>4. \A t \in Tokens : pooled'[t] =
        pooled[t] - (IF s.token = t THEN refund ELSE 0)
  BY <1>1 DEF PayOut, Only
<1> HIDE DEF u, refund
<1>5. \A t \in Tokens : pooled'[t] = pooled[t] +
        (IF s.token = t THEN Liability(u) - Liability(s) ELSE 0)
  BY <1>2, <1>3, <1>4, PInvParts
<1> QED
  BY <1>1, <1>3, <1>5, WritePool

(* A top-up keeps the pool exact.                                        *)
LEMMA TopUpPool ==
  ASSUME PInv, IInv', NEW i \in Ids, NEW amount \in Nat, NEW delta \in Nat,
         Write(i, Extended(streams[i], amount, delta)),
         PullDeposits(Only(streams[i].token, amount)), nextId' = nextId
  PROVE  PoolMatchesClaims'
<1> DEFINE s == streams[i]
           u == Extended(s, amount, delta)
<1>1. s \in Stream /\ Liability(s) \in Int
  BY PInvParts, StreamParties DEF Liability
<1>2. u.token = s.token /\ Liability(u) = Liability(s) + amount
  BY <1>1, ExtendedOwes
<1>3. \A t \in Tokens : pooled'[t] =
        pooled[t] + (IF s.token = t THEN amount ELSE 0)
  BY DEF PullDeposits, Only
<1> HIDE DEF u
<1>4. \A t \in Tokens : pooled'[t] = pooled[t] +
        (IF s.token = t THEN Liability(u) - Liability(s) ELSE 0)
  BY <1>1, <1>2, <1>3, PInvParts
<1> QED
  BY <1>2, <1>4, WritePool DEF u

(* A call that moves nothing and changes what no stream is owed.           *)
LEMMA QuietWritePool ==
  ASSUME PInv, IInv', NEW i \in Ids, NEW u, Write(i, u),
         OwesAlike(streams[i], u), UNCHANGED <<nextId, pooled>>
  PROVE  PoolMatchesClaims'
<1>1. Liability(streams[i]) \in Int
  BY PInvParts, StreamParties DEF Liability
<1>2. \A t \in Tokens : pooled'[t] = pooled[t] +
        (IF streams[i].token = t THEN Liability(u) - Liability(streams[i]) ELSE 0)
  BY <1>1, PInvParts DEF OwesAlike
<1> QED
  BY <1>2, WritePool DEF OwesAlike

(* A call that touches neither streams nor pool keeps it exact.          *)
LEMMA IdlePool ==
  ASSUME PInv, UNCHANGED <<streams, nextId, pooled>>
  PROVE  PoolMatchesClaims'
BY PInvParts, PoolFollows

(* reclaim_dust does not debit the pool, and there is nothing to debit.  *)
LEMMA ReclaimDustPool ==
  ASSUME PInv, IInv', NEW i \in Ids, ReclaimDust(i)
  PROVE  PoolMatchesClaims'
<1> DEFINE s == streams[i]
           u == [s EXCEPT !.deposited = @ - Dust(s)]
<1>1. Terminal(s) /\ Write(i, u) /\ UNCHANGED <<nextId, pooled>>
  BY DEF ReclaimDust
<1>2. Dust(s) = 0
  BY <1>1, PInvParts, IInvParts, SettledHasNoDust DEF Dust
<1>3. u = s
  BY <1>2, PInvParts, StreamParties, NothingTaken
<1>4. OwesAlike(s, u)
  BY <1>3 DEF OwesAlike
<1> HIDE DEF u
<1> QED
  BY <1>1, <1>4, QuietWritePool

-----------------------------------------------------------------------------
(* Creation and the batch calls.                                           *)
LEMMA CreateStreamsPool ==
  ASSUME PInv, IInv', NEW reqs, RequestList(reqs), CreateStreams(reqs)
  PROVE  PoolMatchesClaims'
<1> DEFINE m == Len(reqs)
<1>1. /\ \A k \in 1 .. m : ValidTerms(reqs[k])
      /\ PullDeposits([t \in Tokens |-> DepositsIn(reqs, t)])
      /\ nextId' = nextId + m
      /\ streams' = [i \in 0 .. nextId + m - 1 |->
                       IF i < nextId THEN streams[i]
                       ELSE NewStream(reqs[i - nextId + 1])]
  BY DEF CreateStreams, Enrol
<1>2. /\ nextId \in Nat /\ m \in Nat /\ streams \in [0 .. nextId - 1 -> Stream]
      /\ pooled \in [Tokens -> Int]
  BY PInvParts DEF RequestList
<1>3. streams' \in [0 .. nextId' - 1 -> Stream]
  BY DEF IInv, TypeOK, Ids
<1>4. \A k \in 1 .. m : reqs[k] \in CreateRequest /\ reqs[k].deposit \in Int
  BY ConstantsAssumption DEF RequestList, CreateRequest
<1> HIDE DEF m
<1>5. \A j \in 0 .. nextId - 1 : streams'[j] = streams[j]
  BY <1>1, <1>2
<1>6. \A k \in 1 .. m : streams'[nextId + k - 1] = NewStream(reqs[k])
  <2> TAKE k \in 1 .. m
  <2> DEFINE i == nextId + k - 1
  <2>1. i \in 0 .. nextId + m - 1 /\ ~ (i < nextId) /\ i - nextId + 1 = k
    BY <1>2
  <2> HIDE DEF i
  <2>2. streams'[i] = NewStream(reqs[k])
    BY <1>1, <2>1
  <2> QED
    BY <2>2 DEF i
<1>7. ASSUME NEW t \in Tokens
      PROVE  pooled'[t] = ClaimsOf(streams', nextId', t)
  <2> DEFINE due == [k \in 1 .. m |-> IF reqs[k].token = t THEN reqs[k].deposit ELSE 0]
  <2>1. Summable(due, m)
    BY <1>4 DEF Summable
  <2>2. \A k \in 1 .. m :
          due[k] = IF streams'[nextId + k - 1].token = t
                   THEN Liability(streams'[nextId + k - 1]) ELSE 0
    <3>1. ASSUME NEW k \in 1 .. m
          PROVE  /\ NewStream(reqs[k]).token = reqs[k].token
                 /\ Liability(NewStream(reqs[k])) = reqs[k].deposit
      BY <1>4 DEF NewStream, Liability
    <3> QED
      BY <1>6, <3>1
  <2>3. DepositsIn(reqs, t) = SumTo(due, m)
    BY DEF DepositsIn, m
  <2> HIDE DEF due
  <2>4. streams' \in [0 .. (nextId + m) - 1 -> Stream]
    BY <1>1, <1>3
  <2>5. Grown(streams, nextId, streams', m, due, t)
    BY <1>5, <2>2, <2>4 DEF Grown
  <2>6. ClaimsOf(streams', nextId + m, t) = ClaimsOf(streams, nextId, t) + SumTo(due, m)
    BY <1>2, <2>1, <2>5, ClaimsOfAppend
  <2>7. pooled'[t] = pooled[t] + SumTo(due, m)
    BY <1>1, <2>3 DEF PullDeposits
  <2> QED
    BY <1>1, <2>6, <2>7, PInvParts
<1> QED
  BY <1>7, PoolFollows

(* Distinct streams lowered and their total debited: the pool is exact.  *)
LEMMA BatchPool ==
  ASSUME PInv, IInv', NEW ids, IdList(ids), NEW amount,
         Lowered(streams, nextId, streams', ids, amount, Len(ids)),
         PayOut([t \in Tokens |-> BatchTotal(ids, amount, t)]), nextId' = nextId
  PROVE  PoolMatchesClaims'
<1> DEFINE m == Len(ids)
<1>1. /\ nextId \in Nat /\ m \in Nat /\ streams \in [0 .. nextId - 1 -> Stream]
      /\ pooled \in [Tokens -> Int]
  BY PInvParts DEF IdList
<1>2. streams' \in [0 .. nextId - 1 -> Stream]
  BY DEF IInv, TypeOK, Ids
<1>3. Lowered(streams, nextId, streams', ids, amount, m)
  OBVIOUS
<1> HIDE DEF m
<1>4. ASSUME NEW t \in Tokens
      PROVE  pooled'[t] = ClaimsOf(streams', nextId', t)
  <2> DEFINE total == LoweredIn(streams, ids, amount, m, t)
  <2>1. ClaimsOf(streams', nextId, t) = ClaimsOf(streams, nextId, t) - total
    BY <1>3, ClaimsOfScatter
  <2>2. total = BatchTotal(ids, amount, t)
    BY DEF BatchTotal, LoweredIn, m
  <2>3. pooled'[t] = pooled[t] - BatchTotal(ids, amount, t)
    BY DEF PayOut
  <2> HIDE DEF total
  <2> QED
    BY <2>1, <2>2, <2>3, PInvParts
<1> QED
  BY <1>4, PoolFollows

(* batch_withdraw keeps the pool exact.                                  *)
LEMMA BatchWithdrawPool ==
  ASSUME PInv, IInv', NEW recipient, NEW ids, IdList(ids),
         BatchWithdraw(recipient, ids)
  PROVE  PoolMatchesClaims'
<1> DEFINE m == Len(ids)
           available == [k \in 1 .. m |-> Withdrawable(streams[ids[k]], now)]
           paid == {ids[k] : k \in {j \in DOMAIN ids : available[j] > 0}}
<1>1. /\ DistinctIds(ids) /\ nextId' = nextId
      /\ streams' = [i \in Ids |->
                       IF i \in paid
                       THEN PaidOut(streams[i], Withdrawable(streams[i], now), now)
                       ELSE streams[i]]
      /\ PayOut([t \in Tokens |-> BatchTotal(ids, available, t)])
  BY DEF BatchWithdraw
<1>2. PInv /\ IInv /\ now \in Nat /\ DOMAIN ids = 1 .. m
  BY PInvParts DEF IdList
<1>3. ASSUME NEW i \in Ids
      PROVE  Withdrawable(streams[i], now) \in Nat
  BY <1>2, StreamParties DEF Withdrawable, Greatest
<1>4. ASSUME NEW k \in 1 .. m
      PROVE  /\ ids[k] \in Ids /\ available[k] = Withdrawable(streams[ids[k]], now)
             /\ available[k] \in Nat
             /\ ids[k] \notin paid => available[k] = 0
  BY <1>2, <1>3 DEF IdList
<1>5. \A i \in paid : \E k \in 1 .. m : ids[k] = i
  BY <1>2
<1> HIDE DEF m, available, paid
<1>6. ASSUME NEW k \in 1 .. m
      PROVE  /\ streams'[ids[k]].token = streams[ids[k]].token
             /\ Liability(streams'[ids[k]]) = Liability(streams[ids[k]]) - available[k]
  <2> DEFINE s == streams[ids[k]]
  <2>1. s \in Stream /\ Liability(s) \in Int
    BY <1>2, <1>4, StreamParties DEF Liability
  <2>2. CASE ids[k] \in paid
    <3>1. streams'[ids[k]] = PaidOut(s, available[k], now)
      BY <1>1, <1>4, <2>2
    <3> QED
      BY <1>2, <1>4, <2>1, <3>1, PaidOutOwes
  <2>3. CASE ids[k] \notin paid
    <3>1. streams'[ids[k]] = s /\ available[k] = 0
      BY <1>1, <1>4, <2>3
    <3> HIDE DEF s
    <3> QED
      BY <2>1, <3>1 DEF s
  <2> QED
    BY <2>2, <2>3
<1>7. ASSUME NEW i \in Ids, \A k \in 1 .. m : ids[k] # i
      PROVE  streams'[i] = streams[i]
  BY <1>1, <1>5, <1>7
<1>8. Lowered(streams, nextId, streams', ids, available, m)
  <2>1. \A k \in 1 .. m : ids[k] \in 0 .. nextId - 1 /\ available[k] \in Int
    BY <1>4 DEF Ids
  <2>2. \A j, k \in 1 .. m : ids[j] = ids[k] => j = k
    BY <1>1, <1>2 DEF DistinctIds
  <2>3. \A i \in 0 .. nextId - 1 :
          (\A k \in 1 .. m : ids[k] # i) => streams'[i] = streams[i]
    BY <1>7 DEF Ids
  <2>4. /\ nextId \in Nat /\ m \in Nat
        /\ streams \in [0 .. nextId - 1 -> Stream]
        /\ streams' \in [0 .. nextId - 1 -> Stream]
    BY <1>1, PInvParts DEF IInv, TypeOK, Ids, IdList, m
  <2> QED
    BY <1>6, <2>1, <2>2, <2>3, <2>4 DEF Lowered
<1> QED
  BY <1>1, <1>8, BatchPool DEF m

(* batch_cancel keeps the pool exact.                                    *)
LEMMA BatchCancelPool ==
  ASSUME PInv, IInv', NEW sender, NEW ids, IdList(ids), BatchCancel(sender, ids)
  PROVE  PoolMatchesClaims'
<1> DEFINE m == Len(ids)
           refund  == [k \in 1 .. m |-> Refundable(streams[ids[k]], now)]
           settled == {ids[k] : k \in DOMAIN ids}
<1>1. /\ DistinctIds(ids) /\ nextId' = nextId
      /\ streams' = [i \in Ids |->
                       IF i \in settled THEN Settled(streams[i], now) ELSE streams[i]]
      /\ PayOut([t \in Tokens |-> BatchTotal(ids, refund, t)])
  BY DEF BatchCancel
<1>2. IInv /\ now \in Nat /\ DOMAIN ids = 1 .. m
  BY PInvParts DEF IdList
<1>3. ASSUME NEW k \in 1 .. m
      PROVE  /\ ids[k] \in Ids /\ ids[k] \in settled
             /\ refund[k] = Refundable(streams[ids[k]], now)
  BY <1>2 DEF IdList
<1>4. \A i \in settled : \E k \in 1 .. m : ids[k] = i
  BY <1>2
<1> HIDE DEF m, refund, settled
<1>5. ASSUME NEW k \in 1 .. m
      PROVE  /\ refund[k] \in Int
             /\ streams'[ids[k]].token = streams[ids[k]].token
             /\ Liability(streams'[ids[k]]) = Liability(streams[ids[k]]) - refund[k]
  <2> DEFINE s == streams[ids[k]]
  <2>1. s \in Stream /\ Refundable(s, now) \in Int
    BY <1>2, <1>3, StreamParties DEF Refundable
  <2>2. streams'[ids[k]] = Settled(s, now)
    BY <1>1, <1>3
  <2> QED
    BY <1>2, <1>3, <2>1, <2>2, SettledOwes
<1>6. ASSUME NEW i \in Ids, \A k \in 1 .. m : ids[k] # i
      PROVE  streams'[i] = streams[i]
  BY <1>1, <1>4, <1>6
<1>7. Lowered(streams, nextId, streams', ids, refund, m)
  <2>1. \A k \in 1 .. m : ids[k] \in 0 .. nextId - 1 /\ refund[k] \in Int
    BY <1>3, <1>5 DEF Ids
  <2>2. \A j, k \in 1 .. m : ids[j] = ids[k] => j = k
    BY <1>1, <1>2 DEF DistinctIds
  <2>3. \A i \in 0 .. nextId - 1 :
          (\A k \in 1 .. m : ids[k] # i) => streams'[i] = streams[i]
    BY <1>6 DEF Ids
  <2>4. /\ nextId \in Nat /\ m \in Nat
        /\ streams \in [0 .. nextId - 1 -> Stream]
        /\ streams' \in [0 .. nextId - 1 -> Stream]
    BY <1>1, PInvParts DEF IInv, TypeOK, Ids, IdList, m
  <2> QED
    BY <1>5, <2>1, <2>2, <2>3, <2>4 DEF Lowered
<1> QED
  BY <1>1, <1>7, BatchPool DEF m

-----------------------------------------------------------------------------
(* Every step.                                                             *)
LEMMA StreamCallPool ==
  ASSUME PInv, IInv', NEW i \in Ids, StreamCall(i)
  PROVE  PoolMatchesClaims'
<1> DEFINE s == streams[i]
<1>1. IInv /\ s \in Stream /\ now \in Nat
  BY PInvParts, StreamParties
<1>2. CASE \E payout \in 1 .. Withdrawable(s, now) : Withdraw(i, payout)
  BY <1>2, WithdrawalPool DEF Withdraw
<1>3. CASE Cancel(i)
  BY <1>3, CancellationPool DEF Cancel
<1>4. CASE ReclaimDust(i)
  BY <1>4, ReclaimDustPool
<1>5. ASSUME NEW amount \in TopUpAmounts, TopUp(i, amount)
      PROVE  PoolMatchesClaims'
  <2> DEFINE delta == TopUpDelta(s, amount)
  <2>1. /\ ~ Terminal(s) /\ amount > 0
        /\ PullDeposits(Only(s.token, amount))
        /\ Write(i, Extended(s, amount, delta)) /\ nextId' = nextId
    BY <1>5 DEF TopUp
  <2>2. amount \in Nat
    BY <2>1, ConstantsAssumption
  <2>3. delta \in Nat
    BY <1>1, <2>1, <2>2, IInvParts, RateDeltaType
  <2> HIDE DEF delta
  <2> QED
    BY <2>1, <2>2, <2>3, TopUpPool
<1>6. CASE Pause(i)
  BY <1>1, <1>6, QuietOwes, QuietWritePool DEF Pause, funds
<1>7. CASE Resume(i)
  BY <1>1, <1>7, QuietOwes, QuietWritePool DEF Resume, funds
<1>8. ASSUME NEW to \in Accounts, TransferRecipient(i, to)
      PROVE  PoolMatchesClaims'
  BY <1>1, <1>8, QuietOwes, QuietWritePool DEF TransferRecipient, funds
<1> QED
  BY <1>2, <1>3, <1>4, <1>5, <1>6, <1>7, <1>8 DEF StreamCall

(* Every call of a delegate keeps the pool exact.                        *)
LEMMA DelegateCallPool ==
  ASSUME PInv, IInv', NEW i \in Ids, NEW d \in Delegates, DelegateCall(i, d)
  PROVE  PoolMatchesClaims'
<1> DEFINE s == streams[i]
<1>1. IInv /\ s \in Stream /\ now \in Nat
  BY PInvParts, StreamParties
<1>2. CASE \E payout \in 1 .. Withdrawable(s, now) : DelegateWithdraw(i, d, payout)
  BY <1>2, WithdrawalPool DEF DelegateWithdraw
<1>3. CASE DelegateCancel(i, d)
  BY <1>3, CancellationPool DEF DelegateCancel
<1>4. ASSUME NEW amount \in TopUpAmounts, DelegateTopUp(i, d, amount)
      PROVE  PoolMatchesClaims'
  <2> DEFINE delta == RateDelta(s, amount)
  <2>1. /\ ~ Terminal(s) /\ amount > 0
        /\ PullDeposits(Only(s.token, amount))
        /\ Write(i, Extended(s, amount, delta)) /\ nextId' = nextId
    BY <1>4 DEF DelegateTopUp
  <2>2. amount \in Nat
    BY <2>1, ConstantsAssumption
  <2>3. delta \in Nat
    BY <1>1, <2>1, <2>2, IInvParts, RateDeltaType
  <2> HIDE DEF delta
  <2> QED
    BY <2>1, <2>2, <2>3, TopUpPool
<1>5. CASE DelegatePause(i, d)
  BY <1>1, <1>5, QuietOwes, QuietWritePool DEF DelegatePause, funds
<1>6. CASE DelegateResume(i, d)
  BY <1>1, <1>6, QuietOwes, QuietWritePool DEF DelegateResume, funds
<1>7. ASSUME NEW to \in Accounts, DelegateTransferRecipient(i, d, to)
      PROVE  PoolMatchesClaims'
  BY <1>1, <1>7, QuietOwes, QuietWritePool DEF DelegateTransferRecipient, funds
<1>8. CASE \/ \E ops \in GrantOps, expires_at \in Expiries :
                GrantDelegate(i, d, ops, expires_at)
           \/ \E grantor \in Accounts : RevokeDelegate(i, grantor, d)
  BY <1>8, IdlePool DEF GrantDelegate, RevokeDelegate, funds
<1> QED
  BY <1>2, <1>3, <1>4, <1>5, <1>6, <1>7, <1>8 DEF DelegateCall

(* Every way to create streams keeps the pool exact.                     *)
LEMMA CreationPool ==
  ASSUME PInv, IInv',
         \/ \E req \in CreateRequests :
              \/ CreateStreamWithCliffMode(req)
              \/ CreateStreamWithCurve(req)
              \/ \E answer \in FactoryAnswers : CreateStreamViaFactory(req, answer)
         \/ \E reqs \in Batches(CreateRequests) : BatchCreate(reqs)
  PROVE  PoolMatchesClaims'
<1>1. ASSUME NEW req \in CreateRequests, CreateStreams(<<req>>)
      PROVE  PoolMatchesClaims'
  BY <1>1, OneRequest, CreateStreamsPool
<1>2. ASSUME NEW reqs \in Batches(CreateRequests), CreateStreams(reqs)
      PROVE  PoolMatchesClaims'
  BY <1>2, BatchOfRequests, CreateStreamsPool
<1> QED
  BY <1>1, <1>2
  DEF CreateStreamWithCliffMode, CreateStreamWithCurve, CreateStreamViaFactory, BatchCreate

(* Every step keeps the pool exact.                                      *)
LEMMA NextPool ==
  ASSUME PInv, IInv', [Next]_vars
  PROVE  PoolMatchesClaims'
<1>1. CASE UNCHANGED vars
  BY <1>1, IdlePool DEF vars
<1>2. ASSUME NEW a \in Accounts, NEW ids \in Batches(Ids),
             BatchWithdraw(a, ids) \/ BatchCancel(a, ids)
      PROVE  PoolMatchesClaims'
  BY <1>2, BatchOfIds, BatchWithdrawPool, BatchCancelPool
<1>3. CASE (\E a \in HaltOperators : SetHaltOperator(a)) \/ Halt \/ ResumeContract
  BY <1>3, IdlePool DEF SetHaltOperator, Halt, ResumeContract, funds
<1>4. CASE (\E t \in Tokens, change \in Rebases : Rebase(t, change)) \/ Tick
  BY <1>4, IdlePool DEF Rebase, Tick, funds
<1> QED
  BY <1>1, <1>2, <1>3, <1>4, CreationPool, StreamCallPool, DelegateCallPool DEF Next

(* With no stream and an empty pool, the pool is exact.                  *)
LEMMA InitPool == Init => PoolMatchesClaims
<1> SUFFICES ASSUME Init, NEW t \in Tokens
             PROVE  pooled[t] = Claims(t)
  BY DEF PoolMatchesClaims
<1> DEFINE owed == [k \in 1 .. nextId |->
                      IF streams[k - 1].token = t THEN Liability(streams[k - 1]) ELSE 0]
<1>1. nextId = 0 /\ pooled[t] = 0
  BY DEF Init
<1>2. Summable(owed, 0)
  BY DEF Summable
<1> HIDE DEF owed
<1>3. SumTo(owed, 0) = 0
  BY <1>2, SumToRecursion
<1> QED
  BY <1>1, <1>3 DEF Claims, owed

(* PooledBalance is exact: whatever is created, topped up, withdrawn,      *)
(* cancelled, batched, reclaimed or rebased, by whom and in what order,    *)
(* the running total of a token is the sum of its streams' outstanding     *)
(* liabilities.                                                            *)
THEOREM PoolIsExact == Spec => []PoolMatchesClaims
<1>1. Init => PInv
  BY InitIInv, InitPool DEF PInv
<1>2. PInv /\ [Next]_vars => PInv'
  <2> SUFFICES ASSUME PInv, [Next]_vars
               PROVE  PInv'
    OBVIOUS
  <2>1. IInv'
    BY NextIInv DEF PInv
  <2>2. PoolMatchesClaims'
    BY <2>1, NextPool
  <2> QED
    BY <2>1, <2>2 DEF PInv
<1>3. PInv => PoolMatchesClaims
  BY DEF PInv
<1> QED
  BY <1>1, <1>2, <1>3, PTL DEF Spec

-----------------------------------------------------------------------------
(* What one step may do to the tokens: pull deposits in, pay out of tokens *)
(* it then verifies, change the balance of a token that no call touches,   *)
(* or nothing.                                                             *)
MoneyMove ==
  \/ UNCHANGED funds
  \/ \E t \in Tokens, change \in Rebases : Rebase(t, change)
  \/ \E due \in [Tokens -> Nat] : PullDeposits(due)
  \/ \E out \in [Tokens -> Nat], ts \in SUBSET Tokens :
       /\ PayOut(out) /\ VerifyPool(ts)
       /\ \A t \in Tokens : t \notin ts => out[t] = 0

(* A payout in one token, which is verified.                               *)
LEMMA PayOneToken ==
  ASSUME NEW token \in Tokens, NEW amount \in Nat,
         PayOut(Only(token, amount)), VerifyPool({token})
  PROVE  MoneyMove
<1>1. Only(token, amount) \in [Tokens -> Nat]
  BY OnlyTyped
<1>2. \A t \in Tokens : t \notin {token} => Only(token, amount)[t] = 0
  BY DEF Only
<1>3. {token} \in SUBSET Tokens
  OBVIOUS
<1> QED
  BY <1>1, <1>2, <1>3, Zenon DEF MoneyMove

(* A batch pays in the tokens of its streams only.                         *)
LEMMA PayBatch ==
  ASSUME IInv, NEW ids, IdList(ids), NEW amount,
         \A k \in 1 .. Len(ids) : amount[k] \in Nat,
         PayOut([t \in Tokens |-> BatchTotal(ids, amount, t)]),
         VerifyPool(TokensOf(ids))
  PROVE  MoneyMove
<1> DEFINE out == [t \in Tokens |-> BatchTotal(ids, amount, t)]
           ts  == TokensOf(ids)
<1>1. out \in [Tokens -> Nat]
  BY BatchTotalTyped
<1>2. ts \in SUBSET Tokens
  <2>1. ASSUME NEW k \in DOMAIN ids
        PROVE  streams[ids[k]].token \in Tokens
    <3>1. ids[k] \in Ids
      BY DEF IdList
    <3> QED
      BY <3>1, StreamParties, StreamFields
  <2> QED
    BY <2>1 DEF TokensOf
<1>3. ASSUME NEW t \in Tokens, t \notin ts
      PROVE  out[t] = 0
  <2> DEFINE due == [k \in 1 .. Len(ids) |->
                       IF streams[ids[k]].token = t THEN amount[k] ELSE 0]
  <2>1. \A k \in 1 .. Len(ids) : streams[ids[k]].token # t
    BY <1>3 DEF TokensOf, IdList
  <2>2. \A k \in 1 .. Len(ids) : due[k] = 0
    BY <2>1
  <2> HIDE DEF due
  <2>3. SumTo(due, Len(ids)) = 0
    BY <2>2, SumToNone DEF IdList
  <2> QED
    BY <2>3 DEF BatchTotal, due
<1>4. PayOut(out) /\ VerifyPool(ts)
  OBVIOUS
<1> HIDE DEF out, ts
<1> QED
  BY <1>1, <1>2, <1>3, <1>4, Zenon DEF MoneyMove

(* Transferring nothing leaves every balance.                              *)
LEMMA NothingTransferred ==
  ASSUME FundsTyped, NEW token, TransferOut(Only(token, 0))
  PROVE  held' = held
<1>1. \A t \in Tokens : Only(token, 0)[t] = 0
  BY DEF Only
<1>2. PICK fee \in [Tokens -> Fees] :
        held' = [t \in Tokens |->
                   IF Only(token, 0)[t] = 0 THEN held[t]
                   ELSE held[t] - Only(token, 0)[t] - fee[t]]
  BY Zenon DEF TransferOut
<1> QED
  BY <1>1, <1>2 DEF FundsTyped

(* Every call on a stream moves tokens in one of these ways.               *)
LEMMA StreamCallMoney ==
  ASSUME IInv, NEW i \in Ids, StreamCall(i)
  PROVE  MoneyMove
<1> DEFINE s == streams[i]
<1>1. s \in Stream /\ Sound(s, now) /\ now \in Nat /\ s.token \in Tokens /\ FundsTyped
  BY StreamParties, IInvParts, StreamFields
<1>2. CASE \E payout \in 1 .. Withdrawable(s, now) : Withdraw(i, payout)
  BY <1>1, <1>2, WithdrawableBounds, PayOneToken DEF Withdraw, Withdrawal
<1>3. CASE Cancel(i)
  <2>1. Refundable(s, now) \in Nat
    BY <1>1, StreamParties DEF Refundable
  <2> QED
    BY <1>1, <1>3, <2>1, PayOneToken DEF Cancel, Cancellation
<1>4. CASE ReclaimDust(i)
  <2>1. Dust(s) = 0
    BY <1>1, <1>4, SettledHasNoDust DEF Dust, ReclaimDust
  <2>2. held' = held /\ pooled' = pooled
    BY <1>1, <1>4, <2>1, NothingTransferred DEF ReclaimDust
  <2> QED
    BY <2>2 DEF MoneyMove, funds
<1>5. ASSUME NEW amount \in TopUpAmounts, TopUp(i, amount)
      PROVE  MoneyMove
  <2>1. amount \in Nat /\ PullDeposits(Only(s.token, amount))
    BY <1>5, ConstantsAssumption DEF TopUp
  <2> QED
    BY <2>1, OnlyTyped DEF MoneyMove
<1>6. CASE Pause(i) \/ Resume(i) \/ \E to \in Accounts : TransferRecipient(i, to)
  BY <1>6 DEF Pause, Resume, TransferRecipient, MoneyMove
<1> QED
  BY <1>2, <1>3, <1>4, <1>5, <1>6 DEF StreamCall

(* So does every call of a delegate.                                       *)
LEMMA DelegateCallMoney ==
  ASSUME IInv, NEW i \in Ids, NEW d \in Delegates, DelegateCall(i, d)
  PROVE  MoneyMove
<1> DEFINE s == streams[i]
<1>1. s \in Stream /\ now \in Nat /\ s.token \in Tokens
  BY StreamParties, IInvParts, StreamFields
<1>2. CASE \E payout \in 1 .. Withdrawable(s, now) : DelegateWithdraw(i, d, payout)
  BY <1>1, <1>2, WithdrawableBounds, PayOneToken DEF DelegateWithdraw, Withdrawal
<1>3. CASE DelegateCancel(i, d)
  <2>1. Refundable(s, now) \in Nat
    BY <1>1, StreamParties DEF Refundable
  <2> QED
    BY <1>1, <1>3, <2>1, PayOneToken DEF DelegateCancel, Cancellation
<1>4. ASSUME NEW amount \in TopUpAmounts, DelegateTopUp(i, d, amount)
      PROVE  MoneyMove
  <2>1. amount \in Nat /\ PullDeposits(Only(s.token, amount))
    BY <1>4, ConstantsAssumption DEF DelegateTopUp
  <2> QED
    BY <2>1, OnlyTyped DEF MoneyMove
<1>5. CASE \/ DelegatePause(i, d) \/ DelegateResume(i, d)
           \/ \E to \in Accounts : DelegateTransferRecipient(i, d, to)
           \/ \E ops \in GrantOps, expires_at \in Expiries :
                GrantDelegate(i, d, ops, expires_at)
           \/ \E grantor \in Accounts : RevokeDelegate(i, grantor, d)
  BY <1>5
  DEF DelegatePause, DelegateResume, DelegateTransferRecipient, GrantDelegate,
      RevokeDelegate, MoneyMove
<1> QED
  BY <1>2, <1>3, <1>4, <1>5 DEF DelegateCall

(* And every step.                                                         *)
LEMMA NextMoney ==
  ASSUME IInv, [Next]_vars
  PROVE  MoneyMove
<1>1. ASSUME NEW reqs, RequestList(reqs), CreateStreams(reqs)
      PROVE  MoneyMove
  <2>1. \A k \in 1 .. Len(reqs) : ValidTerms(reqs[k])
    BY <1>1 DEF CreateStreams
  <2>2. [t \in Tokens |-> DepositsIn(reqs, t)] \in [Tokens -> Nat]
    BY <1>1, <2>1, DepositsTyped
  <2> QED
    BY <1>1, <2>2, Zenon DEF CreateStreams, MoneyMove
<1>2. ASSUME NEW req \in CreateRequests, CreateStreams(<<req>>)
      PROVE  MoneyMove
  BY <1>1, <1>2, OneRequest
<1>3. ASSUME NEW reqs \in Batches(CreateRequests), CreateStreams(reqs)
      PROVE  MoneyMove
  BY <1>1, <1>3, BatchOfRequests
<1>4. ASSUME NEW a \in Accounts, NEW ids \in Batches(Ids), BatchWithdraw(a, ids)
      PROVE  MoneyMove
  <2> DEFINE available == [k \in 1 .. Len(ids) |-> Withdrawable(streams[ids[k]], now)]
  <2>1. IdList(ids)
    BY BatchOfIds
  <2>2. \A k \in 1 .. Len(ids) : available[k] \in Nat
    BY <2>1, StreamParties DEF IdList, Withdrawable, Greatest
  <2>3. /\ PayOut([t \in Tokens |-> BatchTotal(ids, available, t)])
        /\ VerifyPool(TokensOf(ids))
    BY <1>4 DEF BatchWithdraw
  <2> HIDE DEF available
  <2> QED
    BY <2>1, <2>2, <2>3, PayBatch
<1>5. ASSUME NEW a \in Accounts, NEW ids \in Batches(Ids), BatchCancel(a, ids)
      PROVE  MoneyMove
  <2> DEFINE refund == [k \in 1 .. Len(ids) |-> Refundable(streams[ids[k]], now)]
  <2>1. IdList(ids)
    BY BatchOfIds
  <2>2. \A k \in 1 .. Len(ids) : refund[k] \in Nat
    BY <2>1, StreamParties DEF IdList, Refundable
  <2>3. /\ PayOut([t \in Tokens |-> BatchTotal(ids, refund, t)])
        /\ VerifyPool(TokensOf(ids))
    BY <1>5 DEF BatchCancel
  <2> HIDE DEF refund
  <2> QED
    BY <2>1, <2>2, <2>3, PayBatch
<1>6. CASE \/ \E a \in HaltOperators : SetHaltOperator(a)
           \/ Halt \/ ResumeContract \/ Tick \/ UNCHANGED vars
  BY <1>6 DEF SetHaltOperator, Halt, ResumeContract, Tick, vars, funds, MoneyMove
<1>7. CASE \E t \in Tokens, change \in Rebases : Rebase(t, change)
  BY <1>7 DEF MoneyMove
<1> QED
  BY <1>2, <1>3, <1>4, <1>5, <1>6, <1>7, StreamCallMoney, DelegateCallMoney
  DEF Next, CreateStreamWithCliffMode, CreateStreamWithCurve, CreateStreamViaFactory,
      BatchCreate

(* What pulling and paying do to one token.                                *)
LEMMA PulledAlike ==
  ASSUME FundsTyped, NEW due \in [Tokens -> Nat], PullDeposits(due), NEW t \in Tokens
  PROVE  pooled'[t] = pooled[t] + due[t] /\ held'[t] = held[t] + due[t]
<1> DEFINE received(fee) == [x \in Tokens |-> IF due[x] = 0 THEN 0 ELSE due[x] - fee[x]]
<1>1. PICK fee \in [Tokens -> Fees] :
        /\ \A x \in Tokens : received(fee)[x] = due[x]
        /\ pooled' = [x \in Tokens |-> pooled[x] + due[x]]
        /\ held' = [x \in Tokens |-> held[x] + received(fee)[x]]
  BY Zenon DEF PullDeposits
<1> HIDE DEF received
<1> QED
  BY <1>1

(* A payout takes at least what it debits.                                 *)
LEMMA PaidAtLeast ==
  ASSUME FundsTyped, NEW out \in [Tokens -> Nat], PayOut(out), NEW t \in Tokens
  PROVE  /\ pooled'[t] = pooled[t] - out[t]
         /\ held'[t] \in Int
         /\ out[t] = 0 => held'[t] = held[t]
         /\ held'[t] <= held[t] - out[t]
<1>1. PICK fee \in [Tokens -> Fees] :
        held' = [x \in Tokens |->
                   IF out[x] = 0 THEN held[x] ELSE held[x] - out[x] - fee[x]]
  BY Zenon DEF PayOut, TransferOut
<1>2. fee[t] \in Nat /\ held[t] \in Nat /\ out[t] \in Nat
  BY ConstantsAssumption DEF FundsTyped
<1>3. held'[t] = IF out[t] = 0 THEN held[t] ELSE held[t] - out[t] - fee[t]
  BY <1>1
<1>4. pooled'[t] = pooled[t] - out[t]
  BY DEF PayOut
<1> QED
  BY <1>2, <1>3, <1>4

(* While a token is short of what the contract accounts for, no call pays  *)
(* anything out of its pool, be it a batch, a delegate's or a cancellation *)
(* during a halt: whoever comes first does not empty what is left.         *)
THEOREM ShortTokensPayNothing == Spec => ShortfallBlocksPayouts
<1>1. IInv /\ [Next]_vars =>
        \A t \in Tokens : held[t] < pooled[t] => pooled'[t] >= pooled[t]
  <2> SUFFICES ASSUME IInv, [Next]_vars, NEW t \in Tokens, held[t] < pooled[t]
               PROVE  pooled'[t] >= pooled[t]
    OBVIOUS
  <2>1. MoneyMove /\ FundsTyped /\ held[t] \in Nat /\ pooled[t] \in Int
    BY NextMoney, IInvParts DEF FundsTyped
  <2>2. CASE \/ UNCHANGED funds
             \/ \E x \in Tokens, change \in Rebases : Rebase(x, change)
    BY <2>1, <2>2 DEF funds, Rebase
  <2>3. ASSUME NEW due \in [Tokens -> Nat], PullDeposits(due)
        PROVE  pooled'[t] >= pooled[t]
    <3>1. pooled'[t] = pooled[t] + due[t] /\ due[t] \in Nat
      BY <2>1, <2>3, PulledAlike
    <3> QED
      BY <2>1, <3>1
  <2>4. ASSUME NEW out \in [Tokens -> Nat], NEW ts \in SUBSET Tokens,
               PayOut(out), VerifyPool(ts),
               \A x \in Tokens : x \notin ts => out[x] = 0
        PROVE  pooled'[t] >= pooled[t]
    <3>1. /\ pooled'[t] = pooled[t] - out[t] /\ out[t] \in Nat
          /\ held'[t] \in Int /\ held'[t] <= held[t] - out[t]
      BY <2>1, <2>4, PaidAtLeast
    <3>2. t \in ts => held'[t] >= pooled'[t]
      BY <2>4 DEF VerifyPool
    <3>3. t \notin ts => out[t] = 0
      BY <2>4
    <3> QED
      BY <2>1, <3>1, <3>2, <3>3
  <2> QED
    BY <2>1, <2>2, <2>3, <2>4 DEF MoneyMove
<1> QED
  BY <1>1, Invariance, PTL DEF Spec, ShortfallBlocksPayouts

(* And none opens a shortfall or widens one: only the token itself can.    *)
THEOREM CallsOpenNoShortfall == Spec => ShortfallNeverOpened
<1>1. IInv /\ [Next]_vars =>
        \A t \in Tokens :
          held'[t] < pooled'[t] /\ <<pooled, streams>>' # <<pooled, streams>>
            => held'[t] - pooled'[t] >= held[t] - pooled[t]
  <2> SUFFICES ASSUME IInv, [Next]_vars, NEW t \in Tokens, held'[t] < pooled'[t],
                      ~ UNCHANGED <<pooled, streams>>
               PROVE  held'[t] - pooled'[t] >= held[t] - pooled[t]
    OBVIOUS
  <2>1. MoneyMove /\ FundsTyped /\ held[t] \in Nat /\ pooled[t] \in Int
    BY NextMoney, IInvParts DEF FundsTyped
  <2>2. CASE \/ UNCHANGED funds
             \/ \E x \in Tokens, change \in Rebases : Rebase(x, change)
    BY <2>1, <2>2 DEF funds, Rebase
  <2>3. ASSUME NEW due \in [Tokens -> Nat], PullDeposits(due)
        PROVE  held'[t] - pooled'[t] >= held[t] - pooled[t]
    <3>1. /\ pooled'[t] = pooled[t] + due[t] /\ due[t] \in Nat
          /\ held'[t] = held[t] + due[t]
      BY <2>1, <2>3, PulledAlike
    <3> QED
      BY <2>1, <3>1
  <2>4. ASSUME NEW out \in [Tokens -> Nat], NEW ts \in SUBSET Tokens,
               PayOut(out), VerifyPool(ts),
               \A x \in Tokens : x \notin ts => out[x] = 0
        PROVE  held'[t] - pooled'[t] >= held[t] - pooled[t]
    <3>1. t \notin ts
      <4> SUFFICES ASSUME t \in ts
                   PROVE  FALSE
        OBVIOUS
      <4>1. held'[t] >= pooled'[t]
        BY <2>4 DEF VerifyPool
      <4>2. held'[t] \in Int /\ pooled'[t] \in Int
        BY <2>1, <2>4, PaidAtLeast
      <4> QED
        BY <4>1, <4>2
    <3>2. /\ pooled'[t] = pooled[t] - out[t] /\ out[t] = 0 /\ held'[t] = held[t]
      BY <2>1, <2>4, <3>1, PaidAtLeast
    <3> QED
      BY <2>1, <3>2
  <2> QED
    BY <2>1, <2>2, <2>3, <2>4 DEF MoneyMove
<1> QED
  BY <1>1, Invariance, PTL DEF Spec, ShortfallNeverOpened

-----------------------------------------------------------------------------
(* A token that never takes from the contract's balance: it may add to it, *)
(* and skim any fee off any transfer.                                      *)
NoTokenTakes == \A change \in Rebases : change >= 0

(* What the contract holds of a token covers what its pool accounts for.   *)
Solvent == \A t \in Tokens : held[t] >= pooled[t]

(* No step opens a shortfall, when no rebase does.                         *)
LEMMA StepSolvent ==
  ASSUME NoTokenTakes, IInv, Solvent, [Next]_vars
  PROVE  Solvent'
<1> SUFFICES ASSUME NEW t \in Tokens
             PROVE  held'[t] >= pooled'[t]
  BY DEF Solvent
<1>1. MoneyMove /\ FundsTyped /\ held[t] \in Nat /\ pooled[t] \in Int /\ held[t] >= pooled[t]
  BY NextMoney, IInvParts DEF FundsTyped, Solvent
<1>2. CASE UNCHANGED funds
  BY <1>1, <1>2 DEF funds
<1>3. ASSUME NEW x \in Tokens, NEW change \in Rebases, Rebase(x, change)
      PROVE  held'[t] >= pooled'[t]
  <2>1. change \in Nat /\ pooled' = pooled
    BY <1>3, ConstantsAssumption DEF NoTokenTakes, Rebase
  <2>2. held' = [held EXCEPT ![x] = @ + change]
    BY <1>3 DEF Rebase
  <2>3. held'[t] = held[t] \/ held'[t] = held[t] + change
    BY <1>1, <2>2 DEF FundsTyped
  <2> QED
    BY <1>1, <2>1, <2>3
<1>4. ASSUME NEW due \in [Tokens -> Nat], PullDeposits(due)
      PROVE  held'[t] >= pooled'[t]
  <2>1. /\ pooled'[t] = pooled[t] + due[t] /\ due[t] \in Nat
        /\ held'[t] = held[t] + due[t]
    BY <1>1, <1>4, PulledAlike
  <2> QED
    BY <1>1, <2>1
<1>5. ASSUME NEW out \in [Tokens -> Nat], NEW ts \in SUBSET Tokens,
             PayOut(out), VerifyPool(ts),
             \A x \in Tokens : x \notin ts => out[x] = 0
      PROVE  held'[t] >= pooled'[t]
  <2>1. t \in ts => held'[t] >= pooled'[t]
    BY <1>5 DEF VerifyPool
  <2>2. t \notin ts => out[t] = 0
    BY <1>5
  <2>3. /\ pooled'[t] = pooled[t] - out[t]
        /\ out[t] = 0 => held'[t] = held[t]
    BY <1>1, <1>5, PaidAtLeast
  <2> QED
    BY <1>1, <2>1, <2>2, <2>3
<1> QED
  BY <1>1, <1>2, <1>3, <1>4, <1>5 DEF MoneyMove

(* Only the token can make the contract insolvent.  Whatever fees a token  *)
(* skims off the transfers, as long as it never takes from the contract's  *)
(* balance on its own, that balance covers, in every reachable state, the  *)
(* sum of what the token's streams are still owed, through every payout,   *)
(* refund and batch.  (A stream that was paid more than it holds counts    *)
(* negatively in that sum; EverybodyCanBePaid says where there is none.)   *)
THEOREM StreamsStayFunded ==
  ASSUME NoTokenTakes
  PROVE  Spec => [](\A t \in Tokens : held[t] >= Claims(t))
<1>1. Init => PInv /\ Solvent
  <2> SUFFICES ASSUME Init
               PROVE  PInv /\ Solvent
    OBVIOUS
  <2>1. \A t \in Tokens : held[t] = 0 /\ pooled[t] = 0
    BY DEF Init
  <2> QED
    BY <2>1, InitIInv, InitPool DEF PInv, Solvent
<1>2. PInv /\ Solvent /\ [Next]_vars => PInv' /\ Solvent'
  <2> SUFFICES ASSUME PInv, Solvent, [Next]_vars
               PROVE  PInv' /\ Solvent'
    OBVIOUS
  <2>1. IInv'
    BY NextIInv DEF PInv
  <2>2. PoolMatchesClaims'
    BY <2>1, NextPool
  <2>3. Solvent'
    BY StepSolvent DEF PInv
  <2> QED
    BY <2>1, <2>2, <2>3 DEF PInv
<1>3. PInv /\ Solvent => \A t \in Tokens : held[t] >= Claims(t)
  BY DEF PInv, PoolMatchesClaims, Solvent
<1> QED
  BY <1>1, <1>2, <1>3, PTL DEF Spec

=============================================================================
