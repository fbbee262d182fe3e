------------------------- MODULE FluxoraProtocolProofs -------------------------
(***************************************************************************)
(* The factory and the stream contract together, for every value of the    *)
(* constants and every order of calls to either.                           *)
(*                                                                         *)
(* The factory's rules depend on its own calls alone (FactoryInv).  That a *)
(* routed stream keeps the floor of the policy it was created under rests  *)
(* on the top-up: an extension rounded down never lowers a rate            *)
(* (FloorKept).  It needs IInv, which holds of the composition because a   *)
(* routed creation is a creation like any other; and as the factory route  *)
(* admits linear streams alone, what they earned is never taken back       *)
(* (RoutedStreamsKeepFaith).                                               *)
(***************************************************************************)
EXTENDS FluxoraProtocol, FluxoraPromiseProofs

-----------------------------------------------------------------------------
(* The factory.                                                            *)

(* Before init no rate bound is set: the setters need an admin.            *)
FactoryInv ==
  /\ FactorySound
  /\ ~ F!Initialized => policy.min_rate = F!Unset /\ policy.max_rate = F!Unset

(* A setter that changes the policy keeps the factory's rules.             *)
LEMMA SetPolicyKeeps ==
  ASSUME FactoryInv, NEW new, F!SetPolicy(new), new \in F!Policy,
         new.max_deposit >= 1, new.min_duration <= MAX_MIN_DURATION_SECONDS,
         F!Unset \notin {new.min_rate, new.max_rate} => new.min_rate <= new.max_rate
  PROVE  FactoryInv'
<1>1. F!Initialized /\ policy' = new /\ admin' = admin /\ allowlist' = allowlist
  BY DEF F!SetPolicy, F!RequireAdmin
<1> QED
  BY <1>1 DEF FactoryInv, FactorySound, F!PolicyStaysSatisfiable, F!Initialized

(* An initialized factory has a policy in order.                           *)
LEMMA PolicyInOrder ==
  ASSUME FactoryInv, F!Initialized
  PROVE  /\ policy \in F!Policy /\ policy.max_deposit >= 1
         /\ policy.min_duration <= MAX_MIN_DURATION_SECONDS
         /\ F!Unset \notin {policy.min_rate, policy.max_rate}
              => policy.min_rate <= policy.max_rate
BY DEF FactoryInv, FactorySound, F!PolicyStaysSatisfiable

(* No call of the factory breaks its rules.                                *)
LEMMA FactoryNext ==
  ASSUME FactoryInv, F!Next
  PROVE  FactoryInv'
<1>1. ASSUME NEW a \in Accounts, NEW c \in Contracts, NEW cap \in Caps,
             NEW d \in MinDurations, F!InitFactory(a, c, cap, d)
      PROVE  FactoryInv'
  <2>1. /\ policy \in F!Policy /\ allowlist \subseteq Accounts \cup Tokens
        /\ policy.min_rate = F!Unset /\ policy.max_rate = F!Unset
    BY <1>1 DEF FactoryInv, FactorySound, F!PolicyStaysSatisfiable, F!InitFactory
  <2>2. cap \in Int /\ cap >= 1 /\ d \in Nat /\ d <= MAX_MIN_DURATION_SECONDS
    BY <1>1, FactoryAssumption DEF F!InitFactory, F!ValidCap, F!ValidMinDuration
  <2>3. /\ admin' = {a} /\ allowlist' = allowlist
        /\ policy' = [policy EXCEPT !.stream_contract = c, !.max_deposit = cap,
                                    !.min_duration = d]
    BY <1>1 DEF F!InitFactory
  <2>4. /\ policy' \in F!Policy /\ policy'.max_deposit = cap
        /\ policy'.min_duration = d
        /\ policy'.min_rate = F!Unset /\ policy'.max_rate = F!Unset
    BY <2>1, <2>2, <2>3 DEF F!Policy
  <2> QED
    BY <2>1, <2>2, <2>3, <2>4
    DEF FactoryInv, FactorySound, F!PolicyStaysSatisfiable, F!Initialized
<1>2. ASSUME NEW a \in Accounts, F!SetAdmin(a)
      PROVE  FactoryInv'
  <2>1. /\ admin' = {a} /\ policy' = policy /\ allowlist' = allowlist
        /\ F!Initialized
    BY <1>2 DEF F!SetAdmin, F!RequireAdmin
  <2> QED
    BY <2>1 DEF FactoryInv, FactorySound, F!PolicyStaysSatisfiable, F!Initialized
<1>3. ASSUME NEW c \in Contracts, F!SetStreamContract(c)
      PROVE  FactoryInv'
  <2> DEFINE new == [policy EXCEPT !.stream_contract = c]
  <2>1. F!SetPolicy(new) /\ F!Initialized
    BY <1>3 DEF F!SetStreamContract, F!SetPolicy, F!RequireAdmin
  <2>2. /\ new \in F!Policy /\ new.max_deposit = policy.max_deposit
        /\ new.min_duration = policy.min_duration
        /\ new.min_rate = policy.min_rate /\ new.max_rate = policy.max_rate
    BY <2>1, PolicyInOrder DEF F!Policy
  <2> QED
    BY <2>1, <2>2, PolicyInOrder, SetPolicyKeeps
<1>4. ASSUME NEW cap \in Caps, F!SetCap(cap)
      PROVE  FactoryInv'
  <2> DEFINE new == [policy EXCEPT !.max_deposit = cap]
  <2>1. F!SetPolicy(new) /\ F!Initialized /\ cap \in Int /\ cap >= 1
    BY <1>4, FactoryAssumption DEF F!SetCap, F!ValidCap, F!SetPolicy, F!RequireAdmin
  <2>2. /\ new \in F!Policy /\ new.max_deposit = cap
        /\ new.min_duration = policy.min_duration
        /\ new.min_rate = policy.min_rate /\ new.max_rate = policy.max_rate
    BY <2>1, PolicyInOrder DEF F!Policy
  <2> QED
    BY <2>1, <2>2, PolicyInOrder, SetPolicyKeeps
<1>5. ASSUME NEW d \in MinDurations, F!SetMinDuration(d)
      PROVE  FactoryInv'
  <2> DEFINE new == [policy EXCEPT !.min_duration = d]
  <2>1. F!SetPolicy(new) /\ F!Initialized /\ d \in Nat /\ d <= MAX_MIN_DURATION_SECONDS
    BY <1>5, FactoryAssumption
    DEF F!SetMinDuration, F!ValidMinDuration, F!SetPolicy, F!RequireAdmin
  <2>2. /\ new \in F!Policy /\ new.max_deposit = policy.max_deposit
        /\ new.min_duration = d
        /\ new.min_rate = policy.min_rate /\ new.max_rate = policy.max_rate
    BY <2>1, PolicyInOrder DEF F!Policy
  <2> QED
    BY <2>1, <2>2, PolicyInOrder, SetPolicyKeeps
<1>6. ASSUME NEW on \in BOOLEAN, F!SetBatchCapEnforcement(on) \/ F!SetFactoryPaused(on)
      PROVE  FactoryInv'
  <2>1. PICK new \in {[policy EXCEPT !.batch_cap_enforced = on],
                      [policy EXCEPT !.creation_paused = on]} : F!SetPolicy(new)
    BY <1>6 DEF F!SetBatchCapEnforcement, F!SetFactoryPaused
  <2>2. F!Initialized
    BY <2>1 DEF F!SetPolicy, F!RequireAdmin
  <2>3. /\ new \in F!Policy /\ new.max_deposit = policy.max_deposit
        /\ new.min_duration = policy.min_duration
        /\ new.min_rate = policy.min_rate /\ new.max_rate = policy.max_rate
    BY <2>1, <2>2, PolicyInOrder DEF F!Policy
  <2> QED
    BY <2>1, <2>2, <2>3, PolicyInOrder, SetPolicyKeeps
<1>7. ASSUME NEW low \in Rates, NEW high \in Rates, F!SetRateBounds(low, high)
      PROVE  FactoryInv'
  <2> DEFINE newLow == F!Merged(low, policy.min_rate)
             newHigh == F!Merged(high, policy.max_rate)
             new == [policy EXCEPT !.min_rate = newLow, !.max_rate = newHigh]
  <2>1. /\ F!Initialized
        /\ F!Unset \notin {newLow, newHigh} => newLow <= newHigh
    BY <1>7 DEF F!SetRateBounds, F!RateBoundsAccepted, F!SetPolicy, F!RequireAdmin
  <2>2. newLow \in Int /\ newHigh \in Int
    BY <2>1, PolicyInOrder, FactoryAssumption DEF F!Merged, F!Policy
  <2>3. F!SetPolicy(new)
    BY <1>7 DEF F!SetRateBounds
  <2> HIDE DEF newLow, newHigh
  <2>4. /\ new \in F!Policy /\ new.max_deposit = policy.max_deposit
        /\ new.min_duration = policy.min_duration
        /\ new.min_rate = newLow /\ new.max_rate = newHigh
    BY <2>1, <2>2, PolicyInOrder DEF F!Policy
  <2> QED
    BY <2>1, <2>3, <2>4, PolicyInOrder, SetPolicyKeeps
<1>8. ASSUME NEW x \in Accounts \cup Tokens, NEW allowed \in BOOLEAN,
             F!SetAllowlist(x, allowed)
      PROVE  FactoryInv'
  <2>1. /\ admin' = admin /\ policy' = policy
        /\ allowlist' \subseteq allowlist \cup {x}
    BY <1>8 DEF F!SetAllowlist, F!RequireAdmin
  <2> QED
    BY <2>1 DEF FactoryInv, FactorySound, F!PolicyStaysSatisfiable, F!Initialized
<1> QED
  BY <1>1, <1>2, <1>3, <1>4, <1>5, <1>6, <1>7, <1>8 DEF F!Next

(* The steps of the composition that leave the factory alone.              *)
LEMMA FactoryKept ==
  ASSUME FactoryInv, UNCHANGED <<admin, policy, allowlist>>
  PROVE  FactoryInv'
BY DEF FactoryInv, FactorySound, F!PolicyStaysSatisfiable, F!Initialized

(* A factory that has not been initialized satisfies them.                 *)
LEMMA FactoryStarts == F!Init => FactoryInv
<1> SUFFICES ASSUME F!Init
             PROVE  FactoryInv
  OBVIOUS
<1>1. admin = {} /\ allowlist = {}
  BY DEF F!Init
<1>2. PICK c \in Contracts :
        policy = [stream_contract |-> c, max_deposit |-> 0, min_duration |-> 0,
                  batch_cap_enforced |-> TRUE, creation_paused |-> FALSE,
                  min_rate |-> F!Unset, max_rate |-> F!Unset]
  BY DEF F!Init
<1>3. F!Unset \in Int
  BY DEF F!Unset
<1>4. policy \in F!Policy /\ policy.min_rate = F!Unset /\ policy.max_rate = F!Unset
  BY <1>2, <1>3 DEF F!Policy
<1> QED
  BY <1>1, <1>4
  DEF FactoryInv, FactorySound, F!PolicyStaysSatisfiable, F!Initialized

(* In every step of the composition the factory takes one of its own, or   *)
(* none.                                                                   *)
LEMMA FactorySteps ==
  ASSUME [ProtocolNext]_protocolVars
  PROVE  F!Next \/ UNCHANGED factoryVars
BY DEF ProtocolNext, RoutedCreate, StreamStep, FactoryStep, protocolVars

(* Whatever order the factory's setters are called in, and whatever is     *)
(* created through it meanwhile, its policy admits some stream: positive   *)
(* cap, reachable minimum duration, a rate interval that is not empty; and *)
(* it has at most one admin.                                               *)
THEOREM PolicyAlwaysSatisfiable == ProtocolSpec => []FactorySound
<1>1. ProtocolInit => FactoryInv
  BY FactoryStarts DEF ProtocolInit
<1>2. FactoryInv /\ [ProtocolNext]_protocolVars => FactoryInv'
  BY FactorySteps, FactoryNext, FactoryKept DEF factoryVars
<1>3. FactoryInv => FactorySound
  BY DEF FactoryInv
<1> QED
  BY <1>1, <1>2, <1>3, PTL DEF ProtocolSpec

(* Once initialized, the factory changes in nothing without the signature  *)
(* of whoever holds the key at that moment, and always has an admin.       *)
THEOREM OnlyAdminsChangePolicy == ProtocolSpec => FactoryAdminOnly
<1> DEFINE Rule ==
      F!Initialized =>
        /\ admin' # {}
        /\ <<admin, policy, allowlist>>' # <<admin, policy, allowlist>>
             => authorizer' = admin
<1>1. [ProtocolNext]_protocolVars => [Rule]_(F!factoryVars)
  <2>1. F!Next => Rule
    BY DEF F!Next, F!InitFactory, F!SetAdmin, F!SetStreamContract, F!SetCap,
           F!SetMinDuration, F!SetBatchCapEnforcement, F!SetFactoryPaused,
           F!SetRateBounds, F!SetAllowlist, F!SetPolicy, F!RequireAdmin, F!Initialized
  <2> QED
    BY <2>1, FactorySteps DEF factoryVars, F!factoryVars
<1> QED
  BY <1>1, PTL DEF ProtocolSpec, FactoryAdminOnly, F!OnlyTheAdminChanges

(* Nothing that is routed through it changes the factory: with the stream  *)
(* contract hidden, the protocol is the factory alone.                     *)
THEOREM ProtocolImplementsFactory == ProtocolSpec => F!Spec
<1>1. ProtocolInit => F!Init
  BY DEF ProtocolInit
<1>2. [ProtocolNext]_protocolVars => [F!Next]_(F!factoryVars)
  BY FactorySteps DEF factoryVars, F!factoryVars
<1> QED
  BY <1>1, <1>2, PTL DEF ProtocolSpec, F!Spec

(* The limits a policy sets on rates are never negative.                   *)
RatesOrdered == {policy.min_rate, policy.max_rate} \subseteq Nat \cup {F!Unset}

(* Only one setter writes them.                                            *)
LEMMA RatesKept ==
  ASSUME FactoryInv, RatesOrdered, F!Next
  PROVE  RatesOrdered'
<1>1. policy \in F!Policy
  BY DEF FactoryInv, FactorySound, F!PolicyStaysSatisfiable
<1>2. ASSUME policy'.min_rate = policy.min_rate, policy'.max_rate = policy.max_rate
      PROVE  RatesOrdered'
  BY <1>2 DEF RatesOrdered
<1>3. ASSUME NEW a \in Accounts, NEW c \in Contracts, NEW cap \in Caps,
             NEW d \in MinDurations, F!InitFactory(a, c, cap, d)
      PROVE  RatesOrdered'
  BY <1>1, <1>2, <1>3 DEF F!InitFactory, F!Policy
<1>4. ASSUME NEW low \in Rates, NEW high \in Rates, F!SetRateBounds(low, high)
      PROVE  RatesOrdered'
  <2> DEFINE newLow == F!Merged(low, policy.min_rate)
             newHigh == F!Merged(high, policy.max_rate)
  <2>1. {newLow, newHigh} \subseteq Nat \cup {F!Unset}
    BY <1>4, FactoryAssumption DEF F!SetRateBounds, F!Merged, RatesOrdered
  <2>2. policy' = [policy EXCEPT !.min_rate = newLow, !.max_rate = newHigh]
    BY <1>4 DEF F!SetRateBounds, F!SetPolicy
  <2> HIDE DEF newLow, newHigh
  <2>3. policy'.min_rate = newLow /\ policy'.max_rate = newHigh
    BY <1>1, <2>2 DEF F!Policy
  <2> QED
    BY <2>1, <2>3 DEF RatesOrdered
<1>5. ASSUME NEW c, NEW cap, NEW d, NEW on,
             \/ F!SetStreamContract(c) \/ F!SetCap(cap) \/ F!SetMinDuration(d)
             \/ F!SetBatchCapEnforcement(on) \/ F!SetFactoryPaused(on)
      PROVE  RatesOrdered'
  BY <1>1, <1>2, <1>5
  DEF F!SetStreamContract, F!SetCap, F!SetMinDuration, F!SetBatchCapEnforcement,
      F!SetFactoryPaused, F!SetPolicy, F!Policy
<1>6. ASSUME NEW a, NEW x, NEW allowed, F!SetAdmin(a) \/ F!SetAllowlist(x, allowed)
      PROVE  RatesOrdered'
  BY <1>2, <1>6 DEF F!SetAdmin, F!SetAllowlist
<1> QED
  BY <1>3, <1>4, <1>5, <1>6 DEF F!Next

(* The factory is one of the contracts that a caller may name as factory.  *)
LEMMA RealFactoryAnswers ==
  ASSUME FactoryInv, RatesOrdered
  PROVE  Answer \in FactoryAnswer
<1>1. policy \in F!Policy
  BY DEF FactoryInv, FactorySound, F!PolicyStaysSatisfiable
<1>2. /\ policy.creation_paused \in BOOLEAN /\ policy.max_deposit \in Int
      /\ policy.min_duration \in Nat
  BY <1>1 DEF F!Policy
<1>3. policy.min_rate \in Nat \cup {None} /\ policy.max_rate \in Nat \cup {None}
  BY DEF RatesOrdered, F!Unset, None
<1> QED
  BY <1>2, <1>3 DEF Answer, FactoryAnswer

(* The stream contract lets a caller name any contract as factory.  Where  *)
(* that is what FactoryAnswers says, the protocol is the stream contract   *)
(* alone once the factory is hidden: the real factory can bring about      *)
(* nothing that some other could not, and what is proved of the contract   *)
(* for every factory is true of it behind this one.                        *)
THEOREM ProtocolImplementsStream ==
  ASSUME FactoryAnswers = FactoryAnswer
  PROVE  ProtocolSpec => Spec
<1> DEFINE Inv == FactoryInv /\ RatesOrdered
<1>1. ProtocolInit => Inv /\ Init
  <2>1. F!Init => RatesOrdered
    BY DEF F!Init, F!Policy, RatesOrdered
  <2> QED
    BY <2>1, FactoryStarts DEF ProtocolInit
<1>2. Inv /\ [ProtocolNext]_protocolVars => Inv'
  <2>1. UNCHANGED factoryVars /\ Inv => Inv'
    BY FactoryKept DEF factoryVars, RatesOrdered
  <2> QED
    BY <2>1, FactorySteps, FactoryNext, RatesKept
<1>3. Inv /\ [ProtocolNext]_protocolVars => [Next]_vars
  <2>1. ASSUME Inv, NEW req \in CreateRequests, RoutedCreate(req)
        PROVE  Next
    <3>1. Answer \in FactoryAnswers
      BY <2>1, RealFactoryAnswers
    <3>2. CreateStreamViaFactory(req, Answer)
      BY <2>1 DEF RoutedCreate
    <3> QED
      BY <3>1, <3>2 DEF Next
  <2>2. StreamStep => Next
    BY DEF StreamStep
  <2>3. FactoryStep \/ UNCHANGED protocolVars => UNCHANGED vars
    BY DEF FactoryStep, protocolVars
  <2> QED
    BY <2>1, <2>2, <2>3 DEF ProtocolNext
<1> HIDE DEF Inv
<1> QED
  BY <1>1, <1>2, <1>3, PTL DEF ProtocolSpec, Spec

-----------------------------------------------------------------------------
(* The floor of a routed stream.                                           *)

(* The rate is asked of the deposit, where it loses nothing to rounding.   *)
AboveFloor(s, floor) ==
  s.status # "Cancelled" =>
    /\ Duration(s) > 0 /\ Duration(s) >= floor.min_duration
    /\ floor.min_rate # None => floor.min_rate * Duration(s) <= s.deposited

Floors ==
  \A i \in DOMAIN accepted :
    /\ i \in Ids
    /\ accepted[i].min_duration \in Nat /\ accepted[i].min_rate \in Int
    /\ AboveFloor(streams[i], accepted[i])

FloorInv == IInv /\ FactoryInv /\ Floors

(* An extension at no more than the rate keeps the deposit above the rate  *)
(* m for the longer schedule.                                              *)
LEMMA RateAboveFloor ==
  ASSUME NEW m \in Int, NEW d \in Nat, d > 0, NEW D \in Nat, NEW a \in Nat,
         NEW delta \in Nat, m * d <= D, D * delta <= a * d
  PROVE  m * (d + delta) <= D + a
<1>1. (m * d) * delta <= D * delta
  <2> DEFINE x == m * d
  <2>1. x \in Int /\ x <= D
    OBVIOUS
  <2> HIDE DEF x
  <2>2. x * delta <= D * delta
    BY <2>1
  <2> QED
    BY <2>2 DEF x
<1>2. (m * delta) * d = (m * d) * delta
  OBVIOUS
<1>3. m * delta <= a
  <2> DEFINE x == m * delta
             y == D * delta
  <2>1. x \in Int /\ y \in Int /\ x * d <= y /\ y <= a * d
    BY <1>1, <1>2
  <2> HIDE DEF x, y
  <2>2. x * d <= a * d
    <3> DEFINE v == x * d
               w == a * d
    <3>1. v \in Int /\ w \in Int /\ v <= y /\ y <= w
      BY <2>1
    <3> HIDE DEF v, w
    <3>2. v <= w
      BY <2>1, <3>1
    <3> QED
      BY <3>2 DEF v, w
  <2>3. x <= a
    BY <2>1, <2>2
  <2> QED
    BY <2>3 DEF x
<1>4. m * (d + delta) = m * d + m * delta
  OBVIOUS
<1> DEFINE x == m * d
           y == m * delta
<1>5. x \in Int /\ y \in Int /\ x <= D /\ y <= a
  BY <1>3
<1> HIDE DEF x, y
<1>6. x + y <= D + a
  BY <1>5
<1> QED
  BY <1>4, <1>6 DEF x, y

(* No operation but a cancellation takes a stream below its floor.         *)
LEMMA FloorKept ==
  ASSUME now \in Nat, NEW s, Sound(s, now), NEW u, RecordStep(s, u),
         NEW floor, floor.min_duration \in Nat, floor.min_rate \in Int,
         AboveFloor(s, floor)
  PROVE  AboveFloor(u, floor)
<1>1. /\ s \in Stream /\ s.start_time \in Nat /\ s.end_time \in Nat
      /\ s.deposited \in Nat
  BY StreamFields DEF Sound
<1>2. ASSUME u.start_time = s.start_time, u.end_time = s.end_time,
             u.deposited = s.deposited,
             u.status # "Cancelled" => s.status # "Cancelled"
      PROVE  AboveFloor(u, floor)
  BY <1>2 DEF AboveFloor, Duration, SatSub
<1>3. CASE u = s
  BY <1>3
<1>4. CASE \E payout \in 1 .. Withdrawable(s, now) : u = PaidOut(s, payout, now)
  <2>1. PICK payout \in 1 .. Withdrawable(s, now) : u = PaidOut(s, payout, now)
    BY <1>4
  <2>2. payout \in Nat
    BY <1>1, WithdrawableBounds
  <2>3. /\ u.start_time = s.start_time /\ u.end_time = s.end_time
        /\ u.deposited = s.deposited
        /\ u.status = s.status \/ (u.status = "Depleted" /\ s.status # "Cancelled")
    BY <1>1, <2>1, <2>2, PaidOutFields DEF SameSchedule
  <2> QED
    BY <1>2, <2>3
<1>5. CASE MayCancel(s) /\ u = Settled(s, now)
  <2>1. u.status = "Cancelled"
    BY <1>1, <1>5 DEF Settled, Stream
  <2> QED
    BY <2>1 DEF AboveFloor
<1>6. CASE Terminal(s) /\ u = [s EXCEPT !.deposited = @ - Dust(s)]
  <2>1. Dust(s) = 0
    BY <1>6, SettledHasNoDust DEF Dust
  <2>2. u = s
    BY <1>1, <1>6, <2>1, NothingTaken
  <2> QED
    BY <2>2
<1>7. CASE ToppedUpStep(s, u)
  <2>1. PICK amount \in Nat, delta \in Nat :
          delta \in {0, RateDelta(s, amount)} /\ u = Extended(s, amount, delta)
    BY <1>7 DEF ToppedUpStep
  <2>2. ~ Terminal(s) /\ s.deposited > 0
    BY <1>1, <1>7 DEF ToppedUpStep, Sound, OwesWhileLive, Stream
  <2>3. /\ u.deposited = s.deposited + amount
        /\ u.start_time = s.start_time /\ u.end_time = s.end_time + delta
        /\ s.status # "Cancelled"
    BY <1>1, <2>1, <2>2 DEF Extended, Stream, Terminal
  <2> DEFINE d == Duration(s)
             D == s.deposited
  <2>4. /\ d \in Nat /\ d > 0 /\ d >= floor.min_duration
        /\ floor.min_rate # None => floor.min_rate * d <= D
    BY <1>1, <2>3 DEF AboveFloor, Duration, SatSub
  <2>5. Duration(u) = d + delta
    BY <1>1, <2>3, <2>4 DEF Duration, SatSub
  <2>6. D * delta <= amount * d
    <3>1. CASE delta = 0
      <4>1. D * 0 = 0 /\ amount * d \in Nat
        BY <1>1, <2>4
      <4> QED
        BY <3>1, <4>1
    <3>2. CASE delta = RateDelta(s, amount)
      <4>1. amount * d \in Int /\ D \in Int /\ D > 0
        BY <1>1, <2>2, <2>4
      <4>2. D * ((amount * d) \div D) <= amount * d
        BY <4>1, DivBounds
      <4> QED
        BY <3>2, <4>2 DEF RateDelta
    <3> QED
      BY <2>1, <3>1, <3>2
  <2> HIDE DEF d, D
  <2>7. floor.min_rate # None => floor.min_rate * (d + delta) <= D + amount
    BY <1>1, <2>4, <2>6, RateAboveFloor DEF D
  <2>8. d + delta > 0 /\ d + delta >= floor.min_duration
    BY <2>4
  <2> QED
    BY <2>3, <2>5, <2>7, <2>8 DEF AboveFloor, D
<1>8. CASE (MayPause(s) /\ u = Paused(s, now)) \/ (MayResume(s) /\ u = Resumed(s, now))
  <2>1. /\ u.start_time = s.start_time /\ u.end_time = s.end_time
        /\ u.deposited = s.deposited /\ s.status # "Cancelled"
    BY <1>1, <1>8 DEF Paused, Resumed, Stream, MayPause, MayResume
  <2> QED
    BY <1>2, <2>1
<1>9. CASE \E to \in Accounts : MayTransfer(s, to) /\ u = [s EXCEPT !.recipient = to]
  <2>1. /\ u.start_time = s.start_time /\ u.end_time = s.end_time
        /\ u.deposited = s.deposited /\ u.status = s.status
    BY <1>1, <1>9 DEF Stream
  <2> QED
    BY <1>2, <2>1
<1> QED
  BY <1>3, <1>4, <1>5, <1>6, <1>7, <1>8, <1>9 DEF RecordStep

(* A routed creation is a legal step of the stream contract.               *)
LEMMA ProtocolStepOK ==
  ASSUME IInv, [ProtocolNext]_protocolVars
  PROVE  StepOK
<1>1. ASSUME NEW req \in CreateRequests, RoutedCreate(req)
      PROVE  StepOK
  <2>1. CreateStreams(<<req>>)
    BY <1>1 DEF RoutedCreate, CreateStreamViaFactory
  <2> QED
    BY <2>1, OneRequest, CreateStreamsOK
<1>2. CASE StreamStep
  BY <1>2, NextOK DEF StreamStep
<1>3. CASE FactoryStep \/ UNCHANGED protocolVars
  <2>1. UNCHANGED vars
    BY <1>3 DEF FactoryStep, protocolVars
  <2> QED
    BY <2>1, NextOK
<1> QED
  BY <1>1, <1>2, <1>3 DEF ProtocolNext

(* The streams already routed keep their floors, whatever is called.       *)
LEMMA OldFloorsKept ==
  ASSUME FloorInv, StepOK, NEW i \in DOMAIN accepted
  PROVE  i \in Ids' /\ AboveFloor(streams'[i], accepted[i])
<1>1. /\ i \in Ids /\ accepted[i].min_duration \in Nat /\ accepted[i].min_rate \in Int
      /\ AboveFloor(streams[i], accepted[i]) /\ IInv
  BY DEF FloorInv, Floors
<1>2. /\ now \in Nat /\ Sound(streams[i], now) /\ RecordStep(streams[i], streams'[i])
      /\ nextId \in Nat /\ nextId' \in Nat /\ nextId <= nextId'
  BY <1>1, IInvParts DEF StepOK, Evolves
<1>3. AboveFloor(streams'[i], accepted[i])
  BY <1>1, <1>2, FloorKept
<1>4. i \in Ids'
  BY <1>1, <1>2 DEF Ids
<1> QED
  BY <1>3, <1>4

(* A routed creation stores the record of its one request, a linear one.   *)
LEMMA RoutedRecord ==
  ASSUME nextId \in Nat, NEW req, RoutedCreate(req)
  PROVE  /\ ValidTerms(req) /\ nextId' = nextId + 1
         /\ streams'[nextId] = NewStream(req) /\ req.curve = "Linear"
<1>1. CreateStreams(<<req>>) /\ req.curve = "Linear"
  BY DEF RoutedCreate, CreateStreamViaFactory
<1>2. ValidTerms(<<req>>[1]) /\ Enrol(<<req>>)
  BY <1>1 DEF CreateStreams
<1>3. /\ nextId' = nextId + 1
      /\ streams' = [i \in 0 .. nextId + 1 - 1 |->
                       IF i < nextId THEN streams[i]
                       ELSE NewStream(<<req>>[i - nextId + 1])]
  BY <1>2 DEF Enrol
<1>4. nextId \in 0 .. nextId + 1 - 1 /\ ~ (nextId < nextId) /\ nextId - nextId + 1 = 1
  OBVIOUS
<1>5. streams'[nextId] = NewStream(<<req>>[nextId - nextId + 1])
  BY <1>3, <1>4
<1> QED
  BY <1>1, <1>2, <1>3, <1>4, <1>5

(* A routed creation starts at or above the floor it records.              *)
LEMMA RoutedAboveFloor ==
  ASSUME FloorInv, NEW req \in CreateRequests, RoutedCreate(req)
  PROVE  /\ nextId \in Ids'
         /\ accepted'[nextId].min_duration \in Nat
         /\ accepted'[nextId].min_rate \in Int
         /\ AboveFloor(streams'[nextId], accepted'[nextId])
<1>1. /\ F!Initialized /\ WithinPolicy(req, Answer) /\ CreateStreams(<<req>>)
      /\ accepted'[nextId] = [min_duration |-> policy.min_duration,
                              min_rate |-> policy.min_rate]
      /\ req \in CreateRequest /\ nextId \in Nat
  BY IInvParts, ConstantsAssumption DEF RoutedCreate, CreateStreamViaFactory, FloorInv
<1>2. /\ policy.min_duration \in Nat /\ policy.min_rate \in Int
  BY <1>1, PolicyInOrder DEF FloorInv, F!Policy
<1>3. /\ ValidTerms(req) /\ nextId' = nextId + 1
      /\ streams'[nextId] = NewStream(req)
  BY <1>1, RoutedRecord
<1>4. /\ req.start_time \in Nat /\ req.end_time \in Nat /\ req.deposit \in Int
      /\ req.end_time > req.start_time /\ req.deposit > 0
  BY <1>1, <1>3 DEF CreateRequest, ValidTerms
<1> DEFINE d == req.end_time - req.start_time
           rate == req.deposit \div d
<1>5. /\ d \in Nat /\ d > 0 /\ d >= policy.min_duration
      /\ policy.min_rate # None => rate >= policy.min_rate
  BY <1>1, <1>4 DEF WithinPolicy, Answer
<1>6. rate \in Int /\ d * rate <= req.deposit
  BY <1>4, <1>5, DivBounds
<1>7. Duration(streams'[nextId]) = d /\ streams'[nextId].deposited = req.deposit
  BY <1>3, <1>4 DEF NewStream, Duration, SatSub
<1>8. policy.min_rate # None => policy.min_rate * d <= req.deposit
  <2> SUFFICES ASSUME policy.min_rate # None
               PROVE  policy.min_rate * d <= req.deposit
    OBVIOUS
  <2> DEFINE m == policy.min_rate
  <2>1. m \in Int /\ m <= rate
    BY <1>2, <1>5, <1>6
  <2> HIDE DEF m, d, rate
  <2>2. m * d <= rate * d
    BY <1>5, <1>6, <2>1
  <2>3. rate * d = d * rate
    BY <1>5, <1>6
  <2>4. m * d \in Int /\ rate * d \in Int
    BY <1>5, <1>6, <2>1
  <2> QED
    BY <1>4, <1>6, <2>2, <2>3, <2>4 DEF m
<1>9. AboveFloor(streams'[nextId], accepted'[nextId])
  <2> HIDE DEF d, rate
  <2> QED
    BY <1>1, <1>5, <1>7, <1>8 DEF AboveFloor
<1>10. nextId \in Ids'
  BY <1>1, <1>3 DEF Ids
<1> QED
  BY <1>1, <1>2, <1>9, <1>10

(* Every step of the composition keeps the invariant.                      *)
LEMMA FloorNext == FloorInv /\ [ProtocolNext]_protocolVars => FloorInv'
<1> SUFFICES ASSUME FloorInv, [ProtocolNext]_protocolVars
             PROVE  FloorInv'
  OBVIOUS
<1>1. StepOK
  BY ProtocolStepOK DEF FloorInv
<1>2. IInv'
  BY <1>1, StepIInv DEF FloorInv
<1>3. FactoryInv'
  BY FactorySteps, FactoryNext, FactoryKept DEF factoryVars, FloorInv
<1>4. Floors'
  <2>1. CASE accepted' = accepted
    BY <1>1, <2>1, OldFloorsKept DEF Floors, FloorInv
  <2>2. ASSUME NEW req \in CreateRequests, RoutedCreate(req)
        PROVE  Floors'
    <3>1. /\ DOMAIN accepted' = DOMAIN accepted \cup {nextId}
          /\ \A i \in DOMAIN accepted : i # nextId => accepted'[i] = accepted[i]
      BY <2>2 DEF RoutedCreate
    <3>2. ASSUME NEW i \in DOMAIN accepted'
          PROVE  /\ i \in Ids'
                 /\ accepted'[i].min_duration \in Nat /\ accepted'[i].min_rate \in Int
                 /\ AboveFloor(streams'[i], accepted'[i])
      <4>1. CASE i = nextId
        BY <2>2, <4>1, RoutedAboveFloor
      <4>2. CASE i # nextId
        <5>1. i \in DOMAIN accepted /\ accepted'[i] = accepted[i]
          BY <3>1, <4>2
        <5>2. accepted[i].min_duration \in Nat /\ accepted[i].min_rate \in Int
          BY <5>1 DEF FloorInv, Floors
        <5> QED
          BY <1>1, <5>1, <5>2, OldFloorsKept
      <4> QED
        BY <4>1, <4>2
    <3> QED
      BY <3>2 DEF Floors
  <2> QED
    BY <2>1, <2>2 DEF ProtocolNext, StreamStep, FactoryStep, protocolVars
<1> QED
  BY <1>2, <1>3, <1>4 DEF FloorInv

(* Before the first call nothing is routed.                                *)
LEMMA InitFloors == ProtocolInit => FloorInv
<1> SUFFICES ASSUME ProtocolInit
             PROVE  FloorInv
  OBVIOUS
<1>1. IInv /\ FactoryInv
  BY InitIInv, FactoryStarts DEF ProtocolInit
<1>2. Floors
  BY DEF ProtocolInit, Floors
<1> QED
  BY <1>1, <1>2 DEF FloorInv

(* As long as it is not cancelled, a stream routed through the factory is  *)
(* no shorter and no slower than the policy it was created under asked     *)
(* for, however the policy changes and however often it is topped up.      *)
THEOREM RoutedStreamsStayAboveFloor == ProtocolSpec => []RoutedStreamsKeepTheFloor
<1>1. ProtocolInit => FloorInv
  BY InitFloors
<1>2. FloorInv => RoutedStreamsKeepTheFloor
  <2> SUFFICES ASSUME FloorInv, NEW i \in DOMAIN accepted,
                      streams[i].status # "Cancelled"
               PROVE  /\ Duration(streams[i]) >= accepted[i].min_duration
                      /\ accepted[i].min_rate # None
                           => Rate(streams[i]) >= accepted[i].min_rate
    BY DEF RoutedStreamsKeepTheFloor
  <2> DEFINE d == Duration(streams[i])
             D == streams[i].deposited
             m == accepted[i].min_rate
  <2>1. /\ i \in Ids /\ m \in Int /\ d > 0 /\ d >= accepted[i].min_duration
        /\ m # None => m * d <= D
    BY DEF FloorInv, Floors, AboveFloor
  <2>2. d \in Nat /\ D \in Nat
    <3>1. streams[i] \in Stream
      BY <2>1, StreamParties DEF FloorInv
    <3> QED
      BY <3>1, StreamFields DEF Duration, SatSub
  <2>3. Rate(streams[i]) = D \div d
    BY DEF Rate
  <2> HIDE DEF d, D, m
  <2>4. m # None => D \div d >= m
    BY <2>1, <2>2
  <2> QED
    BY <2>1, <2>3, <2>4 DEF d, m
<1> QED
  BY <1>1, <1>2, FloorNext, PTL DEF ProtocolSpec

-----------------------------------------------------------------------------
(* What the factory protects.                                              *)

(* A routed stream is linear, and no more is paid of it than was earned.   *)
RoutedCovered ==
  \A i \in DOMAIN accepted :
    /\ i \in Ids /\ streams[i].curve = "Linear"
    /\ 0 <= streams[i].withdrawn
    /\ streams[i].withdrawn <= Vested(streams[i], now)
    /\ Vested(streams[i], now) <= streams[i].deposited

LEMMA RoutedCoveredKept ==
  ASSUME FloorInv, RoutedCovered, [ProtocolNext]_protocolVars
  PROVE  RoutedCovered'
<1>1. StepOK /\ Evolves /\ IInv /\ nextId \in Nat
  BY ProtocolStepOK, IInvParts DEF FloorInv, StepOK
<1>2. IInv'
  BY FloorNext DEF FloorInv
<1>3. ASSUME NEW i \in DOMAIN accepted
      PROVE  /\ i \in Ids' /\ streams'[i].curve = "Linear"
             /\ streams'[i].withdrawn <= Vested(streams'[i], now')
  <2>1. i \in Ids /\ streams[i].curve = "Linear"
        /\ streams[i].withdrawn <= Vested(streams[i], now)
    BY DEF RoutedCovered
  <2>2. i \in Ids' /\ FairStep(streams[i], streams'[i])
    BY <1>1, <2>1, IdsStay DEF FairStep
  <2>3. streams'[i].curve = "Linear"
    BY <1>1, <2>1, StreamParties, RecordTerms DEF Evolves
  <2> QED
    BY <1>1, <1>2, <2>1, <2>2, <2>3, PayoutsStayEarned
<1>4. ASSUME NEW req \in CreateRequests, RoutedCreate(req)
      PROVE  /\ nextId \in Ids' /\ streams'[nextId].curve = "Linear"
             /\ streams'[nextId].withdrawn <= Vested(streams'[nextId], now')
  <2>1. /\ nextId' = nextId + 1
        /\ streams'[nextId] = NewStream(req) /\ req.curve = "Linear"
    BY <1>1, <1>4, RoutedRecord
  <2>2. nextId \in Ids'
    BY <1>1, <2>1 DEF Ids
  <2>3. streams'[nextId].curve = "Linear" /\ streams'[nextId].withdrawn = 0
    BY <2>1 DEF NewStream
  <2>4. Vested(streams'[nextId], now') \in Nat
    BY <1>1, <1>2, <2>2, EvolvedVests DEF Evolves
  <2> QED
    BY <2>2, <2>3, <2>4
<1>5. ASSUME NEW i \in DOMAIN accepted'
      PROVE  /\ i \in Ids' /\ streams'[i].curve = "Linear"
             /\ streams'[i].withdrawn <= Vested(streams'[i], now')
  <2>1. CASE accepted' = accepted
    BY <1>3, <2>1
  <2>2. ASSUME NEW req \in CreateRequests, RoutedCreate(req)
        PROVE  i \in DOMAIN accepted \/ i = nextId
    BY <2>2 DEF RoutedCreate
  <2> QED
    BY <1>3, <1>4, <2>1, <2>2 DEF ProtocolNext, StreamStep, FactoryStep, protocolVars
<1>6. ASSUME NEW i \in Ids'
      PROVE  /\ streams'[i].withdrawn \in Nat
             /\ Vested(streams'[i], now') <= streams'[i].deposited
  BY <1>1, <1>2, EvolvedVests, StreamFields DEF Evolves
<1> QED
  BY <1>5, <1>6 DEF RoutedCovered

(* Streams created through the factory are out of reach of what a delegate *)
(* can do to other curves, whatever is granted: they are linear for good,  *)
(* nobody draws more of one than it has earned, and no step of anybody, to *)
(* either contract, lowers what it has earned.                             *)
THEOREM RoutedStreamsKeepFaith ==
  ProtocolSpec =>
    /\ []RoutedCovered
    /\ [][\A i \in DOMAIN accepted :
            Vested(streams'[i], now') >= Vested(streams[i], now)]_protocolVars
<1>1. ProtocolInit => FloorInv /\ RoutedCovered
  BY InitFloors DEF ProtocolInit, RoutedCovered
<1>2. FloorInv /\ RoutedCovered /\ [ProtocolNext]_protocolVars => FloorInv' /\ RoutedCovered'
  BY FloorNext, RoutedCoveredKept
<1>3. FloorInv /\ RoutedCovered /\ [ProtocolNext]_protocolVars =>
        \A i \in DOMAIN accepted : Vested(streams'[i], now') >= Vested(streams[i], now)
  <2> SUFFICES ASSUME FloorInv, RoutedCovered, [ProtocolNext]_protocolVars,
                      NEW i \in DOMAIN accepted
               PROVE  Vested(streams'[i], now') >= Vested(streams[i], now)
    OBVIOUS
  <2>1. IInv /\ Evolves
    BY ProtocolStepOK DEF FloorInv, StepOK
  <2>2. i \in Ids /\ FairStep(streams[i], streams'[i])
    BY DEF RoutedCovered, FairStep
  <2> QED
    BY <2>1, <2>2, StreamEarns
<1> QED
  BY <1>1, <1>2, <1>3, PTL DEF ProtocolSpec

=============================================================================
