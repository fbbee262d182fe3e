---------------------------- MODULE FluxoraFactory ----------------------------
(***************************************************************************)
(* The factory contract (contracts/factory/src/lib.rs): a policy that its  *)
(* admin sets and that the stream contract reads when a caller routes a    *)
(* creation through it.  Every action is one successful invocation; a      *)
(* refused one is rolled back and is a stuttering step.                    *)
(***************************************************************************)
EXTENDS Integers

CONSTANTS
  Admins,                   \* accounts that may come to hold the admin key
  Addresses,                \* what may be put on the allowlist
  Contracts,                \* addresses of stream contracts
  Caps, MinDurations,       \* arguments of init and the setters, the
  Rates,                    \*   refused values among them; -1 for no rate
  MIN_DEPOSIT_CAP,
  MAX_MIN_DURATION_SECONDS

VARIABLES
  admin,        \* DataKey::Admin: {} before init
  policy,       \* load_policy: the fields in instance storage
  allowlist,    \* DataKey::Allowlist
  authorizer    \* the account the last invocation required to authorize

factoryVars == <<admin, policy, allowlist, authorizer>>

Unset == -1      \* an absent Option<i128>

Policy ==
  [stream_contract: Contracts, max_deposit: Int, min_duration: Nat,
   batch_cap_enforced: BOOLEAN, creation_paused: BOOLEAN,
   min_rate: Int, max_rate: Int]

Initialized == admin # {}

Init ==
  /\ admin = {}
  /\ policy \in [stream_contract: Contracts, max_deposit: {0}, min_duration: {0},
                 batch_cap_enforced: {TRUE}, creation_paused: {FALSE},
                 min_rate: {Unset}, max_rate: {Unset}]
  /\ allowlist = {}
  /\ authorizer = {}

-----------------------------------------------------------------------------
ValidCap(cap) == cap >= MIN_DEPOSIT_CAP
ValidMinDuration(seconds) == seconds <= MAX_MIN_DURATION_SECONDS

(* init: once; the first admin signs.                                      *)
InitFactory(a, contract, cap, seconds) ==
  /\ ~ Initialized
  /\ ValidCap(cap) /\ ValidMinDuration(seconds)
  /\ admin' = {a}
  /\ policy' = [policy EXCEPT !.stream_contract = contract, !.max_deposit = cap,
                              !.min_duration = seconds]
  /\ authorizer' = {a}
  /\ UNCHANGED allowlist

(* Mutant: a setter accepts whoever calls it.                              *)
RequireAnyone == Initialized /\ authorizer' \in {{a} : a \in Admins}

(* require_admin: the account that holds the key at the call.              *)
RequireAdmin == Initialized /\ authorizer' = admin

SetAdmin(new_admin) ==
  /\ RequireAdmin
  /\ admin' = {new_admin}
  /\ UNCHANGED <<policy, allowlist>>

SetPolicy(new) ==
  /\ RequireAdmin
  /\ policy' = new
  /\ UNCHANGED <<admin, allowlist>>

SetStreamContract(c) == SetPolicy([policy EXCEPT !.stream_contract = c])
SetCap(cap) == ValidCap(cap) /\ SetPolicy([policy EXCEPT !.max_deposit = cap])
SetMinDuration(seconds) ==
  ValidMinDuration(seconds) /\ SetPolicy([policy EXCEPT !.min_duration = seconds])
SetBatchCapEnforcement(on) == SetPolicy([policy EXCEPT !.batch_cap_enforced = on])
SetFactoryPaused(on) == SetPolicy([policy EXCEPT !.creation_paused = on])

Merged(given, stored) == IF given = Unset THEN stored ELSE given

(* Mutant: the bounds given are compared with each other only.             *)
RateBoundsGivenOnly(min_rate, max_rate) ==
  min_rate # Unset /\ max_rate # Unset => min_rate <= max_rate

(* A bound not given keeps its value, and the interval that results must   *)
(* not be empty.                                                           *)
RateBoundsAccepted(min_rate, max_rate) ==
  LET low  == Merged(min_rate, policy.min_rate)
      high == Merged(max_rate, policy.max_rate)
  IN  low # Unset /\ high # Unset => low <= high

SetRateBounds(min_rate, max_rate) ==
  /\ min_rate = Unset \/ min_rate >= 0
  /\ max_rate = Unset \/ max_rate >= 0
  /\ RateBoundsAccepted(min_rate, max_rate)
  /\ SetPolicy([policy EXCEPT !.min_rate = Merged(min_rate, @),
                              !.max_rate = Merged(max_rate, @)])

SetAllowlist(address, allowed) ==
  /\ RequireAdmin
  /\ allowlist' = IF allowed THEN allowlist \cup {address} ELSE allowlist \ {address}
  /\ UNCHANGED <<admin, policy>>

Next ==
  \/ \E a \in Admins, c \in Contracts, cap \in Caps, d \in MinDurations :
       InitFactory(a, c, cap, d)
  \/ \E a \in Admins : SetAdmin(a)
  \/ \E c \in Contracts : SetStreamContract(c)
  \/ \E cap \in Caps : SetCap(cap)
  \/ \E d \in MinDurations : SetMinDuration(d)
  \/ \E on \in BOOLEAN : SetBatchCapEnforcement(on) \/ SetFactoryPaused(on)
  \/ \E low, high \in Rates : SetRateBounds(low, high)
  \/ \E x \in Addresses, allowed \in BOOLEAN : SetAllowlist(x, allowed)

Spec == Init /\ [][Next]_factoryVars

-----------------------------------------------------------------------------
(* Whatever order the setters are called in, an initialized factory holds  *)
(* a policy some stream satisfies: a positive cap, a reachable minimum     *)
(* duration and a rate interval that is not empty, though the bounds are   *)
(* set one at a time; and there is exactly one admin.                      *)
PolicyStaysSatisfiable ==
  /\ policy \in Policy /\ allowlist \subseteq Addresses
  /\ admin \in {{}} \cup {{a} : a \in Admins}
  /\ Initialized =>
       /\ policy.max_deposit >= MIN_DEPOSIT_CAP
       /\ policy.min_duration <= MAX_MIN_DURATION_SECONDS
       /\ Unset \notin {policy.min_rate, policy.max_rate} =>
            policy.min_rate <= policy.max_rate

(* docs/same-ledger-ordering.md, pair 1: a rotation and a setter in one    *)
(* ledger are decided by whoever holds the key at that moment; nothing     *)
(* changes, the key included, without that account's signature, and a      *)
(* factory once initialized always has an admin.                           *)
OnlyTheAdminChanges ==
  [][Initialized =>
       /\ admin' # {}
       /\ <<admin, policy, allowlist>>' # <<admin, policy, allowlist>>
            => authorizer' = admin]_factoryVars

=============================================================================
