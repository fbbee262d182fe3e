---------------------------- MODULE FluxoraProtocol ----------------------------
(***************************************************************************)
(* The stream contract and one factory together.  A creation routed        *)
(* through the factory reads its policy by two view calls in the same      *)
(* invocation, so one step reads the policy and creates the stream;        *)
(* everything else interleaves freely.                                     *)
(***************************************************************************)
EXTENDS FluxoraStream

CONSTANTS Contracts, Caps, MinDurations, Rates, MAX_MIN_DURATION_SECONDS

ASSUME FactoryAssumption ==
  /\ Caps \subseteq Int /\ MinDurations \subseteq Nat /\ Rates \subseteq Int
  /\ MAX_MIN_DURATION_SECONDS \in Nat

VARIABLES
  admin, policy, allowlist, authorizer,
  accepted     \* history: the lower limits each routed stream was created under

F == INSTANCE FluxoraFactory WITH
       Admins <- Accounts, Addresses <- Accounts \cup Tokens, MIN_DEPOSIT_CAP <- 1

factoryVars == <<admin, policy, allowlist, authorizer>>
protocolVars == <<vars, factoryVars, accepted>>

ProtocolInit == Init /\ F!Init /\ accepted = [i \in {} |-> {}]

(* get_factory_config and is_allowlisted, answered by the real factory.    *)
Answer ==
  [creation_paused |-> policy.creation_paused, max_deposit |-> policy.max_deposit,
   min_duration |-> policy.min_duration, min_rate |-> policy.min_rate,
   max_rate |-> policy.max_rate, allowlist |-> allowlist \cap Tokens]

RoutedCreate(req) ==
  /\ F!Initialized
  /\ CreateStreamViaFactory(req, Answer)
  /\ accepted' = [i \in DOMAIN accepted \cup {nextId} |->
                    IF i # nextId THEN accepted[i]
                    ELSE [min_duration |-> policy.min_duration,
                          min_rate |-> policy.min_rate]]
  /\ UNCHANGED factoryVars

StreamStep == Next /\ UNCHANGED <<factoryVars, accepted>>
FactoryStep == F!Next /\ UNCHANGED <<vars, accepted>>

ProtocolNext ==
  \/ \E req \in CreateRequests : RoutedCreate(req)
  \/ StreamStep
  \/ FactoryStep

ProtocolSpec == ProtocolInit /\ [][ProtocolNext]_protocolVars

-----------------------------------------------------------------------------
Rate(s) == s.deposited \div Duration(s)

(* As long as it is not cancelled, a stream routed through the factory     *)
(* stays within the lower limits of the policy it was created under: no    *)
(* later top-up, pause or policy change makes it shorter, or slower, than  *)
(* the factory asked for.  (Its deposit and its rate may grow past the     *)
(* upper limits: top_up does not ask the factory.)                         *)
RoutedStreamsKeepTheFloor ==
  \A i \in DOMAIN accepted :
    streams[i].status # "Cancelled" =>
      /\ Duration(streams[i]) >= accepted[i].min_duration
      /\ accepted[i].min_rate # None => Rate(streams[i]) >= accepted[i].min_rate

(* The factory keeps its own rules whatever is created through it.         *)
FactorySound == F!PolicyStaysSatisfiable
FactoryAdminOnly == F!OnlyTheAdminChanges

(* Factory DataKey: "One entry per allowlisted recipient"; is_allowlisted: *)
(* "Whether recipient is currently allowlisted".                           *)
RoutedRecipientsAllowlisted ==
  [][\A i \in DOMAIN accepted' \ DOMAIN accepted :
       streams'[i].recipient \in allowlist]_protocolVars

=============================================================================
