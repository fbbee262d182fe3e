# Fluxora in TLA+

A verification development for the Fluxora payment-stream contracts and the tool that
ties their binaries to a build: TLA+ modules translated from `src/contracts/stream/src`,
`src/contracts/factory/src` and `src/tools/provenance/src`, TLC configurations that
check them on small instances, and theorems about them, for every value of the
constants, with proofs that TLAPS checks.

All line numbers below are lines of the repository under `src/`.

## 1. The system

A sender deposits tokens into a *stream*; the deposit vests to a recipient over a
schedule, and the recipient draws what has vested whenever it likes. All streams of
one token are paid out of the contract's single balance of that token, the *pool*.

| component | state it keeps | operations | what makes it correct |
|---|---|---|---|
| accrual (`accrual.rs`) | none: pure functions of a record and the clock | `stream_time`, `elapsed`, `cliff_reached`, three curves, `vested`, `withdrawable`, `refundable`, `liability` | I1 bounds, I2 monotone in time, I4 conservation, no overflow |
| stream lifecycle (`lib.rs`, `types.rs`) | one record per id, the id counter | create (three direct entry points, a batch, a factory route), `withdraw`, `batch_withdraw`, `top_up`, `cancel`, `batch_cancel`, `reclaim_dust`, `pause`, `resume`, `transfer_recipient` | I3 no call takes back what is earned, I5 pause coherence, the creation-time guarantees (cancellable, pausable, transferable) hold for good, no stream is stuck |
| pool accounting (`pull_deposit`, `verify_pool_balance`, `storage.rs`) | `PooledBalance(token)` | credited by deposits, debited by payouts, compared with the token's own balance after each | equals the sum of all outstanding liabilities; a token that comes up short stops its payouts |
| delegation | `Delegate(id, address)`: operations and an expiry | `grant_delegate`, `revoke_delegate`, six `delegate_` calls | nothing happens to a stream without the right party or an unexpired grant for exactly that |
| emergency halt | the operator, the instant of the halt | `set_halt_operator` (once), `halt`, `resume_contract` | under a halt only cancellations change anything; the halt itself moves nothing |
| factory (`contracts/factory`) | admin, policy, allowlist | `init`, `set_admin`, the setters | the policy always admits some stream; only the current admin changes it |
| rent and archival (`storage.rs`) | the time to live of each ledger entry | extension on every touch, two permissionless extensions | an entry that is owed money is paid for up to its end, or up to the network's maximum |
| events (`events.rs`, `docs/indexer.md`) | none on chain; an indexer's copy of the streams off it | one or more events per call, built from the record as the call leaves it | the events of a call tell all it changed; their amounts add up to the change of every balance; both parties are named; reading a stretch of them twice does no harm |
| provenance tool (`tools/provenance`) | `MANIFEST.json` and `SHASUMS256.txt` in the release directory | `generate`, `verify`, the atomic write of a file | no half-written file; what passes the gate is what was recorded, and was built from the inputs recorded; what is current passes; generating again recovers from anything |
| errors, views | none | | output only |
| resource limits, archival probe, scripts | none of the protocol's | | outside the protocol |

Interactions. The stream contract calls token contracts (external, untrusted in what
they deliver), and during `create_stream_via_factory` it makes two view calls to
whichever factory the *caller* names. The two contracts share no state, and nothing
compares the factory's `stream_contract` with the caller's. Entry points call nothing
back. A Soroban invocation is atomic and cannot be re-entered, and one that returns an
error is rolled back in full.

What is hard here is therefore not threads but *order and history*: invocations of
many parties applied in whatever order the network chooses, several to a ledger
(`docs/same-ledger-ordering.md`); long sequences of pauses, top-ups, transfers and
cancellations that rewrite a schedule; rounding on three curves; a running total that
must follow a sum nobody can compute; entry points that exist twice, direct and
delegated, with bodies that differ; tokens that move less than they were asked to; and
an indexer that must rebuild all of it from events which its source may serve again.
The provenance tool is hard in the ordinary way: it is not atomic. It hashes, reads and
writes by calls of its own, and a build, a checkout or a kill may come between any two.
`PROJECT.json` lists these hazards line by line with the properties aimed at them.

## 2. How the model corresponds to the code

One action is one *successful* invocation: its guard conjoins the checks and early
returns of the whole handler, its primed variables are all its storage writes and
token transfers. A refused invocation is rolled back, so it is a stuttering step. The
one refusal that is an answer rather than an error, `batch_cancel` on a stream that
cannot be cancelled, is reached before anything is written and changes nothing either.

| module | models | state |
|---|---|---|
| `Accrual` | `accrual.rs`, function by function, with integer rounding and saturation | none |
| `StreamRecord` | `types.rs` and the bodies that rewrite a record: `NewStream`, `PaidOut` (`apply_withdrawal`), `Settled` (`settle_cancel`), `Paused`, `Resumed`, `Extended` | none |
| `Sums` | the sum of a list, a recursive function | none |
| `FluxoraStream` | the stream contract: every entry point that changes state, the ledger clock (`Tick`) and the token (`Rebase`, fees) | `streams`, `nextId`, `pooled`, `held`, `grants`, `operator`, `haltedAt`, `now`, `signers` |
| `StreamStorage` | `storage.rs` and the stored types: the frozen record with its side entries (`Saved`, `Read`), `seconds_to_ledgers`, `ttl_target_ledgers` | none |
| `FluxoraRent` | every call of `FluxoraStream` with the entries it extends, the two permissionless extensions, and ledgers of varying length | those of `FluxoraStream`, and `ledger`, `live`, `instanceLive`, `touched` |
| `VestingPromise` | abstract: what a stream promises, with no clock, schedule, pool or delegate | `total`, `earned`, `paid`, `closed` |
| `FluxoraFactory` | the factory contract | `admin`, `policy`, `allowlist`, `authorizer` |
| `FluxoraProtocol` | the two together: a routed creation reads the real factory's policy | both, and `accepted`, the policy each routed stream was admitted under (history) |
| `FluxoraEvents` | `events.rs` and its callers: what each call of `FluxoraStream` publishes, and an indexer that folds it as `test/event_reconstruction.rs` does | those of `FluxoraStream`, and `journal` (events by invocation, not yet read), `mirror` (what the indexer stores) |
| `FluxoraProvenance` | `tools/provenance/src/lib.rs`: `generate` and `verify` call by call, the release directory and the checkout under them | `world` and `wasm` (checkout, toolchain, artifacts), `files`, the running `task` with its `step`, `hashed`, `left` and `recorded`, the last `outcome`, and the history variables `calm` and `changes` |

Data that no property distinguishes is abstracted: addresses and tokens are model
values, `grants` holds a set of operation names for the bit mask `ops`, digests are the
build that made the bytes, error codes are left out, and so is the reference label,
which nothing reads.

`signers` (and the factory's `authorizer`) is a history variable: the addresses the
last invocation passed to `require_auth`. It exists to state authorization as a
property of the outcome and no guard of a contract action reads it.

Events. `FluxoraEvents` conjoins to each call the set of events it publishes, built
like the code's from the record as the call leaves it (and, for the refund of a
cancellation, from the record before). `journal` holds the events of the invocations
since the indexer's checkpoint. The indexer may store what the next of them say without
storing how far it read (`ReadUnsaved`: it stopped in between, and is served them
again), or store both (`ReadSaved`). `MaxJournal` bounds how far it may be behind.

Provenance. One step is one call that reads or writes something outside the tool: one
file hashed, one command run, one `write`, one `rename`. `Upset` is everything else
that can happen between two of them: another checkout or toolchain, a build, foreign
bytes under an artifact's name, an artifact removed, the tool killed. `MaxChanges`
bounds the upsets of a behaviour. `calm` remembers since which point nothing was upset,
so that what the gate means can be stated of undisturbed runs.

`held` is what the token would answer for the contract's balance. A call's transfers
may lose a fee chosen anew for each call (`Fees`), and `Rebase` moves the balance at
any time, both ways. Whether the counterparty can pay is not modelled: a refused
transfer is a refused call.

Rent. `FluxoraRent` conjoins to each call what it extends: `load_stream` extends to the
target of the record it read, `save_stream` to that of the record it wrote (`Load`,
`LoadSave`), batches read without extending, `extend_instance` only where the code
calls it. `live[i]` holds the last live ledger of each entry of stream `i`; an
archived entry is restored for `MinPersistentTtl` ledgers by the call that touches it,
as `docs/KNOWN-LIMITATIONS.md` section 1 records. Token rebases, which extend nothing,
are left to `FluxoraStream`. `Close` is both clocks: one ledger and `CloseTimes`
seconds, each within the margin (`RentAssumption`).

Overflow. `I128Max` and `U64Max` are constants, and the checked products and sums are
guards against them. `AccrualFits` is the one checked product evaluated long after
creation; the model asks it wherever the code evaluates `vested`, and
`AccrualNeverOverflows` says the guard never refuses.

Bounds. `MaxTime` bounds the clock, `MaxStreams` the number of creations, `MaxDrift`
the distance a rebase opens between balance and pool, `MAX_BATCH_SIZE` is the code's
constant (175 there, at most 2 in the instances). Amounts in a top-up come from
`TopUpAmounts`; how often a stream can be topped up is bounded by the code's own
product guard against the small `I128Max`, so nothing else bounds the schedule. Where
a run sets `CHECK_DEADLOCK FALSE` it is because the bounded clock stops: once `now`
is `MaxTime` and every stream has ended, no call is left to make.

## 3. Properties and runs

| run | instance | shows |
|---|---|---|
| `vesting` | one stream out of seven kinds (linear, stepped, front-loaded, wall-clock cliff, unstoppable, two that must be refused), direct or through an open factory; top-ups of 0, 3, 8; its recipient may hold a grant of the sender's rights until 3; clock to 8; 161 thousand states | I1 `WithdrawnVestedDeposited`, I2 and I3 `VestedNeverDecreases`, I5 `PauseCoherence`, `PauseFreezesAccrual`, `SettledStreamsFullyVested`, `LiveStreamsOwe`, `AccrualNeverOverflows`, `TopUpNeverAccelerates`, `UnstoppableStreamsMature`, `GuaranteesHold`, `EitherOrderSettlesAlike`, and the refinement `KeepsPromise` |
| `pool` | two streams over two tokens, batches of two (with repeated ids offered), fees of 1, rebases of 1, halts; 127 thousand states | `PoolMatchesClaims`, `ShortfallNeverOpened`, `ShortfallBlocksPayouts`, `HaltAllowsOnlyCancellation` |
| `events` | one stream, linear with every flag or stepped with none, top-ups of 3; three accounts, one of them a delegate with grants of either side and a mixed one, expiry at 1; an operator; an indexer up to two invocations behind; clock to 2; 572 thousand states | `IndexerCatchesUp`, `EventsTellAll`, `EventsBalance`, `EventsNameBothParties`; `EveryChangeIsAuthorized`, `SenderIsNeverRecipient`; and what is left of I1 and I3 when a delegate may top up any curve, `OnlyDelegatedTopUpsReduce` and the refinement `LinearStreamsKeepPromise` |
| `liveness` | two streams, one pausable, a sender who tops up and cancels, an operator who halts; 72 thousand states | `UnpausableStreamsArePaidOut` |
| `protocol` | the factory in every order of `init`, admin rotation and setters, refused arguments among them; one stream routed or direct, topped up, also by a delegate; 397 thousand states | `FactorySound`, `FactoryAdminOnly`, `RoutedStreamsKeepTheFloor` |
| `rent` | one stream, short or longer than the network's maximum life of 7 ledgers, linear, stepped or with a wall-clock cliff; every call, one delegate, a halt, keepers; ledgers of 2 or 3 seconds, 3 assumed with a margin of 50%; clock to 7; 451 thousand states | `RunningStreamsStayFunded`, `SideEntriesLiveAsLong`, `StoredStreamsReadBack` |
| `provenance` | two artifacts, four checkouts and toolchains (one a branch renamed, one that builds fewer crates), foreign bytes; three upsets; 273 thousand states | `FilesNeverTorn`, `ShasumsAgree`, `GateIsSound`, `GateTiesBytesToBuild`, `GateRefusesNothingCurrent`, `RegeneratingRecovers` |
| `halt_claim`, `top_up_claim`, `rounding_claim`, `allowlist_claim`, `instance_claim` | the first four minimal instances, the last that of `rent` | a sentence of the documentation that the code does not keep, see section 6 |

Why these bounds are enough to be interesting: in `vesting` the clock runs past the
end of every schedule with room for two pauses and a top-up, every curve has a
duration that does not divide its deposit, `I128Max` is small enough for a second
top-up to meet the product guard, and a top-up of 8 is larger than the deposit. In
`pool` two streams of one token are at different points of their schedules, one of
them not cancellable, so a batch may name both, one twice, or be refused. In `events`
a grant expires in the middle of the schedule, the recipient changes under live grants,
a delegate's top-up of the stepped stream does close a tranche again,
and the two invocations the indexer may have half read can undo each other (a pause and
a resume, a grant and its revocation, a halt and its end). In `rent` the constants are
chosen so that ledgers of 2 seconds lie exactly at the edge of the margin
(2 * 150 = 3 * 100), a top-up moves the end across the clamp at the maximum, and three
ledgers pass between two calls. In `provenance` three upsets are enough for a build, a
checkout and one accident, each between any two calls of the tool.

Every property of a passing run has a mutant in `PROJECT.json`: a plausible bug in a
modelled definition (defined beside the original and marked "Mutant:") under which
TLC finds that property violated on the same instance.

### Fairness

The contract has no scheduler, so fairness is asked only of those who have a reason to
act: the network closes ledgers (`WF` on `Tick`), and the recipient who wants its
money keeps asking for all there is (`SF` on `DrawAll`, because a halt takes the call
away and gives it back). Nothing is asked of a sender, an operator, a delegate or a
token. `UnpausableStreamsArePaidOut` assumes besides that the contract is not halted
for good; it excludes pausable streams, because a sender may pause for ever, and that
is the code's documented behaviour. The bounded clock does not weaken it: the product
guard bounds how far top-ups move the end, so every stream that can exist in the
instance matures within it.

`FluxoraProvenance` asks that the tool, once started, goes on to its next call (`WF` on
`ToolStep`), and that whoever prepares a release keeps running both commands (`SF` on
`BeginGenerate` and `BeginVerify`, because each takes the other's turn away). Nothing is
asked of what upsets it, which `MaxChanges` bounds: `RegeneratingRecovers` is about what
happens once the disturbances stop.

### Abstraction

`VestingPromise` says, per stream: what is earned never falls, payments never exceed
it, money is added only while the stream is open, and closing returns exactly what is
not earned. `KeepsPromise` checks that `FluxoraStream` implements it under the mapping
`total = deposited`, `earned = Vested(streams[i], now)`, `paid = withdrawn`,
`closed = Terminal`. That mapping is what makes it more than a restatement: the clock,
pauses, cliffs and the collapse of a cancelled schedule all have to come out as one of
five abstract moves. `LinearStreamsKeepPromise` is the same mapping with the streams of
other curves hidden: it holds whoever tops up what.

Three more implementations relate the project's modules to each other, and are proved
(section 4): with journal and indexer hidden, `FluxoraEvents` implements `FluxoraStream`;
with either of its parts hidden, `FluxoraProtocol` implements the other; and beneath its
rent `FluxoraRent` takes the steps of `FluxoraStream`, or only lets time pass.

## 4. What is proved

All theorems hold for every value of the constants allowed by the assumptions of the
modules. `ConstantsAssumption` and `ArgumentsAssumption` (stream contract),
`FactoryAssumption`, `WorldsAssumption`, `FilesAssumption` and `EventsAssumption` type
the constants and bound nothing: no limit on amounts, times, streams, accounts, batches,
artifacts or checkouts. `StorageAssumption` and `RentAssumption` say that the network's
maximum life is a `u32`, that `u64` is wide enough for a `u32` of ledgers in hundredths
of a second (`100 * SECONDS_PER_LEDGER * 2^32`, which 5 seconds meet by far), and that
ledgers close within the margin. TLC evaluates all of them in the runs.

| module | theorem | statement |
|---|---|---|
| `StreamRecordTheorems` | `VestedBounds` | `0 <= Vested(s, t) <= deposited`, every record, instant, curve and cliff mode |
| | `VestedMonotone` | I2: `t1 <= t2 => Vested(s, t1) <= Vested(s, t2)` |
| | `FrontLoadedTracksTheCurve` | `VestedFrontLoaded` is within one thousandth of the deposit above the parabola, two and a unit below |
| | `FrontLoadedNeverBehind`, `StepNeverAhead` | on the same terms, stepped <= linear at every instant, linear <= front-loaded from the first thousandth on |
| | `ShareIsTheFloor` | the split that avoids a product computes `floor(deposited * part / parts)` |
| | `DrawsAddUp`, `PauseAndResumeCancelOut`, `PausesDelayExactly`, `SplitTopUpsEndNoLater` | two operations in a row: draws add up; a pause delays by its own length exactly; a top-up in two parts ends no later |
| | `SumToChange`, `SumToAppend`, `SumToScatter` | how a sum moves when one entry, an appended list, or entries at distinct places change |
| `FluxoraStreamProofs` | `Invariance` | `Spec => []IInv` |
| | `TypeCorrect`, `LiveStreamsAlwaysOwe`, `PausesStayCoherent`, `SettledStreamsStayVested`, `PartiesStayDistinct` | `TypeOK`, `LiveStreamsOwe`, `PauseCoherence`, `SettledStreamsFullyVested`, `SenderIsNeverRecipient` |
| `FluxoraPoolProofs` | `PoolIsExact` | `Spec => []PoolMatchesClaims` |
| | `ShortTokensPayNothing`, `CallsOpenNoShortfall` | `ShortfallBlocksPayouts`, `ShortfallNeverOpened` |
| | `StreamsStayFunded` | `[](held[t] >= Claims(t))` for every token, *if `NoTokenTakes`* |
| `FluxoraPromiseProofs` | `AccrualStaysInRange` | `AccrualNeverOverflows`: the guard the model puts on `vested` never refuses |
| | `UnstoppableStreamsDoMature`, `TermsAreKept` | `UnstoppableStreamsMature`, `GuaranteesHold` |
| | `PausesFreeze`, `TopUpsNeverAccelerate` | `PauseFreezesAccrual`, `TopUpNeverAccelerates` |
| | `HaltLeavesCancellation`, `ChangesAreAuthorized` | `HaltAllowsOnlyCancellation`, `EveryChangeIsAuthorized` |
| | `GrantsComeFromTheirOwners`, `GrantsNeverMixSides` | a grant changes only under the signature of the party whose operations it carries, and never carries those of both |
| | `SettledStreamsAreDone` | a depleted record never changes; a cancelled one pays what it owes or passes the claim on |
| | `ReductionsAreDelegated`, `LinearEarningsCoverPayouts`, `LinearPromiseIsKept` | `OnlyDelegatedTopUpsReduce`; I1 for linear streams; the refinement `LinearStreamsKeepPromise` |
| | `EarningsCoverPayouts`, `NothingEarnedIsLost`, `OrderDoesNotMatter`, `PromiseIsKept` | `WithdrawnVestedDeposited`, `VestedNeverDecreases`, `EitherOrderSettlesAlike` and the refinement `KeepsPromise`, all four *if `NoCurvedDelegation`* |
| | `EverybodyCanBePaid` | each liability is what its recipient may draw plus what its sender would get back, neither negative, and all of them are held, *if `NoTokenTakes` and `NoCurvedDelegation`* |
| `FluxoraProtocolProofs` | `PolicyAlwaysSatisfiable`, `OnlyAdminsChangePolicy` | `FactorySound`, `FactoryAdminOnly` |
| | `RoutedStreamsStayAboveFloor` | `RoutedStreamsKeepTheFloor` |
| | `RoutedStreamsKeepFaith` | routed streams are linear; I1 and I3 hold of them, whatever is delegated |
| | `ProtocolImplementsFactory`, `ProtocolImplementsStream` | `ProtocolSpec => F!Spec`; `ProtocolSpec => Spec`, where `FactoryAnswers` is every answer |
| `FluxoraEventsProofs` | `EventsTellEverything`, `PartiesAreNamed`, `EventsReconcile` | `EventsTellAll`, `EventsNameBothParties`, `EventsBalance` |
| | `IndexersCatchUp` | `IndexerCatchesUp` |
| | `IndexersCanAuditThePool` | `pooled[t]` is the sum of what is owed by the streams of an indexer that reads on |
| | `WatchedContractIsTheContract`, `WatchedContractKeepsFaith` | `EventsSpec => Spec`, and with it the four properties of the contract that the run `events` checks |
| `FluxoraRentProofs` | `ReadBack` | `Read(Saved(s)) = s` for every stream |
| | `MarginCovers` | `SecondsToLedgers(s) * c >= s` for every whole close time `c` within the margin |
| | `TargetCovers` | a rent target reaches the end and the buffer, or is the network's maximum |
| | `RentInvariance` | `RentSpec => []RentInv` |
| | `RunningStreamsAreFunded`, `SideEntriesFollow`, `StoredStreamsAreWhole` | the three invariants of the run `rent` |
| | `RentedContractIsTheContract`, `RentedPoolIsExact` | `RentSpec => Init /\ [][Next \/ AtRest]_vars`; `RentSpec => []PoolMatchesClaims` |
| `FluxoraProvenanceProofs` | `NoTornFiles`, `ShasumsRepeatTheManifest` | `FilesNeverTorn`, `ShasumsAgree` |
| | `GatePassesOnlyWhatIsRecorded`, `GateTiesBytes`, `GateAcceptsWhatIsCurrent` | `GateIsSound`, `GateTiesBytesToBuild`, `GateRefusesNothingCurrent` |

`NoCurvedDelegation` says that only linear streams are created, or that no grant carries
`TOP_UP`. The four properties are *false* without it, because of the defect in
`delegate_top_up` (section 6). What holds without it is proved too, and says that this is
the only thing that breaks them: the one step of anybody that lowers what a recipient has
earned is a delegate's top-up of a stream that is not linear, made with the sender's
signature and a live grant (`ReductionsAreDelegated`), and linear streams beside it keep
the whole promise (`LinearPromiseIsKept`), those created through the factory among them
(`RoutedStreamsKeepFaith`).

`NoTokenTakes` says that no rebase is negative. A token that takes from the contract's
balance makes it insolvent whatever the contract does; what the contract does about it is
`ShortfallBlocksPayouts`. Fees are no exception: the theorems hold for every fee.
`Claims` adds liabilities with their sign, and the sign can be negative after the same
defect: a stream left with `withdrawn > vested` and then cancelled has been refunded more
than was left of it. That is why `EverybodyCanBePaid` needs both conditions, and
`StreamsStayFunded` only the one.

`ProtocolImplementsStream` asks that `FactoryAnswers` be everything a contract could
answer, which is what the code allows: the caller names the factory.

The argument.

1. *Arithmetic.* Each curve is bounded and monotone. The front-loaded one is the hard
   case: its rounding subtracts a floor, and monotonicity needs
   `(u+w)^2 <= u^2 + 2000w` on the grid of thousandths. The same square bounds how far
   it strays from the parabola; the comparisons with the linear curve are between floors
   of the same deposit, the stepped one by counting quarters.
2. *Records.* `Sound(s, t)` (`StreamRecordTheorems`) is what a record must satisfy at
   an instant: typed, sender and recipient distinct, something owed while live and
   nothing once depleted, pause bookkeeping coherent, and *matured if settled*. Every
   operation of `StreamRecord` keeps a record sound, and the passing of time does.
3. *The step.* `Evolves` says what a whole invocation may do to the map of records:
   rewrite each by one operation of `StreamRecord` under that operation's own guard,
   or issue the next ids to validated records; and time passes only while no record
   changes. One lemma per entry point shows that it evolves the records so and keeps
   the other variables typed. `IInv == TypeOK /\ RecordsSound` follows.
   The strengthening is necessary: `SettledStreamsFullyVested` alone is not inductive,
   because that a cancelled stream stays fully vested when time passes needs the stream
   clock to have reached its collapsed end, which needs the pause to be closed.
4. *The pool.* `ClaimsOf(records, n, t)` is the sum of liabilities as a function of a
   record map. A single rewrite moves it by the change of one liability
   (`SumToChange`), a creation appends (`SumToAppend`), a batch changes entries at
   *distinct* places (`SumToScatter`), which is exactly where `reject_duplicate_ids`
   is used. `reclaim_dust`, which pays without debiting the pool, is harmless because
   a settled stream has no dust: a consequence of `IInv`. Every call that moves tokens is
   one `MoneyMove`: what it pays in or out of the pool is what the balance moves by, less
   a fee, and it is refused if the balance then falls short. Both shortfall theorems are
   read off it, and `Solvent` is inductive by it when no token takes.
5. *The rent.* Whatever call is made, each stream is left alone with its entries or has
   all of them extended to a target no smaller than that of the record the call leaves
   (`Kept`; one lemma per group of calls, on top of the step lemmas of 3). Such a
   target covers what is left of the stream: short of the `u32` ceiling the conversion
   has saturated nowhere, and then the margin, rounded down, is made up by the quotient,
   rounded up (`TargetCovers`). A ledger of `d` seconds takes one ledger from what the
   entry has and `d` seconds from what it must cover; being covered at `d` seconds a
   ledger and at `c`, it is still covered at `c` (`OneLedgerLess`). The invariant has to
   speak of every close time at once because the next ledger may be of any.
   `RunningStreamsStayFunded` needs besides that a running stream has no pause open
   (from `IInv`), or its end would move with the clock, and that no call changes which
   side entries a stream has. The contract beneath keeps its pool by the lemmas of 4: a
   step of `RentNext` is a step of `Next` or leaves all but the clock alone (`RentSteps`).
6. *The terms.* `TermsInv == IInv /\ Steadfast /\ Priced` for each stream. `Steadfast`:
   a stream that cannot be paused never was, one that cannot be cancelled keeps its cliff
   within its schedule. `Priced`: the product `deposited * duration` that creation and
   top-ups checked stays within `I128Max`, and bounds the one evaluated years later, or
   the schedule has run out. The guarantees, the
   freezing of pauses, the halt and the authorizations follow step by step, by cases on
   the entry points (`ToppedUpStep` for the bounded acceleration of a top-up). What can
   happen to a settled stream is read off the operations of `Evolves`: only two of them
   apply to one (`SettledMoves`). `GrantsStep` says that a step replaces one grant, on an
   existing stream and with its owner's consent, or none.
7. *What is earned.* `EarnedInv == IInv /\ GrantsGiven /\ CurvesAsked /\ Earned`. The
   heart is one fact about a linear top-up (`RateKept`, `ExtendedVests`): the extension is
   rounded down, so the rate does not fall, and then what is vested is at no instant
   lower than before, roundings included. `GrantsGiven` and `CurvesAsked` carry `NoCurvedDelegation`
   from the constants to the stream a delegate tops up; the direct `top_up` compares
   before and after. The refinement maps each step to a step of
   `VestingPromise` or a stutter from the same lemma. `FairStep` is what the condition
   buys, one stream and one step at a time: a top-up is of a linear stream or not a
   delegate's. The unconditional theorems take the same lemmas from `FairStep` where the
   curve gives it, and find in its negation the only step that reduces.
8. *The protocol.* A step of `ProtocolSpec` is one of the stream contract or of the
   factory, so the invariants of both carry over (`FactoryInv`, `IInv`). `FloorInv` adds
   that a routed stream respects the policy it was accepted under; a top-up
   keeps the rate at or above the floor because its extension is rounded down
   (`RateAboveFloor`, `FloorKept`), and the duration never falls. For the implementation of
   the stream contract, what the real factory answers has to be an answer some contract
   could give: its rates are naturals (`RatesOrdered`) because its setters refuse others.
9. *The tool.* `ProvInv == Typed /\ Placed /\ Written /\ Fresh /\ Kept`: where the tool is
   in its calls; what the files hold by then; that what a run undisturbed so far has in
   memory is still what is there; and what an undisturbed run leaves. `Fresh` is the
   strengthening without which nothing is inductive: the digests in memory are compared
   long after they were computed.
10. *The events.* `Tells(events)`: the fold of these events is what the call did, every
   party is named, and each event's amount is the change of its stream's liability. One
   lemma per operation of `StreamRecord`, then one per call, batches and creations from
   the same two (`RewritesTell`, `CreateStreamsTell`). The balance of a pool then follows
   from `PoolMatchesClaims` before and after, by a difference of sums. Reading twice is
   harder, because while an indexer reads again it holds a mixture that no contract
   ever held: some figures from the past it is re-reading, the others from where it
   had been. `Between` says just that, field by field, and one more invocation keeps it,
   because an event overwrites and never adds; back where it had been, past and future
   are the same, so the mixture is that too (`ReadingAgain`). The invariant is
   `Following`: `IndexerCatchesUp`, with the shape of what is held and of what is left
   to read.

What stays with TLC: the two liveness properties, `UnpausableStreamsArePaidOut` and
`RegeneratingRecovers` (fairness and `ENABLED` are beyond the prover); and the
findings, which are counterexamples.

## 5. What is not modelled

The life of a grant's entry: `save_delegate` extends it once, to the stream's target of
that moment (its comment, "Give the grant at least as long to live as the stream
itself", is true then and not after later calls extend the stream), and a read restores
it. Close times that are not whole seconds: a mean inside the margin but off the second
may leave the rent short by less than a second (13 s at 5 s and 20% are 3 ledgers, 12.5
s at 4.1667 s), which the buffer of 30 days absorbs. Views: each is an operator
of `Accrual` applied to the state, and changes nothing; `stream_exists` and the counters
are left out. `ttl_extended`, the event of a rent extension, says nothing of a stream.
Error codes: which error a refused call returns is wording here, since a refused call
changes nothing. Resource limits: measured budgets; `MAX_BATCH_SIZE` is a constant. The
archival probe, scripts and workflows: no state of the protocol. The cost of a call, and
whether a batch of 175 fits a ledger, are not questions for this model.

Of the provenance tool: its command line, the lookup of the workspace root and of the
paths, the text of the manifest (whole or not, with fields that compare equal or not),
and the date it prints and nothing reads. Two instances of the tool at once: they share
the names of their temporary files, and only the script's habit of running one keeps them
apart. Three things the model shows to be outside what the gate promises, and which are
therefore hypotheses of the properties: a checkout between the build and `generate` makes
a manifest that passes and names the wrong revision (`GateTiesBytesToBuild` asks for
`"build"` in `calm`); an artifact of a crate no longer in the workspace stays in the
directory and is listed under the current revision (it speaks of `world.crates` only); a
kill between the two renames leaves an old `SHASUMS256.txt` beside a new manifest, which
`verify` does not read (`ShasumsAgree` asks for `outcome = "generated"`).

## 6. Where documentation and code disagree

Each is a run that TLC finds violated, listed under `findings` with its line.

- `top_up_claim` (a bug in the code). I3 of `accrual.rs` forbids any entry point to
  reduce `vested(t)`. `delegate_top_up` lengthens the schedule at the linear rate for
  every curve and, unlike `top_up`, does not compare. On a stepped stream an open
  tranche closes again. If the recipient has drawn it, `withdrawn > vested`. A
  cancellation in that state contradicts an assertion of `settle_cancel`
  (`lib.rs:1551-1554`, "cancel: vested below what was already withdrawn", compiled out of
  the release build): it refunds `deposited - vested`, more than the pool still holds for
  the stream, and what is missing is other streams'. `ReductionsAreDelegated` shows that
  nothing else can bring a stream into that state.
- `halt_claim`. `halt` is documented to refuse every state-changing entry point;
  `batch_cancel` and `reclaim_dust` have no halt guard. What does hold under a halt is
  `HaltAllowsOnlyCancellation`.
- `rounding_claim`. `vested` is documented to round down. The front-loaded curve
  rounds the parabola up, and can show the whole deposit before the end. It stays
  within `0..deposited` and monotone (`VestedBounds`, `VestedMonotone`), and within a
  thousandth of the deposit above the parabola (`FrontLoadedTracksTheCurve`).
- `allowlist_claim`. The factory's allowlist is documented as one of recipients; the
  stream contract looks up the token.
- `instance_claim`. `storage.rs` promises that every mutating call pins the instance to
  the maximum and that no stream outlives its id counter. `pause`, `resume`,
  `transfer_recipient`, `grant_delegate`, `revoke_delegate`, `reclaim_dust` and their
  delegated twins extend the stream alone, so a stream that needs the maximum and is
  paused later outlives the instance. The next call restores it with its value, so no
  id is reused; what fails is the promised order.

Seen while modelling, and not worth a run: a comment in `create_stream_inner`
(`lib.rs:762-766`) says the id is consumed when the deposit cannot be pulled, but the
rollback restores the counter; `top_up` applies none of the factory's upper limits, so
a routed stream may outgrow `max_deposit` and `max_rate` (only the floor is kept,
`RoutedStreamsKeepTheFloor`).

## 7. Plan

Written in this order: `Accrual`, `StreamRecord`, `FluxoraStream` with its runs,
`VestingPromise` as its abstraction, `FluxoraFactory`, `FluxoraProtocol`, the proofs
from the arithmetic upwards, `StreamStorage` and `FluxoraRent` with theirs, then
`FluxoraEvents` and `FluxoraProvenance`, and the proofs about terms, earnings, the
refinement, the protocol, the tool and the events.

Left, in order of weight:

1. The entry of a grant in the rent model.
2. Two instances of the provenance tool, once the code names their files apart.
