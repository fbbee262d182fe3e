--------------------------- MODULE FluxoraRentProofs ---------------------------
(***************************************************************************)
(* The rent of a running stream is never short, for every value of the     *)
(* constants: any number of streams, calls in any order, and ledgers that  *)
(* close after any number of seconds within the margin.                    *)
(*                                                                         *)
(* First the stored layout: what it keeps of a stream, and how much time a *)
(* rent target buys (TargetCovers).  Then the argument: whatever call is   *)
(* made, each stream is either left alone, with its entries, or has all    *)
(* its entries extended to the target of the record the call leaves        *)
(* (Kept); a target covers what is left of the stream; and what an entry   *)
(* has to cover shrinks with every ledger by what that ledger took.        *)
(*                                                                         *)
(* Last, the contract beneath the rent is the one of FluxoraStream, on     *)
(* ledgers of any length, and its pool stays exact.                        *)
(***************************************************************************)
EXTENDS FluxoraRent, FluxoraPoolProofs

-----------------------------------------------------------------------------
(* The stored layout.                                                      *)

(* The frozen record and its side entries keep the whole stream: what      *)
(* read_stream stitches together is what save_stream was given, whatever   *)
(* the curve and the cliff mode.                                           *)
THEOREM ReadBack ==
  ASSUME NEW s \in Stream
  PROVE  Read(Saved(s)) = s
<1>1. s.curve \in {"Linear", "Step", "FrontLoaded"} /\ s.cliff_mode \in {"Schedule", "WallClock"}
  BY DEF Stream, Curves, CliffModes
<1> DEFINE r == FromStream(s)
           whole(curve, mode) ==
             [sender |-> s.sender, recipient |-> s.recipient, token |-> s.token,
              deposited |-> s.deposited, withdrawn |-> s.withdrawn,
              start_time |-> s.start_time, end_time |-> s.end_time,
              cliff_time |-> s.cliff_time, cliff_mode |-> mode,
              cancellable |-> s.cancellable, pausable |-> s.pausable,
              transferable |-> s.transferable,
              paused_at |-> s.paused_at, paused_total |-> s.paused_total,
              status |-> s.status, curve |-> curve]
<1>2. IntoStream(r, s.curve) = whole(s.curve, "Schedule")
  BY DEF IntoStream, FromStream
<1>3. s = whole(s.curve, s.cliff_mode)
  BY DEF Stream
<1>4. (IF Saved(s).curve = Absent THEN "Linear" ELSE Saved(s).curve) = s.curve
  BY <1>1 DEF Saved, Absent
<1>5. Saved(s).record = r
  BY DEF Saved
<1>6. CASE s.cliff_mode = "Schedule"
  BY <1>2, <1>3, <1>4, <1>5, <1>6 DEF Read, Saved
<1>7. CASE s.cliff_mode = "WallClock"
  <2>1. Saved(s).metadata = "WallClock"
    BY <1>7 DEF Saved
  <2>2. Read(Saved(s)) = [whole(s.curve, "Schedule") EXCEPT !.cliff_mode = "WallClock"]
    BY <1>2, <1>4, <1>5, <2>1 DEF Read, Absent
  <2> QED BY <1>3, <1>7, <2>2
<1> QED BY <1>1, <1>6, <1>7

-----------------------------------------------------------------------------
(* A conversion short of the u32 ceiling has saturated nowhere: it is the  *)
(* ceiling of the inflated duration.                                       *)
LEMMA ConversionCeiling ==
  ASSUME StorageAssumption, NEW seconds \in Nat
  PROVE  /\ SecondsToLedgers(seconds) \in 0 .. U32Max
         /\ SecondsToLedgers(seconds) < U32Max =>
              seconds * (100 + TTL_SAFETY_MARGIN_PERCENT)
                < 100 * (SECONDS_PER_LEDGER * SecondsToLedgers(seconds)) + 100
<1> DEFINE product  == seconds * (100 + TTL_SAFETY_MARGIN_PERCENT)
           bounded  == Least(product, U64Max)
           inflated == bounded \div 100
           padded   == Least(inflated + SECONDS_PER_LEDGER - 1, U64Max)
           ledgers  == padded \div SECONDS_PER_LEDGER
           n        == SecondsToLedgers(seconds)
<1>1. /\ SECONDS_PER_LEDGER \in Nat /\ SECONDS_PER_LEDGER > 0
      /\ TTL_SAFETY_MARGIN_PERCENT \in Nat /\ U32Max \in Nat /\ U64Max \in Nat
      /\ 100 * (SECONDS_PER_LEDGER * (U32Max + 1)) <= U64Max
  BY DEF StorageAssumption
<1>2. product \in Nat
  BY <1>1
<1>3. bounded \in Nat /\ bounded <= U64Max /\ (bounded < U64Max => bounded = product)
  BY <1>1, <1>2 DEF Least
<1>4. inflated \in Nat /\ bounded < 100 * inflated + 100
  <2> HIDE DEF bounded
  <2> QED BY <1>3, DivBounds, DivOfNat
<1>5. padded \in Nat /\ (padded < U64Max => padded = inflated + SECONDS_PER_LEDGER - 1)
  <2> HIDE DEF inflated
  <2> QED BY <1>1, <1>4 DEF Least
<1>6. ledgers \in Nat /\ padded < SECONDS_PER_LEDGER * ledgers + SECONDS_PER_LEDGER
  <2> HIDE DEF padded
  <2> QED BY <1>1, <1>5, DivBounds, DivOfNat
<1>7. n = Least(ledgers, U32Max)
  BY DEF SecondsToLedgers
<1> HIDE DEF product, bounded, inflated, padded, ledgers, n
<1>8. n \in 0 .. U32Max /\ (n < U32Max => n = ledgers)
  BY <1>1, <1>6, <1>7 DEF Least
<1>9. ASSUME n < U32Max
      PROVE  product < 100 * (SECONDS_PER_LEDGER * n) + 100
  <2> DEFINE span  == SECONDS_PER_LEDGER * n
             whole == SECONDS_PER_LEDGER * (U32Max + 1)
  <2>1. span \in Nat /\ whole \in Nat /\ span + SECONDS_PER_LEDGER <= whole
        /\ 100 * whole <= U64Max
    <3>1. n + 1 \in Nat /\ U32Max + 1 \in Nat /\ n + 1 <= U32Max + 1
      BY <1>1, <1>8, <1>9
    <3>2. SECONDS_PER_LEDGER * (n + 1) <= whole
      BY <1>1, <3>1, TimesMonotone
    <3>3. SECONDS_PER_LEDGER * (n + 1) = span + SECONDS_PER_LEDGER
      BY <1>1, <1>8
    <3>4. span \in Nat /\ whole \in Nat
      BY <1>1, <1>8
    <3> QED BY <1>1, <3>2, <3>3, <3>4
  <2>2. padded < span + SECONDS_PER_LEDGER
    BY <1>6, <1>8, <1>9
  <2> HIDE DEF span, whole
  <2>3. padded < U64Max
    BY <1>1, <1>5, <2>1, <2>2
  <2>4. inflated <= span
    BY <1>1, <1>4, <1>5, <2>1, <2>2, <2>3
  <2>5. bounded < 100 * span + 100 /\ 100 * span + 100 <= U64Max
    BY <1>1, <1>3, <1>4, <2>1, <2>4
  <2>6. bounded = product
    BY <1>1, <1>3, <2>1, <2>5
  <2> QED BY <2>5, <2>6 DEF span
<1> QED BY <1>8, <1>9 DEF product, n

(* The margin does what its comment promises: as many ledgers as the       *)
(* conversion answers take at least the seconds asked for, at every whole  *)
(* close time within the margin (storage.rs, seconds_to_ledgers).          *)
THEOREM MarginCovers ==
  ASSUME StorageAssumption, NEW seconds \in Nat,
         NEW close \in Nat, WithinMargin(close),
         SecondsToLedgers(seconds) < U32Max
  PROVE  SecondsToLedgers(seconds) * close >= seconds
<1> DEFINE n == SecondsToLedgers(seconds)
           q == 100 + TTL_SAFETY_MARGIN_PERCENT
<1>1. /\ SECONDS_PER_LEDGER \in Nat /\ q \in Nat /\ q >= 100 /\ n \in Nat
      /\ close * q >= SECONDS_PER_LEDGER * 100
      /\ seconds * q < 100 * (SECONDS_PER_LEDGER * n) + 100
  BY ConversionCeiling DEF StorageAssumption, WithinMargin
<1> HIDE DEF n, q
<1>2. n * (SECONDS_PER_LEDGER * 100) <= n * (close * q)
  <2>1. close * q \in Nat /\ SECONDS_PER_LEDGER * 100 \in Nat
    BY <1>1
  <2> QED BY <1>1, <2>1, TimesMonotone
<1>3. /\ n * (SECONDS_PER_LEDGER * 100) = 100 * (SECONDS_PER_LEDGER * n)
      /\ n * (close * q) = q * (n * close)
  BY <1>1
<1>4. seconds * q < q * (n * close) + q
  <2>1. 100 * (SECONDS_PER_LEDGER * n) \in Nat /\ q * (n * close) \in Nat /\ seconds * q \in Nat
    BY <1>1
  <2> QED BY <1>1, <1>2, <1>3, <2>1
<1>5. ~ (seconds >= n * close + 1)
  <2> SUFFICES ASSUME seconds >= n * close + 1 PROVE FALSE
    OBVIOUS
  <2>1. n * close + 1 \in Nat /\ n * close \in Nat
    BY <1>1
  <2>2. q * (n * close + 1) <= q * seconds
    BY <1>1, <2>1, TimesMonotone
  <2>3. q * (n * close + 1) = q * (n * close) + q /\ q * seconds = seconds * q
    BY <1>1, <2>1
  <2>4. q * (n * close) \in Nat /\ seconds * q \in Nat
    BY <1>1, <2>1
  <2> QED BY <1>1, <1>4, <2>2, <2>3, <2>4
<1>6. n * close \in Nat
  BY <1>1
<1> QED BY <1>5, <1>6 DEF n

(* The end of a stream is an instant.                                      *)
LEMMA EndTyped ==
  ASSUME StorageAssumption, NEW s \in Stream, NEW t \in Nat
  PROVE  EffectiveEnd(s, t) \in Nat
<1>1. U64Max \in Nat
  BY DEF StorageAssumption
<1> QED
  BY <1>1 DEF EffectiveEnd, Least, SatSub, Stream, None

(* A rent target is a number of ledgers.                                   *)
LEMMA TargetTyped ==
  ASSUME StorageAssumption, NEW s \in Stream, NEW t \in Nat
  PROVE  TtlTarget(s, t) \in Nat
<1>1. /\ SECONDS_PER_LEDGER \in Nat \ {0} /\ TTL_SAFETY_MARGIN_PERCENT \in Nat
      /\ TTL_BUFFER_SECONDS \in Nat /\ U64Max \in Nat
      /\ U32Max \in Nat /\ MaxTtl \in Nat
  BY DEF StorageAssumption
<1>2. Wanted(s, t) \in Nat
  BY <1>1, EndTyped DEF Wanted, Least, SatSub
<1>3. SecondsToLedgers(Wanted(s, t)) \in Nat
  BY <1>1, <1>2, ConversionCeiling
<1>4. /\ TTL_BUFFER_SECONDS * (100 + TTL_SAFETY_MARGIN_PERCENT) \in Nat
      /\ SECONDS_PER_LEDGER * 100 \in Nat /\ SECONDS_PER_LEDGER * 100 > 0
  BY <1>1
<1>5. MIN_STREAM_TTL_LEDGERS \in Nat
  BY <1>4, DivOfNat DEF MIN_STREAM_TTL_LEDGERS
<1> QED
  BY <1>1, <1>3, <1>5 DEF TtlTarget, Least, Greatest

(* Every rent target reaches the end of the stream and the buffer beyond   *)
(* it, on ledgers within the margin, or is the network's maximum           *)
(* (storage.rs, ttl_target_ledgers).                                       *)
THEOREM TargetCovers ==
  ASSUME StorageAssumption, NEW s \in Stream, NEW t \in Nat,
         NEW close \in Nat, WithinMargin(close)
  PROVE  \/ TtlTarget(s, t) = MaxTtl
         \/ TtlTarget(s, t) * close >= EffectiveEnd(s, t) + TTL_BUFFER_SECONDS - t
<1> DEFINE wanted == Wanted(s, t)
           n      == SecondsToLedgers(wanted)
           target == TtlTarget(s, t)
           left   == SatSub(EffectiveEnd(s, t), t) + TTL_BUFFER_SECONDS
<1>1. /\ SECONDS_PER_LEDGER \in Nat \ {0} /\ TTL_SAFETY_MARGIN_PERCENT \in Nat
      /\ TTL_BUFFER_SECONDS \in Nat /\ U64Max \in Nat
      /\ U32Max \in Nat /\ MaxTtl \in Nat /\ MaxTtl <= U32Max
  BY DEF StorageAssumption
<1>2. EffectiveEnd(s, t) \in Nat
  BY EndTyped
<1>3. left \in Nat /\ left >= EffectiveEnd(s, t) + TTL_BUFFER_SECONDS - t
  BY <1>1, <1>2 DEF SatSub
<1>4. wanted \in Nat /\ (wanted = left \/ wanted = U64Max)
  BY <1>1, <1>3 DEF Wanted, Least
<1>5. n \in 0 .. U32Max
  BY <1>4, ConversionCeiling
<1>6. MIN_STREAM_TTL_LEDGERS \in Nat
  <2>1. /\ TTL_BUFFER_SECONDS * (100 + TTL_SAFETY_MARGIN_PERCENT) \in Nat
        /\ SECONDS_PER_LEDGER * 100 \in Nat /\ SECONDS_PER_LEDGER * 100 > 0
    BY <1>1
  <2> QED BY <2>1, DivOfNat DEF MIN_STREAM_TTL_LEDGERS
<1>7. target \in Nat /\ target <= MaxTtl /\ (target < MaxTtl => target >= n)
  BY <1>1, <1>5, <1>6 DEF TtlTarget, Least, Greatest
<1>8. ASSUME target < MaxTtl PROVE target * close >= left
  <2>1. n < U32Max /\ n \in Nat
    BY <1>1, <1>5, <1>7, <1>8
  <2>2. n * close >= wanted
    BY <1>4, <2>1, MarginCovers
  <2>3. wanted # U64Max
    <3> SUFFICES ASSUME wanted = U64Max PROVE FALSE
      OBVIOUS
    <3>1. /\ wanted * (100 + TTL_SAFETY_MARGIN_PERCENT) < 100 * (SECONDS_PER_LEDGER * n) + 100
      BY <1>4, <2>1, ConversionCeiling
    <3>2. wanted * (100 + TTL_SAFETY_MARGIN_PERCENT) >= wanted
      BY <1>1, <1>4
    <3>3. SECONDS_PER_LEDGER * (n + 1) <= SECONDS_PER_LEDGER * (U32Max + 1)
      BY <1>1, <2>1, TimesMonotone
    <3>4. 100 * (SECONDS_PER_LEDGER * (U32Max + 1)) <= U64Max
      BY DEF StorageAssumption
    <3>5. 100 * (SECONDS_PER_LEDGER * n) + 100 <= 100 * (SECONDS_PER_LEDGER * (n + 1))
      BY <1>1, <2>1
    <3>6. SECONDS_PER_LEDGER * n \in Nat /\ SECONDS_PER_LEDGER * (n + 1) \in Nat
          /\ SECONDS_PER_LEDGER * (U32Max + 1) \in Nat
          /\ wanted * (100 + TTL_SAFETY_MARGIN_PERCENT) \in Nat
      BY <1>1, <1>4, <2>1
    <3> HIDE DEF wanted, n
    <3> QED BY <1>1, <1>4, <3>1, <3>2, <3>3, <3>4, <3>5, <3>6
  <2>4. close * n <= close * target
    BY <1>7, <1>8, <2>1, TimesMonotone
  <2>5. close * n = n * close /\ close * target = target * close
        /\ n * close \in Nat /\ target * close \in Nat
    BY <1>7, <2>1
  <2> HIDE DEF wanted, n, target, left
  <2> QED BY <1>3, <1>4, <2>2, <2>3, <2>4, <2>5
<1> HIDE DEF left, target
<1>9. target = MaxTtl \/ target * close >= EffectiveEnd(s, t) + TTL_BUFFER_SECONDS - t
  <2>1. CASE target = MaxTtl
    BY <2>1
  <2>2. CASE target < MaxTtl
    <3>1. target * close \in Nat
      BY <1>7
    <3> QED BY <1>1, <1>2, <1>3, <1>8, <2>2, <3>1
  <2> QED BY <1>1, <1>7, <2>1, <2>2
<1> QED BY <1>9 DEF target

-----------------------------------------------------------------------------
(* The rent.                                                               *)

(* The entries a stream has are those its record asks for, and all of them *)
(* live equally long.                                                      *)
EntriesTogether ==
  \A i \in Ids :
    /\ DOMAIN live[i] = Keys(streams[i])
    /\ live[i]["Stream"] \in Int
    /\ \A k \in Keys(streams[i]) : live[i][k] = live[i]["Stream"]

RentTyped ==
  /\ ledger \in Nat
  /\ \A i \in Ids : touched[i] \in Nat

RentInv == IInv /\ RentTyped /\ EntriesTogether /\ RunningStreamsStayFunded

(* What one call does to stream i and its entries.                         *)
Touched(i) ==
  /\ DOMAIN live'[i] = Keys(streams'[i])
  /\ live'[i]["Stream"] \in Int
  /\ live'[i]["Stream"] >= ledger + After[i]
  /\ \A k \in Keys(streams'[i]) : live'[i][k] = live'[i]["Stream"]
  /\ touched'[i] = ledger

LeftAlone(i) ==
  /\ i \in Ids
  /\ streams'[i] = streams[i] /\ live'[i] = live[i] /\ touched'[i] = touched[i]

Kept ==
  /\ StepOK
  /\ UNCHANGED <<now, ledger>>
  /\ \A i \in Ids' : Touched(i) \/ LeftAlone(i)

-----------------------------------------------------------------------------
(* What the steps below use of the constants.                              *)
LEMMA RentConstants ==
  /\ StorageAssumption
  /\ MinPersistentTtl \in Nat /\ MaxTtl \in Nat /\ TTL_BUFFER_SECONDS \in Nat
  /\ U64Max \in Nat
  /\ \A c \in CloseTimes : c \in Nat /\ c > 0 /\ WithinMargin(c)
BY RentAssumption, StorageAssumption DEF StorageAssumption

(* Every stream has a record entry.                                        *)
LEMMA RecordKey == \A s : "Stream" \in Keys(s)
BY DEF Keys

(* A running stream's end does not move with the clock.                    *)
LEMMA RunningEnd ==
  ASSUME NEW s, NEW t \in Nat, Sound(s, t), s.status = "Active", NEW u
  PROVE  /\ EffectiveEnd(s, u) = EffectiveEnd(s, t)
         /\ EffectiveEnd(s, t) \in Nat
<1>1. s.paused_at = None /\ s.end_time \in Nat /\ s.paused_total \in Nat
  BY DEF Sound, PauseCoherent, Stream
<1> QED
  BY <1>1, RentConstants DEF EffectiveEnd, Least

(* No call changes what entries a stream has.                              *)
LEMMA KeysKept ==
  ASSUME NEW s \in Stream, NEW u, RecordStep(s, u)
  PROVE  Keys(u) = Keys(s)
<1>1. u.curve = s.curve /\ u.cliff_mode = s.cliff_mode
  BY DEF RecordStep, ToppedUpStep, Stream, PaidOut, Settled, Extended, Paused, Resumed
<1> QED
  BY <1>1 DEF Keys

(* A stream just touched is funded: its rent target covers what is left.   *)
LEMMA TouchedIsFunded ==
  ASSUME RentTyped, now \in Nat, UNCHANGED <<now, ledger>>,
         NEW i \in Ids', Touched(i), streams'[i] \in Stream,
         NEW k \in Keys(streams'[i]), NEW c \in CloseTimes
  PROVE  \/ (live'[i][k] - ledger) * c
              >= EffectiveEnd(streams'[i], now) + TTL_BUFFER_SECONDS - now
         \/ live'[i][k] >= touched'[i] + MaxTtl
<1> DEFINE until  == live'[i][k]
           target == After[i]
           need   == EffectiveEnd(streams'[i], now) + TTL_BUFFER_SECONDS - now
<1>1. until \in Int /\ ledger \in Nat /\ target \in Nat /\ c \in Nat /\ need \in Int
      /\ MaxTtl \in Nat
  <2>1. target \in Nat
    BY TargetTyped, RentConstants DEF After
  <2>2. EffectiveEnd(streams'[i], now) \in Nat
    BY EndTyped, RentConstants
  <2> QED BY <2>1, <2>2, RentConstants DEF Touched, RentTyped
<1>2. until - ledger >= target
  BY <1>1 DEF Touched
<1>3. target = MaxTtl \/ target * c >= need
  BY TargetCovers, RentConstants DEF After
<1>4. CASE target = MaxTtl
  <2>1. touched'[i] = ledger
    BY DEF Touched
  <2> QED BY <1>1, <1>2, <1>4, <2>1
<1>5. CASE target * c >= need
  <2>1. until - ledger \in Nat
    BY <1>1, <1>2
  <2>2. c * target <= c * (until - ledger)
    BY <1>1, <1>2, <2>1, TimesMonotone
  <2>3. c * target = target * c /\ c * (until - ledger) = (until - ledger) * c
        /\ target * c \in Nat /\ (until - ledger) * c \in Nat
    BY <1>1, <2>1
  <2> HIDE DEF until, target, need
  <2>4. (until - ledger) * c >= need
    BY <1>1, <1>5, <2>2, <2>3
  <2> QED BY <2>4 DEF until, need
<1> QED BY <1>3, <1>4, <1>5

(* A call keeps the invariant.                                             *)
LEMMA KeptRentInv ==
  ASSUME RentInv, Kept
  PROVE  RentInv'
<1>1. /\ now \in Nat /\ ledger \in Nat /\ now' = now /\ ledger' = ledger
      /\ \A i \in Ids' : Touched(i) \/ LeftAlone(i)
  BY IInvParts DEF RentInv, Kept, RentTyped
<1>2. IInv'
  BY StepIInv DEF Kept, RentInv
<1>3. \A i \in Ids' : streams'[i] \in Stream
  BY <1>2 DEF IInv, TypeOK
<1>4. RentTyped'
  BY <1>1 DEF RentInv, RentTyped, Touched, LeftAlone
<1>5. EntriesTogether'
  BY <1>1 DEF RentInv, EntriesTogether, Touched, LeftAlone
<1>6. RunningStreamsStayFunded'
  <2> SUFFICES ASSUME NEW i \in Ids', streams'[i].status = "Active",
                      EffectiveEnd(streams'[i], now) + TTL_BUFFER_SECONDS - now > 0,
                      NEW k \in Keys(streams'[i]), NEW c \in CloseTimes
               PROVE  \/ (live'[i][k] - ledger) * c
                           >= EffectiveEnd(streams'[i], now) + TTL_BUFFER_SECONDS - now
                      \/ live'[i][k] >= touched'[i] + MaxTtl
    BY <1>1 DEF RunningStreamsStayFunded
  <2>1. CASE Touched(i)
    BY <1>1, <1>3, <2>1, TouchedIsFunded DEF RentInv
  <2>2. CASE LeftAlone(i)
    BY <2>2 DEF LeftAlone, RentInv, RunningStreamsStayFunded
  <2> QED BY <1>1, <2>1, <2>2
<1> QED BY <1>2, <1>4, <1>5, <1>6 DEF RentInv

-----------------------------------------------------------------------------
(* What Extend does.                                                       *)

(* The new entries of stream i, extended to t ledgers from now.            *)
NewEntries(i, t) ==
  IF i >= nextId THEN [k \in Keys(streams'[i]) |-> Prolonged(-1, t)]
  ELSE ProlongedEntries(live[i], t)

(* Extending to a target no smaller than the one of the record left behind *)
(* touches the stream.                                                     *)
LEMMA ExtendedIsTouched ==
  ASSUME RentInv, StepOK, now' = now, NEW i \in Ids', NEW t \in Int, t >= After[i],
         live'[i] = NewEntries(i, t), touched'[i] = ledger
  PROVE  Touched(i)
<1>1. ledger \in Nat /\ nextId \in Nat /\ nextId' \in Nat /\ now \in Nat
      /\ "Stream" \in Keys(streams'[i])
  BY IInvParts, RecordKey DEF RentInv, RentTyped, StepOK, Evolves
<1>2. streams'[i] \in Stream
  BY StepIInv DEF RentInv, IInv, TypeOK
<1>3. After[i] \in Nat
  BY <1>1, <1>2, TargetTyped, RentConstants DEF After
<1>4. ASSUME NEW until \in Int
      PROVE  Prolonged(until, t) \in Int /\ Prolonged(until, t) >= ledger + After[i]
  BY <1>1, <1>3, RentConstants DEF Prolonged, Restored, Greatest
<1>5. CASE i >= nextId
  <2>1. live'[i] = [k \in Keys(streams'[i]) |-> Prolonged(-1, t)]
    BY <1>5 DEF NewEntries
  <2>2. Prolonged(-1, t) \in Int /\ Prolonged(-1, t) >= ledger + After[i]
    BY <1>4
  <2> QED BY <1>1, <2>1, <2>2 DEF Touched
<1>6. CASE i < nextId
  <2>1. i \in Ids
    BY <1>1, <1>6 DEF Ids
  <2>2. RecordStep(streams[i], streams'[i])
    BY <2>1 DEF StepOK, Evolves
  <2>3. Keys(streams'[i]) = Keys(streams[i])
    BY <2>1, <2>2, KeysKept, IInvParts DEF RentInv
  <2>4. /\ DOMAIN live[i] = Keys(streams[i]) /\ live[i]["Stream"] \in Int
        /\ \A k \in Keys(streams[i]) : live[i][k] = live[i]["Stream"]
    BY <2>1 DEF RentInv, EntriesTogether
  <2>5. live'[i] = [k \in DOMAIN live[i] |-> Prolonged(live[i][k], t)]
    BY <1>1, <1>6 DEF NewEntries, ProlongedEntries, Ids
  <2>6. \A k \in Keys(streams'[i]) : live'[i][k] = Prolonged(live[i]["Stream"], t)
    BY <2>3, <2>4, <2>5
  <2>7. /\ Prolonged(live[i]["Stream"], t) \in Int
        /\ Prolonged(live[i]["Stream"], t) >= ledger + After[i]
    BY <1>4, <2>4
  <2> QED BY <1>1, <2>3, <2>4, <2>5, <2>6, <2>7 DEF Touched
<1> QED
  <2>1. i \in Int
    BY <1>1 DEF Ids
  <2> QED BY <1>1, <1>5, <1>6, <2>1

(* A call that extends the streams it changes, and the new ones, keeps the *)
(* invariant.                                                              *)
LEMMA CallKept ==
  ASSUME RentInv, StepOK, UNCHANGED <<now, ledger>>, NEW ids,
         \A i \in Ids : i \notin ids => streams'[i] = streams[i],
         \A i \in Ids' : i >= nextId \/ i \in ids =>
            /\ \E t \in Int : t >= After[i] /\ live'[i] = NewEntries(i, t)
            /\ touched'[i] = ledger,
         \A i \in Ids : i \notin ids => live'[i] = live[i] /\ touched'[i] = touched[i]
  PROVE  RentInv'
<1>1. ASSUME NEW i \in Ids', i >= nextId \/ i \in ids
      PROVE  Touched(i)
  BY <1>1, ExtendedIsTouched
<1>2. ASSUME NEW i \in Ids', ~ (i >= nextId \/ i \in ids)
      PROVE  LeftAlone(i)
  <2>1. i \in Ids
    BY <1>2, IInvParts DEF Ids, RentInv
  <2> QED BY <1>2, <2>1 DEF LeftAlone
<1>3. Kept
  BY <1>1, <1>2 DEF Kept
<1> QED BY <1>3, KeptRentInv

(* The three targets a call may extend to are no smaller than the one of   *)
(* the record it leaves.                                                   *)
LEMMA Targets ==
  ASSUME RentInv, StepOK, now' = now, NEW i \in Ids'
  PROVE  /\ After[i] \in Int
         /\ i \in Ids => Either[i] \in Int /\ Either[i] >= After[i]
         /\ i \in Ids /\ streams' = streams => Before[i] = After[i]
<1>1. now \in Nat /\ streams'[i] \in Stream
  BY StepIInv, IInvParts DEF RentInv, IInv, TypeOK
<1>2. After[i] \in Nat
  BY <1>1, TargetTyped, RentConstants DEF After
<1>3. ASSUME i \in Ids PROVE Before[i] \in Nat
  BY <1>1, <1>3, TargetTyped, RentConstants, IInvParts DEF Before, RentInv
<1> QED BY <1>2, <1>3 DEF Either, Greatest, Before, After

(* A call that loads and saves stream i.                                   *)
LEMMA LoadSaveKept ==
  ASSUME RentInv, StepOK, NEW i \in Ids, UNCHANGED <<now, ledger, nextId>>,
         \A j \in Ids : j # i => streams'[j] = streams[j], LoadSave(i)
  PROVE  RentInv'
<1>1. /\ live' = [j \in 0 .. nextId' - 1 |->
                    IF j >= nextId
                    THEN [k \in Keys(streams'[j]) |-> Prolonged(-1, Either[j])]
                    ELSE IF j \in {i} THEN ProlongedEntries(live[j], Either[j])
                    ELSE live[j]]
      /\ touched' = [j \in 0 .. nextId' - 1 |->
                       IF j >= nextId \/ j \in {i} THEN ledger ELSE touched[j]]
  BY DEF LoadSave, Extend
<1>2. Ids' = Ids /\ nextId \in Nat /\ (\A j \in Ids : ~ (j >= nextId))
  BY IInvParts DEF Ids, RentInv
<1>3. live'[i] = NewEntries(i, Either[i]) /\ touched'[i] = ledger
  BY <1>1, <1>2 DEF Ids, NewEntries
<1>4. Either[i] \in Int /\ Either[i] >= After[i]
  BY <1>2, Targets
<1>5. \A j \in Ids : j # i => live'[j] = live[j] /\ touched'[j] = touched[j]
  BY <1>1, <1>2 DEF Ids
<1>6. \A j \in Ids' : j >= nextId \/ j \in {i} =>
         /\ \E t \in Int : t >= After[j] /\ live'[j] = NewEntries(j, t)
         /\ touched'[j] = ledger
  BY <1>2, <1>3, <1>4
<1> QED BY <1>5, <1>6, CallKept

(* A call that loads streams and changes none.                             *)
LEMMA LoadKept ==
  ASSUME RentInv, StepOK, UNCHANGED <<now, ledger, nextId, streams>>,
         NEW ids, Extend(ids, Before)
  PROVE  RentInv'
<1>1. /\ live' = [j \in 0 .. nextId' - 1 |->
                    IF j >= nextId
                    THEN [k \in Keys(streams'[j]) |-> Prolonged(-1, Before[j])]
                    ELSE IF j \in ids THEN ProlongedEntries(live[j], Before[j])
                    ELSE live[j]]
      /\ touched' = [j \in 0 .. nextId' - 1 |->
                       IF j >= nextId \/ j \in ids THEN ledger ELSE touched[j]]
  BY DEF Extend
<1>2. Ids' = Ids /\ nextId \in Nat /\ (\A j \in Ids : ~ (j >= nextId))
  BY IInvParts DEF Ids, RentInv
<1>3. ASSUME NEW j \in Ids', j >= nextId \/ j \in ids
      PROVE  /\ \E t \in Int : t >= After[j] /\ live'[j] = NewEntries(j, t)
             /\ touched'[j] = ledger
  <2>1. j \in ids /\ j \in Ids
    BY <1>2, <1>3
  <2>2. live'[j] = NewEntries(j, Before[j]) /\ touched'[j] = ledger
    BY <1>1, <1>2, <2>1 DEF Ids, NewEntries
  <2>3. Before[j] = After[j] /\ After[j] \in Int
    BY <2>1, Targets
  <2> QED BY <2>2, <2>3
<1>4. \A j \in Ids : j \notin ids => live'[j] = live[j] /\ touched'[j] = touched[j]
  BY <1>1, <1>2 DEF Ids
<1> QED BY <1>3, <1>4, CallKept

(* A place below a count, as the provers like to read it.                  *)
LEMMA InRange ==
  ASSUME NEW n \in Nat, NEW j \in Int, 0 <= j, j < n
  PROVE  j \in 0 .. n - 1
OBVIOUS

(* A call that saves streams, or makes new ones, without loading.          *)
LEMMA SaveKept ==
  ASSUME RentInv, StepOK, UNCHANGED <<now, ledger>>,
         NEW ids, \A i \in Ids : i \notin ids => streams'[i] = streams[i],
         Extend(ids, After)
  PROVE  RentInv'
<1>1. /\ live' = [j \in 0 .. nextId' - 1 |->
                    IF j >= nextId
                    THEN [k \in Keys(streams'[j]) |-> Prolonged(-1, After[j])]
                    ELSE IF j \in ids THEN ProlongedEntries(live[j], After[j])
                    ELSE live[j]]
      /\ touched' = [j \in 0 .. nextId' - 1 |->
                       IF j >= nextId \/ j \in ids THEN ledger ELSE touched[j]]
  BY DEF Extend
<1>2. nextId \in Nat /\ nextId' \in Nat /\ nextId <= nextId'
  BY IInvParts DEF RentInv, StepOK, Evolves
<1>3. ASSUME NEW j \in Ids', j >= nextId \/ j \in ids
      PROVE  /\ \E t \in Int : t >= After[j] /\ live'[j] = NewEntries(j, t)
             /\ touched'[j] = ledger
  <2>1. live'[j] = NewEntries(j, After[j]) /\ touched'[j] = ledger
    BY <1>1, <1>3 DEF Ids, NewEntries
  <2>2. After[j] \in Int /\ After[j] >= After[j]
    BY Targets
  <2> QED BY <2>1, <2>2
<1>4. ASSUME NEW j \in Ids, j \notin ids
      PROVE  live'[j] = live[j] /\ touched'[j] = touched[j]
  <2>1. j \in Int /\ 0 <= j /\ j < nextId
    <3>1. j \in 0 .. nextId - 1
      BY DEF Ids
    <3> QED BY <1>2, <3>1
  <2>2. ~ (j >= nextId)
    BY <1>2, <2>1
  <2>3. j < nextId'
    BY <1>2, <2>1
  <2>4. j \in 0 .. nextId' - 1
    BY <1>2, <2>1, <2>3, InRange, Zenon
  <2> QED BY <1>1, <1>4, <2>2, <2>4
<1>5. \A j \in Ids' : j >= nextId \/ j \in ids =>
         /\ \E t \in Int : t >= After[j] /\ live'[j] = NewEntries(j, t)
         /\ touched'[j] = ledger
  BY <1>3, Zenon
<1>6. \A j \in Ids : j \notin ids => live'[j] = live[j] /\ touched'[j] = touched[j]
  BY <1>4, Zenon
<1>7. \A j \in Ids : j \notin ids => streams'[j] = streams[j]
  OBVIOUS
<1> QED BY <1>5, <1>6, <1>7, CallKept, SMT

-----------------------------------------------------------------------------
(* The calls.                                                              *)

(* A call that writes one stream leaves the others alone.                  *)
LEMMA WriteFrame ==
  ASSUME IInv, NEW i \in Ids, NEW u, Write(i, u)
  PROVE  \A j \in Ids : j # i => streams'[j] = streams[j]
BY IInvParts DEF Write

(* Creations extend what they make.                                        *)
LEMMA CreationKept == ASSUME RentInv, Creation PROVE RentInv'
<1>1. StepOK
  BY CreationOK DEF RentInv, Creation
<1>2. UNCHANGED <<now, ledger>> /\ Extend({}, After)
  BY DEF Creation, CreateStreamWithCliffMode, CreateStreamWithCurve,
         CreateStreamViaFactory, BatchCreate, CreateStreams
<1>3. \A i \in Ids : streams'[i] = streams[i]
  <2>1. PICK reqs : RequestList(reqs) /\ Enrol(reqs)
    BY OneRequest, BatchOfRequests
    DEF Creation, CreateStreamWithCliffMode, CreateStreamWithCurve,
        CreateStreamViaFactory, BatchCreate, CreateStreams
  <2>2. Len(reqs) \in Nat /\ nextId \in Nat
    BY <2>1, IInvParts DEF RequestList, RentInv
  <2> QED BY <2>1, <2>2 DEF Enrol, Ids
<1> QED BY <1>1, <1>2, <1>3, SaveKept

(* Payments and top-ups.                                                   *)
LEMMA PaymentKept == ASSUME RentInv, NEW i \in Ids, Payment(i) PROVE RentInv'
<1>1. StepOK
  <2>1. StreamCall(i) \/ \E d \in Delegates : DelegateCall(i, d)
    BY DEF Payment, StreamCall, DelegateCall
  <2> QED BY <2>1, StreamCallOK, DelegateCallOK DEF RentInv
<1>2. UNCHANGED <<now, ledger, nextId>> /\ LoadSave(i) /\ \E u : Write(i, u)
  BY DEF Payment, Withdraw, DelegateWithdraw, Withdrawal, TopUp, DelegateTopUp
<1> QED BY <1>1, <1>2, WriteFrame, LoadSaveKept DEF RentInv

(* Cancellations.                                                          *)
LEMMA SettlementKept == ASSUME RentInv, NEW i \in Ids, Settlement(i) PROVE RentInv'
<1>1. StepOK
  <2>1. StreamCall(i) \/ \E d \in Delegates : DelegateCall(i, d)
    BY DEF Settlement, StreamCall, DelegateCall
  <2> QED BY <2>1, StreamCallOK, DelegateCallOK DEF RentInv
<1>2. UNCHANGED <<now, ledger, nextId>> /\ LoadSave(i) /\ \E u : Write(i, u)
  BY DEF Settlement, Cancel, DelegateCancel, Cancellation
<1> QED BY <1>1, <1>2, WriteFrame, LoadSaveKept DEF RentInv

(* Pauses, resumptions, transfers and reclaimed dust.                      *)
LEMMA QuietCallKept == ASSUME RentInv, NEW i \in Ids, QuietCall(i) PROVE RentInv'
<1>1. StepOK
  <2>1. StreamCall(i) \/ \E d \in Delegates : DelegateCall(i, d)
    BY DEF QuietCall, StreamCall, DelegateCall
  <2> QED BY <2>1, StreamCallOK, DelegateCallOK DEF RentInv
<1>2. UNCHANGED <<now, ledger, nextId>> /\ LoadSave(i) /\ \E u : Write(i, u)
  BY DEF QuietCall, Pause, Resume, ReclaimDust, TransferRecipient,
         DelegatePause, DelegateResume, DelegateTransferRecipient
<1> QED BY <1>1, <1>2, WriteFrame, LoadSaveKept DEF RentInv

(* A call that changes nothing but who signed is legal.                    *)
LEMMA ReadOnlyOK ==
  ASSUME RentInv, UNCHANGED <<streams, nextId, funds, grants, halting>>,
         now' \in Nat, now <= now', signers' \subseteq Accounts
  PROVE  StepOK
<1>1. OthersTyped'
  BY OthersKept DEF RentInv, halting
<1> QED BY <1>1, QuietStepOK DEF RentInv

(* A call that finds nothing to do has loaded its stream.                  *)
LEMMA IdleCallKept == ASSUME RentInv, NEW i \in Ids, IdleCall(i) PROVE RentInv'
<1>1. UNCHANGED <<now, streams, nextId, funds, grants, halting, ledger>>
      /\ signers' = {streams[i].sender} /\ Extend({i}, Before)
  BY DEF IdleCall, Load
<1>2. signers' \subseteq Accounts /\ now \in Nat
  BY <1>1, StreamParties, IInvParts DEF RentInv
<1>3. StepOK
  BY <1>1, <1>2, ReadOnlyOK
<1> QED BY <1>1, <1>3, LoadKept

(* Grants and revocations.                                                 *)
LEMMA DelegatingKept ==
  ASSUME RentInv, NEW i \in Ids, NEW d \in Delegates, Delegating(i, d)
  PROVE  RentInv'
<1>1. StepOK
  BY DelegationOK DEF RentInv, Delegating
<1>2. UNCHANGED <<now, streams, nextId, ledger>> /\ Extend({i}, Before)
  BY DEF Delegating, GrantDelegate, RevokeDelegate, Load
<1> QED BY <1>1, <1>2, LoadKept

(* Batches.                                                                *)
LEMMA BatchCallKept ==
  ASSUME RentInv, NEW a \in Accounts, NEW ids \in Batches(Ids), BatchCall(a, ids)
  PROVE  RentInv'
<1> DEFINE named == {ids[k] : k \in DOMAIN ids}
<1>1. StepOK
  BY BatchOfIds, BatchWithdrawOK, BatchCancelOK DEF RentInv, BatchCall
<1>2. UNCHANGED <<now, ledger>> /\ Extend(named, After)
  BY DEF BatchCall, BatchWithdraw, BatchCancel
<1>3. ASSUME NEW i \in Ids, i \notin named PROVE streams'[i] = streams[i]
  <2>1. CASE BatchWithdraw(a, ids)
    BY <1>3, <2>1 DEF BatchWithdraw
  <2>2. CASE BatchCancel(a, ids)
    BY <1>3, <2>2 DEF BatchCancel
  <2> QED BY <2>1, <2>2 DEF BatchCall
<1> HIDE DEF named
<1> QED BY <1>1, <1>2, <1>3, SaveKept

(* Keepers.                                                                *)
LEMMA ExtendTtlKept ==
  ASSUME RentInv, NEW ids \in SUBSET Ids, ExtendTtl(ids)
  PROVE  RentInv'
<1>1. UNCHANGED <<now, streams, nextId, funds, grants, halting, ledger>>
      /\ signers' = {} /\ Extend(ids, Before)
  BY DEF ExtendTtl
<1>2. StepOK
  BY <1>1, ReadOnlyOK, IInvParts DEF RentInv
<1> QED BY <1>1, <1>2, LoadKept

(* The operator's calls touch no stream.                                   *)
LEMMA HaltingKept == ASSUME RentInv, Halting PROVE RentInv'
<1>1. StepOK
  BY HaltingOK DEF RentInv, Halting
<1>2. UNCHANGED <<now, streams, nextId, ledger, live, touched>>
  BY DEF Halting, Halt, ResumeContract, SetHaltOperator
<1>3. \A i \in Ids' : LeftAlone(i)
  BY <1>2 DEF LeftAlone, Ids
<1> QED BY <1>1, <1>2, <1>3, KeptRentInv DEF Kept

-----------------------------------------------------------------------------
(* The clock.                                                              *)

(* A ledger takes one from what an entry has and d seconds from what is    *)
(* left of its stream: covered at d and at c seconds a ledger, the stream  *)
(* is covered at c seconds a ledger after it.                              *)
LEMMA OneLedgerLess ==
  ASSUME NEW n \in Int, NEW left \in Int,
         NEW c \in Nat, c > 0, NEW d \in Nat, d > 0,
         n * d >= left, n * c >= left, left - d > 0
  PROVE  (n - 1) * c >= left - d
<1>1. n > 1
  <2> SUFFICES ASSUME n <= 1 PROVE FALSE
    OBVIOUS
  <2>1. n * d <= d
    <3>1. CASE n = 1
      BY <3>1
    <3>2. CASE n <= 0
      <4>1. (-n) * d \in Nat /\ (-n) * d = -(n * d) /\ n * d \in Int
        BY <3>2
      <4> QED BY <4>1
    <3> QED BY <3>1, <3>2
  <2>2. n * d \in Int
    OBVIOUS
  <2> QED BY <2>1, <2>2
<1>2. (n - 1) * c = n * c - c /\ (n - 1) * d = n * d - d
      /\ n * c \in Int /\ n * d \in Int
  OBVIOUS
<1>3. CASE c <= d
  BY <1>2, <1>3
<1>4. CASE d <= c
  <2>1. (n - 1) * d <= (n - 1) * c
    BY <1>1, <1>4, TimesMonotone
  <2> QED BY <1>2, <2>1
<1> QED BY <1>3, <1>4

(* A ledger that closes within the margin leaves running streams funded.   *)
LEMMA CloseKept ==
  ASSUME RentInv, NEW d \in CloseTimes, Close(d)
  PROVE  RentInv'
<1>1. /\ now \in Nat /\ d \in Nat /\ d > 0 /\ ledger \in Nat
      /\ now' = now + d /\ ledger' = ledger + 1 /\ signers' = {}
      /\ UNCHANGED <<streams, nextId, funds, grants, halting, live, touched>>
  BY RentConstants, IInvParts DEF RentInv, RentTyped, Close
<1>2. StepOK
  BY <1>1, ReadOnlyOK
<1>3. IInv'
  BY <1>2, StepIInv DEF RentInv
<1>4. RentTyped' /\ EntriesTogether'
  BY <1>1 DEF RentInv, RentTyped, EntriesTogether, Ids
<1>5. RunningStreamsStayFunded'
  <2> SUFFICES ASSUME NEW i \in Ids, streams[i].status = "Active",
                      EffectiveEnd(streams[i], now + d) + TTL_BUFFER_SECONDS - (now + d) > 0,
                      NEW k \in Keys(streams[i]), NEW c \in CloseTimes
               PROVE  \/ (live[i][k] - (ledger + 1)) * c
                           >= EffectiveEnd(streams[i], now + d) + TTL_BUFFER_SECONDS - (now + d)
                      \/ live[i][k] >= touched[i] + MaxTtl
    BY <1>1 DEF RunningStreamsStayFunded, Ids
  <2> DEFINE left == EffectiveEnd(streams[i], now) + TTL_BUFFER_SECONDS - now
             n    == live[i][k] - ledger
  <2>1. /\ EffectiveEnd(streams[i], now) \in Nat
        /\ EffectiveEnd(streams[i], now + d) = EffectiveEnd(streams[i], now)
    BY <1>1, IInvParts, RunningEnd DEF RentInv
  <2>2. /\ left \in Int /\ left - d > 0 /\ left > 0
        /\ left - d = EffectiveEnd(streams[i], now + d) + TTL_BUFFER_SECONDS - (now + d)
    BY <1>1, <2>1, RentConstants
  <2>3. live[i][k] \in Int /\ n \in Int /\ live[i][k] - (ledger + 1) = n - 1
    <3>1. live[i][k] = live[i]["Stream"] /\ live[i]["Stream"] \in Int
      BY DEF RentInv, EntriesTogether
    <3> QED BY <1>1, <3>1
  <2>4. \A e \in CloseTimes : n * e >= left \/ live[i][k] >= touched[i] + MaxTtl
    BY <2>2 DEF RentInv, RunningStreamsStayFunded
  <2>5. c \in Nat /\ c > 0
    BY RentConstants
  <2> HIDE DEF left, n
  <2>6. CASE live[i][k] >= touched[i] + MaxTtl
    BY <2>6
  <2>7. CASE n * d >= left /\ n * c >= left
    <3>1. (n - 1) * c >= left - d
      BY <1>1, <2>2, <2>3, <2>5, <2>7, OneLedgerLess
    <3> QED BY <2>2, <2>3, <3>1
  <2> QED BY <2>4, <2>6, <2>7
<1> QED BY <1>3, <1>4, <1>5 DEF RentInv

-----------------------------------------------------------------------------
(* Every step.                                                             *)

(* The invariant holds before the first call.                              *)
LEMMA InitRentInv == RentInit => RentInv
<1> SUFFICES ASSUME RentInit PROVE RentInv
  OBVIOUS
<1>1. IInv /\ Ids = {} /\ ledger = 0
  BY InitIInv DEF RentInit, Init, Ids
<1> QED BY <1>1 DEF RentInv, RentTyped, EntriesTogether, RunningStreamsStayFunded

(* Every step keeps it.                                                    *)
LEMMA NextRentInv == RentInv /\ [RentNext]_rentVars => RentInv'
<1> SUFFICES ASSUME RentInv, [RentNext]_rentVars PROVE RentInv'
  OBVIOUS
<1>1. CASE UNCHANGED rentVars
  <2>1. UNCHANGED <<now, ledger, live, touched, streams, nextId>> /\ UNCHANGED vars
    BY <1>1 DEF rentVars, rent, vars
  <2>2. IInv'
    BY <2>1, NextIInv DEF RentInv
  <2> QED BY <2>1, <2>2
      DEF RentInv, RentTyped, EntriesTogether, RunningStreamsStayFunded, Ids
<1>2. ASSUME NEW i \in Ids, Payment(i) \/ Settlement(i) \/ QuietCall(i) \/ IdleCall(i)
      PROVE  RentInv'
  BY <1>2, PaymentKept, SettlementKept, QuietCallKept, IdleCallKept
<1>3. ASSUME NEW i \in Ids, NEW d \in Delegates, Delegating(i, d)
      PROVE  RentInv'
  BY <1>3, DelegatingKept
<1>4. ASSUME NEW a \in Accounts, NEW ids \in Batches(Ids), BatchCall(a, ids)
      PROVE  RentInv'
  BY <1>4, BatchCallKept
<1>5. ASSUME NEW ids \in SUBSET Ids, ExtendTtl(ids)
      PROVE  RentInv'
  BY <1>5, ExtendTtlKept
<1>6. ASSUME NEW d \in CloseTimes, Close(d)
      PROVE  RentInv'
  BY <1>6, CloseKept
<1>7. CASE Creation
  BY <1>7, CreationKept
<1>8. CASE Halting
  BY <1>8, HaltingKept
<1> QED BY <1>1, <1>2, <1>3, <1>4, <1>5, <1>6, <1>7, <1>8 DEF RentNext

(* The invariant of the rent.                                              *)
THEOREM RentInvariance == RentSpec => []RentInv
<1>1. RentInit => RentInv
  BY InitRentInv
<1>2. RentInv /\ [RentNext]_rentVars => RentInv'
  BY NextRentInv
<1> QED BY <1>1, <1>2, PTL DEF RentSpec

(* No running stream archives before its end and the buffer, on ledgers    *)
(* within the margin, unless it is left untouched for the network's        *)
(* maximum: whatever calls move its end meanwhile.                         *)
THEOREM RunningStreamsAreFunded == RentSpec => []RunningStreamsStayFunded
<1>1. RentInv => RunningStreamsStayFunded
  BY DEF RentInv
<1> QED BY <1>1, RentInvariance, PTL

(* No side entry archives without its record, nor the record without it.   *)
THEOREM SideEntriesFollow == RentSpec => []SideEntriesLiveAsLong
<1>1. RentInv => SideEntriesLiveAsLong
  BY DEF RentInv, EntriesTogether, SideEntriesLiveAsLong
<1> QED BY <1>1, RentInvariance, PTL

(* Every stream the contract can reach is stored without loss.             *)
THEOREM StoredStreamsAreWhole == RentSpec => []StoredStreamsReadBack
<1>1. RentInv => StoredStreamsReadBack
  BY IInvParts, ReadBack DEF RentInv, StoredStreamsReadBack
<1> QED BY <1>1, RentInvariance, PTL

-----------------------------------------------------------------------------
(* The contract beneath.                                                   *)

(* The stored state rests, while any time passes.                          *)
AtRest == now <= now' /\ UNCHANGED <<streams, nextId, funds, grants, halting>>

(* The calls rent is charged for are the calls of FluxoraStream.           *)
LEMMA CallsAreCalls ==
  /\ Creation => Next
  /\ Halting => Next
  /\ \A i \in Ids : Payment(i) \/ Settlement(i) \/ QuietCall(i) => Next
  /\ \A i \in Ids, d \in Delegates : Delegating(i, d) => Next
  /\ \A a \in Accounts, ids \in Batches(Ids) : BatchCall(a, ids) => Next
<1>1. Creation => Next
  BY DEF Creation, Next
<1>2. Halting => Next
  BY DEF Halting, Next
<1>3. ASSUME NEW i \in Ids, Payment(i) \/ Settlement(i) \/ QuietCall(i)
      PROVE  Next
  <2>1. StreamCall(i) \/ \E d \in Delegates : DelegateCall(i, d)
    BY <1>3 DEF Payment, Settlement, QuietCall, StreamCall, DelegateCall
  <2> QED BY <2>1 DEF Next
<1>4. ASSUME NEW i \in Ids, NEW d \in Delegates, Delegating(i, d)
      PROVE  Next
  <2>1. DelegateCall(i, d)
    BY <1>4 DEF Delegating, DelegateCall
  <2> QED BY <2>1 DEF Next
<1>5. ASSUME NEW a \in Accounts, NEW ids \in Batches(Ids), BatchCall(a, ids)
      PROVE  Next
  BY <1>5 DEF BatchCall, Next
<1> QED BY <1>1, <1>2, <1>3, <1>4, <1>5

(* A step of the rented contract is a call, or leaves what is stored alone. *)
LEMMA RentSteps ==
  ASSUME RentInv, [RentNext]_rentVars
  PROVE  [Next \/ AtRest]_vars
<1>1. CASE UNCHANGED rentVars
  BY <1>1 DEF rentVars
<1>2. ASSUME NEW i \in Ids, IdleCall(i)
      PROVE  AtRest
  BY <1>2, IInvParts DEF IdleCall, AtRest, RentInv
<1>3. ASSUME NEW ids \in SUBSET Ids, ExtendTtl(ids)
      PROVE  AtRest
  BY <1>3, IInvParts DEF ExtendTtl, AtRest, RentInv
<1>4. ASSUME NEW d \in CloseTimes, Close(d)
      PROVE  AtRest
  BY <1>4, RentConstants, IInvParts DEF Close, AtRest, RentInv
<1> QED BY <1>1, <1>2, <1>3, <1>4, CallsAreCalls DEF RentNext

(* Whatever the rent does, the contract beneath it is FluxoraStream's:     *)
(* extensions, calls that find nothing to do and ledgers of any length     *)
(* change nothing but the clock and the last signers; every other step is  *)
(* a call of FluxoraStream.                                                *)
THEOREM RentedContractIsTheContract == RentSpec => Init /\ [][Next \/ AtRest]_vars
<1>1. RentInit => Init
  BY DEF RentInit
<1>2. RentInv /\ [RentNext]_rentVars => [Next \/ AtRest]_vars
  BY RentSteps
<1> QED BY <1>1, <1>2, RentInvariance, PTL DEF RentSpec

(* And the pool stays exact on ledgers of any length: what PooledBalance   *)
(* says is what the streams are owed, archived or not.                     *)
THEOREM RentedPoolIsExact == RentSpec => []PoolMatchesClaims
<1>1. RentInit => PoolMatchesClaims
  BY InitPool DEF RentInit
<1>2. /\ RentInv /\ PoolMatchesClaims /\ RentInv' /\ [RentNext]_rentVars
      => PoolMatchesClaims'
  <2> SUFFICES ASSUME RentInv, PoolMatchesClaims, RentInv', [RentNext]_rentVars
               PROVE  PoolMatchesClaims'
    OBVIOUS
  <2>1. PInv /\ IInv' /\ [Next \/ AtRest]_vars
    BY RentSteps DEF PInv, RentInv
  <2>2. CASE [Next]_vars
    BY <2>1, <2>2, NextPool
  <2>3. CASE AtRest
    BY <2>1, <2>3, IdlePool DEF AtRest, funds
  <2> QED BY <2>1, <2>2, <2>3
<1> QED BY <1>1, <1>2, RentInvariance, PTL DEF RentSpec

=============================================================================
