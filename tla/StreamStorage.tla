---------------------------- MODULE StreamStorage ----------------------------
(***************************************************************************)
(* How a stream lies in ledger storage, and for how long                   *)
(* (contracts/stream/src/storage.rs and the stored types of types.rs).     *)
(* The record keeps its first layout for ever; what later versions added,  *)
(* the curve and the cliff mode, lies in side entries that are written     *)
(* only when they differ from the default.  Everything here is a pure      *)
(* function; the entries' lives are in FluxoraRent.                        *)
(***************************************************************************)
EXTENDS StreamRecord

CONSTANTS
  SECONDS_PER_LEDGER,         \* the ledger close time the code assumes
  TTL_SAFETY_MARGIN_PERCENT,  \* headroom for ledgers that close faster
  TTL_BUFFER_SECONDS,         \* life beyond the end of a stream
  MaxTtl,                     \* env.storage().max_ttl(): the network's maximum
  U32Max                      \* the largest u32 value

ASSUME StorageAssumption ==
  /\ SECONDS_PER_LEDGER \in Nat \ {0}
  /\ TTL_SAFETY_MARGIN_PERCENT \in Nat /\ TTL_BUFFER_SECONDS \in Nat
  /\ U32Max \in Nat /\ MaxTtl \in 0 .. U32Max
  /\ U64Max \in Nat /\ 100 * (SECONDS_PER_LEDGER * (U32Max + 1)) <= U64Max

Absent == "Absent"

(* StreamRecord::from_stream                                               *)
FromStream(s) ==
  [sender |-> s.sender, recipient |-> s.recipient, token |-> s.token,
   deposited |-> s.deposited, withdrawn |-> s.withdrawn,
   start_time |-> s.start_time, end_time |-> s.end_time,
   cliff_time |-> s.cliff_time, cancellable |-> s.cancellable,
   pausable |-> s.pausable, transferable |-> s.transferable,
   paused_at |-> s.paused_at, paused_total |-> s.paused_total,
   status |-> s.status]

(* StreamRecord::into_stream: what the record does not hold is defaulted.  *)
IntoStream(r, curve) ==
  [sender |-> r.sender, recipient |-> r.recipient, token |-> r.token,
   deposited |-> r.deposited, withdrawn |-> r.withdrawn,
   start_time |-> r.start_time, end_time |-> r.end_time,
   cliff_time |-> r.cliff_time, cliff_mode |-> "Schedule",
   cancellable |-> r.cancellable, pausable |-> r.pausable,
   transferable |-> r.transferable,
   paused_at |-> r.paused_at, paused_total |-> r.paused_total,
   status |-> r.status, curve |-> curve]

(* Mutant: the metadata is considered only beside a curve.                 *)
SavedMetadataWithCurve(s) ==
  [record   |-> FromStream(s),
   curve    |-> IF s.curve = "Linear" THEN Absent ELSE s.curve,
   metadata |-> IF s.curve = "Linear" \/ s.cliff_mode = "Schedule"
                THEN Absent ELSE s.cliff_mode]

(* The entries save_stream leaves, whatever lay there before: a side entry *)
(* that would say the default is removed.                                  *)
Saved(s) ==
  [record   |-> FromStream(s),
   curve    |-> IF s.curve = "Linear" THEN Absent ELSE s.curve,
   metadata |-> IF s.cliff_mode = "Schedule" THEN Absent ELSE s.cliff_mode]

(* read_stream                                                             *)
Read(entries) ==
  LET s == IntoStream(entries.record,
                      IF entries.curve = Absent THEN "Linear" ELSE entries.curve)
  IN  IF entries.metadata = Absent THEN s
      ELSE [s EXCEPT !.cliff_mode = entries.metadata]

(* The keys under which a stream has an entry.                             *)
Keys(s) ==
  {"Stream"} \cup (IF s.curve # "Linear" THEN {"StreamCurve"} ELSE {})
             \cup (IF s.cliff_mode # "Schedule" THEN {"StreamMetadata"} ELSE {})

-----------------------------------------------------------------------------
(* The margin is applied first, rounding down, and the conversion rounds   *)
(* up; every sum and product saturates.                                    *)
SecondsToLedgers(seconds) ==
  LET inflated == Least(seconds * (100 + TTL_SAFETY_MARGIN_PERCENT), U64Max) \div 100
      padded   == Least(inflated + SECONDS_PER_LEDGER - 1, U64Max)
  IN  Least(padded \div SECONDS_PER_LEDGER, U32Max)

(* Ledgers no faster than the margin is meant for.                         *)
WithinMargin(seconds) ==
  seconds * (100 + TTL_SAFETY_MARGIN_PERCENT) >= SECONDS_PER_LEDGER * 100

(* Where the end of the schedule lies on the ledger's clock, if the pause  *)
(* in progress ended now.                                                  *)
EffectiveEnd(s, now) ==
  Least(s.end_time + s.paused_total
          + (IF s.paused_at = None THEN 0 ELSE SatSub(now, s.paused_at)),
        U64Max)

(* Seconds an entry is wanted for: to the end of the stream and a buffer.  *)
Wanted(s, now) ==
  Least(SatSub(EffectiveEnd(s, now), now) + TTL_BUFFER_SECONDS, U64Max)

MIN_STREAM_TTL_LEDGERS ==
  (TTL_BUFFER_SECONDS * (100 + TTL_SAFETY_MARGIN_PERCENT))
    \div (SECONDS_PER_LEDGER * 100)

(* ttl_target_ledgers                                                      *)
TtlTarget(s, now) ==
  Least(Greatest(SecondsToLedgers(Wanted(s, now)), MIN_STREAM_TTL_LEDGERS), MaxTtl)

=============================================================================
