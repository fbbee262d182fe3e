------------------------ MODULE FluxoraProvenanceProofs ------------------------
(***************************************************************************)
(* What the provenance gate guarantees, for any number of artifacts, any   *)
(* checkouts and toolchains, and any upsets while the tool runs.           *)
(*                                                                         *)
(* The invariant follows a run of the tool from call to call.  Written is  *)
(* how far the two files have come; Fresh is what the tool's memory is     *)
(* worth as long as nothing upset the run; Kept is what that leaves of the *)
(* manifest when the run is over.                                          *)
(***************************************************************************)
EXTENDS FluxoraProvenance, TLAPS

-----------------------------------------------------------------------------
(* The fields of a build record, listed.                                 *)
LEMMA BuildFieldsListed ==
  /\ BuildFields = {"target", "git_revision", "git_ref", "git_dirty", "toolchain_channel",
                    "rustc", "cargo", "soroban_sdk", "host", "profile"}
  /\ \A k \in DOMAIN Inputs : Inputs[k] \in BuildFields
<1>1. DOMAIN Inputs = 1 .. 9
  BY DEF Inputs
<1>2. {Inputs[k] : k \in 1 .. 9} =
        {"git_revision", "git_ref", "git_dirty", "toolchain_channel", "rustc",
         "cargo", "soroban_sdk", "host", "profile"}
  BY DEF Inputs
<1> QED
  BY <1>1, <1>2 DEF BuildFields

(* The gate compares every field that identifies a build, and only those. *)
LEMMA PinnedIdentifies == Pinned = BuildFields \ Context
BY BuildFieldsListed DEF Pinned, Context

-----------------------------------------------------------------------------
(* The invariant.                                                          *)

Bytes == Worlds \cup Foreign
Records == UNION {[S -> Values] : S \in SUBSET BuildFields}
Contents == {Absent, Half} \cup Manifests \cup DigestLists

Typed ==
  /\ world \in Worlds
  /\ wasm \in [Names -> Bytes \cup {Absent}]
  /\ files \in [Paths -> Contents]
  /\ files[Manifest] \in Manifests \cup {Absent}
  /\ files[Shasums] \in DigestLists \cup {Absent}
  /\ hashed \in DigestLists
  /\ left \subseteq Names
  /\ recorded \in Records
  /\ calm \subseteq {"build", "generate", "verify"}

Writing ==
  {"fill manifest", "rename manifest", "create shasums", "fill shasums", "rename shasums"}

Placed ==
  /\ \/ task = "none" /\ step = "none"
     \/ task = "generate" /\ step \in {"list", "hash", "inputs"} \cup Writing
     \/ task = "verify" /\ step \in {"open", "list", "hash", "inputs"}
  /\ task # "none" => outcome = "none"
  /\ task = "none" \/ step \in {"open", "list"} => hashed = Empty

(* How far the files have come.                                            *)
Written ==
  /\ step \in Writing => DOMAIN recorded = BuildFields
  /\ step = "rename manifest" => files[Temporary(Manifest)] = Text(Manifest)
  /\ step \in {"create shasums", "fill shasums", "rename shasums"}
       => files[Manifest] = Text(Manifest)
  /\ step = "rename shasums" => files[Temporary(Shasums)] = Text(Shasums)
  /\ outcome = "generated" => files[Shasums] = files[Manifest].subject
  /\ task = "verify" /\ step # "open" => files[Manifest] \in Manifests
  /\ task = "verify" /\ step = "inputs" => ArtifactsMatch(files[Manifest].subject)

(* What a run that nothing upset has in memory is what is there.           *)
TrueDigests(S) == [n \in S |-> Digest(wasm[n])]

TrueInputs(build) == \A f \in DOMAIN build \ Context : build[f] = world[f]

Fresh ==
  task # "none" /\ task \in calm =>
    /\ TrueInputs(recorded)
    /\ step = "hash" => left \subseteq Present /\ hashed = TrueDigests(Present \ left)
    /\ step \in {"inputs"} \cup Writing => hashed = TrueDigests(Present)

Current(m) ==
  /\ m \in Manifests
  /\ m.subject = TrueDigests(Present)
  /\ TrueInputs(m.build)

(* What a build that nothing upset has left.                               *)
BuiltHere ==
  \A n \in world.crates :
    /\ wasm[n] \in Worlds
    /\ \A f \in BuildFields \ Context : wasm[n][f] = world[f]

(* What a run that nothing upset leaves.                                   *)
Kept ==
  /\ "generate" \in calm /\ task # "generate" => Current(files[Manifest])
  /\ "verify" \in calm /\ outcome = "verified" => Current(files[Manifest])
  /\ {"generate", "verify"} \subseteq calm /\ task = "none" => outcome # "refused"
  /\ "build" \in calm => BuiltHere

ProvInv == Typed /\ Placed /\ Written /\ Fresh /\ Kept

-----------------------------------------------------------------------------
(* Types.                                                                  *)

(* The four paths differ, and each file has its temporary twin.            *)
LEMMA PathsDiffer ==
  /\ Manifest # Shasums
  /\ Temporary(Manifest) \notin {Manifest, Shasums, Temporary(Shasums)}
  /\ Temporary(Shasums) \notin {Manifest, Shasums, Temporary(Manifest)}
  /\ Paths = {Manifest, Shasums, Temporary(Manifest), Temporary(Shasums)}
BY DEF Manifest, Shasums, Temporary, Paths

(* No digest yet is a list of digests.                                     *)
LEMMA EmptyList == Empty \in DigestLists
<1>1. Empty \in [{} -> {Digest(b) : b \in Worlds \cup Foreign}]
  BY DEF Empty
<1> QED
  BY <1>1 DEF DigestLists

(* A digest more is a list of digests.                                     *)
LEMMA OneMoreDigest ==
  ASSUME NEW h \in DigestLists, NEW n \in Names, NEW b \in Bytes
  PROVE  With(h, n, Digest(b)) \in DigestLists
<1> DEFINE D == {Digest(c) : c \in Worlds \cup Foreign}
<1>1. PICK S \in SUBSET Names : h \in [S -> D]
  BY DEF DigestLists
<1>2. Digest(b) \in D
  BY DEF Bytes
<1> HIDE DEF D
<1>3. With(h, n, Digest(b)) \in [S \cup {n} -> D]
  BY <1>1, <1>2 DEF With
<1>4. S \cup {n} \in SUBSET Names
  BY <1>1
<1> QED
  BY <1>3, <1>4 DEF DigestLists, D

(* An input more is a record of inputs.                                    *)
LEMMA OneMoreInput ==
  ASSUME NEW r \in Records, NEW f \in BuildFields, NEW w \in Worlds
  PROVE  /\ With(r, f, w[f]) \in Records
         /\ DOMAIN With(r, f, w[f]) = DOMAIN r \cup {f}
<1>1. PICK S \in SUBSET BuildFields : r \in [S -> Values]
  BY DEF Records
<1>2. w[f] \in Values
  BY DEF Values
<1>3. With(r, f, w[f]) \in [S \cup {f} -> Values]
  BY <1>1, <1>2 DEF With
<1>4. S \cup {f} \in SUBSET BuildFields
  BY <1>1
<1> QED
  BY <1>1, <1>3, <1>4 DEF Records, With

(* What generate writes, all inputs read, is a whole manifest.             *)
LEMMA WholeText ==
  ASSUME Typed, DOMAIN recorded = BuildFields
  PROVE  /\ Text(Manifest) \in Manifests
         /\ Text(Manifest).subject = hashed /\ Text(Manifest).build = recorded
         /\ Text(Shasums) = hashed
<1>1. PICK S \in SUBSET BuildFields : recorded \in [S -> Values]
  BY DEF Typed, Records
<1>2. recorded \in [BuildFields -> Values] /\ hashed \in DigestLists
  BY <1>1 DEF Typed
<1> QED
  BY <1>2, PathsDiffer DEF Text, Manifests

(* A file of the tool is missing or whole.                                 *)
LEMMA WholeOrAbsent ==
  ASSUME Typed
  PROVE  files[Manifest] \notin {Absent, Half} => files[Manifest] \in Manifests
BY DEF Typed

-----------------------------------------------------------------------------
(* The calls of the tool that only read.                                   *)

(* What such a call leaves alone.                                          *)
LEMMA ReadsKeeps ==
  ASSUME ProvInv, Reads
  PROVE  /\ Kept'
         /\ world' = world /\ wasm' = wasm /\ files' = files /\ task' = task
         /\ outcome' = outcome /\ calm' = calm /\ Present' = Present
<1>1. /\ world' = world /\ wasm' = wasm /\ files' = files /\ task' = task
      /\ outcome' = outcome /\ calm' = calm
  BY DEF Reads
<1>2. Present' = Present
  BY <1>1 DEF Present
<1>3. Kept'
  BY <1>1, <1>2 DEF ProvInv, Kept, Current, BuiltHere, TrueDigests, TrueInputs
<1> QED
  BY <1>1, <1>2, <1>3

(* Listing the artifacts.                                                  *)
LEMMA ListKeeps ==
  ASSUME ProvInv, step = "list", left' = Present, step' = "hash", Reads,
         UNCHANGED <<hashed, recorded>>
  PROVE  ProvInv'
<1>1. /\ Kept' /\ world' = world /\ wasm' = wasm /\ files' = files /\ task' = task
      /\ outcome' = outcome /\ calm' = calm /\ Present' = Present
  BY ReadsKeeps
<1>2. Present \subseteq Names
  BY DEF Present
<1>3. Typed'
  BY <1>1, <1>2 DEF ProvInv, Typed
<1>4. Placed'
  BY <1>1 DEF ProvInv, Placed
<1>5. Written'
  BY <1>1 DEF ProvInv, Placed, Written, Writing
<1>6. Fresh'
  <2>1. hashed = TrueDigests(Present \ Present)
    BY DEF ProvInv, Placed, Empty, TrueDigests
  <2> QED
    BY <1>1, <2>1 DEF ProvInv, Fresh, TrueInputs, TrueDigests, Writing
<1> QED
  BY <1>1, <1>3, <1>4, <1>5, <1>6 DEF ProvInv

(* Hashing one.                                                            *)
LEMMA HashKeeps ==
  ASSUME ProvInv, step = "hash", NEW n \in left, n \in Present,
         hashed' = With(hashed, n, Digest(wasm[n])), left' = left \ {n},
         Reads, UNCHANGED <<step, recorded>>
  PROVE  ProvInv'
<1>1. /\ Kept' /\ world' = world /\ wasm' = wasm /\ files' = files /\ task' = task
      /\ outcome' = outcome /\ calm' = calm /\ Present' = Present
  BY ReadsKeeps
<1>2. n \in Names /\ wasm[n] \in Bytes
  BY DEF ProvInv, Typed, Present
<1>3. Typed'
  <2>1. hashed' \in DigestLists
    BY <1>2, OneMoreDigest DEF ProvInv, Typed
  <2> QED
    BY <1>1, <2>1 DEF ProvInv, Typed
<1>4. Placed'
  BY <1>1 DEF ProvInv, Placed
<1>5. Written'
  BY <1>1 DEF ProvInv, Placed, Written, Writing
<1>6. Fresh'
  <2> SUFFICES ASSUME task # "none", task \in calm
               PROVE  /\ TrueInputs(recorded)
                      /\ left' \subseteq Present /\ hashed' = TrueDigests(Present \ left')
    BY <1>1 DEF Fresh, Writing, TrueDigests, TrueInputs
  <2>1. /\ TrueInputs(recorded) /\ left \subseteq Present
        /\ hashed = TrueDigests(Present \ left)
    BY DEF ProvInv, Fresh
  <2>2. hashed' = TrueDigests((Present \ left) \cup {n})
    BY <2>1 DEF With, TrueDigests
  <2>3. (Present \ left) \cup {n} = Present \ left'
    BY <2>1
  <2> QED
    BY <2>1, <2>2, <2>3
<1> QED
  BY <1>1, <1>3, <1>4, <1>5, <1>6 DEF ProvInv

(* Reading one input.                                                      *)
LEMMA InputKeeps ==
  ASSUME ProvInv, ReadInput
  PROVE  ProvInv'
<1>1. /\ Kept' /\ world' = world /\ wasm' = wasm /\ files' = files /\ task' = task
      /\ outcome' = outcome /\ calm' = calm /\ Present' = Present
      /\ step = "inputs" /\ step' = step /\ hashed' = hashed /\ left' = left
  BY ReadsKeeps DEF ReadInput
<1>2. PICK k \in DOMAIN Inputs : recorded' = With(recorded, Inputs[k], world[Inputs[k]])
  BY DEF ReadInput
<1>3. /\ recorded' \in Records
      /\ DOMAIN recorded' = DOMAIN recorded \cup {Inputs[k]}
  <2>1. Inputs[k] \in BuildFields
    BY BuildFieldsListed
  <2>2. recorded \in Records /\ world \in Worlds
    BY DEF ProvInv, Typed
  <2> QED
    BY <1>2, <2>1, <2>2, OneMoreInput, Zenon
<1>4. Typed'
  BY <1>1, <1>3 DEF ProvInv, Typed
<1>5. Placed'
  BY <1>1 DEF ProvInv, Placed
<1>6. Written'
  BY <1>1 DEF ProvInv, Placed, Written, Writing, ArtifactsMatch
<1>7. Fresh'
  <2>1. TrueInputs(recorded) => \A f \in DOMAIN recorded' \ Context : recorded'[f] = world[f]
    BY <1>2, <1>3 DEF With, TrueInputs
  <2> QED
    BY <1>1, <2>1 DEF ProvInv, Fresh, TrueInputs, TrueDigests, Writing
<1> QED
  BY <1>1, <1>4, <1>5, <1>6, <1>7 DEF ProvInv

(* Both commands go on to the inputs once every artifact is hashed.        *)
LEMMA HashedKeeps ==
  ASSUME ProvInv, step = "hash", left = {}, step' = "inputs", Reads, UNCHANGED memory,
         \/ task = "generate"
         \/ task = "verify" /\ ArtifactsMatch(files[Manifest].subject)
  PROVE  ProvInv'
<1>1. /\ Kept' /\ world' = world /\ wasm' = wasm /\ files' = files /\ task' = task
      /\ outcome' = outcome /\ calm' = calm /\ Present' = Present
      /\ hashed' = hashed /\ left' = left /\ recorded' = recorded
  BY ReadsKeeps DEF memory
<1>2. Typed'
  BY <1>1 DEF ProvInv, Typed
<1>3. Placed'
  BY <1>1 DEF ProvInv, Placed
<1>4. Written'
  BY <1>1 DEF ProvInv, Placed, Written, Writing, ArtifactsMatch
<1>5. Fresh'
  <2>1. Present \ {} = Present
    OBVIOUS
  <2> QED
    BY <1>1, <2>1 DEF ProvInv, Fresh, TrueInputs, TrueDigests, Writing
<1> QED
  BY <1>1, <1>2, <1>3, <1>4, <1>5 DEF ProvInv

(* Opening the manifest.                                                   *)
LEMMA OpenKeeps ==
  ASSUME ProvInv, step = "open", files[Manifest] \notin {Absent, Half}, step' = "list",
         Reads, UNCHANGED memory
  PROVE  ProvInv'
<1>1. /\ Kept' /\ world' = world /\ wasm' = wasm /\ files' = files /\ task' = task
      /\ outcome' = outcome /\ calm' = calm /\ Present' = Present
      /\ hashed' = hashed /\ left' = left /\ recorded' = recorded
  BY ReadsKeeps DEF memory
<1>2. Typed'
  BY <1>1 DEF ProvInv, Typed
<1>3. Placed'
  BY <1>1 DEF ProvInv, Placed, Writing
<1>4. Written'
  BY <1>1, WholeOrAbsent DEF ProvInv, Placed, Written, Writing
<1>5. Fresh'
  BY <1>1 DEF ProvInv, Fresh, TrueInputs, TrueDigests, Writing
<1> QED
  BY <1>1, <1>2, <1>3, <1>4, <1>5 DEF ProvInv

-----------------------------------------------------------------------------
(* How a run begins and ends.                                              *)

(* No input yet is a record of inputs, and so is the target alone.         *)
LEMMA FirstRecords ==
  ASSUME NEW w \in Worlds
  PROVE  /\ Empty \in Records
         /\ [f \in {"target"} |-> w.target] \in Records
<1>1. {} \in SUBSET BuildFields /\ Empty \in [{} -> Values]
  BY DEF Empty
<1>2. "target" \in BuildFields
  BY BuildFieldsListed
<1>3. w.target \in Values
  BY <1>2 DEF Values
<1>4. /\ {"target"} \in SUBSET BuildFields
      /\ [f \in {"target"} |-> w.target] \in [{"target"} -> Values]
  BY <1>2, <1>3
<1> QED
  BY <1>1, <1>4 DEF Records

(* The tool is idle again, with an empty memory.                           *)
LEMMA EndsIdle ==
  ASSUME ProvInv, NEW how, Ends(how)
  PROVE  /\ task' = "none" /\ step' = "none" /\ outcome' = how
         /\ hashed' = Empty /\ world' = world /\ wasm' = wasm /\ Present' = Present
         /\ calm' = IF task = "generate" /\ how # "generated"
                    THEN calm \ {"generate"} ELSE calm
         /\ Placed' /\ Fresh'
         /\ files' \in [Paths -> Contents] /\ files'[Manifest] \in Manifests \cup {Absent}
            /\ files'[Shasums] \in DigestLists \cup {Absent} => Typed'
<1>1. /\ task' = "none" /\ step' = "none" /\ outcome' = how
      /\ hashed' = Empty /\ left' = {} /\ recorded' = Empty
      /\ world' = world /\ wasm' = wasm
      /\ calm' = IF task = "generate" /\ how # "generated"
                 THEN calm \ {"generate"} ELSE calm
  BY DEF Ends
<1>2. Present' = Present
  BY <1>1 DEF Present
<1>3. Placed' /\ Fresh'
  BY <1>1 DEF Placed, Fresh
<1>4. calm' \subseteq {"build", "generate", "verify"}
  BY <1>1 DEF ProvInv, Typed
<1>5. recorded' \in Records /\ hashed' \in DigestLists /\ left' \subseteq Names
  BY <1>1, FirstRecords, EmptyList DEF ProvInv, Typed
<1>6. world' \in Worlds /\ wasm' \in [Names -> Bytes \cup {Absent}]
  BY <1>1 DEF ProvInv, Typed
<1>7. files' \in [Paths -> Contents] /\ files'[Manifest] \in Manifests \cup {Absent}
        /\ files'[Shasums] \in DigestLists \cup {Absent} => Typed'
  BY <1>4, <1>5, <1>6 DEF Typed
<1> QED
  BY <1>1, <1>2, <1>3, <1>7

(* A run refused or cut short leaves the files as they are; a gate refuses *)
(* nothing that is current.                                                *)
LEMMA EndsEarly ==
  ASSUME ProvInv, NEW how \in {"refused", "interrupted"}, Ends(how), files' = files,
         task # "none",
         how = "refused" /\ task = "verify" => ~ ({"generate", "verify"} \subseteq calm)
  PROVE  ProvInv'
<1>1. /\ task' = "none" /\ step' = "none" /\ outcome' = how
      /\ world' = world /\ wasm' = wasm /\ Present' = Present
      /\ calm' = IF task = "generate" THEN calm \ {"generate"} ELSE calm
      /\ Placed' /\ Fresh'
  BY EndsIdle
<1>2. Typed'
  BY EndsIdle DEF ProvInv, Typed
<1>3. Written'
  BY <1>1 DEF Written, Writing
<1>4. Kept'
  <2>1. task \in {"generate", "verify"}
    BY DEF ProvInv, Placed
  <2>2. "generate" \in calm' => Current(files[Manifest])
    BY <1>1, <2>1 DEF ProvInv, Kept
  <2>3. Current(files[Manifest]) => Current(files[Manifest])'
    BY <1>1 DEF Current, TrueDigests, TrueInputs
  <2>4. BuiltHere => BuiltHere'
    BY <1>1 DEF BuiltHere
  <2> QED
    BY <1>1, <2>1, <2>2, <2>3, <2>4 DEF ProvInv, Kept
<1> QED
  BY <1>1, <1>2, <1>3, <1>4 DEF ProvInv

(* A run begins.                                                           *)
LEMMA BeginKeeps ==
  ASSUME ProvInv, BeginGenerate \/ BeginVerify
  PROVE  ProvInv'
<1>1. /\ task = "none" /\ outcome' = "none"
      /\ recorded' = [f \in {"target"} |-> world.target]
      /\ world' = world /\ wasm' = wasm /\ files' = files /\ hashed' = hashed
      /\ left' = left
      /\ \/ task' = "generate" /\ step' = "list"
            /\ calm' = (calm \ {"verify"}) \cup {"generate"}
         \/ task' = "verify" /\ step' = "open" /\ calm' = calm \cup {"verify"}
  BY DEF BeginGenerate, BeginVerify, Begins
<1>2. Present' = Present
  BY <1>1 DEF Present
<1>3. Typed'
  BY <1>1, FirstRecords DEF ProvInv, Typed
<1>4. Placed'
  BY <1>1 DEF ProvInv, Placed
<1>5. Written'
  BY <1>1 DEF ProvInv, Written, Writing
<1>6. Fresh'
  BY <1>1 DEF Fresh, TrueInputs, Writing
<1>7. Kept'
  <2>1. Current(files[Manifest]) => Current(files[Manifest])'
    BY <1>1, <1>2 DEF Current, TrueDigests, TrueInputs
  <2>2. BuiltHere => BuiltHere'
    BY <1>1 DEF BuiltHere
  <2> QED
    BY <1>1, <2>1, <2>2 DEF ProvInv, Kept
<1> QED
  BY <1>3, <1>4, <1>5, <1>6, <1>7 DEF ProvInv

-----------------------------------------------------------------------------
(* Writing the files.                                                      *)

(* While generate writes, all inputs are read and the memory stays.        *)
LEMMA WritingMemory ==
  ASSUME ProvInv, step \in Writing \/ (AllRead /\ task = "generate")
  PROVE  /\ task = "generate" /\ outcome = "none" /\ DOMAIN recorded = BuildFields
         /\ Text(Manifest) \in Manifests /\ Text(Shasums) = hashed /\ hashed \in DigestLists
         /\ Text(Manifest).subject = hashed /\ Text(Manifest).build = recorded
<1>1. task = "generate" /\ outcome = "none"
  BY DEF ProvInv, Placed, Writing
<1>2. DOMAIN recorded = BuildFields
  BY DEF ProvInv, Written, AllRead
<1> QED
  BY <1>1, <1>2, WholeText DEF ProvInv, Typed

(* The next step of a write, whatever it does to the files: the tool's     *)
(* memory stays fresh, and what other runs left stays current unless the   *)
(* manifest changes, which is this run's own doing.                        *)
LEMMA WriteStepKeeps ==
  ASSUME ProvInv, step \in Writing \/ (AllRead /\ task = "generate"),
         step' \in Writing,
         UNCHANGED <<world, wasm, task, memory, outcome, calm>>
  PROVE  /\ Present' = Present /\ hashed' = hashed /\ recorded' = recorded
         /\ Placed' /\ Fresh' /\ Kept'
         /\ Text(Manifest)' = Text(Manifest) /\ Text(Shasums)' = Text(Shasums)
<1>1. /\ world' = world /\ wasm' = wasm /\ task' = task /\ outcome' = outcome
      /\ calm' = calm /\ hashed' = hashed /\ left' = left /\ recorded' = recorded
  BY DEF memory
<1>2. Present' = Present
  BY <1>1 DEF Present
<1>3. task = "generate" /\ outcome = "none"
  BY WritingMemory
<1>4. Placed'
  BY <1>1, <1>3 DEF ProvInv, Placed, Writing
<1>5. Fresh'
  BY <1>1, <1>2 DEF ProvInv, Fresh, TrueInputs, TrueDigests, Writing, AllRead
<1>6. Kept'
  BY <1>1, <1>3 DEF ProvInv, Kept, BuiltHere
<1>7. Text(Manifest)' = Text(Manifest) /\ Text(Shasums)' = Text(Shasums)
  BY <1>1 DEF Text
<1> QED
  BY <1>1, <1>2, <1>4, <1>5, <1>6, <1>7

(* Writing a temporary file touches no other.                              *)
LEMMA StoredFiles ==
  ASSUME Typed, NEW path \in {Manifest, Shasums}, NEW content \in Contents,
         Stores(path, content)
  PROVE  /\ files' \in [Paths -> Contents]
         /\ files'[Manifest] = files[Manifest] /\ files'[Shasums] = files[Shasums]
         /\ files'[Temporary(path)] = content
<1>1. files' = [files EXCEPT ![Temporary(path)] = content] /\ files \in [Paths -> Contents]
  BY DEF Stores, Typed
<1>2. /\ Temporary(path) \in Paths /\ Temporary(path) # Manifest /\ Temporary(path) # Shasums
      /\ Manifest \in Paths /\ Shasums \in Paths
  BY PathsDiffer
<1> QED
  BY <1>1, <1>2

(* A rename replaces one file by what its twin holds.                      *)
LEMMA RenamedFiles ==
  ASSUME Typed, NEW path \in {Manifest, Shasums}, files' = Renamed(path)
  PROVE  /\ files' \in [Paths -> Contents]
         /\ files'[path] = files[Temporary(path)]
         /\ path = Manifest => files'[Shasums] = files[Shasums]
         /\ path = Shasums => files'[Manifest] = files[Manifest]
<1>1. /\ Temporary(path) \in Paths /\ path \in Paths /\ Manifest \in Paths /\ Shasums \in Paths
      /\ Temporary(path) # Manifest /\ Temporary(path) # Shasums /\ Manifest # Shasums
  BY PathsDiffer
<1>2. files \in [Paths -> Contents] /\ Absent \in Contents
  BY DEF Typed, Contents
<1> QED
  BY <1>1, <1>2 DEF Renamed

(* Types, when only the files change.                                      *)
LEMMA FilesTyped ==
  ASSUME Typed, UNCHANGED <<world, wasm, memory, calm>>,
         files' \in [Paths -> Contents], files'[Manifest] \in Manifests \cup {Absent},
         files'[Shasums] \in DigestLists \cup {Absent}
  PROVE  Typed'
BY DEF Typed, memory

(* Creating or filling a temporary file.                                   *)
LEMMA StoreKeeps ==
  ASSUME ProvInv, step \in Writing \/ (AllRead /\ task = "generate"),
         NEW path \in {Manifest, Shasums}, NEW content \in {Half, Text(path)},
         Stores(path, content), step' \in Writing,
         step' = "rename manifest" => path = Manifest /\ content = Text(Manifest),
         step' \in {"create shasums", "fill shasums", "rename shasums"}
           => step \in {"create shasums", "fill shasums"},
         step' = "rename shasums" => path = Shasums /\ content = Text(Shasums)
  PROVE  ProvInv'
<1>1. /\ UNCHANGED <<world, wasm, task, memory, outcome, calm>>
  BY DEF Stores
<1>2. /\ Present' = Present /\ hashed' = hashed /\ recorded' = recorded
      /\ Placed' /\ Fresh' /\ Kept'
      /\ Text(Manifest)' = Text(Manifest) /\ Text(Shasums)' = Text(Shasums)
  BY <1>1, WriteStepKeeps
<1>3. /\ task = "generate" /\ outcome = "none" /\ DOMAIN recorded = BuildFields
      /\ Text(Manifest) \in Manifests /\ Text(Shasums) \in DigestLists
  BY WritingMemory
<1>4. content \in Contents
  BY <1>3 DEF Contents
<1>5. /\ files' \in [Paths -> Contents]
      /\ files'[Manifest] = files[Manifest] /\ files'[Shasums] = files[Shasums]
      /\ files'[Temporary(path)] = content
  BY <1>4, StoredFiles DEF ProvInv
<1>6. Typed'
  BY <1>1, <1>5, FilesTyped DEF ProvInv, Typed
<1>7. Written'
  <2>1. files'[Temporary(Manifest)] = Text(Manifest) \/ step' # "rename manifest"
    BY <1>5
  <2>2. files'[Temporary(Shasums)] = Text(Shasums) \/ step' # "rename shasums"
    BY <1>5
  <2>3. step' \in {"create shasums", "fill shasums", "rename shasums"}
          => files'[Manifest] = Text(Manifest)
    BY <1>5 DEF ProvInv, Written
  <2>4. Temporary(Manifest)' = Temporary(Manifest) /\ Temporary(Shasums)' = Temporary(Shasums)
    BY DEF Temporary
  <2> QED
    BY <1>1, <1>2, <1>3, <2>1, <2>2, <2>3, <2>4 DEF Written
<1> QED
  BY <1>2, <1>6, <1>7 DEF ProvInv

(* The manifest takes its place.                                           *)
LEMMA RenameManifestKeeps ==
  ASSUME ProvInv, step = "rename manifest", step' = "create shasums",
         files' = Renamed(Manifest), UNCHANGED <<world, wasm, task, memory, outcome, calm>>
  PROVE  ProvInv'
<1>1. step \in Writing /\ step' \in Writing
  BY DEF Writing
<1>2. /\ hashed' = hashed /\ recorded' = recorded
      /\ Placed' /\ Fresh' /\ Kept' /\ Text(Manifest)' = Text(Manifest)
  BY <1>1, WriteStepKeeps
<1>3. /\ task = "generate" /\ outcome = "none" /\ DOMAIN recorded = BuildFields
      /\ Text(Manifest) \in Manifests
  BY <1>1, WritingMemory
<1>4. files[Temporary(Manifest)] = Text(Manifest)
  BY DEF ProvInv, Written
<1>5. /\ files' \in [Paths -> Contents] /\ files'[Manifest] = Text(Manifest)
      /\ files'[Shasums] = files[Shasums]
  BY <1>4, RenamedFiles DEF ProvInv
<1>6. Typed'
  BY <1>3, <1>5, FilesTyped DEF ProvInv, Typed
<1>7. Written'
  BY <1>2, <1>3, <1>5 DEF Written
<1> QED
  BY <1>2, <1>6, <1>7 DEF ProvInv

(* SHASUMS takes its place, and generate is done.                          *)
LEMMA RenameShasumsKeeps ==
  ASSUME ProvInv, step = "rename shasums", files' = Renamed(Shasums), Ends("generated")
  PROVE  ProvInv'
<1>1. step \in Writing
  BY DEF Writing
<1>2. /\ task = "generate" /\ DOMAIN recorded = BuildFields
      /\ Text(Manifest) \in Manifests /\ Text(Shasums) = hashed /\ hashed \in DigestLists
      /\ Text(Manifest).subject = hashed /\ Text(Manifest).build = recorded
  BY <1>1, WritingMemory
<1>3. files[Manifest] = Text(Manifest) /\ files[Temporary(Shasums)] = hashed
  BY <1>2 DEF ProvInv, Written
<1>4. /\ files' \in [Paths -> Contents] /\ files'[Manifest] = Text(Manifest)
      /\ files'[Shasums] = hashed
  BY <1>3, RenamedFiles DEF ProvInv
<1>5. /\ task' = "none" /\ step' = "none" /\ outcome' = "generated"
      /\ world' = world /\ wasm' = wasm /\ Present' = Present /\ calm' = calm
      /\ Placed' /\ Fresh' /\ Typed'
  BY <1>2, <1>4, EndsIdle
<1>6. Written'
  BY <1>2, <1>4, <1>5 DEF Written, Writing
<1>7. Kept'
  <2>1. "generate" \in calm => Current(Text(Manifest))
    BY <1>1, <1>2 DEF ProvInv, Fresh, Current
  <2>2. "generate" \in calm => Current(files[Manifest])'
    BY <1>4, <1>5, <2>1 DEF Current, TrueDigests, TrueInputs
  <2>3. BuiltHere => BuiltHere'
    BY <1>5 DEF BuiltHere
  <2> QED
    BY <1>5, <2>2, <2>3 DEF ProvInv, Kept
<1> QED
  BY <1>5, <1>6, <1>7 DEF ProvInv

-----------------------------------------------------------------------------
(* The gate.                                                               *)

(* The artifacts match a list of digests when they are that list.          *)
LEMMA MatchIsEquality ==
  ASSUME Typed, NEW subject \in DigestLists
  PROVE  ArtifactsMatch(subject) <=> subject = hashed
<1>1. PICK S \in SUBSET Names : hashed \in [S -> {Digest(b) : b \in Worlds \cup Foreign}]
  BY DEF Typed, DigestLists
<1>2. PICK T \in SUBSET Names : subject \in [T -> {Digest(b) : b \in Worlds \cup Foreign}]
  BY DEF DigestLists
<1>3. hashed = [n \in S |-> hashed[n]] /\ subject = [n \in T |-> subject[n]]
  BY <1>1, <1>2
<1>4. S = DOMAIN hashed /\ T = DOMAIN subject
  BY <1>3
<1>5. ArtifactsMatch(subject) => subject = hashed
  <2> SUFFICES ASSUME ArtifactsMatch(subject)
               PROVE  subject = hashed
    OBVIOUS
  <2>1. S = T /\ \A n \in T : hashed[n] = subject[n]
    BY <1>4 DEF ArtifactsMatch
  <2> QED
    BY <1>3, <2>1
<1>6. subject = hashed => ArtifactsMatch(subject)
  BY DEF ArtifactsMatch
<1> QED
  BY <1>5, <1>6

(* A current manifest is a whole one, and its record is one of a build.    *)
LEMMA ManifestParts ==
  ASSUME NEW m \in Manifests
  PROVE  /\ m \notin {Absent, Half} /\ m.subject \in DigestLists
         /\ DOMAIN m.build = BuildFields
<1>1. m \notin {Absent, Half}
  BY FilesAssumption
<1>2. m.subject \in DigestLists /\ m.build \in [BuildFields -> Values]
  BY DEF Manifests
<1> QED
  BY <1>1, <1>2

(* The gate never refuses what is current: at no call of verify.           *)
LEMMA CurrentPasses ==
  ASSUME ProvInv, task = "verify", {"generate", "verify"} \subseteq calm
  PROVE  /\ files[Manifest] \notin {Absent, Half}
         /\ step = "hash" => left \subseteq Present
         /\ step = "hash" /\ left = {} => ArtifactsMatch(files[Manifest].subject)
         /\ AllRead => InputsMatch(files[Manifest].build)
<1> DEFINE m == files[Manifest]
<1>1. Current(m)
  BY DEF ProvInv, Kept
<1>2. /\ m \in Manifests /\ m \notin {Absent, Half} /\ m.subject \in DigestLists
      /\ DOMAIN m.build = BuildFields
  BY <1>1, ManifestParts DEF Current
<1>3. /\ TrueInputs(recorded)
      /\ step = "hash" => left \subseteq Present /\ hashed = TrueDigests(Present \ left)
  BY DEF ProvInv, Fresh
<1>4. step = "hash" /\ left = {} => m.subject = hashed
  BY <1>1, <1>3 DEF Current, TrueDigests
<1>5. step = "hash" /\ left = {} => ArtifactsMatch(m.subject)
  BY <1>2, <1>4, MatchIsEquality DEF ProvInv
<1>6. AllRead => InputsMatch(m.build)
  <2> SUFFICES ASSUME AllRead, NEW f \in Pinned
               PROVE  m.build[f] = recorded[f]
    BY DEF InputsMatch
  <2>1. f \in BuildFields /\ f \notin Context
    BY PinnedIdentifies
  <2>2. m.build[f] = world[f] /\ recorded[f] = world[f]
    BY <1>1, <1>2, <1>3, <2>1 DEF Current, TrueInputs, AllRead
  <2> QED
    BY <2>2
<1> QED
  BY <1>2, <1>3, <1>5, <1>6

(* verify succeeds.                                                        *)
LEMMA VerifiedKeeps ==
  ASSUME ProvInv, task = "verify", AllRead, InputsMatch(files[Manifest].build),
         Ends("verified"), files' = files
  PROVE  ProvInv'
<1> DEFINE m == files[Manifest]
<1>1. /\ task' = "none" /\ step' = "none" /\ outcome' = "verified"
      /\ world' = world /\ wasm' = wasm /\ Present' = Present /\ calm' = calm
      /\ Placed' /\ Fresh'
  BY EndsIdle
<1>2. Typed'
  BY EndsIdle DEF ProvInv, Typed
<1>3. Written'
  BY <1>1 DEF Written, Writing
<1>4. "verify" \in calm => Current(m)
  <2> SUFFICES ASSUME "verify" \in calm
               PROVE  Current(m)
    OBVIOUS
  <2>1. step = "inputs" /\ step # "open"
    BY DEF AllRead
  <2>2. m \in Manifests /\ ArtifactsMatch(m.subject)
    BY <2>1 DEF ProvInv, Written
  <2>3. m.subject = hashed /\ DOMAIN m.build = BuildFields
    BY <2>2, ManifestParts, MatchIsEquality DEF ProvInv
  <2>4. hashed = TrueDigests(Present) /\ TrueInputs(recorded)
    BY <2>1 DEF ProvInv, Fresh
  <2>5. ASSUME NEW f \in DOMAIN m.build \ Context
        PROVE  m.build[f] = world[f]
    <3>1. f \in Pinned /\ f \in DOMAIN recorded \ Context
      BY <2>3, <2>5, PinnedIdentifies DEF AllRead
    <3> QED
      BY <2>4, <3>1 DEF InputsMatch, TrueInputs
  <2> QED
    BY <2>2, <2>3, <2>4, <2>5 DEF Current, TrueInputs
<1>5. Kept'
  <2>1. Current(m) => Current(files[Manifest])'
    BY <1>1 DEF Current, TrueDigests, TrueInputs
  <2>2. BuiltHere => BuiltHere'
    BY <1>1 DEF BuiltHere
  <2> QED
    BY <1>1, <1>4, <2>1, <2>2 DEF ProvInv, Kept
<1> QED
  BY <1>1, <1>2, <1>3, <1>5 DEF ProvInv

(* A call of the tool that refuses.                                        *)
LEMMA RefusalKeeps ==
  ASSUME ProvInv, Refuses, task # "none",
         task = "verify" => ~ ({"generate", "verify"} \subseteq calm)
  PROVE  ProvInv'
BY EndsEarly DEF Refuses

-----------------------------------------------------------------------------
(* Every call of the tool.                                                 *)
LEMMA ToolKeeps ==
  ASSUME ProvInv, ToolStep
  PROVE  ProvInv'
<1> DEFINE CurrentGate == task = "verify" /\ {"generate", "verify"} \subseteq calm
<1>1. CASE ListArtifacts
  <2>1. CASE left' = Present /\ step' = "hash" /\ Reads /\ UNCHANGED <<hashed, recorded>>
    BY <1>1, <2>1, ListKeeps DEF ListArtifacts
  <2>2. CASE task = "generate" /\ Refuses
    BY <2>2, RefusalKeeps
  <2> QED
    BY <1>1, <2>1, <2>2 DEF ListArtifacts
<1>2. CASE HashArtifact
  <2>1. step = "hash" /\ task # "none"
    BY <1>2 DEF HashArtifact, ProvInv, Placed
  <2>2. PICK n \in left :
          \/ /\ n \in Present
             /\ hashed' = With(hashed, n, Digest(wasm[n]))
             /\ left' = left \ {n}
             /\ Reads /\ UNCHANGED <<step, recorded>>
          \/ n \notin Present /\ Refuses
    BY <1>2 DEF HashArtifact
  <2>3. CASE n \in Present /\ hashed' = With(hashed, n, Digest(wasm[n]))
             /\ left' = left \ {n} /\ Reads /\ UNCHANGED <<step, recorded>>
    BY <2>1, <2>3, HashKeeps
  <2>4. CASE n \notin Present /\ Refuses
    <3>1. ~ CurrentGate
      BY <2>1, <2>4, CurrentPasses
    <3> QED
      BY <2>1, <2>4, <3>1, RefusalKeeps
  <2> QED
    BY <2>2, <2>3, <2>4
<1>3. CASE ReadInput
  BY <1>3, InputKeeps
<1>4. CASE ArtifactsCollected
  BY <1>4, HashedKeeps DEF ArtifactsCollected
<1>5. CASE WriteManifest
  <2>1. CASE task = "generate" /\ AllRead /\ step' = "fill manifest" /\ Stores(Manifest, Half)
    BY <2>1, StoreKeeps DEF Writing
  <2>2. CASE step = "fill manifest" /\ step' = "rename manifest"
             /\ Stores(Manifest, Text(Manifest))
    BY <2>2, StoreKeeps DEF Writing
  <2>3. CASE step = "rename manifest" /\ step' = "create shasums"
             /\ files' = Renamed(Manifest)
             /\ UNCHANGED <<world, wasm, task, memory, outcome, calm, changes>>
    BY <2>3, RenameManifestKeeps
  <2> QED
    BY <1>5, <2>1, <2>2, <2>3 DEF WriteManifest
<1>6. CASE WriteShasums
  <2>1. CASE step = "create shasums" /\ step' = "fill shasums" /\ Stores(Shasums, Half)
    BY <2>1, StoreKeeps DEF Writing
  <2>2. CASE step = "fill shasums" /\ step' = "rename shasums" /\ Stores(Shasums, Text(Shasums))
    BY <2>2, StoreKeeps DEF Writing
  <2>3. CASE step = "rename shasums" /\ files' = Renamed(Shasums) /\ Ends("generated")
    BY <2>3, RenameShasumsKeeps
  <2> QED
    BY <1>6, <2>1, <2>2, <2>3 DEF WriteShasums
<1>7. CASE OpenManifest
  <2>1. step = "open" /\ task = "verify"
    BY <1>7 DEF OpenManifest, ProvInv, Placed, Writing
  <2>2. CASE files[Manifest] \in {Absent, Half} /\ Refuses
    <3>1. ~ CurrentGate
      BY <2>2, CurrentPasses
    <3> QED
      BY <2>1, <2>2, <3>1, RefusalKeeps
  <2> QED
    BY <1>7, <2>1, <2>2, OpenKeeps DEF OpenManifest
<1>8. CASE CompareArtifacts
  <2>1. task = "verify" /\ step = "hash" /\ left = {}
    BY <1>8 DEF CompareArtifacts
  <2>2. CASE ~ ArtifactsMatch(files[Manifest].subject) /\ Refuses
    <3>1. ~ CurrentGate
      BY <2>1, <2>2, CurrentPasses
    <3> QED
      BY <2>1, <2>2, <3>1, RefusalKeeps
  <2> QED
    BY <1>8, <2>1, <2>2, HashedKeeps DEF CompareArtifacts
<1>9. CASE CompareInputs
  <2>1. task = "verify" /\ AllRead
    BY <1>9 DEF CompareInputs
  <2>2. CASE ~ InputsMatch(files[Manifest].build) /\ Refuses
    <3>1. ~ CurrentGate
      BY <2>1, <2>2, CurrentPasses
    <3> QED
      BY <2>1, <2>2, <3>1, RefusalKeeps
  <2> QED
    BY <1>9, <2>1, <2>2, VerifiedKeeps DEF CompareInputs
<1> QED
  BY <1>1, <1>2, <1>3, <1>4, <1>5, <1>6, <1>7, <1>8, <1>9 DEF ToolStep

-----------------------------------------------------------------------------
(* What goes on around the tool.                                           *)

(* Nothing around the tool moves its place or writes its files.            *)
LEMMA AroundKeeps ==
  ASSUME ProvInv, UNCHANGED <<files, task, step, memory, outcome>>
  PROVE  Placed' /\ Written'
<1>1. /\ files' = files /\ task' = task /\ step' = step /\ outcome' = outcome
      /\ hashed' = hashed /\ left' = left /\ recorded' = recorded
  BY DEF memory
<1> QED
  BY <1>1 DEF ProvInv, Placed, Written, Text, ArtifactsMatch, Temporary

(* A checkout of the same inputs upsets nothing.                           *)
LEMMA SwitchKeeps ==
  ASSUME ProvInv, NEW w \in Worlds, SwitchWorld(w)
  PROVE  ProvInv'
<1>1. /\ world' = w /\ wasm' = wasm /\ files' = files /\ task' = task /\ step' = step
      /\ outcome' = outcome /\ hashed' = hashed /\ left' = left /\ recorded' = recorded
      /\ calm' = IF SameInputs(world, w) THEN calm ELSE {}
  BY DEF SwitchWorld, memory
<1>2. Present' = Present
  BY <1>1 DEF Present
<1>3. Typed'
  BY <1>1 DEF ProvInv, Typed
<1>4. Placed' /\ Written'
  BY AroundKeeps DEF SwitchWorld
<1>5. CASE ~ SameInputs(world, w)
  <2>1. Fresh'
    BY <1>1, <1>5 DEF Fresh
  <2>2. Kept'
    BY <1>1, <1>5 DEF Kept
  <2> QED
    BY <1>3, <1>4, <2>1, <2>2 DEF ProvInv
<1>6. CASE SameInputs(world, w)
  <2>1. /\ \A f \in BuildFields \ Context : w[f] = world[f]
        /\ w.crates = world.crates
    <3>1. world \in Worlds /\ DOMAIN world = BuildFields \cup {"crates"}
      BY WorldsAssumption DEF ProvInv, Typed
    <3>2. "crates" \notin Context
      BY DEF Context
    <3> QED
      BY <1>6, <3>1, <3>2 DEF SameInputs
  <2>2. DOMAIN recorded \subseteq BuildFields
    BY DEF ProvInv, Typed, Records
  <2>3. Fresh'
    <3>1. TrueInputs(recorded) => \A f \in DOMAIN recorded \ Context : recorded[f] = w[f]
      BY <2>1, <2>2 DEF TrueInputs
    <3> QED
      BY <1>1, <1>2, <1>6, <3>1 DEF ProvInv, Fresh, TrueInputs, TrueDigests
  <2>4. Current(files[Manifest]) => Current(files[Manifest])'
    <3> SUFFICES ASSUME Current(files[Manifest])
                 PROVE  Current(files[Manifest])'
      OBVIOUS
    <3>1. /\ files[Manifest] \in Manifests
          /\ files[Manifest].subject = TrueDigests(Present)
          /\ TrueInputs(files[Manifest].build)
      BY DEF Current
    <3>2. DOMAIN files[Manifest].build = BuildFields
      BY <3>1, ManifestParts
    <3>3. \A f \in DOMAIN files[Manifest].build \ Context : files[Manifest].build[f] = w[f]
      BY <2>1, <3>1, <3>2 DEF TrueInputs
    <3> QED
      BY <1>1, <1>2, <3>1, <3>3 DEF Current, TrueDigests, TrueInputs
  <2>5. BuiltHere => BuiltHere'
    BY <1>1, <2>1 DEF BuiltHere
  <2>6. Kept'
    BY <1>1, <1>6, <2>4, <2>5 DEF ProvInv, Kept
  <2> QED
    BY <1>3, <1>4, <2>3, <2>6 DEF ProvInv
<1> QED
  BY <1>5, <1>6

(* A build leaves the artifacts of the world it was made in.               *)
LEMMA BuildKeeps ==
  ASSUME ProvInv, Build
  PROVE  ProvInv'
<1>1. /\ world' = world /\ calm' = {"build"} /\ task' = task
      /\ files' = files /\ hashed' = hashed /\ left' = left /\ recorded' = recorded
      /\ wasm' = [n \in Names |-> IF n \in world.crates THEN world ELSE wasm[n]]
  BY DEF Build, memory
<1>2. world \in Worlds /\ world.crates \subseteq Names
  BY WorldsAssumption DEF ProvInv, Typed
<1>3. wasm' \in [Names -> Bytes \cup {Absent}]
  BY <1>1, <1>2 DEF ProvInv, Typed, Bytes
<1>4. Typed'
  BY <1>1, <1>3 DEF ProvInv, Typed
<1>5. Placed' /\ Written'
  BY AroundKeeps DEF Build
<1>6. Fresh'
  BY <1>1 DEF Fresh, ProvInv, Placed
<1>7. BuiltHere'
  BY <1>1, <1>2 DEF BuiltHere
<1>8. Kept'
  BY <1>1, <1>7 DEF Kept
<1> QED
  BY <1>4, <1>5, <1>6, <1>8 DEF ProvInv

(* Whatever is put in the directory, the run counts as upset.              *)
LEMMA ReplaceKeeps ==
  ASSUME ProvInv, NEW n \in Names, NEW bytes \in Foreign \cup {Absent}, Replace(n, bytes)
  PROVE  ProvInv'
<1>1. /\ world' = world /\ calm' = {} /\ files' = files
      /\ hashed' = hashed /\ left' = left /\ recorded' = recorded
      /\ wasm' = [wasm EXCEPT ![n] = bytes]
  BY DEF Replace, memory
<1>2. wasm' \in [Names -> Bytes \cup {Absent}]
  BY <1>1 DEF ProvInv, Typed, Bytes
<1>3. Typed'
  BY <1>1, <1>2 DEF ProvInv, Typed
<1>4. Placed' /\ Written'
  BY AroundKeeps DEF Replace
<1>5. Fresh' /\ Kept'
  BY <1>1 DEF Fresh, Kept
<1> QED
  BY <1>3, <1>4, <1>5 DEF ProvInv

-----------------------------------------------------------------------------
(* The invariant holds throughout.                                         *)
LEMMA ProvInvariance == ProvSpec => []ProvInv
<1>1. ProvInit => ProvInv
  <2> SUFFICES ASSUME ProvInit
               PROVE  ProvInv
    OBVIOUS
  <2>1. /\ world \in Worlds /\ wasm = [n \in Names |-> Absent]
        /\ files = [p \in Paths |-> Absent] /\ task = "none" /\ step = "none"
        /\ hashed = Empty /\ left = {} /\ recorded = Empty /\ outcome = "none" /\ calm = {}
    BY DEF ProvInit
  <2>2. Manifest \in Paths /\ Shasums \in Paths
    BY PathsDiffer
  <2>3. Typed
    BY <2>1, <2>2, EmptyList, FirstRecords DEF Typed, Contents
  <2>4. Placed /\ Fresh
    BY <2>1 DEF Placed, Fresh
  <2>5. Written /\ Kept
    BY <2>1 DEF Written, Kept, Writing
  <2> QED
    BY <2>3, <2>4, <2>5 DEF ProvInv
<1>2. ProvInv /\ [ProvNext]_provVars => ProvInv'
  <2> SUFFICES ASSUME ProvInv, [ProvNext]_provVars
               PROVE  ProvInv'
    OBVIOUS
  <2>1. CASE UNCHANGED provVars
    <3>1. /\ world' = world /\ wasm' = wasm /\ files' = files /\ task' = task
          /\ step' = step /\ hashed' = hashed /\ left' = left /\ recorded' = recorded
          /\ outcome' = outcome /\ calm' = calm
      BY <2>1 DEF provVars, memory
    <3>2. Present' = Present
      BY <3>1 DEF Present
    <3>3. Placed' /\ Written'
      BY <2>1, AroundKeeps DEF provVars
    <3>4. Typed'
      BY <3>1 DEF ProvInv, Typed
    <3>5. Fresh'
      BY <3>1, <3>2 DEF ProvInv, Fresh, TrueInputs, TrueDigests
    <3>6. Kept'
      BY <3>1, <3>2 DEF ProvInv, Kept, Current, BuiltHere, TrueInputs, TrueDigests
    <3> QED
      BY <3>3, <3>4, <3>5, <3>6 DEF ProvInv
  <2>2. CASE Interrupt
    <3>1. Ends("interrupted") /\ task # "none" /\ files' = files
      BY <2>2 DEF Interrupt
    <3> QED
      BY <3>1, EndsEarly
  <2> QED
    BY <2>1, <2>2, BeginKeeps, ToolKeeps, SwitchKeeps, BuildKeeps, ReplaceKeeps DEF ProvNext
<1> QED
  BY <1>1, <1>2, PTL DEF ProvSpec

(* Wherever the tool is killed or fails, neither the manifest nor SHASUMS  *)
(* is ever half-written.                                                   *)
THEOREM NoTornFiles == ProvSpec => []FilesNeverTorn
<1>1. ProvInv => FilesNeverTorn
  BY FilesAssumption DEF ProvInv, Typed, FilesNeverTorn
<1> QED
  BY <1>1, ProvInvariance, PTL

(* When generate has succeeded, SHASUMS repeats the digests of the         *)
(* manifest, whatever was rebuilt while it ran.                            *)
THEOREM ShasumsRepeatTheManifest == ProvSpec => []ShasumsAgree
<1>1. ProvInv => ShasumsAgree
  BY DEF ProvInv, Written, ShasumsAgree
<1> QED
  BY <1>1, ProvInvariance, PTL

(* What passes the gate, undisturbed while it is checked, holds exactly    *)
(* the bytes of the manifest and stands in the checkout and under the      *)
(* toolchain the manifest names, however the manifest came to be there.    *)
THEOREM GatePassesOnlyWhatIsRecorded == ProvSpec => []GateIsSound
<1>1. ProvInv => GateIsSound
  <2> SUFFICES ASSUME ProvInv, outcome = "verified", "verify" \in calm
               PROVE  /\ files[Manifest].subject = [n \in Present |-> Digest(wasm[n])]
                      /\ \A f \in BuildFields \ Context : files[Manifest].build[f] = world[f]
    BY DEF GateIsSound
  <2>1. Current(files[Manifest])
    BY DEF ProvInv, Kept
  <2>2. DOMAIN files[Manifest].build = BuildFields
    BY <2>1, ManifestParts DEF Current
  <2> QED
    BY <2>1, <2>2 DEF Current, TrueDigests, TrueInputs
<1> QED
  BY <1>1, ProvInvariance, PTL

(* What was built and passed the gate with nothing upset since the build   *)
(* comes from the inputs the manifest names.                               *)
THEOREM GateTiesBytes == ProvSpec => []GateTiesBytesToBuild
<1>1. ProvInv => GateTiesBytesToBuild
  <2> SUFFICES ASSUME ProvInv, outcome = "verified", {"build", "verify"} \subseteq calm,
                      NEW n \in world.crates
               PROVE  /\ files[Manifest].subject[n] = Digest(wasm[n])
                      /\ \A f \in BuildFields \ Context : files[Manifest].build[f] = wasm[n][f]
    BY DEF GateTiesBytesToBuild
  <2>1. Current(files[Manifest]) /\ BuiltHere
    BY DEF ProvInv, Kept
  <2>2. DOMAIN files[Manifest].build = BuildFields
    BY <2>1, ManifestParts DEF Current
  <2>3. n \in Present
    BY <2>1, WorldsAssumption, FilesAssumption DEF ProvInv, Typed, BuiltHere, Present
  <2> QED
    BY <2>1, <2>2, <2>3 DEF Current, TrueDigests, TrueInputs, BuiltHere
<1> QED
  BY <1>1, ProvInvariance, PTL

(* The gate refuses no release that nothing upset since its manifest was   *)
(* begun, however often it is asked.                                       *)
THEOREM GateAcceptsWhatIsCurrent == ProvSpec => []GateRefusesNothingCurrent
<1>1. ProvInv => GateRefusesNothingCurrent
  BY DEF ProvInv, Kept, GateRefusesNothingCurrent
<1> QED
  BY <1>1, ProvInvariance, PTL

=============================================================================
