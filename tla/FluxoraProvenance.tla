-------------------------- MODULE FluxoraProvenance --------------------------
(***************************************************************************)
(* The provenance tool (tools/provenance/src/lib.rs): generate records     *)
(* which bytes the release directory holds and which inputs they were      *)
(* built from; verify is the gate that compares both again before a        *)
(* release.                                                                *)
(*                                                                         *)
(* Neither is atomic.  Each artifact is hashed, each input is read and     *)
(* each file is written by a call of its own; between two of them the      *)
(* checkout, the toolchain and the directory may change, and the tool may  *)
(* be killed, or find a command or the disk failing.  One instance of it   *)
(* runs at a time, as script/provenance.sh runs it, and nothing else       *)
(* writes its two files.                                                   *)
(***************************************************************************)
EXTENDS Integers, Sequences, FiniteSets

CONSTANTS
  Names,        \* file names *.wasm, numbered in the order they sort
  Worlds,       \* checkouts with a toolchain: a value for every field below
  Foreign,      \* bytes no build of these worlds produces
  Absent,       \* what is where there is no file
  Half,         \* what is in a file that is being written
  MaxChanges    \* bound: times the world, the directory or the tool is upset

(* What collect_metadata reads, in its order.                              *)
Inputs ==
  <<"git_revision", "git_ref", "git_dirty", "toolchain_channel", "rustc",
    "cargo", "soroban_sdk", "host", "profile">>

BuildFields == {"target"} \cup {Inputs[k] : k \in DOMAIN Inputs}

(* What does not identify a build: kept for the reader of a manifest.      *)
Context == {"git_ref", "git_dirty", "host"}

(* Mutant: the branch is compared as well.                                 *)
PinnedWithRef ==
  {"target", "git_revision", "git_ref", "rustc", "cargo", "soroban_sdk",
   "toolchain_channel", "profile"}

(* What verify compares.                                                   *)
Pinned ==
  {"target", "git_revision", "rustc", "cargo", "soroban_sdk",
   "toolchain_channel", "profile"}

(* crates: the artifacts a build of this workspace produces.               *)
ASSUME WorldsAssumption ==
  /\ Names \subseteq Nat /\ IsFiniteSet(Names)
  /\ MaxChanges \in Nat
  /\ \A w \in Worlds :
       DOMAIN w = BuildFields \cup {"crates"} /\ w.crates \subseteq Names

VARIABLES
  world,     \* what is checked out and installed
  wasm,      \* *.wasm in the release directory: the world each was built in
  files,     \* the two files of the tool and their temporary twins
  task,      \* "generate" or "verify", or "none"
  step,      \* the call it makes next
  hashed,    \* the digests computed so far, by name
  left,      \* the names listed and not yet hashed
  recorded,  \* the inputs read so far
  outcome,   \* how the last run of the tool ended
  calm,      \* history: what nothing has upset since it began
  changes    \* counts what MaxChanges bounds

memory == <<hashed, left, recorded>>
provVars == <<world, wasm, files, task, step, memory, outcome, calm, changes>>

Manifest == "provenance.json"
Shasums == "SHASUMS"

Empty == [x \in {} |-> Absent]
With(f, x, v) == [y \in DOMAIN f \cup {x} |-> IF y = x THEN v ELSE f[y]]

(* sha256_hex: different bytes, different digests.                         *)
Digest(bytes) == [sha256 |-> bytes]

(* What a file of the tool may hold when it is whole.                      *)
Values == UNION {{w[f] : f \in BuildFields} : w \in Worlds}
DigestLists == UNION {[S -> {Digest(b) : b \in Worlds \cup Foreign}] : S \in SUBSET Names}
Manifests == [subject: DigestLists, build: [BuildFields -> Values]]

(* A missing or half-written file is not mistaken for a whole one.         *)
ASSUME FilesAssumption ==
  /\ Absent # Half /\ Absent \notin Worlds \cup Foreign
  /\ \A c \in {Absent, Half} : c \notin Manifests /\ c \notin DigestLists

Present == {n \in Names : wasm[n] # Absent}

(* Mutant: a file is written where it belongs.                             *)
TemporaryInPlace(path) == path

(* write_atomic: a temporary file in the same directory.                   *)
Temporary(path) ==
  IF path = Manifest THEN ".provenance.json.tmp" ELSE ".SHASUMS.tmp"

Paths == {Manifest, Shasums, Temporary(Manifest), Temporary(Shasums)}

ProvInit ==
  /\ world \in Worlds
  /\ wasm = [n \in Names |-> Absent]
  /\ files = [p \in Paths |-> Absent]
  /\ task = "none" /\ step = "none"
  /\ hashed = Empty /\ left = {} /\ recorded = Empty
  /\ outcome = "none"
  /\ calm = {}
  /\ changes = 0

-----------------------------------------------------------------------------
(* What both commands do.                                                  *)

(* Nothing but the tool's own place and memory moves.                      *)
Reads == UNCHANGED <<world, wasm, files, task, outcome, calm, changes>>

Ends(how) ==
  /\ task' = "none" /\ step' = "none"
  /\ hashed' = Empty /\ left' = {} /\ recorded' = Empty
  /\ outcome' = how
  /\ calm' = IF task = "generate" /\ how # "generated"
             THEN calm \ {"generate"} ELSE calm
  /\ UNCHANGED <<world, wasm>>

Refuses == Ends("refused") /\ UNCHANGED <<files, changes>>

(* The target is an argument: script/provenance.sh passes the world's.     *)
Begins(command, first) ==
  /\ task = "none"
  /\ task' = command /\ step' = first
  /\ recorded' = [f \in {"target"} |-> world.target]
  /\ outcome' = "none"
  /\ UNCHANGED <<world, wasm, files, hashed, left, changes>>

(* list_wasm_files; only generate insists on finding some.                 *)
ListArtifacts ==
  /\ step = "list"
  /\ \/ /\ task = "generate" => Present # {}
        /\ left' = Present /\ step' = "hash"
        /\ Reads /\ UNCHANGED <<hashed, recorded>>
     \/ task = "generate" /\ Present = {} /\ Refuses

(* hash_file of the next in order; gone since the listing is an error.     *)
HashArtifact ==
  /\ step = "hash"
  /\ \E n \in left :
       /\ \A m \in left : n <= m
       /\ \/ /\ n \in Present
             /\ hashed' = With(hashed, n, Digest(wasm[n]))
             /\ left' = left \ {n}
             /\ Reads /\ UNCHANGED <<step, recorded>>
          \/ n \notin Present /\ Refuses

(* One command, or one file, for each input.                               *)
ReadInput ==
  /\ step = "inputs"
  /\ \E k \in DOMAIN Inputs :
       /\ DOMAIN recorded = {"target"} \cup {Inputs[j] : j \in 1 .. k - 1}
       /\ recorded' = With(recorded, Inputs[k], world[Inputs[k]])
  /\ Reads /\ UNCHANGED <<step, hashed, left>>

AllRead == step = "inputs" /\ DOMAIN recorded = BuildFields

-----------------------------------------------------------------------------
(* generate.                                                               *)

(* Mutant: a manifest that exists is not overwritten.                      *)
BeginGenerateOnce ==
  /\ files[Manifest] = Absent
  /\ Begins("generate", "list")
  /\ calm' = (calm \ {"verify"}) \cup {"generate"}

BeginGenerate ==
  /\ Begins("generate", "list")
  /\ calm' = (calm \ {"verify"}) \cup {"generate"}

ArtifactsCollected ==
  /\ task = "generate" /\ step = "hash" /\ left = {}
  /\ step' = "inputs"
  /\ Reads /\ UNCHANGED memory

(* Mutant: the artifacts are hashed again for SHASUMS.                     *)
TextHashedAgain(path) ==
  IF path = Manifest THEN [subject |-> hashed, build |-> recorded]
  ELSE [n \in Present |-> Digest(wasm[n])]

(* shasums_text repeats the digests of the manifest.                       *)
Text(path) ==
  IF path = Manifest THEN [subject |-> hashed, build |-> recorded] ELSE hashed

(* The calls of write_atomic: create, fill, rename.                        *)
Stores(path, content) ==
  /\ files' = [files EXCEPT ![Temporary(path)] = content]
  /\ UNCHANGED <<world, wasm, task, memory, outcome, calm, changes>>

Renamed(path) ==
  [p \in Paths |-> IF p = path THEN files[Temporary(path)]
                   ELSE IF p = Temporary(path) THEN Absent ELSE files[p]]

WriteManifest ==
  \/ task = "generate" /\ AllRead /\ step' = "fill manifest" /\ Stores(Manifest, Half)
  \/ step = "fill manifest" /\ step' = "rename manifest" /\ Stores(Manifest, Text(Manifest))
  \/ /\ step = "rename manifest" /\ step' = "create shasums"
     /\ files' = Renamed(Manifest)
     /\ UNCHANGED <<world, wasm, task, memory, outcome, calm, changes>>

WriteShasums ==
  \/ step = "create shasums" /\ step' = "fill shasums" /\ Stores(Shasums, Half)
  \/ step = "fill shasums" /\ step' = "rename shasums" /\ Stores(Shasums, Text(Shasums))
  \/ /\ step = "rename shasums"
     /\ files' = Renamed(Shasums)
     /\ Ends("generated") /\ UNCHANGED changes

-----------------------------------------------------------------------------
(* verify.                                                                 *)

BeginVerify ==
  /\ Begins("verify", "open")
  /\ calm' = calm \cup {"verify"}

(* No manifest, or one that does not parse, is refused.                    *)
OpenManifest ==
  /\ step = "open"
  /\ \/ /\ files[Manifest] \notin {Absent, Half}
        /\ step' = "list"
        /\ Reads /\ UNCHANGED memory
     \/ files[Manifest] \in {Absent, Half} /\ Refuses

(* Mutant: the names of the artifacts are compared.                        *)
ArtifactsMatchNames(subject) == DOMAIN hashed = DOMAIN subject

(* Mutant: artifacts the manifest does not list are not noticed.           *)
ArtifactsMatchListed(subject) ==
  \A n \in DOMAIN subject : n \in DOMAIN hashed /\ hashed[n] = subject[n]

(* Integrity and completeness.                                             *)
ArtifactsMatch(subject) ==
  /\ \A n \in DOMAIN subject : n \in DOMAIN hashed /\ hashed[n] = subject[n]
  /\ DOMAIN hashed \subseteq DOMAIN subject

CompareArtifacts ==
  /\ task = "verify" /\ step = "hash" /\ left = {}
  /\ \/ /\ ArtifactsMatch(files[Manifest].subject)
        /\ step' = "inputs"
        /\ Reads /\ UNCHANGED memory
     \/ ~ ArtifactsMatch(files[Manifest].subject) /\ Refuses

(* check_field for each of the pinned inputs.                              *)
InputsMatch(build) == \A f \in Pinned : build[f] = recorded[f]

CompareInputs ==
  /\ task = "verify" /\ AllRead
  /\ \/ /\ InputsMatch(files[Manifest].build)
        /\ Ends("verified") /\ UNCHANGED <<files, changes>>
     \/ ~ InputsMatch(files[Manifest].build) /\ Refuses

-----------------------------------------------------------------------------
(* What goes on around the tool.                                           *)

SameInputs(v, w) == \A f \in DOMAIN v \ Context : v[f] = w[f]

Upset == changes < MaxChanges /\ changes' = changes + 1

(* A checkout, an edit, a branch renamed, a toolchain installed.           *)
SwitchWorld(w) ==
  /\ Upset
  /\ w # world /\ world' = w
  /\ calm' = IF SameInputs(world, w) THEN calm ELSE {}
  /\ UNCHANGED <<wasm, files, task, step, memory, outcome>>

(* cargo build leaves alone what other workspaces left in the directory.   *)
Build ==
  /\ Upset
  /\ wasm' = [n \in Names |-> IF n \in world.crates THEN world ELSE wasm[n]]
  /\ calm' = {"build"}
  /\ UNCHANGED <<world, files, task, step, memory, outcome>>

(* An artifact is removed, or comes from elsewhere.                        *)
Replace(n, bytes) ==
  /\ Upset
  /\ wasm[n] # bytes /\ wasm' = [wasm EXCEPT ![n] = bytes]
  /\ calm' = {}
  /\ UNCHANGED <<world, files, task, step, memory, outcome>>

(* The tool is killed, or a command, a read or a write fails.              *)
Interrupt ==
  /\ Upset
  /\ task # "none" /\ Ends("interrupted")
  /\ UNCHANGED files

-----------------------------------------------------------------------------
ToolStep ==
  \/ ListArtifacts \/ HashArtifact \/ ReadInput
  \/ ArtifactsCollected \/ WriteManifest \/ WriteShasums
  \/ OpenManifest \/ CompareArtifacts \/ CompareInputs

ProvNext ==
  \/ BeginGenerate
  \/ BeginVerify
  \/ ToolStep
  \/ \E w \in Worlds : SwitchWorld(w)
  \/ Build
  \/ \E n \in Names, bytes \in Foreign \cup {Absent} : Replace(n, bytes)
  \/ Interrupt

(* The tool finishes what it does, and whoever prepares a release keeps    *)
(* generating and verifying.                                               *)
ProvFairness == WF_provVars(ToolStep) /\ SF_provVars(BeginGenerate) /\ SF_provVars(BeginVerify)

ProvSpec == ProvInit /\ [][ProvNext]_provVars /\ ProvFairness

-----------------------------------------------------------------------------
(* write_atomic: "a crash mid-write never leaves a half-written manifest   *)
(* that a release gate could mistake for a valid one", wherever the tool   *)
(* is killed, and the same of SHASUMS.                                     *)
FilesNeverTorn == Half \notin {files[Manifest], files[Shasums]}

(* generate having succeeded, SHASUMS lists exactly the digests of the     *)
(* manifest, whatever was rebuilt while it ran.                            *)
ShasumsAgree ==
  outcome = "generated" => files[Shasums] = files[Manifest].subject

(* A release that passes the gate, undisturbed while it was checked, holds *)
(* the bytes of the manifest and nothing else, and stands in the checkout  *)
(* and under the toolchain the manifest names, however the manifest came   *)
(* to be there.                                                            *)
GateIsSound ==
  outcome = "verified" /\ "verify" \in calm =>
    /\ files[Manifest].subject = [n \in Present |-> Digest(wasm[n])]
    /\ \A f \in BuildFields \ Context : files[Manifest].build[f] = world[f]

(* "tying its bytes to the exact inputs of the build": if nothing has been *)
(* upset since the last build, what it built and the gate passed comes     *)
(* from the inputs the manifest names.                                     *)
GateTiesBytesToBuild ==
  outcome = "verified" /\ {"build", "verify"} \subseteq calm =>
    \A n \in world.crates :
      /\ files[Manifest].subject[n] = Digest(wasm[n])
      /\ \A f \in BuildFields \ Context : files[Manifest].build[f] = wasm[n][f]

(* The gate refuses no release that nothing upset since its manifest was   *)
(* begun; that only the branch, the host or the dirtiness of the tree      *)
(* changed does not upset it ("a ref is context, not identity").           *)
GateRefusesNothingCurrent ==
  {"generate", "verify"} \subseteq calm /\ task = "none" => outcome # "refused"

(* generate: "re-running after a rebuild is the recovery path".  From      *)
(* whatever an interruption, a rebuild or a checkout left behind, a        *)
(* release with artifacts in it passes in the end.                         *)
RegeneratingRecovers == Present # {} ~> outcome = "verified" \/ Present = {}

=============================================================================
