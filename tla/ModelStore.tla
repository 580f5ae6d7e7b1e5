----------------------------- MODULE ModelStore -----------------------------
(***************************************************************************)
(* cmd/modelctl: the models directory and the manifest that pins it, and one  *)
(* modelctl process (download or pin), which may fail or be killed between    *)
(* any two file operations.  Upstream may publish other bytes, and somebody   *)
(* else may change the directory.                                            *)
(*                                                                           *)
(* A digest stands for the bytes it is of: both are a member of Versions.     *)
(* Artifacts and members are taken in any order, and two processes at once,   *)
(* which would share their temporary names, are not modelled.                 *)
(***************************************************************************)
EXTENDS Integers, FiniteSets

CONSTANTS
  Artifacts, Files,
  Outputs,        \* the files each artifact yields
  Archives,       \* artifacts with "extract"
  Built,          \* artifacts with "build"
  Versions,
  Current,        \* what upstream serves at first
  Unpinned, Absent, Partial, Nothing,
  MaxChanges      \* bound on interruptions and on what upstream and others change

ASSUME StoreAssumption ==      \* Manifest.validate, and distinct names
  /\ Outputs \in [Artifacts -> SUBSET Files]
  /\ \A a, b \in Artifacts : a # b => Outputs[a] \cap Outputs[b] = {}
  /\ Archives \subseteq Artifacts /\ Built \subseteq Artifacts \ Archives
  /\ \A a \in Artifacts \ Archives : \E f \in Files : Outputs[a] = {f}
  /\ Artifacts \cap Files = {}
  /\ Current \in Versions
  /\ Unpinned \notin Versions /\ Absent \notin Versions
  /\ Partial \notin Versions \cup {Absent}
  /\ Nothing \notin Artifacts \cup Files
  /\ MaxChanges \in Nat

VARIABLES
  file,       \* what is at each output's name
  part,       \* what is at each temporary name
  manifest,   \* the digests on disk: of each file, and of each archive
  upstream,   \* what each artifact's URL serves
  cmd, stage, todo, doing, left, member, mem,   \* the process
  touched,    \* whether others changed a file since the process started
  changes

process == <<cmd, stage, todo, doing, left, member, mem>>
vars == <<file, part, manifest, upstream, process, touched, changes>>

Contents == Versions \cup {Absent, Partial}
Pins == [Files \cup Archives -> Versions \cup {Unpinned}]

TypeOK ==
  /\ file \in [Files -> Contents]
  /\ part \in [Artifacts \cup Files -> Contents]
  /\ manifest \in Pins /\ mem \in Pins
  /\ upstream \in [Artifacts -> Versions]
  /\ cmd \in {"none", "download", "pin", "repin"}
  /\ stage \in {"next", "copy", "install", "extract", "member", "rename"}
  /\ todo \subseteq Artifacts
  /\ doing \in Artifacts \cup {Nothing}
  /\ left \subseteq Files
  /\ member \in Files \cup {Nothing}
  /\ touched \in BOOLEAN
  /\ changes \in Nat

(* A fresh checkout: a manifest with or without the digests of what upstream serves. *)
Init ==
  /\ file = [f \in Files |-> Absent]
  /\ part = [n \in Artifacts \cup Files |-> Absent]
  /\ upstream = [a \in Artifacts |-> Current]
  /\ manifest \in [Files \cup Archives -> {Unpinned, Current}]
  /\ \A a \in Archives : \A f \in Outputs[a] : manifest[f] = manifest[a]
  /\ mem = manifest
  /\ cmd = "none" /\ stage = "next" /\ todo = {} /\ doing = Nothing
  /\ left = {} /\ member = Nothing
  /\ touched = FALSE /\ changes = 0

(* The name a downloaded file's digest is recorded under. *)
Digest(a) == IF a \in Archives THEN a ELSE CHOOSE f \in Files : Outputs[a] = {f}

Matches(pins, f) == pins[f] # Unpinned /\ file[f] = pins[f]

Satisfied(pins, a) == \A f \in Outputs[a] : Matches(pins, f)

Pinning == cmd \in {"pin", "repin"}

----------------------------------------------------------------------------
Start(c) ==
  /\ cmd = "none"
  /\ cmd' = c /\ stage' = "next" /\ todo' = Artifacts /\ mem' = manifest
  /\ touched' = FALSE
  /\ UNCHANGED <<file, part, manifest, upstream, doing, left, member, changes>>

(* Seeded defect: a file that is there is taken for the right one. *)
PresentOrPinned(a) ==
  \/ cmd = "download" /\ \A f \in Outputs[a] : file[f] # Absent
  \/ cmd = "pin" /\ mem[Digest(a)] # Unpinned /\ Satisfied(mem, a)

UpToDate(a) ==
  \/ cmd = "download" /\ Satisfied(mem, a)
  \/ cmd = "pin" /\ mem[Digest(a)] # Unpinned /\ Satisfied(mem, a)

At(a) == cmd # "none" /\ stage = "next" /\ a \in todo

Skip(a) ==
  /\ At(a)
  /\ UpToDate(a)
  /\ todo' = todo \ {a}
  /\ UNCHANGED <<file, part, manifest, upstream, cmd, stage, doing, left, member, mem,
                 touched, changes>>

(* Seeded defect: a built artifact that is not there is pinned all the same. *)
PinBuiltUnchecked(a) ==
  /\ At(a)
  /\ ~UpToDate(a)
  /\ a \in Built /\ Pinning
  /\ mem' = [mem EXCEPT ![Digest(a)] = file[Digest(a)]]
  /\ todo' = todo \ {a}
  /\ UNCHANGED <<file, part, manifest, upstream, cmd, stage, doing, left, member,
                 touched, changes>>

(* pin of a locally built artifact; download reports it missing: see Fails. *)
PinBuilt(a) ==
  /\ At(a)
  /\ ~UpToDate(a)
  /\ a \in Built /\ Pinning
  /\ file[Digest(a)] # Absent
  /\ mem' = [mem EXCEPT ![Digest(a)] = file[Digest(a)]]
  /\ todo' = todo \ {a}
  /\ UNCHANGED <<file, part, manifest, upstream, cmd, stage, doing, left, member,
                 touched, changes>>

(* os.Create truncates what a killed process left. *)
Fetch(a) ==
  /\ At(a)
  /\ ~UpToDate(a)
  /\ a \notin Built
  /\ part' = [part EXCEPT ![a] = Partial]
  /\ doing' = a /\ stage' = "copy"
  /\ UNCHANGED <<file, manifest, upstream, cmd, todo, left, member, mem, touched, changes>>

(* Seeded defect: a digest nobody recorded matches anything. *)
ExpectedOrUnpinned(name, got) ==
  cmd = "download" => mem[name] \in {Unpinned, got}

(* matches, which pin does not ask. *)
Expected(name, got) == cmd = "download" => mem[name] = got

Copied ==
  /\ stage = "copy"
  /\ Expected(Digest(doing), upstream[doing])
  /\ part' = [part EXCEPT ![doing] = upstream[doing]]
  /\ IF doing \in Archives
     THEN stage' = "extract" /\ left' = Outputs[doing]
     ELSE stage' = "install" /\ left' = left
  /\ UNCHANGED <<file, manifest, upstream, cmd, todo, doing, member, mem, touched, changes>>

Done(observed) ==
  /\ mem' = IF Pinning THEN [n \in DOMAIN mem |-> IF n \in observed THEN part[doing] ELSE mem[n]]
            ELSE mem
  /\ todo' = todo \ {doing} /\ doing' = Nothing /\ stage' = "next"

(* The download is the model: it is renamed into place. *)
Install ==
  /\ stage = "install"
  /\ file' = [file EXCEPT ![Digest(doing)] = part[doing]]
  /\ part' = [part EXCEPT ![doing] = Absent]
  /\ Done({Digest(doing)})
  /\ UNCHANGED <<manifest, upstream, cmd, left, member, touched, changes>>

(* Seeded defect: the member is written straight to its final name. *)
ExtractInPlace(f) ==
  /\ stage = "extract" /\ f \in left
  /\ file' = [file EXCEPT ![f] = Partial]
  /\ part' = [part EXCEPT ![f] = Partial]
  /\ member' = f /\ stage' = "member"
  /\ UNCHANGED <<manifest, upstream, cmd, todo, doing, left, mem, touched, changes>>

Extract(f) ==
  /\ stage = "extract" /\ f \in left
  /\ part' = [part EXCEPT ![f] = Partial]
  /\ member' = f /\ stage' = "member"
  /\ UNCHANGED <<file, manifest, upstream, cmd, todo, doing, left, mem, touched, changes>>

ExtractOne ==
  /\ stage = "member"
  /\ Expected(member, part[doing])
  /\ part' = [part EXCEPT ![member] = part[doing]]
  /\ stage' = "rename"
  /\ UNCHANGED <<file, manifest, upstream, cmd, todo, doing, left, member, mem, touched, changes>>

RenameMember ==
  /\ stage = "rename"
  /\ file' = [file EXCEPT ![member] = part[member]]
  /\ part' = [part EXCEPT ![member] = Absent]
  /\ left' = left \ {member} /\ member' = Nothing /\ stage' = "extract"
  /\ UNCHANGED <<manifest, upstream, cmd, todo, doing, mem, touched, changes>>

(* Seeded defect: the digest of the archive is recorded, its members' are not. *)
ExtractedUnrecorded ==
  /\ stage = "extract" /\ left = {}
  /\ part' = [part EXCEPT ![doing] = Absent]
  /\ Done({doing})
  /\ UNCHANGED <<file, manifest, upstream, cmd, left, member, touched, changes>>

(* The archive is removed, and what was observed is recorded. *)
Extracted ==
  /\ stage = "extract" /\ left = {}
  /\ part' = [part EXCEPT ![doing] = Absent]
  /\ Done({doing} \cup Outputs[doing])
  /\ UNCHANGED <<file, manifest, upstream, cmd, left, member, touched, changes>>

Over ==
  /\ cmd' = "none" /\ stage' = "next" /\ todo' = {} /\ doing' = Nothing
  /\ left' = {} /\ member' = Nothing /\ mem' = mem

(* download ends with verify, which only reads. *)
Verified == \A a \in Artifacts : Satisfied(manifest, a)

Finish ==
  /\ cmd = "download" /\ stage = "next" /\ todo = {}
  /\ Over
  /\ UNCHANGED <<file, part, manifest, upstream, touched, changes>>

(* The new manifest is renamed over the old one. *)
SaveManifest ==
  /\ Pinning /\ stage = "next" /\ todo = {}
  /\ manifest' = mem
  /\ Over
  /\ UNCHANGED <<file, part, upstream, touched, changes>>

(* What makes a run fail whatever it is given: a built artifact that is not there, *)
(* a digest that is not the recorded one.                                        *)
Refused ==
  \/ \E a \in todo \cap Built :
       /\ stage = "next" /\ ~UpToDate(a)
       /\ Pinning => file[Digest(a)] = Absent
  \/ stage = "copy" /\ ~Expected(Digest(doing), upstream[doing])
  \/ stage = "member" /\ ~Expected(member, part[doing])

(* The network, an archive without the entry, a full disk or a signal are counted  *)
(* with the changes.                                                             *)
Interrupted == changes < MaxChanges /\ changes' = changes + 1

(* Temporary files of the artifact are removed; what was installed stays, and what *)
(* pin observed is lost.                                                         *)
Fails ==
  /\ cmd # "none"
  /\ Interrupted \/ (Refused /\ changes' = changes)
  /\ part' = [n \in DOMAIN part |-> IF n \in {doing, member} THEN Absent ELSE part[n]]
  /\ Over
  /\ UNCHANGED <<file, manifest, upstream, touched>>

Killed ==
  /\ cmd # "none"
  /\ Interrupted
  /\ Over
  /\ UNCHANGED <<file, part, manifest, upstream, touched>>

----------------------------------------------------------------------------
(* The environment. *)
Publish(a, v) ==
  /\ changes < MaxChanges /\ changes' = changes + 1
  /\ v # upstream[a]
  /\ upstream' = [upstream EXCEPT ![a] = v]
  /\ UNCHANGED <<file, part, manifest, process, touched>>

(* A local build, a copied or a deleted file. *)
Replace(f, content) ==
  /\ changes < MaxChanges /\ changes' = changes + 1
  /\ content # file[f]
  /\ file' = [file EXCEPT ![f] = content]
  /\ touched' = TRUE
  /\ UNCHANGED <<part, manifest, upstream, process>>

Step(a) ==
  \/ Skip(a) \/ PinBuilt(a) \/ Fetch(a)
  \/ doing = a /\ \/ Copied \/ Install
                  \/ \E f \in Files : Extract(f)
                  \/ ExtractOne \/ RenameMember \/ Extracted

Next ==
  \/ \E c \in {"download", "pin", "repin"} : Start(c)
  \/ \E a \in Artifacts : Step(a)
  \/ Finish \/ SaveManifest \/ Fails \/ Killed
  \/ \E a \in Artifacts, v \in Versions : Publish(a, v)
  \/ \E f \in Files, content \in Versions \cup {Absent} : Replace(f, content)

Spec == Init /\ [][Next]_vars

(* Somebody keeps running download, and a process that is not interrupted goes on. *)
Fairness ==
  /\ SF_vars(Start("download"))
  /\ WF_vars(\E a \in Artifacts : Step(a))
  /\ WF_vars(Finish) /\ WF_vars(SaveManifest) /\ WF_vars(Fails)

FairSpec == Spec /\ Fairness
----------------------------------------------------------------------------
(* "Nothing is ever written straight to its final name": whatever is at a final *)
(* name is whole, wherever a process was stopped.                               *)
NothingHalfWritten == \A f \in Files : file[f] # Partial

(* download changes a file only into what the manifest pins, so a run that      *)
(* fails or is killed half way never unverifies what verified before.           *)
DownloadOnlyRepairs ==
  [][cmd = "download" /\ changes' = changes =>
       \A f \in Files : file'[f] # file[f] => file'[f] = manifest[f]]_vars

(* A manifest that pin writes describes the directory it leaves, unless others   *)
(* changed it meanwhile: verify would succeed.                                  *)
PinsDescribeDisk ==
  [][manifest' # manifest /\ ~touched =>
       \A a \in Artifacts : \A f \in Outputs[a] : manifest'[f] = file'[f]]_vars

(* While upstream serves what is pinned and built models are in place, running   *)
(* download again and again completes the directory, whatever was interrupted.  *)
Obtainable ==
  \A a \in Artifacts :
    /\ \A f \in Outputs[a] : manifest[f] # Unpinned
    /\ IF a \in Built THEN Satisfied(manifest, a) ELSE upstream[a] = manifest[Digest(a)]
EventuallyVerified == <>[]Obtainable => []<>Verified
=============================================================================
