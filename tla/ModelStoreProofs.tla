-------------------------- MODULE ModelStoreProofs --------------------------
(***************************************************************************)
(* For any artifacts, files and number of interruptions: nothing half        *)
(* written is ever at a final name, download changes a file only into what   *)
(* the manifest pins, and pin pins what is there.                            *)
(***************************************************************************)
EXTENDS ModelStore, TLAPS

Busy == {"copy", "install", "extract", "member", "rename"}
Whole == {"install", "extract", "member", "rename"}
Unpacking == {"extract", "member", "rename"}

(* What the process is at, and what is whole by then. *)
Working ==
  /\ stage \in Busy => doing \in todo \ Built /\ cmd # "none"
  /\ stage = "install" => doing \notin Archives
  /\ stage \in Unpacking => doing \in Archives /\ left \subseteq Outputs[doing]
  /\ stage \in Whole => part[doing] \in Versions
  /\ stage \in {"member", "rename"} => member \in left
  /\ stage = "rename" => part[member] \in Versions

(* download works from the manifest on disk, and has checked what it installs. *)
Checked ==
  cmd = "download" =>
    /\ mem = manifest
    /\ stage = "install" => part[doing] = manifest[Digest(doing)]
    /\ stage = "rename" => part[member] = manifest[member]

StoreInv == TypeOK /\ NothingHalfWritten /\ Working /\ Checked

LEMMA DigestIsAFile ==
  ASSUME StoreAssumption, NEW a \in Artifacts \ Archives
  PROVE  Digest(a) \in Files
BY DEF StoreAssumption, Digest

LEMMA DigestIsPinned ==
  ASSUME StoreAssumption, NEW a \in Artifacts
  PROVE  Digest(a) \in Files \cup Archives
BY DigestIsAFile DEF Digest

LEMMA StoreInit == StoreAssumption /\ Init => StoreInv
<1> SUFFICES ASSUME StoreAssumption, Init PROVE StoreInv
  OBVIOUS
<1>1. manifest \in Pins
  BY DEF Init, Pins, StoreAssumption
<1>2. TypeOK
  BY <1>1 DEF Init, TypeOK, Contents, StoreAssumption
<1>3. NothingHalfWritten /\ Working /\ Checked
  BY DEF Init, NothingHalfWritten, Working, Checked, Busy, Whole, Unpacking, StoreAssumption
<1> QED BY <1>2, <1>3 DEF StoreInv

(* A file is installed or renamed whole, and under its own name. *)
LEMMA WholeFiles ==
  ASSUME StoreAssumption, StoreInv, NEW f \in Files, NEW v \in Versions,
         file' = [file EXCEPT ![f] = v]
  PROVE  NothingHalfWritten' /\ file' \in [Files -> Contents]
BY DEF StoreInv, TypeOK, NothingHalfWritten, Contents, StoreAssumption

(* pin records whole contents. *)
LEMMA Recorded ==
  ASSUME StoreAssumption, StoreInv, NEW observed, part[doing] \in Versions, Done(observed)
  PROVE  mem' \in Pins
BY DEF StoreInv, TypeOK, Pins, Done

LEMMA StepInv ==
  ASSUME StoreAssumption, StoreInv, NEW a \in Artifacts, Step(a)
  PROVE  StoreInv'
<1> USE DEF StoreInv
<1>1. CASE Skip(a)
  <2>1. TypeOK' /\ NothingHalfWritten' /\ Checked'
    BY <1>1 DEF Skip, TypeOK, NothingHalfWritten, Checked
  <2>2. Working'
    BY <1>1 DEF Skip, At, Working, Busy, Whole, Unpacking
  <2> QED BY <2>1, <2>2
<1>2. CASE PinBuilt(a)
  <2>1. Digest(a) \in Files /\ file[Digest(a)] \in Versions
    BY <1>2, DigestIsAFile DEF PinBuilt, TypeOK, NothingHalfWritten, Contents, StoreAssumption
  <2>2. TypeOK'
    BY <1>2, <2>1 DEF PinBuilt, TypeOK, Pins
  <2>3. NothingHalfWritten' /\ Checked' /\ Working'
    BY <1>2 DEF PinBuilt, At, Pinning, NothingHalfWritten, Checked, Working, Busy, Whole, Unpacking
  <2> QED BY <2>2, <2>3
<1>3. CASE Fetch(a)
  <2>1. TypeOK'
    BY <1>3 DEF Fetch, TypeOK, Contents
  <2>2. NothingHalfWritten' /\ Checked' /\ Working'
    BY <1>3 DEF Fetch, At, NothingHalfWritten, Checked, Working, Busy, Whole, Unpacking
  <2> QED BY <2>1, <2>2
<1>4. CASE doing = a /\ Copied
  <2>1. TypeOK'
    BY <1>4 DEF Copied, TypeOK, Contents, StoreAssumption
  <2>2. part'[doing] = upstream[doing] /\ upstream[doing] \in Versions
    BY <1>4 DEF Copied, TypeOK
  <2>3. NothingHalfWritten' /\ Checked'
    BY <1>4, <2>2 DEF Copied, Expected, NothingHalfWritten, Checked
  <2>4. Working'
    BY <1>4, <2>2 DEF Copied, Working, Busy, Whole, Unpacking
  <2> QED BY <2>1, <2>3, <2>4
<1>5. CASE doing = a /\ Install
  <2>1. a \notin Archives /\ Digest(a) \in Files /\ part[a] \in Versions
    BY <1>5, DigestIsAFile DEF Install, Working, Busy, Whole
  <2>2. NothingHalfWritten' /\ file' \in [Files -> Contents]
    BY <1>5, <2>1, WholeFiles DEF Install
  <2>3. mem' \in Pins
    BY <1>5, <2>1, Recorded DEF Install
  <2>4. TypeOK'
    BY <1>5, <2>2, <2>3 DEF Install, Done, TypeOK, Contents
  <2>5. Checked' /\ Working'
    BY <1>5 DEF Install, Done, Pinning, Checked, Working, Busy, Whole, Unpacking
  <2> QED BY <2>2, <2>4, <2>5
<1>6. ASSUME NEW f \in Files, doing = a, Extract(f) PROVE StoreInv'
  <2>1. TypeOK'
    BY <1>6 DEF Extract, TypeOK, Contents
  <2>2. part'[doing] = part[doing]
    BY <1>6 DEF Extract, TypeOK, StoreAssumption
  <2>3. NothingHalfWritten' /\ Checked' /\ Working'
    BY <1>6, <2>2 DEF Extract, NothingHalfWritten, Checked, Working, Busy, Whole, Unpacking
  <2> QED BY <2>1, <2>3
<1>7. CASE doing = a /\ ExtractOne
  <2>1. member \in Files /\ part[doing] \in Versions /\ doing # member
    BY <1>7 DEF ExtractOne, Working, Whole, TypeOK, StoreAssumption
  <2>2. part'[member] = part[doing] /\ part'[doing] = part[doing]
    BY <1>7, <2>1 DEF ExtractOne, TypeOK
  <2>3. TypeOK'
    BY <1>7, <2>1 DEF ExtractOne, TypeOK, Contents
  <2>4. NothingHalfWritten' /\ Checked' /\ Working'
    BY <1>7, <2>1, <2>2 DEF ExtractOne, Expected, NothingHalfWritten, Checked, Working, Busy, Whole, Unpacking
  <2> QED BY <2>3, <2>4
<1>8. CASE doing = a /\ RenameMember
  <2>1. member \in Files /\ part[member] \in Versions /\ doing # member
    BY <1>8 DEF RenameMember, Working, TypeOK, StoreAssumption
  <2>2. NothingHalfWritten' /\ file' \in [Files -> Contents]
    BY <1>8, <2>1, WholeFiles DEF RenameMember
  <2>3. part'[doing] = part[doing]
    BY <1>8, <2>1 DEF RenameMember, TypeOK
  <2>4. TypeOK'
    BY <1>8, <2>2 DEF RenameMember, TypeOK, Contents
  <2>5. Checked' /\ Working'
    BY <1>8, <2>3 DEF RenameMember, Checked, Working, Busy, Whole, Unpacking
  <2> QED BY <2>2, <2>4, <2>5
<1>9. CASE doing = a /\ Extracted
  <2>1. part[doing] \in Versions
    BY <1>9 DEF Extracted, Working, Whole
  <2>2. mem' \in Pins
    BY <1>9, <2>1, Recorded DEF Extracted
  <2>3. TypeOK'
    BY <1>9, <2>2 DEF Extracted, Done, TypeOK, Contents
  <2>4. NothingHalfWritten' /\ Checked' /\ Working'
    BY <1>9 DEF Extracted, Done, Pinning, NothingHalfWritten, Checked, Working, Busy, Whole, Unpacking
  <2> QED BY <2>3, <2>4
<1> QED BY <1>1, <1>2, <1>3, <1>4, <1>5, <1>6, <1>7, <1>8, <1>9 DEF Step

LEMMA ProcessInv ==
  ASSUME StoreAssumption, StoreInv,
         \/ \E c \in {"download", "pin", "repin"} : Start(c)
         \/ Finish \/ SaveManifest \/ Fails \/ Killed
  PROVE  StoreInv'
<1> USE DEF StoreInv
<1>1. ASSUME NEW c \in {"download", "pin", "repin"}, Start(c) PROVE StoreInv'
  BY <1>1 DEF Start, TypeOK, NothingHalfWritten, Working, Checked, Busy, Whole, Unpacking
<1>2. ASSUME Over, TypeOK' PROVE Working' /\ Checked'
  BY <1>2 DEF Over, Working, Checked, Busy, Whole, Unpacking
<1>3. CASE Finish \/ SaveManifest
  BY <1>2, <1>3 DEF Finish, SaveManifest, Over, TypeOK, NothingHalfWritten
<1>4. CASE Fails
  <2>1. part' \in [Artifacts \cup Files -> Contents]
    BY <1>4 DEF Fails, TypeOK, Contents
  <2>2. changes' \in Nat
    BY <1>4 DEF Fails, Interrupted, TypeOK
  <2> QED BY <1>2, <1>4, <2>1, <2>2 DEF Fails, Over, TypeOK, NothingHalfWritten
<1>5. CASE Killed
  BY <1>2, <1>5 DEF Killed, Interrupted, Over, TypeOK, NothingHalfWritten
<1> QED BY <1>1, <1>3, <1>4, <1>5

LEMMA EnvironmentInv ==
  ASSUME StoreAssumption, StoreInv,
         \/ \E a \in Artifacts, v \in Versions : Publish(a, v)
         \/ \E f \in Files, content \in Versions \cup {Absent} : Replace(f, content)
  PROVE  StoreInv'
<1> USE DEF StoreInv
<1>1. ASSUME NEW a \in Artifacts, NEW v \in Versions, Publish(a, v) PROVE StoreInv'
  BY <1>1 DEF Publish, process, TypeOK, NothingHalfWritten, Working, Checked
<1>2. ASSUME NEW f \in Files, NEW content \in Versions \cup {Absent}, Replace(f, content)
      PROVE  StoreInv'
  BY <1>2 DEF Replace, process, TypeOK, Contents, NothingHalfWritten, Working, Checked, StoreAssumption
<1> QED BY <1>1, <1>2

LEMMA StoreNext ==
  ASSUME StoreAssumption, StoreInv, [Next]_vars
  PROVE  StoreInv'
<1>1. CASE UNCHANGED vars
  BY <1>1 DEF vars, process, StoreInv, TypeOK, NothingHalfWritten, Working, Checked
<1> QED BY <1>1, StepInv, ProcessInv, EnvironmentInv DEF Next

(* StoreInv holds in every state, whatever the processes and the disk do. *)
THEOREM StoreInvariance == Spec => []StoreInv
BY StoreAssumption, StoreInit, StoreNext, PTL DEF Spec

(* Type correctness of the directory, the manifest and the process. *)
THEOREM StoreTypeCorrect == Spec => []TypeOK
BY StoreInvariance, PTL DEF StoreInv

(* Whatever modelctl was interrupted at, no final name holds half a file. *)
THEOREM FilesAreWhole == Spec => []NothingHalfWritten
BY StoreInvariance, PTL DEF StoreInv

(* Every change download makes to the directory is to what the manifest pins. *)
THEOREM DownloadRepairs == Spec => DownloadOnlyRepairs
<1> DEFINE Repairs == cmd = "download" /\ changes' = changes =>
             \A f \in Files : file'[f] # file[f] => file'[f] = manifest[f]
<1>1. ASSUME StoreInv, [Next]_vars PROVE [Repairs]_vars
  <2>1. CASE Install
    <3>1. doing \in Artifacts \ Archives /\ Digest(doing) \in Files
      BY <1>1, <2>1, DigestIsAFile, StoreAssumption DEF Install, StoreInv, Working, Busy, TypeOK
    <3> QED BY <1>1, <2>1, <3>1 DEF Install, StoreInv, TypeOK, Checked
  <2>2. CASE RenameMember
    BY <1>1, <2>2 DEF RenameMember, StoreInv, TypeOK, Checked
  <2>3. ASSUME NEW f \in Files, NEW content \in Versions \cup {Absent}, Replace(f, content)
        PROVE  changes' # changes
    BY <1>1, <2>3 DEF Replace, StoreInv, TypeOK
  <2>4. CASE ~Install /\ ~RenameMember
             /\ ~(\E f \in Files, content \in Versions \cup {Absent} : Replace(f, content))
    <3>1. file' = file
      BY <1>1, <2>4 DEF Next, Step, Start, Skip, PinBuilt, Fetch, Copied, Extract, ExtractOne,
         Extracted, Finish, SaveManifest, Fails, Killed, Publish, vars
    <3> QED BY <3>1
  <2> QED BY <2>1, <2>2, <2>3, <2>4
<1> QED BY <1>1, StoreInvariance, PTL DEF Spec, DownloadOnlyRepairs

----------------------------------------------------------------------------
(* What pin has dealt with, it remembers as it is on disk, unless others have    *)
(* changed a file since it started.                                             *)
Observed ==
  Pinning /\ ~touched =>
    /\ \A a \in Artifacts \ todo : \A f \in Outputs[a] : mem[f] = file[f]
    /\ stage \in Unpacking => \A f \in Outputs[doing] \ left : file[f] = part[doing]
    /\ stage = "rename" => part[member] = part[doing]

LEMMA OnlyOutput ==
  ASSUME StoreAssumption, NEW a \in Artifacts \ Archives
  PROVE  Outputs[a] = {Digest(a)}
BY DEF StoreAssumption, Digest

LEMMA OutputsApart ==
  ASSUME StoreAssumption, NEW a \in Artifacts
  PROVE  /\ Outputs[a] \subseteq Files
         /\ \A b \in Artifacts : a # b => \A f \in Outputs[b] : f \notin Outputs[a]
         /\ a \notin Files
BY DEF StoreAssumption

LEMMA ObservedStep ==
  ASSUME StoreAssumption, StoreInv, Observed, NEW a \in Artifacts, Step(a)
  PROVE  Observed'
<1> SUFFICES ASSUME Pinning', ~touched' PROVE Observed'
  BY DEF Observed
<1>1. /\ Pinning /\ ~touched /\ touched' = touched
      /\ \A b \in Artifacts \ todo : \A f \in Outputs[b] : mem[f] = file[f]
      /\ stage \in Unpacking => \A f \in Outputs[doing] \ left : file[f] = part[doing]
      /\ stage = "rename" => part[member] = part[doing]
  <2>1. cmd' = cmd /\ touched' = touched
    BY DEF Step, Skip, PinBuilt, Fetch, Copied, Install, Extract, ExtractOne, RenameMember, Extracted
  <2> QED BY <2>1 DEF Observed, Pinning
<1>2. TypeOK /\ Working
  BY DEF StoreInv
<1>3. CASE Skip(a)
  <2>1. \A f \in Outputs[a] : mem[f] = file[f]
    BY <1>1, <1>3 DEF Skip, UpToDate, Satisfied, Matches, Pinning
  <2> QED BY <1>1, <1>3, <2>1 DEF Skip, At, Observed, Unpacking
<1>4. CASE PinBuilt(a)
  <2>1. a \in Artifacts \ Archives /\ Outputs[a] = {Digest(a)} /\ Digest(a) \in Files
    BY <1>4, OnlyOutput, DigestIsAFile DEF PinBuilt, StoreAssumption
  <2>2. mem \in [Files \cup Archives -> Versions \cup {Unpinned}]
    BY <1>2 DEF TypeOK, Pins
  <2>3. ASSUME NEW b \in Artifacts \ todo', NEW f \in Outputs[b] PROVE mem'[f] = file'[f]
    <3>1. CASE b = a
      BY <1>4, <2>1, <2>2, <2>3, <3>1 DEF PinBuilt
    <3>2. CASE b # a
      <4>1. b \in Artifacts \ todo /\ f # Digest(a) /\ f \in Files
        BY <1>4, <2>1, <3>2, OutputsApart DEF PinBuilt
      <4> QED BY <1>1, <1>4, <2>2, <4>1 DEF PinBuilt
    <3> QED BY <3>1, <3>2
  <2> QED BY <1>4, <2>3 DEF PinBuilt, At, Observed, Unpacking
<1>5. CASE Fetch(a)
  BY <1>1, <1>5 DEF Fetch, Observed, Unpacking
<1>6. CASE doing = a /\ Copied
  <2>1. stage' \in Unpacking => left' = Outputs[doing'] /\ stage' # "rename"
    BY <1>6 DEF Copied, Unpacking
  <2> QED BY <1>1, <1>6, <2>1 DEF Copied, Observed
<1>7. CASE doing = a /\ Install
  <2>1. a \in Artifacts \ Archives /\ Outputs[a] = {Digest(a)} /\ Digest(a) \in Files
    BY <1>2, <1>7, OnlyOutput, DigestIsAFile DEF Install, Working
  <2>2. ASSUME NEW b \in Artifacts \ todo', NEW f \in Outputs[b] PROVE mem'[f] = file'[f]
    <3>1. f \in Files /\ f \in DOMAIN mem /\ f \in DOMAIN file
      BY <1>2, OutputsApart DEF TypeOK, Pins
    <3>2. mem'[f] = IF f \in {Digest(a)} THEN part[a] ELSE mem[f]
      BY <1>1, <1>7, <3>1 DEF Install, Done
    <3>3. file'[f] = IF f = Digest(a) THEN part[a] ELSE file[f]
      BY <1>7, <3>1 DEF Install
    <3>4. b # a => b \in Artifacts \ todo
      BY <1>7 DEF Install, Done
    <3>5. b = a => f = Digest(a)
      BY <2>1
    <3> QED BY <1>1, <3>2, <3>3, <3>4, <3>5
  <2> QED BY <1>7, <2>2 DEF Install, Done, Observed, Unpacking
<1>8. ASSUME NEW f \in Files, doing = a, Extract(f) PROVE Observed'
  <2>1. a \notin Files
    BY OutputsApart
  <2>2. part'[doing'] = part[doing]
    BY <1>2, <1>8, <2>1 DEF Extract, TypeOK
  <2> QED BY <1>1, <1>8, <2>2 DEF Extract, Observed, Unpacking
<1>9. CASE doing = a /\ ExtractOne
  <2>1. a \notin Files /\ member \in Files
    BY <1>2, <1>9, OutputsApart DEF ExtractOne, Working, TypeOK
  <2>2. part'[doing'] = part[doing] /\ part'[member'] = part[doing]
    BY <1>2, <1>9, <2>1 DEF ExtractOne, TypeOK
  <2> QED BY <1>1, <1>9, <2>2 DEF ExtractOne, Observed, Unpacking
<1>10. CASE doing = a /\ RenameMember
  <2>1. /\ a \notin Files /\ member \in Outputs[a] /\ member \in Files /\ a \in todo
        /\ part[member] = part[a]
    BY <1>1, <1>2, <1>10, OutputsApart DEF RenameMember, Working, Busy, Unpacking, TypeOK
  <2>2. part'[a] = part[a] /\ doing' = a /\ mem' = mem /\ todo' = todo /\ stage' = "extract"
    BY <1>2, <1>10, <2>1 DEF RenameMember, TypeOK
  <2>3. \A f \in Files : file'[f] = IF f = member THEN part[a] ELSE file[f]
    BY <1>2, <1>10, <2>1 DEF RenameMember, TypeOK
  <2>4. ASSUME NEW b \in Artifacts \ todo, NEW f \in Outputs[b] PROVE mem'[f] = file'[f]
    <3>1. f \in Files /\ f # member
      BY <2>1, OutputsApart
    <3> QED BY <1>1, <2>2, <2>3, <3>1
  <2>5. ASSUME NEW f \in Outputs[a] \ left' PROVE file'[f] = part'[a]
    <3>1. f \in Files /\ (f = member \/ f \in Outputs[a] \ left)
      BY <1>10, OutputsApart DEF RenameMember
    <3> QED BY <1>1, <1>10, <2>2, <2>3, <3>1 DEF RenameMember, Unpacking
  <2> QED BY <2>2, <2>4, <2>5 DEF Observed
<1>11. CASE doing = a /\ Extracted
  <2>1. \A f \in Outputs[a] : file[f] = part[a]
    BY <1>1, <1>11 DEF Extracted, Unpacking
  <2>2. ASSUME NEW b \in Artifacts \ todo', NEW f \in Outputs[b] PROVE mem'[f] = file'[f]
    <3>1. f \in Files /\ f \in DOMAIN mem /\ f # a
      BY <1>2, OutputsApart DEF TypeOK, Pins
    <3>2. mem'[f] = IF f \in {a} \cup Outputs[a] THEN part[a] ELSE mem[f]
      BY <1>1, <1>11, <3>1 DEF Extracted, Done
    <3>3. b # a => b \in Artifacts \ todo /\ f \notin Outputs[a]
      BY <1>11, OutputsApart DEF Extracted, Done
    <3>4. file'[f] = file[f]
      BY <1>11 DEF Extracted
    <3> QED BY <1>1, <2>1, <3>1, <3>2, <3>3, <3>4
  <2> QED BY <1>11, <2>2 DEF Extracted, Done, Observed, Unpacking
<1> QED BY <1>3, <1>4, <1>5, <1>6, <1>7, <1>8, <1>9, <1>10, <1>11 DEF Step

LEMMA ObservedNext ==
  ASSUME StoreAssumption, StoreInv, Observed, [Next]_vars
  PROVE  Observed'
<1>1. ASSUME NEW c \in {"download", "pin", "repin"}, Start(c) PROVE Observed'
  BY <1>1 DEF Start, Observed, Unpacking
<1>2. CASE Over
  BY <1>2 DEF Over, Observed, Pinning
<1>3. CASE Finish \/ SaveManifest \/ Fails \/ Killed
  BY <1>2, <1>3 DEF Finish, SaveManifest, Fails, Killed
<1>4. ASSUME NEW b \in Artifacts, NEW v \in Versions, Publish(b, v) PROVE Observed'
  BY <1>4 DEF Publish, process, Observed, Pinning
<1>5. ASSUME NEW f \in Files, NEW content \in Versions \cup {Absent}, Replace(f, content)
      PROVE  Observed'
  BY <1>5 DEF Replace, Observed
<1>6. CASE UNCHANGED vars
  BY <1>6 DEF vars, process, Observed, Pinning
<1> QED BY <1>1, <1>3, <1>4, <1>5, <1>6, ObservedStep DEF Next

(* Whatever pin was given, whatever it skipped and whatever else went on, the    *)
(* manifest it writes is of the files it leaves, if nobody else changed them.   *)
THEOREM PinsAreOfTheDisk == Spec => PinsDescribeDisk
<1>1. Init => Observed
  BY DEF Init, Observed, Pinning
<1>2. Spec => []Observed
  BY StoreAssumption, <1>1, ObservedNext, StoreInvariance, PTL DEF Spec
<1> DEFINE Describes == manifest' # manifest /\ ~touched =>
             \A a \in Artifacts : \A f \in Outputs[a] : manifest'[f] = file'[f]
<1>3. ASSUME Observed, [Next]_vars PROVE [Describes]_vars
  <2>1. CASE SaveManifest
    BY <1>3, <2>1 DEF SaveManifest, Observed
  <2>2. CASE ~SaveManifest
    <3>1. manifest' = manifest
      BY <1>3, <2>2 DEF Next, Step, Start, Skip, PinBuilt, Fetch, Copied, Install, Extract,
         ExtractOne, RenameMember, Extracted, Finish, Fails, Killed, Publish, Replace, vars
    <3> QED BY <3>1
  <2> QED BY <2>1, <2>2
<1> QED BY <1>2, <1>3, PTL DEF Spec, PinsDescribeDisk
=============================================================================
