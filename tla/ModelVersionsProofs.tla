------------------------- MODULE ModelVersionsProofs -------------------------
(***************************************************************************)
(* Proofs about ModelVersions: it implements ModelRegistry, a worker loads *)
(* manifest and file of one upload, and jobs run as they were checked, for *)
(* any number of models, requests and registrations.                       *)
(***************************************************************************)
EXTENDS ModelVersions, ModelRegistryProofs, TLAPS

Handles(r) == Begin(r) \/ Upload(r) \/ Delete(r) \/ Insert(r) \/ Fail(r)

\* The invariants of ModelRegistry together.
RegistryInv == RegistryTypeOK /\ SubmissionInv /\ FilesInv /\ OwnersInv /\ ContentsInv

-----------------------------------------------------------------------------
(* What ModelVersions needs to know of the registry.                        *)

\* Jobs are inserted by submissions only and stay with their model.
LEMMA HandlersKeepJobs ==
    ASSUME RegistryTypeOK, NEW r \in Requests, Handles(r)
    PROVE  /\ \A s \in Requests : s # r => pc'[s] = pc[s] /\ jobs'[s] = jobs[s]
           /\ \A s \in Requests : pc[s] # "ready" => target'[s] = target[s]
           /\ jobs[r] <= jobs'[r]
           /\ jobs'[r] # jobs[r] => pc[r] = "insert"
           /\ pc[r] # "ready" => pc'[r] # "ready" /\ (pc'[r] = "insert" => pc[r] = "insert")
           /\ pc[r] = "ready" => version' = version
<1> USE PcNames DEF rows, disk, request, At
<1>1. ASSUME NEW there \in Pcs, Goto(r, there)
      PROVE  pc'[r] = there /\ \A s \in Requests : s # r => pc'[s] = pc[s]
  BY <1>1 DEF RegistryTypeOK, Goto
<1>2. CASE Begin(r)
  <2>1. PICK m \in Models, u \in Users \cup {Nil} :
          \/ BeginUpload(r, m, u)
          \/ BeginDelete(r, m, u)
          \/ \E n \in 1 .. BatchSize : BeginSubmit(r, m, u, n)
    BY <1>2 DEF Begin
  <2>2. /\ pc[r] = "ready" /\ jobs' = jobs /\ version' = version
        /\ target' = [target EXCEPT ![r] = m]
        /\ \E there \in {"mkdir", "drop", "insert", "refused"} : Goto(r, there)
    BY <2>1 DEF BeginUpload, BeginDelete, BeginSubmit, Accept
  <2> QED BY <1>1, <2>2 DEF RegistryTypeOK
<1>3. CASE Upload(r) \/ Delete(r) \/ Fail(r)
  <2>1. /\ pc[r] \notin {"ready", "insert"} \/ pc'[r] = "crashed"
        /\ pc[r] # "ready" /\ jobs' = jobs /\ target' = target
        /\ UNCHANGED pc \/ \E there \in Pcs \ {"ready", "insert"} : Goto(r, there)
    <3>1. CASE Upload(r)
      BY <3>1 DEF Upload, MakeDir, WriteModel, WriteManifest, WriteFile, Register
    <3>2. CASE Delete(r)
      BY <3>2 DEF Delete, DropRow, ListFiles, Unlink, RemoveDir
    <3>3. CASE Fail(r)
      <4>1. Goto(r, "crashed") /\ pc[r] # "ready" /\ jobs' = jobs /\ target' = target
        BY <3>3 DEF Fail, Crash, TearFile
      <4> QED BY <4>1, <1>1
    <3> QED BY <1>3, <3>1, <3>2, <3>3
  <2> QED BY <1>1, <2>1 DEF RegistryTypeOK
<1>4. CASE Insert(r)
  <2>1. /\ pc[r] = "insert" /\ target' = target
        /\ jobs' = [jobs EXCEPT ![r] = @ + 1] \/ jobs' = jobs
        /\ UNCHANGED pc \/ \E there \in {"done", "error"} : Goto(r, there)
    BY <1>4 DEF Insert
  <2>2. jobs \in [Requests -> Int]
    BY RegistryAssumption DEF RegistryTypeOK
  <2> QED BY <1>1, <2>1, <2>2
<1> QED BY <1>2, <1>3, <1>4 DEF Handles

\* A row changes at the end of an upload, or is dropped when no job refers to it.
LEMMA HandlersChangeRows ==
    ASSUME RegistryTypeOK, NEW r \in Requests, Handles(r), NEW m \in Models,
           version'[m] # version[m]
    PROVE  Uploading(m) \/ (version'[m] = Nil /\ ~Referenced(m))
<1> USE PcNames DEF rows, disk, request, At
<1>1. CASE Register(r)
  BY <1>1 DEF Register, Uploading, Uploads, UploadPcs, RegistryTypeOK
<1>2. CASE DropRow(r)
  BY <1>2 DEF DropRow, RegistryTypeOK, Registered
<1>3. CASE Begin(r)
  BY <1>3 DEF Begin, BeginUpload, BeginDelete, BeginSubmit
<1>4. CASE MakeDir(r) \/ WriteModel(r) \/ WriteManifest(r)
  BY <1>4 DEF MakeDir, WriteModel, WriteManifest, WriteFile
<1>5. CASE ListFiles(r) \/ Unlink(r) \/ RemoveDir(r)
  BY <1>5 DEF ListFiles, Unlink, RemoveDir
<1>6. CASE Insert(r) \/ Fail(r)
  BY <1>6 DEF Insert, Fail, Crash, TearFile
<1> QED BY <1>1, <1>2, <1>3, <1>4, <1>5, <1>6 DEF Handles, Upload, Delete

\* ModelVersions only adds to the registry.
LEMMA StepOfRegistry == [VersionsNext]_versionVars => [RegistryNext]_registryVars
BY DEF VersionsNext, versionVars, RegistryNext, Serve, Cancel, Claim, ReadManifest, LoadFile,
       EndJob, ReplaceWorker, ManifestFor, ReplaceSupervisor

LEMMA RegistryInvStep ==
    ASSUME RegistryInv, [VersionsNext]_versionVars
    PROVE  /\ RegistryInv'
           /\ \A m \in Models : overlap[m] \subseteq overlap'[m]
BY StepOfRegistry, RegistryStep, FilesStep, OwnersStep, ContentsStep, OverlapGrows
   DEF RegistryInv

-----------------------------------------------------------------------------
(* The invariant. *)

VersionsInv == RegistryInv /\ VersionsTypeOK /\ UsesInv /\ LoadInv /\ VersionInv

LEMMA VersionsInitial == VersionsInit => VersionsInv
<1> SUFFICES ASSUME VersionsInit PROVE VersionsInv
  OBVIOUS
<1>1. RegistryInv
  BY RegistryInitial, OverlapInitial DEF VersionsInit, RegistryInv
<1>2. VersionsTypeOK /\ UsesInv
  BY <1>1, RegistryAssumption DEF VersionsInit, RegistryInit, VersionsTypeOK, UsesInv, RegistryInv
<1>3. LoadInv /\ VersionInv
  BY DEF VersionsInit, RegistryInit, LoadInv, VersionInv, Loading, Used, Uploading, Uploads,
         UploadPcs, Pending, Registered
<1> QED BY <1>1, <1>2, <1>3 DEF VersionsInv

\* A claimed job has a model, which is registered.
LEMMA ClaimedJobHasModel ==
    ASSUME RegistryInv, NEW r \in Requests, jobs[r] > 0
    PROVE  /\ pc[r] # "ready" /\ target[r] \in Models
           /\ version[target[r]] \in Requests /\ Registered(target[r])
BY DEF RegistryInv, RegistryTypeOK, SubmissionInv, Registered

LEMMA TypeAndUsesStep ==
    ASSUME VersionsInv, [VersionsNext]_versionVars
    PROVE  VersionsTypeOK' /\ UsesInv'
<1> USE RegistryAssumption DEF session
<1>0. /\ RegistryInv /\ RegistryTypeOK' /\ SubmissionInv'
      /\ RegistryTypeOK /\ VersionsTypeOK /\ UsesInv
  BY RegistryInvStep DEF VersionsInv, RegistryInv
<1>1. ASSUME mixed' = [m \in Models |-> mixed[m] \cup Mixing(m)']
      PROVE  mixed' \in [Models -> SUBSET {"load", "use"}]
  BY <1>0, <1>1 DEF VersionsTypeOK, Mixing
<1>2. ASSUME NEW r \in Requests, Serve(r), mixed' \in [Models -> SUBSET {"load", "use"}]
      PROVE  VersionsTypeOK' /\ UsesInv'
  <2>1. \A s \in Requests : jobs[s] <= jobs'[s] /\ (jobs[s] > 0 => target'[s] = target[s])
    <3>1. Handles(r)
      BY <1>2 DEF Serve, Handles
    <3>2. /\ \A s \in Requests : s # r => jobs'[s] = jobs[s]
          /\ \A s \in Requests : pc[s] # "ready" => target'[s] = target[s]
          /\ jobs[r] <= jobs'[r]
      BY <1>0, <3>1, HandlersKeepJobs
    <3>3. \A s \in Requests : jobs[s] > 0 => pc[s] # "ready"
      BY <1>0, ClaimedJobHasModel
    <3>4. \A s \in Requests : jobs[s] \in Int
      BY <1>0 DEF RegistryTypeOK
    <3> QED BY <3>2, <3>3, <3>4
  <2>2. checked' \in [Requests -> Requests \cup {Nil}]
    <3>1. At(r, "ready") /\ pc'[r] = "insert" => version[target'[r]] \in Requests \cup {Nil}
      BY <1>0 DEF SubmissionInv, RegistryTypeOK
    <3> QED BY <1>0, <1>2, <3>1 DEF VersionsTypeOK, Serve
  <2>3. VersionsTypeOK'
    BY <1>0, <1>2, <2>1, <2>2 DEF VersionsTypeOK, Serve, RegistryTypeOK
  <2>4. UsesInv'
    BY <1>0, <1>2, <2>1 DEF VersionsTypeOK, UsesInv, Serve, RegistryTypeOK
  <2> QED BY <2>3, <2>4
<1>3. ASSUME UNCHANGED registryVars, mixed' \in [Models -> SUBSET {"load", "use"}],
             \/ \E r \in Requests : Cancel(r) \/ Claim(r)
             \/ ReadManifest \/ LoadFile \/ EndJob \/ ReplaceWorker
             \/ ManifestFor \/ ReplaceSupervisor
      PROVE  VersionsTypeOK' /\ UsesInv'
  <2> USE DEF registryVars, rows, disk, request, VersionsTypeOK, UsesInv, RegistryTypeOK
  <2>1. job # Nil => /\ job \in Requests /\ jobs[job] > 0
                     /\ target[job] \in Models /\ version[target[job]] \in Requests
    BY <1>0, ClaimedJobHasModel
  <2>2. ASSUME NEW r \in Requests, Cancel(r) PROVE VersionsTypeOK' /\ UsesInv'
    BY <1>0, <1>3, <2>2 DEF Cancel
  <2>3. ASSUME NEW r \in Requests, Claim(r) PROVE VersionsTypeOK' /\ UsesInv'
    BY <1>0, <1>3, <2>3 DEF Claim
  <2>4. CASE ReadManifest
    BY <1>0, <1>3, <2>1, <2>4 DEF ReadManifest
  <2>5. CASE LoadFile
    BY <1>0, <1>3, <2>1, <2>5 DEF LoadFile, Files
  <2>6. CASE EndJob
    BY <1>0, <1>3, <2>6 DEF EndJob
  <2>7. CASE ReplaceWorker
    <3>1. taken' \in [Requests -> 0 .. BatchSize] /\ \A r \in Requests : taken'[r] <= jobs'[r]
      <4>1. taken' = taken \/ (job \in Requests /\ 0 < taken[job]
                                /\ taken' = [taken EXCEPT ![job] = @ - 1])
        BY <1>0, <2>7 DEF ReplaceWorker
      <4>2. /\ taken \in [Requests -> 0 .. BatchSize] /\ jobs' = jobs
            /\ \A r \in Requests : taken[r] <= jobs[r] /\ jobs[r] \in Nat
        BY <1>0, <1>3
      <4>3. CASE job \in Requests /\ 0 < taken[job]
                 /\ taken' = [taken EXCEPT ![job] = @ - 1]
        <5>1. taken[job] - 1 \in 0 .. BatchSize /\ taken[job] - 1 <= jobs[job]
          BY <4>2, <4>3
        <5> QED BY <4>2, <4>3, <5>1
      <4> QED BY <4>1, <4>2, <4>3
    <3> QED BY <1>0, <1>3, <2>7, <3>1 DEF ReplaceWorker
  <2>8. CASE ManifestFor
    BY <1>0, <1>3, <2>1, <2>8 DEF ManifestFor
  <2>9. CASE ReplaceSupervisor
    BY <1>0, <1>3, <2>9 DEF ReplaceSupervisor
  <2> QED BY <1>3, <2>2, <2>3, <2>4, <2>5, <2>6, <2>7, <2>8, <2>9
<1>4. CASE UNCHANGED versionVars
  BY <1>0, <1>4 DEF versionVars, registryVars, rows, disk, request, VersionsTypeOK, UsesInv
<1>5. CASE VersionsNext
  <2>1. \/ \E r \in Requests : Serve(r)
        \/ UNCHANGED registryVars
            /\ \/ \E r \in Requests : Cancel(r) \/ Claim(r)
               \/ ReadManifest \/ LoadFile \/ EndJob \/ ReplaceWorker
               \/ ManifestFor \/ ReplaceSupervisor
    BY <1>5 DEF VersionsNext, Cancel, Claim, ReadManifest, LoadFile, EndJob, ReplaceWorker,
                ManifestFor, ReplaceSupervisor
  <2>2. mixed' \in [Models -> SUBSET {"load", "use"}]
    BY <1>1, <1>5 DEF VersionsNext
  <2> QED BY <2>1, <2>2, <1>2, <1>3
<1> QED BY <1>4, <1>5

\* Every step is a handler's, or leaves the registry alone; the history records
\* what is going on after it.
LEMMA KindsOfStep ==
    ASSUME VersionsNext
    PROVE  /\ \/ \E r \in Requests : Serve(r)
              \/ /\ UNCHANGED registryVars
                 /\ \/ \E r \in Requests : Cancel(r) \/ Claim(r)
                    \/ ReadManifest \/ LoadFile \/ EndJob \/ ReplaceWorker
                    \/ ManifestFor \/ ReplaceSupervisor
           /\ \A m \in Models : mixed'[m] = mixed[m] \cup Mixing(m)'
BY DEF VersionsNext, Cancel, Claim, ReadManifest, LoadFile, EndJob, ReplaceWorker,
       ManifestFor, ReplaceSupervisor

\* The row of a model with jobs changes during an upload of it only.
LEMMA RowsOfJobsStay ==
    ASSUME RegistryInv, NEW r \in Requests, Handles(r), NEW m \in Models,
           ~Uploading(m), NEW s \in Requests, jobs[s] > 0, target[s] = m
    PROVE  version'[m] = version[m]
BY HandlersChangeRows DEF RegistryInv, Referenced

LEMMA LoadStep ==
    ASSUME VersionsInv, VersionsNext
    PROVE  LoadInv'
<1> SUFFICES ASSUME NEW m \in Models, overlap'[m] = {}, "load" \notin mixed'[m]
             PROVE  /\ loaded' = m /\ handle' # Nil => handle' = manifest'
                    /\ Loading(m)' => manifest' = version'[m] /\ ~Uploading(m)'
  BY DEF LoadInv
<1>0. RegistryInv /\ RegistryTypeOK /\ VersionsTypeOK /\ UsesInv
  BY DEF VersionsInv, RegistryInv
<1>1. /\ loaded = m /\ handle # Nil => handle = manifest
      /\ Loading(m) => manifest = version[m] /\ ~Uploading(m)
  BY RegistryInvStep, KindsOfStep DEF VersionsInv, LoadInv
<1>2. Loading(m)' => ~Uploading(m)'
  BY KindsOfStep DEF Mixing
<1>3. Loading(m) => /\ job \in Requests /\ jobs[job] > 0 /\ target[job] = m
                    /\ version[m] # Nil
  BY <1>0, ClaimedJobHasModel DEF Loading, VersionsTypeOK, UsesInv, RegistryTypeOK, Registered
<1>4. ASSUME NEW r \in Requests, Serve(r)
      PROVE  /\ loaded' = m /\ handle' # Nil => handle' = manifest'
             /\ Loading(m)' => manifest' = version'[m]
  <2>1. UNCHANGED session /\ Handles(r)
    BY <1>4 DEF Serve, Handles
  <2>2. Loading(m)' => Loading(m)
    <3>1. step = "load" => job \in Requests /\ jobs[job] > 0
      BY <1>0 DEF VersionsTypeOK, UsesInv, RegistryTypeOK
    <3>2. step = "load" => target'[job] = target[job]
      BY <1>0, <2>1, <3>1, ClaimedJobHasModel, HandlersKeepJobs
    <3> QED BY <2>1, <3>2 DEF Loading, session
  <2>3. Loading(m) => version'[m] = version[m]
    BY <1>0, <1>1, <1>3, <2>1, RowsOfJobsStay
  <2> QED BY <1>1, <2>1, <2>2, <2>3 DEF session
<1>5. ASSUME UNCHANGED registryVars,
             \/ \E r \in Requests : Cancel(r) \/ Claim(r)
             \/ EndJob \/ ReplaceWorker \/ ManifestFor \/ ReplaceSupervisor
      PROVE  /\ loaded' = m /\ handle' # Nil => handle' = manifest'
             /\ Loading(m)' => manifest' = version'[m]
  <2>1. /\ UNCHANGED <<loaded, handle, manifest>> \/ handle' = Nil
        /\ step' # "load" \/ UNCHANGED <<step, job, manifest>>
    BY <1>5 DEF Cancel, Claim, EndJob, ReplaceWorker, ManifestFor, ReplaceSupervisor, session
  <2> QED BY <1>1, <1>5, <2>1 DEF Loading, registryVars, rows, request
<1>6. CASE ReadManifest
  BY <1>0, <1>2, <1>6 DEF ReadManifest, UsesInv, Loading, registryVars, rows, request
<1>7. CASE LoadFile
  <2>1. CASE target[job] = m
    <3>1. Loading(m)
      BY <1>7, <2>1 DEF LoadFile, Loading
    <3>2. ContentsInOrder(m)
      BY <1>0, RegistryInvStep DEF RegistryInv, ContentsInv
    <3>3. content[m]["model.mph"] = version[m]
      BY <1>1, <1>3, <3>1, <3>2 DEF ContentsInOrder, Registered, Files
    <3> QED BY <1>1, <1>7, <2>1, <3>1, <3>3 DEF LoadFile, Loading
  <2>2. CASE target[job] # m
    BY <1>7, <2>2 DEF LoadFile, Loading
  <2> QED BY <2>1, <2>2
<1>8. /\ loaded' = m /\ handle' # Nil => handle' = manifest'
      /\ Loading(m)' => manifest' = version'[m]
  <2>1. CASE \E r \in Requests : Serve(r)
    BY <1>4, <2>1
  <2>2. CASE UNCHANGED registryVars /\ ~ReadManifest /\ ~LoadFile
             /\ ~\E r \in Requests : Serve(r)
    <3>1. \/ \E r \in Requests : Cancel(r) \/ Claim(r)
          \/ EndJob \/ ReplaceWorker \/ ManifestFor \/ ReplaceSupervisor
      BY <2>2, KindsOfStep
    <3> QED BY <1>5, <2>2, <3>1
  <2> QED BY <1>6, <1>7, <2>1, <2>2, KindsOfStep
<1> QED BY <1>2, <1>8

LEMMA VersionStep ==
    ASSUME VersionsInv, VersionsNext
    PROVE  VersionInv'
<1> SUFFICES ASSUME NEW m \in Models, overlap'[m] = {}, mixed'[m] = {}
             PROVE  /\ Used(m)' => ~Uploading(m)'
                    /\ \A s \in Requests : (target[s] = m /\ Pending(s) /\ Registered(m))' =>
                         checked'[s] = version'[m]
                    /\ loaded' = m /\ handle' # Nil => manifest' = version'[m]
                    /\ cached'[m] \in {Nil, version'[m]}
  BY DEF VersionInv
<1>0. /\ RegistryInv /\ RegistryTypeOK /\ SubmissionInv /\ VersionsTypeOK /\ UsesInv
      /\ overlap[m] = {} /\ mixed[m] = {}
  BY RegistryInvStep, KindsOfStep DEF VersionsInv, RegistryInv
<1>1. /\ Used(m) => ~Uploading(m)
      /\ \A s \in Requests : target[s] = m /\ Pending(s) /\ Registered(m) =>
           checked[s] = version[m]
      /\ loaded = m /\ handle # Nil => manifest = version[m]
      /\ cached[m] \in {Nil, version[m]}
      /\ Loading(m) => manifest = version[m]
  BY <1>0 DEF VersionsInv, VersionInv, LoadInv
<1>2. Used(m)' => ~Uploading(m)'
  BY KindsOfStep DEF Mixing
<1>3. ASSUME NEW r \in Requests, Serve(r)
      PROVE  /\ \A s \in Requests : (target[s] = m /\ Pending(s) /\ Registered(m))' =>
                   checked'[s] = version'[m]
             /\ loaded' = m /\ handle' # Nil => manifest' = version'[m]
             /\ cached'[m] \in {Nil, version'[m]}
  <2>1. UNCHANGED <<session, taken, cached>> /\ Handles(r)
    BY <1>3 DEF Serve, Handles
  <2>2. ASSUME NEW s \in Requests, (target[s] = m /\ Pending(s) /\ Registered(m))'
        PROVE  checked'[s] = version'[m]
    <3>1. CASE s = r /\ pc[r] = "ready"
      <4>1. jobs[r] = 0 /\ jobs'[r] = 0 /\ version' = version
        BY <1>0, <2>1, <3>1, HandlersKeepJobs DEF SubmissionInv
      <4>2. ~(taken[r] < 0) /\ job # r
        <5>1. taken[r] \in Nat /\ taken[r] <= 0 /\ r # Nil
          BY <1>0, <4>1, RegistryAssumption DEF VersionsTypeOK
        <5>2. job # Nil => 0 < taken[job]
          BY <1>0 DEF UsesInv
        <5> QED BY <5>1, <5>2
      <4>3. pc'[r] = "insert"
        BY <2>1, <2>2, <3>1, <4>1, <4>2 DEF Pending, session
      <4> QED BY <1>0, <1>3, <2>2, <3>1, <4>1, <4>3 DEF Serve, At, VersionsTypeOK
    <3>2. CASE ~(s = r /\ pc[r] = "ready")
      <4>1. Pending(s) /\ (pc[s] = "ready" => jobs[s] = 0)
        BY <1>0, <2>1, <2>2, <3>2, HandlersKeepJobs
           DEF Pending, session, SubmissionInv
      <4>2. target[s] = m /\ checked'[s] = checked[s]
        <5>1. pc[s] # "ready"
          <6>1. taken[s] \in Nat /\ taken[s] <= jobs[s] /\ jobs[s] \in Nat /\ s # Nil
            BY <1>0, RegistryAssumption DEF VersionsTypeOK, RegistryTypeOK
          <6>2. job # Nil => 0 < taken[job]
            BY <1>0 DEF UsesInv
          <6> QED BY <4>1, <6>1, <6>2 DEF Pending
        <5>2. target'[s] = target[s]
          BY <1>0, <2>1, <5>1, HandlersKeepJobs
        <5> QED BY <1>0, <1>3, <2>2, <3>2, <5>2 DEF Serve, At, VersionsTypeOK
      <4>3. ~Uploading(m)
        BY <1>1, <4>1, <4>2 DEF Used
      <4>4. version'[m] = version[m]
        BY <1>0, <2>1, <2>2, <4>3, HandlersChangeRows DEF Registered
      <4> QED BY <1>1, <2>2, <4>1, <4>2, <4>4 DEF Registered
    <3> QED BY <3>1, <3>2
  <2>3. loaded = m \/ cached[m] # Nil => version'[m] = version[m]
    BY <1>0, <1>1, <2>1, RowsOfJobsStay DEF Used, UsesInv
  <2> QED BY <1>1, <2>1, <2>2, <2>3 DEF session
<1>4. ASSUME UNCHANGED registryVars,
             \/ \E r \in Requests : Cancel(r) \/ Claim(r)
             \/ ReadManifest \/ LoadFile \/ EndJob \/ ReplaceWorker
             \/ ManifestFor \/ ReplaceSupervisor
      PROVE  /\ \A s \in Requests : (target[s] = m /\ Pending(s) /\ Registered(m))' =>
                   checked'[s] = version'[m]
             /\ loaded' = m /\ handle' # Nil => manifest' = version'[m]
             /\ cached'[m] \in {Nil, version'[m]}
  <2> USE DEF registryVars, rows, request
  <2>1. ASSUME NEW s \in Requests, Pending(s)'
        PROVE  Pending(s) /\ checked' = checked
    <3> USE DEF Pending, session
    <3>0. /\ taken \in [Requests -> Int] /\ \A q \in Requests : jobs[q] \in Int
          /\ job \in Requests \cup {Nil} /\ s # Nil
      BY <1>0, RegistryAssumption DEF VersionsTypeOK, RegistryTypeOK
    <3>1. ASSUME NEW r \in Requests, Cancel(r) \/ Claim(r)
          PROVE  Pending(s) /\ checked' = checked
      <4>1. /\ taken[r] < jobs[r] /\ taken' = [taken EXCEPT ![r] = @ + 1]
            /\ job' = job \/ job' = r
            /\ checked' = checked
        BY <3>1 DEF Cancel, Claim
      <4>2. CASE s = r
        BY <3>0, <4>1, <4>2
      <4>3. CASE s # r
        BY <1>4, <2>1, <3>0, <4>1, <4>3
      <4> QED BY <4>2, <4>3
    <3>2. CASE ReplaceWorker
      <4>1. /\ taken' = taken \/ (job \in Requests /\ taken' = [taken EXCEPT ![job] = @ - 1])
            /\ job' = Nil /\ checked' = checked
        BY <3>0, <3>2 DEF ReplaceWorker
      <4>2. CASE s # job
        <5>1. taken'[s] = taken[s]
          BY <3>0, <4>1, <4>2
        <5> QED BY <1>4, <2>1, <3>0, <4>1, <5>1
      <4>3. CASE s = job
        BY <4>1, <4>3
      <4> QED BY <4>1, <4>2, <4>3
    <3>3. CASE ReadManifest \/ LoadFile \/ EndJob \/ ManifestFor \/ ReplaceSupervisor
      BY <1>4, <2>1, <3>0, <3>3 DEF ReadManifest, LoadFile, EndJob, ManifestFor, ReplaceSupervisor,
         VersionsTypeOK
    <3> QED BY <1>4, <3>1, <3>2, <3>3
  <2>2. loaded' = m /\ handle' # Nil => manifest' = version'[m]
    <3>1. CASE LoadFile
      BY <1>1, <1>4, <3>1 DEF LoadFile, Loading
    <3>2. CASE ReadManifest
      BY <1>0, <3>2 DEF ReadManifest, UsesInv
    <3>3. CASE ~LoadFile /\ ~ReadManifest
      <4>1. UNCHANGED <<loaded, handle, manifest>> \/ handle' = Nil
        BY <1>4, <3>3 DEF Cancel, Claim, EndJob, ReplaceWorker, ManifestFor, ReplaceSupervisor,
                          session
      <4> QED BY <1>1, <1>4, <4>1
    <3> QED BY <3>1, <3>2, <3>3
  <2>3. cached'[m] \in {Nil, version'[m]}
    <3>1. cached'[m] \in {Nil, cached[m], version[m]}
      BY <1>0, <1>4 DEF Cancel, Claim, ReadManifest, LoadFile, EndJob, ReplaceWorker,
                        ManifestFor, ReplaceSupervisor, session, VersionsTypeOK
    <3> QED BY <1>1, <1>4, <3>1
  <2>4. ASSUME NEW s \in Requests, (target[s] = m /\ Pending(s) /\ Registered(m))'
        PROVE  checked'[s] = version'[m]
    BY <1>1, <1>4, <2>1, <2>4 DEF Registered
  <2> QED BY <2>2, <2>3, <2>4
<1> QED BY <1>2, <1>3, <1>4, KindsOfStep

-----------------------------------------------------------------------------
(* The theorems. *)

\* ModelVersions implements ModelRegistry: what is known of rows, files, jobs and
\* owners holds with workers and supervisors around them.
THEOREM VersionsImplementRegistry == VersionsSpec => RegistrySpec
<1>1. VersionsInit => RegistryInit
  BY DEF VersionsInit
<1> QED BY <1>1, StepOfRegistry, PTL DEF VersionsSpec, RegistrySpec

\* Rows have their files, and those of one upload; jobs have their models, and no
\* batch is torn, also while workers and the supervisor read rows and files.
THEOREM VersionsKeepTheRegistry ==
    VersionsSpec => [](/\ RegisteredModelsHaveFiles /\ RowsMatchFiles
                       /\ JobsHaveModels /\ BatchesAreWhole)
BY VersionsImplementRegistry, FilesOutlastRows, FilesAreThoseOfTheRow,
   JobsKeepTheirModels, BatchesStayWhole, PTL

\* What a worker has loaded and the supervisor has cached is related to the
\* uploads that went on meanwhile.
THEOREM VersionsInvariant == VersionsSpec => []VersionsInv
<1>1. ASSUME VersionsInv, [VersionsNext]_versionVars
      PROVE  VersionsInv'
  <2>1. RegistryInv' /\ VersionsTypeOK' /\ UsesInv'
    BY <1>1, RegistryInvStep, TypeAndUsesStep DEF VersionsInv
  <2>2. CASE VersionsNext
    BY <1>1, <2>1, <2>2, LoadStep, VersionStep DEF VersionsInv
  <2>3. CASE UNCHANGED versionVars
    <3>1. LoadInv'
      BY <1>1, <2>3 DEF VersionsInv, LoadInv, Loading, Uploading, Uploads, versionVars,
         registryVars, rows, request, session
    <3>2. VersionInv'
      BY <1>1, <2>3 DEF VersionsInv, VersionInv, Used, Pending, Registered, Uploading, Uploads,
         versionVars, registryVars, rows, request, session
    <3> QED BY <2>1, <3>1, <3>2 DEF VersionsInv
  <2> QED BY <1>1, <2>2, <2>3
<1> QED BY <1>1, VersionsInitial, PTL DEF VersionsSpec

\* Submissions, the worker's session and the supervisor's cache are well typed.
THEOREM VersionsTypeCorrect == VersionsSpec => []VersionsTypeOK
<1>1. VersionsInv => VersionsTypeOK
  BY DEF VersionsInv
<1> QED BY <1>1, VersionsInvariant, PTL

\* Manifest and file in use are of one upload, unless an upload overlapped the load.
THEOREM LoadsAreOfOneUpload == VersionsSpec => []LoadsOneUpload
<1>1. ASSUME VersionsInv PROVE LoadsOneUpload
  BY <1>1 DEF VersionsInv, UsesInv, LoadInv, LoadsOneUpload, Executing
<1> QED BY <1>1, VersionsInvariant, PTL

\* A job runs with the manifest that it was checked with, on its file and under its
\* timeout, unless an upload went on while the model was in use.
THEOREM JobsRunAsTheyWereChecked == VersionsSpec => []JobsRunAsChecked
<1>1. ASSUME VersionsInv PROVE JobsRunAsChecked
  <2> SUFFICES ASSUME NEW m \in Models, Executing(m), overlap[m] = {}, mixed[m] = {}
               PROVE  /\ manifest = checked[job] /\ handle = checked[job]
                      /\ cached[m] \in {Nil, checked[job]}
    BY DEF JobsRunAsChecked
  <2>1. /\ job \in Requests /\ target[job] = m /\ loaded = m /\ handle # Nil
        /\ jobs[job] > 0
    BY <1>1 DEF VersionsInv, VersionsTypeOK, UsesInv, Executing, RegistryTypeOK
  <2>2. Pending(job) /\ Registered(m)
    BY <1>1, <2>1, ClaimedJobHasModel DEF VersionsInv, Pending
  <2> QED BY <1>1, <2>1, <2>2 DEF VersionsInv, LoadInv, VersionInv
<1> QED BY <1>1, VersionsInvariant, PTL

=============================================================================
