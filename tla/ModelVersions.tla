---------------------------- MODULE ModelVersions ----------------------------
(***************************************************************************)
(* Models that are registered again under their users: the submissions     *)
(* that were checked with the manifest of one upload, the worker that has  *)
(* loaded a manifest and a file, and the supervisor that has looked up a   *)
(* timeout (web.py, api.py, worker.py, supervisor.py), over the registry   *)
(* of ModelRegistry.                                                       *)
(*                                                                         *)
(* Nobody is told of a new upload. The module records which uses of a      *)
(* model were under way while an upload of it was, and says what every     *)
(* other job can rely on.                                                  *)
(***************************************************************************)
EXTENDS ModelRegistry

VARIABLES
    checked,  \* the upload whose manifest a submission was checked with
    taken,    \* how many of a submission's jobs are no longer queued
    step,     \* where the worker stands
    job,      \* the submission whose job it has claimed
    loaded,   \* Worker._loaded_model_id
    manifest, \* Worker._manifest: the upload it is from
    handle,   \* Worker._handle: the upload its file is from, Nil for None
    cached,   \* Supervisor._manifest_cache
    mixed     \* history: what has gone on while an upload of a model did

session == <<step, job, loaded, manifest, handle>>
versionVars == <<registryVars, checked, taken, session, cached, mixed>>

VersionsInit ==
    /\ RegistryInit
    /\ checked = [r \in Requests |-> Nil]
    /\ taken = [r \in Requests |-> 0]
    /\ step = "idle" /\ job = Nil
    /\ loaded = Nil /\ manifest = Nil /\ handle = Nil
    /\ cached = [m \in Models |-> Nil]
    /\ mixed = [m \in Models |-> {}]

VersionsTypeOK ==
    /\ RegistryTypeOK
    /\ checked \in [Requests -> Requests \cup {Nil}]
    /\ taken \in [Requests -> 0 .. BatchSize]
    /\ \A r \in Requests : taken[r] <= jobs[r]
    /\ step \in {"idle", "read", "load", "run"}
    /\ job \in Requests \cup {Nil}
    /\ (step = "idle") = (job = Nil)
    /\ loaded \in Models \cup {Nil}
    /\ manifest \in Requests \cup {Nil}
    /\ handle \in Requests \cup {Nil}
    /\ cached \in [Models -> Requests \cup {Nil}]
    /\ mixed \in [Models -> SUBSET {"load", "use"}]

-----------------------------------------------------------------------------
(* Uses of a model. *)

\* The worker is between the two reads of a load: the row, then the file.
Loading(m) == step = "load" /\ target[job] = m

\* A submission, from the read of the row to the end of its last job.
Pending(r) == pc[r] = "insert" \/ taken[r] < jobs[r] \/ job = r

Used(m) ==
    \/ \E r \in Requests : target[r] = m /\ Pending(r)
    \/ loaded = m
    \/ cached[m] # Nil

Mixing(m) == IF ~Uploading(m) THEN {} ELSE
    (IF Loading(m) THEN {"load"} ELSE {}) \cup (IF Used(m) THEN {"use"} ELSE {})

-----------------------------------------------------------------------------
(* The clients. *)

\* What a handler does, with the manifest that its submission is checked with.
Serve(r) ==
    /\ Begin(r) \/ Upload(r) \/ Delete(r) \/ Insert(r) \/ Fail(r)
    /\ checked' = IF At(r, "ready") /\ pc'[r] = "insert"
                  THEN [checked EXCEPT ![r] = version[target'[r]]]
                  ELSE checked
    /\ UNCHANGED <<taken, session, cached>>

\* Bug: as if it did not ask for the job to be queued.
BugCancel(r) ==
    /\ 0 < jobs[r]
    /\ taken' = [taken EXCEPT ![r] = @ + 1]
    /\ UNCHANGED <<registryVars, checked, session, cached>>

\* DELETE of a job that is still queued.
Cancel(r) ==
    /\ taken[r] < jobs[r]
    /\ taken' = [taken EXCEPT ![r] = @ + 1]
    /\ UNCHANGED <<registryVars, checked, session, cached>>

-----------------------------------------------------------------------------
(* The worker. *)

\* It keeps a model whose id it remembers, and releases any other.
Claim(r) ==
    /\ step = "idle"
    /\ taken[r] < jobs[r]
    /\ taken' = [taken EXCEPT ![r] = @ + 1]
    /\ job' = r
    /\ IF loaded = target[r]
       THEN step' = "run" /\ UNCHANGED handle
       ELSE step' = "read" /\ handle' = Nil
    /\ UNCHANGED <<registryVars, checked, loaded, manifest, cached>>

\* Bug: a manifest that it has read already is kept.
BugReadManifest ==
    /\ step = "read"
    /\ manifest' = IF manifest = Nil THEN version[target[job]] ELSE manifest
    /\ step' = "load"
    /\ UNCHANGED <<registryVars, checked, taken, job, loaded, handle, cached>>

ReadManifest ==
    /\ step = "read"
    /\ manifest' = version[target[job]]
    /\ step' = "load"
    /\ UNCHANGED <<registryVars, checked, taken, job, loaded, handle, cached>>

\* backend.load, of a file that is there and whole.
LoadFile ==
    LET file == content[target[job]]["model.mph"] IN
    /\ step = "load"
    /\ file \notin {Nil, Torn}
    /\ handle' = file
    /\ loaded' = target[job]
    /\ step' = "run"
    /\ UNCHANGED <<registryVars, checked, taken, job, manifest, cached>>

\* The job ends, done or failed: at any point, and at once without a handle.
EndJob ==
    /\ step # "idle"
    /\ step' = "idle" /\ job' = Nil
    /\ UNCHANGED <<registryVars, checked, taken, loaded, manifest, handle, cached>>

\* The process dies, is killed or recycles, and a new one takes over; the job that
\* it had is put back, or fails for good after too many attempts.
ReplaceWorker ==
    /\ step' = "idle" /\ job' = Nil
    /\ loaded' = Nil /\ manifest' = Nil /\ handle' = Nil
    /\ taken' \in {taken} \cup (IF job = Nil THEN {} ELSE {[taken EXCEPT ![job] = @ - 1]})
    /\ UNCHANGED <<registryVars, checked, cached>>

-----------------------------------------------------------------------------
(* The supervisor. *)

\* _manifest_for, asked by the watchdog for a running job.
ManifestFor ==
    /\ step # "idle"
    /\ LET m == target[job] IN
         /\ cached[m] = Nil
         /\ cached' = [cached EXCEPT ![m] = version[m]]
    /\ UNCHANGED <<registryVars, checked, taken, session>>

\* A new supervisor has an empty cache.
ReplaceSupervisor ==
    /\ cached' = [m \in Models |-> Nil]
    /\ UNCHANGED <<registryVars, checked, taken, session>>

VersionsNext ==
    /\ \/ \E r \in Requests : Serve(r) \/ Cancel(r) \/ Claim(r)
       \/ ReadManifest \/ LoadFile \/ EndJob \/ ReplaceWorker
       \/ ManifestFor \/ ReplaceSupervisor
    /\ mixed' = [m \in Models |-> mixed[m] \cup Mixing(m)']

VersionsSpec == VersionsInit /\ [][VersionsNext]_versionVars

-----------------------------------------------------------------------------
(* Properties. *)

Executing(m) == step = "run" /\ target[job] = m /\ handle # Nil

\* The manifest and the file that a worker executes a job with are of one upload,
\* unless an upload of the model has overlapped a load, a deletion, or another
\* upload, or has been cut short: they are read one after the other, from the row
\* and from the disk (worker.py:103-110).
LoadsOneUpload == \A m \in Models :
    Executing(m) /\ overlap[m] = {} /\ "load" \notin mixed[m] => handle = manifest

\* A job is executed with the manifest that its submission was checked with, on
\* the file of the same upload, and watched with the timeout of that manifest:
\* however often the model was registered again, provided that no upload has gone
\* on while there was a job to be done, the worker had the model loaded or the
\* supervisor knew its timeout (worker.py:97-112, supervisor.py:100-108,
\* web.py:246-301).
JobsRunAsChecked == \A m \in Models :
    Executing(m) /\ overlap[m] = {} /\ mixed[m] = {} =>
        /\ manifest = checked[job] /\ handle = checked[job]
        /\ cached[m] \in {Nil, checked[job]}

-----------------------------------------------------------------------------
(* The inductive invariants behind them. *)

\* Claimed jobs were inserted, and a loaded model has had a job.
UsesInv ==
    /\ job # Nil => 0 < taken[job]
    /\ \A m \in Models : loaded = m \/ cached[m] # Nil =>
         \E r \in Requests : target[r] = m /\ jobs[r] > 0
    /\ step = "run" => loaded = target[job]
    /\ step \in {"read", "load"} => handle = Nil

\* What the worker has read is what is registered, when nobody has interfered.
LoadInv == \A m \in Models : overlap[m] = {} /\ "load" \notin mixed[m] =>
    /\ loaded = m /\ handle # Nil => handle = manifest
    /\ Loading(m) => manifest = version[m] /\ ~Uploading(m)

VersionInv == \A m \in Models : overlap[m] = {} /\ mixed[m] = {} =>
    /\ Used(m) => ~Uploading(m)
    /\ \A r \in Requests : target[r] = m /\ Pending(r) /\ Registered(m) =>
         checked[r] = version[m]
    /\ loaded = m /\ handle # Nil => manifest = version[m]
    /\ cached[m] \in {Nil, version[m]}

=============================================================================
