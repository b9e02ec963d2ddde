----------------------------- MODULE ModelRegistry -----------------------------
(***************************************************************************)
(* The handlers that register and delete models and submit jobs for them   *)
(* (api.py, web.py, storage.py, queue.py). FastAPI runs them in a pool of  *)
(* threads, each on a connection of its own and without a transaction      *)
(* around it, so a step is one statement on the database or one call on    *)
(* the file system, and the steps of different requests interleave.        *)
(*                                                                         *)
(* A request is served once. What an upload carries, the .mph file and the *)
(* manifest, is named by the request itself.                               *)
(***************************************************************************)
EXTENDS Integers, FiniteSets

CONSTANTS Requests,   \* the requests served
          Models,     \* model ids
          Users,      \* accounts of the web client
          Admins,     \* those of them that are administrators
          BatchSize,  \* the most jobs in one submission
          Nil, Torn

ASSUME RegistryAssumption ==
    /\ Admins \subseteq Users
    /\ BatchSize \in Nat \ {0}
    /\ Nil \notin Requests \cup Models \cup Users \cup {Torn}
    /\ Torn \notin Requests

VARIABLES
    version,  \* models table: the upload a row describes, Nil without a row
    owner,    \* models.owner_user_id
    exists,   \* models that have a directory
    content,  \* the files in it, Nil where there is none
    jobs,     \* jobs table: how many jobs a request has inserted
    pc,       \* where the handler of a request stands
    target,   \* the model it is about
    user,     \* who sent it; Nil for the JSON API, which has no identities
    size,     \* how many jobs it submits
    todo,     \* files that rmtree has still to unlink
    overlap   \* history: what has overlapped an upload of a model

rows == <<version, owner>>
disk == <<exists, content>>
request == <<target, user, size>>
registryVars == <<rows, disk, jobs, pc, request, todo, overlap>>

Files == {"model.mph", "manifest.json"}

UploadPcs == {"mkdir", "write", "describe", "register"}
DeletePcs == {"drop", "list", "unlink"}
EndPcs == {"done", "refused", "error", "crashed"}
Pcs == {"ready", "insert"} \cup UploadPcs \cup DeletePcs \cup EndPcs

\* What can have gone on at the same time as an upload of a model, or cut it short.
Overlaps == {"upload", "delete", "crash"}

RegistryTypeOK ==
    /\ version \in [Models -> Requests \cup {Nil}]
    /\ owner \in [Models -> Users \cup {Nil}]
    /\ exists \in SUBSET Models
    /\ content \in [Models -> [Files -> Requests \cup {Nil, Torn}]]
    /\ jobs \in [Requests -> 0 .. BatchSize]
    /\ pc \in [Requests -> Pcs]
    /\ target \in [Requests -> Models \cup {Nil}]
    /\ user \in [Requests -> Users \cup {Nil}]
    /\ size \in [Requests -> 0 .. BatchSize]
    /\ todo \in [Requests -> SUBSET Files]
    /\ overlap \in [Models -> SUBSET Overlaps]

RegistryInit ==
    /\ version = [m \in Models |-> Nil]
    /\ owner = [m \in Models |-> Nil]
    /\ exists = {}
    /\ content = [m \in Models |-> [f \in Files |-> Nil]]
    /\ jobs = [r \in Requests |-> 0]
    /\ pc = [r \in Requests |-> "ready"]
    /\ target = [r \in Requests |-> Nil]
    /\ user = [r \in Requests |-> Nil]
    /\ size = [r \in Requests |-> 0]
    /\ todo = [r \in Requests |-> {}]
    /\ overlap = [m \in Models |-> {}]

-----------------------------------------------------------------------------
Registered(m) == version[m] # Nil

\* An administrator, or the owner. The JSON API asks for the admin key instead.
CanManage(u, m) == u = Nil \/ u \in Admins \/ owner[m] = u

At(r, here) == pc[r] = here

Goto(r, there) == pc' = [pc EXCEPT ![r] = there]

Uploads(r, m) == target[r] = m /\ pc[r] \in UploadPcs
Deletes(r, m) == target[r] = m /\ pc[r] \in DeletePcs
Uploading(m) == \E r \in Requests : Uploads(r, m)
Deleting(m) == \E r \in Requests : Deletes(r, m)

Note(m, what) == overlap' = [overlap EXCEPT ![m] = @ \cup what]

Accept(r, m, u) ==
    /\ At(r, "ready")
    /\ target' = [target EXCEPT ![r] = m]
    /\ user' = [user EXCEPT ![r] = u]

-----------------------------------------------------------------------------
(* Registering a model. *)

BeginUpload(r, m, u) ==
    /\ Accept(r, m, u)
    /\ \/ /\ Registered(m) => CanManage(u, m)
          /\ Goto(r, "mkdir")
          /\ Note(m, (IF Uploading(m) THEN {"upload"} ELSE {})
                     \cup (IF Deleting(m) THEN {"delete"} ELSE {}))
       \/ /\ Registered(m) /\ ~CanManage(u, m)
          /\ Goto(r, "refused")
          /\ UNCHANGED overlap
    /\ UNCHANGED <<rows, disk, jobs, size, todo>>

MakeDir(r) ==
    /\ At(r, "mkdir")
    /\ exists' = exists \cup {target[r]}
    /\ Goto(r, "write")
    /\ UNCHANGED <<rows, content, jobs, request, todo, overlap>>

\* Bug: a file that is there already is kept.
BugWriteFile(r, here, f, there) ==
    /\ At(r, here)
    /\ target[r] \in exists
    /\ content' = [content EXCEPT ![target[r]][f] = IF @ = Nil THEN r ELSE @]
    /\ Goto(r, there)
    /\ UNCHANGED <<rows, exists, jobs, request, todo, overlap>>

\* Opening the file raises when the directory is gone.
WriteFile(r, here, f, there) ==
    /\ At(r, here)
    /\ \/ /\ target[r] \in exists
          /\ content' = [content EXCEPT ![target[r]][f] = r]
          /\ Goto(r, there)
       \/ /\ target[r] \notin exists
          /\ Goto(r, "error")
          /\ UNCHANGED content
    /\ UNCHANGED <<rows, exists, jobs, request, todo, overlap>>

WriteModel(r) == WriteFile(r, "write", "model.mph", "describe")
WriteManifest(r) == WriteFile(r, "describe", "manifest.json", "register")

\* Bug: the conflict clause updates owner_user_id as well.
BugRegister(r) ==
    LET m == target[r] IN
    /\ At(r, "register")
    /\ version' = [version EXCEPT ![m] = r]
    /\ owner' = [owner EXCEPT ![m] = user[r]]
    /\ Goto(r, "done")
    /\ UNCHANGED <<disk, jobs, request, todo, overlap>>

\* Bug: ON CONFLICT DO NOTHING.
BugRegisterOnce(r) ==
    LET m == target[r] IN
    /\ At(r, "register")
    /\ version' = [version EXCEPT ![m] = IF Registered(m) THEN @ ELSE r]
    /\ owner' = [owner EXCEPT ![m] = IF Registered(m) THEN @ ELSE user[r]]
    /\ Goto(r, "done")
    /\ UNCHANGED <<disk, jobs, request, todo, overlap>>

\* INSERT ... ON CONFLICT DO UPDATE, which keeps the owner.
Register(r) ==
    LET m == target[r] IN
    /\ At(r, "register")
    /\ version' = [version EXCEPT ![m] = r]
    /\ owner' = [owner EXCEPT ![m] = IF Registered(m) THEN @ ELSE user[r]]
    /\ Goto(r, "done")
    /\ UNCHANGED <<disk, jobs, request, todo, overlap>>

-----------------------------------------------------------------------------
(* Deleting a model. *)

BeginDelete(r, m, u) ==
    /\ Accept(r, m, u)
    /\ \/ /\ Registered(m) /\ CanManage(u, m)
          /\ Goto(r, "drop")
          /\ Note(m, IF Uploading(m) THEN {"delete"} ELSE {})
       \/ /\ ~(Registered(m) /\ CanManage(u, m))
          /\ Goto(r, "refused")
          /\ UNCHANGED overlap
    /\ UNCHANGED <<rows, disk, jobs, size, todo>>

Referenced(m) == \E r \in Requests : target[r] = m /\ jobs[r] > 0

\* Bug: ModelInUseError is caught and the handler goes on to the files.
BugDropRow(r) ==
    LET m == target[r] IN
    /\ At(r, "drop")
    /\ version' = [version EXCEPT ![m] = IF Referenced(m) THEN @ ELSE Nil]
    /\ owner' = [owner EXCEPT ![m] = IF Referenced(m) THEN @ ELSE Nil]
    /\ Goto(r, "list")
    /\ UNCHANGED <<disk, jobs, request, todo, overlap>>

\* Bug: the connection does not enforce foreign keys.
BugDropAlways(r) ==
    LET m == target[r] IN
    /\ At(r, "drop")
    /\ version' = [version EXCEPT ![m] = Nil]
    /\ owner' = [owner EXCEPT ![m] = Nil]
    /\ Goto(r, "list")
    /\ UNCHANGED <<disk, jobs, request, todo, overlap>>

\* A foreign key refuses the DELETE while there are jobs. The handlers do not
\* look at the result False of a row that is gone, and go on to the files.
DropRow(r) ==
    LET m == target[r] IN
    /\ At(r, "drop")
    /\ \/ /\ Registered(m) /\ Referenced(m)
          /\ Goto(r, "refused")
          /\ UNCHANGED rows
       \/ /\ ~(Registered(m) /\ Referenced(m))
          /\ version' = [version EXCEPT ![m] = Nil]
          /\ owner' = [owner EXCEPT ![m] = Nil]
          /\ Goto(r, "list")
    /\ UNCHANGED <<disk, jobs, request, todo, overlap>>

\* rmtree lists the directory, unlinks what it found and removes the directory,
\* and ignores every error on the way.
ListFiles(r) ==
    LET m == target[r] IN
    /\ At(r, "list")
    /\ \/ /\ m \in exists
          /\ todo' = [todo EXCEPT ![r] = {f \in Files : content[m][f] # Nil}]
          /\ Goto(r, "unlink")
       \/ /\ m \notin exists
          /\ Goto(r, "done")
          /\ UNCHANGED todo
    /\ UNCHANGED <<rows, disk, jobs, request, overlap>>

Unlink(r) ==
    /\ At(r, "unlink")
    /\ \E f \in todo[r] :
         /\ content' = [content EXCEPT ![target[r]][f] = Nil]
         /\ todo' = [todo EXCEPT ![r] = @ \ {f}]
    /\ UNCHANGED <<rows, exists, jobs, pc, request, overlap>>

RemoveDir(r) ==
    LET m == target[r] IN
    /\ At(r, "unlink")
    /\ todo[r] = {}
    /\ exists' = IF \A f \in Files : content[m][f] = Nil THEN exists \ {m} ELSE exists
    /\ Goto(r, "done")
    /\ UNCHANGED <<rows, content, jobs, request, todo, overlap>>

-----------------------------------------------------------------------------
(* Submitting a job, or a batch of n. *)

\* The row read here is the one whose manifest the parameters are checked with.
BeginSubmit(r, m, u, n) ==
    /\ Accept(r, m, u)
    /\ size' = [size EXCEPT ![r] = n]
    /\ \/ Registered(m) /\ Goto(r, "insert")
       \/ ~Registered(m) /\ Goto(r, "refused")
    /\ UNCHANGED <<rows, disk, jobs, todo, overlap>>

\* Bug: one job too many.
BugInsert(r) ==
    /\ At(r, "insert")
    /\ Registered(target[r])
    /\ jobs' = [jobs EXCEPT ![r] = @ + 1]
    /\ IF jobs[r] = size[r] THEN Goto(r, "done") ELSE UNCHANGED pc
    /\ UNCHANGED <<rows, disk, request, todo, overlap>>

\* Each INSERT commits by itself; the foreign key refuses it without the row.
Insert(r) ==
    /\ At(r, "insert")
    /\ \/ /\ Registered(target[r])
          /\ jobs' = [jobs EXCEPT ![r] = @ + 1]
          /\ IF jobs[r] + 1 = size[r] THEN Goto(r, "done") ELSE UNCHANGED pc
       \/ /\ ~Registered(target[r])
          /\ Goto(r, "error")
          /\ UNCHANGED jobs
    /\ UNCHANGED <<rows, disk, request, todo, overlap>>

-----------------------------------------------------------------------------
\* The handler dies or raises: the server is stopped, a disk is full, the
\* database stays locked for longer than its busy_timeout.
Crash(r) ==
    /\ pc[r] \notin {"ready"} \cup EndPcs
    /\ Goto(r, "crashed")
    /\ Note(target[r], {"crash"})
    /\ UNCHANGED <<rows, disk, jobs, request, todo>>

\* ... in the middle of write_bytes or write_text.
TearFile(r, f) ==
    /\ \/ At(r, "write") /\ f = "model.mph"
       \/ At(r, "describe") /\ f = "manifest.json"
    /\ target[r] \in exists
    /\ content' = [content EXCEPT ![target[r]][f] = Torn]
    /\ Goto(r, "crashed")
    /\ Note(target[r], {"crash"})
    /\ UNCHANGED <<rows, exists, jobs, request, todo>>

Upload(r) == MakeDir(r) \/ WriteModel(r) \/ WriteManifest(r) \/ Register(r)

Delete(r) == DropRow(r) \/ ListFiles(r) \/ Unlink(r) \/ RemoveDir(r)

Fail(r) == Crash(r) \/ \E f \in Files : TearFile(r, f)

Begin(r) == \E m \in Models, u \in Users \cup {Nil} :
    \/ BeginUpload(r, m, u)
    \/ BeginDelete(r, m, u)
    \/ \E n \in 1 .. BatchSize : BeginSubmit(r, m, u, n)

RegistryNext == \E r \in Requests :
    Begin(r) \/ Upload(r) \/ Delete(r) \/ Insert(r) \/ Fail(r)

RegistrySpec == RegistryInit /\ [][RegistryNext]_registryVars

-----------------------------------------------------------------------------
(* Properties. *)

HasFiles(m) == m \in exists /\ \A f \in Files : content[m][f] # Nil

\* A registered model has both its files, at every moment and whatever dies on
\* the way, as long as no deletion of it has run at the same time as an upload:
\* an upload writes the files before the row, a deletion takes the row before
\* the files (storage.py:19-30, queue.py:57-69).
RegisteredModelsHaveFiles == \A m \in Models :
    Registered(m) /\ "delete" \notin overlap[m] => HasFiles(m)

\* At rest, the row and the two files of a model are those of one upload, if its
\* uploads and deletions ran one after the other and none died (web.py:176-178).
RowsMatchFiles == \A m \in Models :
    Registered(m) /\ overlap[m] = {} /\ ~Uploading(m) /\ ~Deleting(m) =>
        \A f \in Files : content[m][f] = version[m]

\* A job never loses its model, so its history stays readable (queue.py:20-26).
JobsHaveModels == \A r \in Requests : jobs[r] > 0 => Registered(target[r])

\* A batch is enqueued whole or not at all, unless its handler dies: though each
\* job is a transaction of its own, the first holds the model in place for the
\* others (api.py:195-199, web.py:323-325).
BatchesAreWhole == \A r \in Requests :
    /\ pc[r] \in {"error", "refused"} => jobs[r] = 0
    /\ pc[r] = "done" /\ size[r] > 0 => jobs[r] = size[r]

\* Only its owner or an administrator replaces or removes a registered model, and
\* replacing it leaves the owner, if no upload or deletion of it has overlapped
\* another: who may do it is decided at the head of the handler (web.py:163-178).
OwnersKeepTheirModels == [][
    \A m \in Models :
        Registered(m) /\ version'[m] # version[m] /\ overlap[m] \subseteq {"crash"} =>
            /\ version'[m] # Nil => owner'[m] = owner[m]
            /\ \A r \in Requests : pc'[r] # pc[r] => CanManage(user[r], m)]_registryVars

\* The docstring of delete_model_files: "there's no risk of removing files a
\* still-referenced job might need" (storage.py:27-29).
FilesOfJobsStay == [][
    \A r \in Requests, f \in Files :
        LET m == target[r] IN
        jobs[r] > 0 /\ content[m][f] # Nil => content'[m][f] # Nil]_registryVars

-----------------------------------------------------------------------------
(* Inductive invariants. *)

\* How far a request has got with its jobs.
SubmissionInv == \A r \in Requests :
    /\ pc[r] # "ready" => target[r] \in Models
    /\ pc[r] \in {"ready"} \cup UploadPcs \cup DeletePcs => jobs[r] = 0 /\ size[r] = 0
    /\ pc[r] = "insert" => jobs[r] < size[r]
    /\ pc[r] \in {"error", "refused"} => jobs[r] = 0
    /\ pc[r] = "done" /\ size[r] > 0 => jobs[r] = size[r]
    /\ jobs[r] > 0 => Registered(target[r])

\* The files precede the row when it comes and outlast it when it goes.
FilesInOrder(m) ==
    /\ ~(Uploading(m) /\ Deleting(m))
    /\ Registered(m) => HasFiles(m)
    /\ \A r \in Requests : Uploads(r, m) =>
         /\ pc[r] # "mkdir" => m \in exists
         /\ pc[r] \in {"describe", "register"} => content[m]["model.mph"] # Nil
         /\ pc[r] = "register" => content[m]["manifest.json"] # Nil
    /\ \A r \in Requests : Deletes(r, m) /\ pc[r] # "drop" => ~Registered(m)

FilesInv == \A m \in Models : "delete" \notin overlap[m] => FilesInOrder(m)

\* Whoever was let in may still manage the model when the row is touched.
OwnersInOrder(m) ==
    /\ \A r, s \in Requests : Uploads(r, m) /\ Uploads(s, m) => r = s
    /\ \A r \in Requests : Registered(m) /\ (Uploads(r, m) \/ Deletes(r, m)) =>
         CanManage(user[r], m)

OwnersInv == \A m \in Models : overlap[m] \subseteq {"crash"} => OwnersInOrder(m)

\* The row differs from the files only during an upload.
ContentsInOrder(m) ==
    /\ Registered(m) /\ ~Uploading(m) => \A f \in Files : content[m][f] = version[m]
    /\ \A r \in Requests : Uploads(r, m) =>
         /\ pc[r] \in {"describe", "register"} => content[m]["model.mph"] = r
         /\ pc[r] = "register" => content[m]["manifest.json"] = r

ContentsInv == \A m \in Models : overlap[m] = {} => ContentsInOrder(m)

=============================================================================
