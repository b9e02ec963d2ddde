-------------------------- MODULE ModelRegistryProofs --------------------------
(***************************************************************************)
(* Proofs about ModelRegistry, for any number of requests, models and      *)
(* users: its types, what a job and a batch can rely on, and the files and *)
(* the owners of registered models while nothing overlaps.                 *)
(***************************************************************************)
EXTENDS ModelRegistry, TLAPS

LEMMA GotoKeepsType ==
    ASSUME pc \in [Requests -> Pcs], NEW r \in Requests, NEW p \in Pcs, Goto(r, p)
    PROVE  /\ pc' \in [Requests -> Pcs]
           /\ pc'[r] = p
           /\ \A s \in Requests : s # r => pc'[s] = pc[s]
BY DEF Goto

LEMMA NoteKeepsType ==
    ASSUME overlap \in [Models -> SUBSET Overlaps], NEW m \in Models,
           NEW what \in SUBSET Overlaps, Note(m, what)
    PROVE  overlap' \in [Models -> SUBSET Overlaps]
BY DEF Note

\* The file written is the only one that changes.
LEMMA WritingAFile ==
    ASSUME content \in [Models -> [Files -> Requests \cup {Nil, Torn}]],
           NEW m \in Models, NEW f \in Files, NEW v \in Requests \cup {Nil, Torn},
           content' = [content EXCEPT ![m][f] = v]
    PROVE  /\ content' \in [Models -> [Files -> Requests \cup {Nil, Torn}]]
           /\ content'[m][f] = v
           /\ \A k \in Models, g \in Files :
                 k # m \/ g # f => content'[k][g] = content[k][g]
<1>1. \A k \in Models : content'[k] = IF k = m THEN [content[k] EXCEPT ![f] = v]
                                               ELSE content[k]
  OBVIOUS
<1> QED BY <1>1

LEMMA PcNames ==
    /\ {"ready", "insert", "mkdir", "write", "describe", "register"} \subseteq Pcs
    /\ {"drop", "list", "unlink", "done", "refused", "error", "crashed"} \subseteq Pcs
BY DEF Pcs, UploadPcs, DeletePcs, EndPcs

\* Nothing has been asked for yet.
LEMMA RegistryInitial == RegistryInit => RegistryTypeOK /\ SubmissionInv
<1> SUFFICES ASSUME RegistryInit PROVE RegistryTypeOK /\ SubmissionInv
  OBVIOUS
<1>1. RegistryTypeOK
  BY RegistryAssumption, PcNames DEF RegistryInit, RegistryTypeOK
<1>2. SubmissionInv
  BY DEF RegistryInit, SubmissionInv
<1> QED BY <1>1, <1>2

\* Every step keeps the types, and what is said of the jobs of a request.
LEMMA RegistryStep ==
    ASSUME RegistryTypeOK, SubmissionInv, [RegistryNext]_registryVars
    PROVE  RegistryTypeOK' /\ SubmissionInv'
<1> USE PcNames DEF rows, disk, request, At
<1>1. ASSUME NEW r \in Requests,
             NEW m \in Models, NEW u \in Users \cup {Nil},
             BeginUpload(r, m, u)
      PROVE  RegistryTypeOK' /\ SubmissionInv'
  <2>1. /\ pc' \in [Requests -> Pcs]
        /\ \A s \in Requests : s # r => pc'[s] = pc[s]
    BY <1>1, GotoKeepsType DEF BeginUpload, Accept, RegistryTypeOK
  <2>2. overlap' \in [Models -> SUBSET Overlaps]
    BY <1>1, NoteKeepsType DEF BeginUpload, Accept, Overlaps, RegistryTypeOK, SubmissionInv
  <2>3. RegistryTypeOK'
    BY <1>1, <2>1, <2>2 DEF BeginUpload, Accept, RegistryTypeOK
  <2>4. SubmissionInv'
    BY <1>1, <2>1, <2>2 DEF BeginUpload, Accept, Goto, RegistryTypeOK, SubmissionInv, Registered,
                          UploadPcs, DeletePcs, EndPcs
  <2> QED BY <2>3, <2>4
<1>2. ASSUME NEW r \in Requests, MakeDir(r)
      PROVE  RegistryTypeOK' /\ SubmissionInv'
  <2>1. /\ pc' \in [Requests -> Pcs]
        /\ \A s \in Requests : s # r => pc'[s] = pc[s]
    BY <1>2, GotoKeepsType DEF MakeDir, RegistryTypeOK
  <2>2. RegistryTypeOK'
    BY <1>2, <2>1 DEF MakeDir, RegistryTypeOK, SubmissionInv
  <2>3. SubmissionInv'
    BY <1>2, <2>1 DEF MakeDir, Goto, RegistryTypeOK, SubmissionInv, Registered,
                          UploadPcs, DeletePcs, EndPcs
  <2> QED BY <2>2, <2>3
<1>3. ASSUME NEW r \in Requests, WriteModel(r) \/ WriteManifest(r)
      PROVE  RegistryTypeOK' /\ SubmissionInv'
  <2>1. PICK here \in UploadPcs, f \in Files, there \in UploadPcs : WriteFile(r, here, f, there)
    BY <1>3 DEF WriteModel, WriteManifest, Files, UploadPcs
  <2>2. /\ pc' \in [Requests -> Pcs]
        /\ pc'[r] \in UploadPcs \cup {"error"}
        /\ \A s \in Requests : s # r => pc'[s] = pc[s]
    BY <2>1, GotoKeepsType DEF WriteFile, RegistryTypeOK, Pcs
  <2>3. target[r] \in Models
    BY <2>1 DEF WriteFile, SubmissionInv, UploadPcs
  <2>4. content' \in [Models -> [Files -> Requests \cup {Nil, Torn}]]
    BY <2>1, <2>3, WritingAFile DEF WriteFile, RegistryTypeOK
  <2>5. RegistryTypeOK'
    BY <2>1, <2>2, <2>4 DEF WriteFile, RegistryTypeOK
  <2>6. SubmissionInv'
    BY <2>1, <2>2 DEF WriteFile, SubmissionInv, Registered, UploadPcs, DeletePcs
  <2> QED BY <2>5, <2>6
<1>4. ASSUME NEW r \in Requests, Register(r)
      PROVE  RegistryTypeOK' /\ SubmissionInv'
  <2>1. /\ pc' \in [Requests -> Pcs]
        /\ \A s \in Requests : s # r => pc'[s] = pc[s]
    BY <1>4, GotoKeepsType DEF Register, RegistryTypeOK
  <2>2. RegistryTypeOK'
    BY <1>4, <2>1 DEF Register, RegistryTypeOK
  <2>3. SubmissionInv'
    BY <1>4, <2>1, RegistryAssumption DEF Register, Goto, RegistryTypeOK, SubmissionInv, Registered,
                          UploadPcs, DeletePcs, EndPcs
  <2> QED BY <2>2, <2>3
<1>5. ASSUME NEW r \in Requests,
             NEW m \in Models, NEW u \in Users \cup {Nil},
             BeginDelete(r, m, u)
      PROVE  RegistryTypeOK' /\ SubmissionInv'
  <2>1. /\ pc' \in [Requests -> Pcs]
        /\ \A s \in Requests : s # r => pc'[s] = pc[s]
    BY <1>5, GotoKeepsType DEF BeginDelete, Accept, RegistryTypeOK
  <2>2. overlap' \in [Models -> SUBSET Overlaps]
    BY <1>5, NoteKeepsType DEF BeginDelete, Accept, Overlaps, RegistryTypeOK, SubmissionInv
  <2>3. RegistryTypeOK'
    BY <1>5, <2>1, <2>2 DEF BeginDelete, Accept, RegistryTypeOK
  <2>4. SubmissionInv'
    BY <1>5, <2>1, <2>2 DEF BeginDelete, Accept, Goto, RegistryTypeOK, SubmissionInv, Registered,
                          UploadPcs, DeletePcs, EndPcs
  <2> QED BY <2>3, <2>4
<1>6. ASSUME NEW r \in Requests, DropRow(r)
      PROVE  RegistryTypeOK' /\ SubmissionInv'
  <2>1. /\ pc' \in [Requests -> Pcs]
        /\ \A s \in Requests : s # r => pc'[s] = pc[s]
    BY <1>6, GotoKeepsType DEF DropRow, RegistryTypeOK
  <2>2. RegistryTypeOK'
    BY <1>6, <2>1 DEF DropRow, RegistryTypeOK
  <2>3. SubmissionInv'
    BY <1>6, <2>1 DEF DropRow, Goto, RegistryTypeOK, SubmissionInv, Registered, Referenced,
                          UploadPcs, DeletePcs, EndPcs
  <2> QED BY <2>2, <2>3
<1>7. ASSUME NEW r \in Requests, ListFiles(r)
      PROVE  RegistryTypeOK' /\ SubmissionInv'
  <2>1. /\ pc' \in [Requests -> Pcs]
        /\ \A s \in Requests : s # r => pc'[s] = pc[s]
    BY <1>7, GotoKeepsType DEF ListFiles, RegistryTypeOK
  <2>2. RegistryTypeOK'
    BY <1>7, <2>1 DEF ListFiles, RegistryTypeOK
  <2>3. SubmissionInv'
    BY <1>7, <2>1 DEF ListFiles, Goto, RegistryTypeOK, SubmissionInv, Registered,
                          UploadPcs, DeletePcs, EndPcs
  <2> QED BY <2>2, <2>3
<1>8. ASSUME NEW r \in Requests, Unlink(r)
      PROVE  RegistryTypeOK' /\ SubmissionInv'
  <2>1. content' \in [Models -> [Files -> Requests \cup {Nil, Torn}]]
    BY <1>8, WritingAFile DEF Unlink, RegistryTypeOK, SubmissionInv, DeletePcs
  <2>2. RegistryTypeOK'
    BY <1>8, <2>1 DEF Unlink, RegistryTypeOK
  <2>3. SubmissionInv'
    BY <1>8, <2>1 DEF Unlink, Goto, RegistryTypeOK, SubmissionInv, Registered,
                          UploadPcs, DeletePcs, EndPcs
  <2> QED BY <2>2, <2>3
<1>9. ASSUME NEW r \in Requests, RemoveDir(r)
      PROVE  RegistryTypeOK' /\ SubmissionInv'
  <2>1. /\ pc' \in [Requests -> Pcs]
        /\ \A s \in Requests : s # r => pc'[s] = pc[s]
    BY <1>9, GotoKeepsType DEF RemoveDir, RegistryTypeOK
  <2>2. RegistryTypeOK'
    BY <1>9, <2>1 DEF RemoveDir, RegistryTypeOK
  <2>3. SubmissionInv'
    BY <1>9, <2>1 DEF RemoveDir, Goto, RegistryTypeOK, SubmissionInv, Registered,
                          UploadPcs, DeletePcs, EndPcs
  <2> QED BY <2>2, <2>3
<1>10. ASSUME NEW r \in Requests,
              NEW m \in Models, NEW u \in Users \cup {Nil},
              NEW n \in 1 .. BatchSize,
              BeginSubmit(r, m, u, n)
       PROVE  RegistryTypeOK' /\ SubmissionInv'
  <2>1. /\ pc' \in [Requests -> Pcs]
        /\ \A s \in Requests : s # r => pc'[s] = pc[s]
    BY <1>10, GotoKeepsType DEF BeginSubmit, Accept, RegistryTypeOK
  <2>2. RegistryTypeOK'
    <3>1. size' \in [Requests -> 0 .. BatchSize]
      BY <1>10, RegistryAssumption DEF BeginSubmit, RegistryTypeOK
    <3> QED BY <1>10, <2>1, <3>1 DEF BeginSubmit, Accept, RegistryTypeOK
  <2>3. SubmissionInv'
    BY <1>10, <2>1 DEF BeginSubmit, Accept, Goto, RegistryTypeOK, SubmissionInv, Registered,
                          UploadPcs, DeletePcs, EndPcs
  <2> QED BY <2>2, <2>3
<1>11. ASSUME NEW r \in Requests, Insert(r)
       PROVE  RegistryTypeOK' /\ SubmissionInv'
  <2>1. /\ pc' \in [Requests -> Pcs]
        /\ \A s \in Requests : s # r => pc'[s] = pc[s]
    BY <1>11, GotoKeepsType DEF Insert, RegistryTypeOK
  <2>2. jobs[r] + 1 \in 0 .. BatchSize /\ jobs[r] + 1 <= size[r]
    BY <1>11, RegistryAssumption DEF Insert, RegistryTypeOK, SubmissionInv
  <2>3. RegistryTypeOK'
    BY <1>11, <2>1, <2>2 DEF Insert, RegistryTypeOK
  <2>4. SubmissionInv'
    <3>1. target[r] \in Models /\ pc[r] = "insert" /\ UNCHANGED <<target, size, version>>
      BY <1>11 DEF Insert, SubmissionInv
    <3>2. CASE Registered(target[r]) /\ jobs' = [jobs EXCEPT ![r] = @ + 1]
      <4>1. \/ jobs[r] + 1 = size[r] /\ pc'[r] = "done"
            \/ jobs[r] + 1 < size[r] /\ pc'[r] = "insert"
        <5>1. IF jobs[r] + 1 = size[r] THEN pc' = [pc EXCEPT ![r] = "done"] ELSE UNCHANGED pc
          BY <1>11, <3>2 DEF Insert, Goto, Registered
        <5>2. jobs[r] \in Int /\ size[r] \in Int
          BY RegistryAssumption DEF RegistryTypeOK
        <5>3. CASE jobs[r] + 1 = size[r]
          BY <5>1, <5>3 DEF RegistryTypeOK
        <5>4. CASE jobs[r] + 1 # size[r]
          <6>1. jobs[r] + 1 < size[r]
            BY <2>2, <5>2, <5>4
          <6> QED BY <3>1, <5>1, <5>4, <6>1
        <5> QED BY <5>3, <5>4
      <4>2. jobs'[r] = jobs[r] + 1 /\ \A s \in Requests : s # r => jobs'[s] = jobs[s]
        BY <3>2 DEF RegistryTypeOK
      <4> QED BY <2>1, <3>1, <3>2, <4>1, <4>2
              DEF SubmissionInv, RegistryTypeOK, Registered, UploadPcs, DeletePcs
    <3>3. CASE ~Registered(target[r]) /\ pc'[r] = "error" /\ UNCHANGED jobs
      BY <2>1, <3>1, <3>3 DEF SubmissionInv, RegistryTypeOK, Registered, UploadPcs, DeletePcs
    <3> QED BY <1>11, <3>2, <3>3 DEF Insert, Goto, RegistryTypeOK
  <2> QED BY <2>3, <2>4
<1>12. ASSUME NEW r \in Requests, Crash(r)
       PROVE  RegistryTypeOK' /\ SubmissionInv'
  <2>1. /\ pc' \in [Requests -> Pcs]
        /\ \A s \in Requests : s # r => pc'[s] = pc[s]
    BY <1>12, GotoKeepsType DEF Crash, RegistryTypeOK
  <2>2. overlap' \in [Models -> SUBSET Overlaps]
    BY <1>12, NoteKeepsType DEF Crash, Overlaps, RegistryTypeOK, SubmissionInv
  <2>3. RegistryTypeOK'
    BY <1>12, <2>1, <2>2 DEF Crash, RegistryTypeOK
  <2>4. SubmissionInv'
    BY <1>12, <2>1, <2>2 DEF Crash, Goto, RegistryTypeOK, SubmissionInv, Registered,
                          UploadPcs, DeletePcs, EndPcs
  <2> QED BY <2>3, <2>4
<1>13. ASSUME NEW r \in Requests,
              NEW f \in Files,
              TearFile(r, f)
       PROVE  RegistryTypeOK' /\ SubmissionInv'
  <2>1. /\ pc' \in [Requests -> Pcs]
        /\ \A s \in Requests : s # r => pc'[s] = pc[s]
    BY <1>13, GotoKeepsType DEF TearFile, RegistryTypeOK
  <2>2. content' \in [Models -> [Files -> Requests \cup {Nil, Torn}]]
    BY <1>13, WritingAFile DEF TearFile, RegistryTypeOK, SubmissionInv, DeletePcs
  <2>3. overlap' \in [Models -> SUBSET Overlaps]
    BY <1>13, NoteKeepsType DEF TearFile, Overlaps, RegistryTypeOK, SubmissionInv
  <2>4. RegistryTypeOK'
    BY <1>13, <2>1, <2>2, <2>3 DEF TearFile, RegistryTypeOK
  <2>5. SubmissionInv'
    BY <1>13, <2>1, <2>2, <2>3 DEF TearFile, Goto, RegistryTypeOK, SubmissionInv, Registered,
                          UploadPcs, DeletePcs, EndPcs
  <2> QED BY <2>4, <2>5
<1>14. CASE UNCHANGED registryVars
  BY <1>14 DEF registryVars, RegistryTypeOK, SubmissionInv, Registered
<1> QED
  BY <1>1, <1>2, <1>3, <1>4, <1>5, <1>6, <1>7, <1>8, <1>9, <1>10, <1>11, <1>12, <1>13,
     <1>14 DEF RegistryNext, Begin, Upload, Delete, Fail

\* A submission that has inserted a job has its model registered, an accepted one
\* has all its jobs and a refused one has none; with the types.
THEOREM RegistryInvariant == RegistrySpec => [](RegistryTypeOK /\ SubmissionInv)
BY RegistryInitial, RegistryStep, PTL DEF RegistrySpec

\* The registry is well typed: no batch is longer than it was asked to be.
THEOREM RegistryTypeCorrect == RegistrySpec => []RegistryTypeOK
BY RegistryInvariant, PTL

\* A job never loses its model, whatever is registered and deleted around it.
THEOREM JobsKeepTheirModels == RegistrySpec => []JobsHaveModels
<1>1. SubmissionInv => JobsHaveModels
  BY DEF SubmissionInv, JobsHaveModels
<1> QED BY <1>1, RegistryInvariant, PTL

\* A batch is enqueued whole or not at all, unless its handler dies.
THEOREM BatchesStayWhole == RegistrySpec => []BatchesAreWhole
<1>1. SubmissionInv => BatchesAreWhole
  BY DEF SubmissionInv, BatchesAreWhole
<1> QED BY <1>1, RegistryInvariant, PTL

-----------------------------------------------------------------------------
\* The state that FilesInv, OwnersInv and ContentsInv speak of before any request.
LEMMA OverlapInitial == RegistryInit => FilesInv /\ OwnersInv /\ ContentsInv
BY DEF RegistryInit, FilesInv, FilesInOrder, OwnersInv, OwnersInOrder, ContentsInv,
       ContentsInOrder, Registered, Uploads, Uploading, Deletes, Deleting, UploadPcs, DeletePcs

\* Nothing that has overlapped is forgotten.
LEMMA OverlapGrows ==
    ASSUME RegistryTypeOK, SubmissionInv, [RegistryNext]_registryVars, NEW m \in Models
    PROVE  overlap[m] \subseteq overlap'[m]
<1>1. ASSUME NEW k \in Models, NEW what, Note(k, what)
      PROVE  overlap[m] \subseteq overlap'[m]
  BY <1>1 DEF Note, RegistryTypeOK
<1>2. CASE UNCHANGED overlap
  BY <1>2
<1>3. ASSUME NEW r \in Requests, Begin(r)
      PROVE  overlap[m] \subseteq overlap'[m]
  BY <1>1, <1>2, <1>3 DEF Begin, BeginUpload, BeginDelete, BeginSubmit
<1>4. ASSUME NEW r \in Requests, Upload(r) \/ Delete(r) \/ Insert(r)
      PROVE  overlap[m] \subseteq overlap'[m]
  BY <1>2, <1>4 DEF Upload, Delete, MakeDir, WriteModel, WriteManifest, WriteFile, Register,
                    DropRow, ListFiles, Unlink, RemoveDir, Insert
<1>5. ASSUME NEW r \in Requests, Fail(r)
      PROVE  overlap[m] \subseteq overlap'[m]
  <2>1. target[r] \in Models /\ Note(target[r], {"crash"})
    BY <1>5 DEF Fail, Crash, TearFile, At, SubmissionInv
  <2> QED BY <1>1, <2>1
<1> QED BY <1>2, <1>3, <1>4, <1>5 DEF RegistryNext, registryVars

\* Files come before the row and go after it.
LEMMA FilesStep ==
    ASSUME RegistryTypeOK, SubmissionInv, FilesInv, [RegistryNext]_registryVars
    PROVE  FilesInv'
<1> USE PcNames DEF rows, disk, request, At
<1> SUFFICES ASSUME NEW m \in Models, ("delete" \notin overlap[m])'
             PROVE  FilesInOrder(m)'
  BY DEF FilesInv
<1>0. overlap[m] \subseteq overlap'[m] /\ FilesInOrder(m)
  BY OverlapGrows DEF FilesInv
<1>1. ASSUME NEW r \in Requests,
             NEW k \in Models, NEW u \in Users \cup {Nil},
             BeginUpload(r, k, u)
      PROVE  FilesInOrder(m)'
  BY <1>0, <1>1, RegistryAssumption
  DEF BeginUpload, Accept, Note, Goto, RegistryTypeOK, SubmissionInv, FilesInOrder, HasFiles, Files,
      Registered, Uploading, Deleting, Uploads, Deletes, UploadPcs, DeletePcs
<1>2. ASSUME NEW r \in Requests, MakeDir(r)
      PROVE  FilesInOrder(m)'
  BY <1>0, <1>2, RegistryAssumption
  DEF MakeDir, Goto, RegistryTypeOK, SubmissionInv, FilesInOrder, HasFiles, Files,
      Registered, Uploading, Deleting, Uploads, Deletes, UploadPcs, DeletePcs
<1>3. ASSUME NEW r \in Requests, WriteModel(r) \/ WriteManifest(r)
      PROVE  FilesInOrder(m)'
  BY <1>0, <1>3, RegistryAssumption
  DEF WriteModel, WriteManifest, WriteFile, Goto, RegistryTypeOK, SubmissionInv, FilesInOrder, HasFiles, Files,
      Registered, Uploading, Deleting, Uploads, Deletes, UploadPcs, DeletePcs
<1>4. ASSUME NEW r \in Requests, Register(r)
      PROVE  FilesInOrder(m)'
  BY <1>0, <1>4, RegistryAssumption
  DEF Register, Goto, RegistryTypeOK, SubmissionInv, FilesInOrder, HasFiles, Files,
      Registered, Uploading, Deleting, Uploads, Deletes, UploadPcs, DeletePcs
<1>5. ASSUME NEW r \in Requests,
             NEW k \in Models, NEW u \in Users \cup {Nil},
             BeginDelete(r, k, u)
      PROVE  FilesInOrder(m)'
  BY <1>0, <1>5, RegistryAssumption
  DEF BeginDelete, Accept, Note, Goto, RegistryTypeOK, SubmissionInv, FilesInOrder, HasFiles, Files,
      Registered, Uploading, Deleting, Uploads, Deletes, UploadPcs, DeletePcs
<1>6. ASSUME NEW r \in Requests, DropRow(r)
      PROVE  FilesInOrder(m)'
  BY <1>0, <1>6, RegistryAssumption
  DEF DropRow, Goto, RegistryTypeOK, SubmissionInv, FilesInOrder, HasFiles, Files,
      Registered, Uploading, Deleting, Uploads, Deletes, UploadPcs, DeletePcs
<1>7. ASSUME NEW r \in Requests, ListFiles(r)
      PROVE  FilesInOrder(m)'
  BY <1>0, <1>7, RegistryAssumption
  DEF ListFiles, Goto, RegistryTypeOK, SubmissionInv, FilesInOrder, HasFiles, Files,
      Registered, Uploading, Deleting, Uploads, Deletes, UploadPcs, DeletePcs
<1>8. ASSUME NEW r \in Requests, Unlink(r)
      PROVE  FilesInOrder(m)'
  BY <1>0, <1>8, RegistryAssumption
  DEF Unlink, Goto, RegistryTypeOK, SubmissionInv, FilesInOrder, HasFiles, Files,
      Registered, Uploading, Deleting, Uploads, Deletes, UploadPcs, DeletePcs
<1>9. ASSUME NEW r \in Requests, RemoveDir(r)
      PROVE  FilesInOrder(m)'
  BY <1>0, <1>9, RegistryAssumption
  DEF RemoveDir, Goto, RegistryTypeOK, SubmissionInv, FilesInOrder, HasFiles, Files,
      Registered, Uploading, Deleting, Uploads, Deletes, UploadPcs, DeletePcs
<1>10. ASSUME NEW r \in Requests,
              NEW k \in Models, NEW u \in Users \cup {Nil}, NEW n \in 1 .. BatchSize,
              BeginSubmit(r, k, u, n)
       PROVE  FilesInOrder(m)'
  BY <1>0, <1>10, RegistryAssumption
  DEF BeginSubmit, Accept, Goto, RegistryTypeOK, SubmissionInv, FilesInOrder, HasFiles, Files,
      Registered, Uploading, Deleting, Uploads, Deletes, UploadPcs, DeletePcs
<1>11. ASSUME NEW r \in Requests, Insert(r)
       PROVE  FilesInOrder(m)'
  BY <1>0, <1>11, RegistryAssumption
  DEF Insert, Goto, RegistryTypeOK, SubmissionInv, FilesInOrder, HasFiles, Files,
      Registered, Uploading, Deleting, Uploads, Deletes, UploadPcs, DeletePcs
<1>12. ASSUME NEW r \in Requests, Crash(r)
       PROVE  FilesInOrder(m)'
  BY <1>0, <1>12, RegistryAssumption
  DEF Crash, Note, Goto, RegistryTypeOK, SubmissionInv, FilesInOrder, HasFiles, Files,
      Registered, Uploading, Deleting, Uploads, Deletes, UploadPcs, DeletePcs
<1>13. ASSUME NEW r \in Requests,
              NEW f \in Files, TearFile(r, f)
       PROVE  FilesInOrder(m)'
  BY <1>0, <1>13, RegistryAssumption
  DEF TearFile, Note, Goto, RegistryTypeOK, SubmissionInv, FilesInOrder, HasFiles, Files,
      Registered, Uploading, Deleting, Uploads, Deletes, UploadPcs, DeletePcs
<1>14. CASE UNCHANGED registryVars
  BY <1>0, <1>14 DEF registryVars, FilesInOrder, HasFiles, Files,
                     Registered, Uploading, Deleting, Uploads, Deletes, UploadPcs, DeletePcs
<1> QED
  BY <1>1, <1>2, <1>3, <1>4, <1>5, <1>6, <1>7, <1>8, <1>9, <1>10, <1>11, <1>12, <1>13,
     <1>14 DEF RegistryNext, Begin, Upload, Delete, Fail

\* Who was let in keeps the right to go on.
LEMMA OwnersStep ==
    ASSUME RegistryTypeOK, SubmissionInv, FilesInv, OwnersInv, [RegistryNext]_registryVars
    PROVE  OwnersInv'
<1> USE PcNames DEF rows, disk, request, At
<1> SUFFICES ASSUME NEW m \in Models, (overlap[m] \subseteq {"crash"})'
             PROVE  OwnersInOrder(m)'
  BY DEF OwnersInv
<1>0. overlap[m] \subseteq overlap'[m] /\ FilesInOrder(m) /\ OwnersInOrder(m)
  BY OverlapGrows DEF FilesInv, OwnersInv
<1>1. ASSUME NEW r \in Requests,
             NEW k \in Models, NEW u \in Users \cup {Nil},
             BeginUpload(r, k, u)
      PROVE  OwnersInOrder(m)'
  <2>1. /\ pc'[r] \in {"mkdir", "refused"} /\ target'[r] = k /\ user'[r] = u
        /\ pc[r] = "ready" /\ UNCHANGED <<version, owner>>
        /\ \A s \in Requests : s # r =>
             pc'[s] = pc[s] /\ target'[s] = target[s] /\ user'[s] = user[s]
    BY <1>1 DEF BeginUpload, Accept, Goto, RegistryTypeOK
  <2>2. CASE pc'[r] = "refused" \/ k # m
    BY <1>0, <2>1, <2>2 DEF OwnersInOrder, Registered, Uploads, Deletes, UploadPcs, DeletePcs,
                            CanManage
  <2>3. CASE pc'[r] = "mkdir" /\ k = m
    <3>1. /\ Registered(m) => CanManage(u, m)
          /\ Uploading(m) => "upload" \in overlap'[m]
      BY <1>1, <2>3 DEF BeginUpload, Accept, Note, Goto, RegistryTypeOK
    <3>2. ~Uploading(m)
      BY <3>1
    <3> QED BY <1>0, <2>1, <2>3, <3>1, <3>2 DEF OwnersInOrder, Registered, Uploads, Uploading,
                                Deletes, UploadPcs, DeletePcs, CanManage
  <2> QED BY <2>1, <2>2, <2>3
<1>2. ASSUME NEW r \in Requests, MakeDir(r)
      PROVE  OwnersInOrder(m)'
  BY <1>0, <1>2, RegistryAssumption
  DEF MakeDir, Goto, RegistryTypeOK, SubmissionInv, OwnersInOrder, FilesInOrder, CanManage,
      Registered, Uploading, Deleting, Uploads, Deletes, UploadPcs, DeletePcs
<1>3. ASSUME NEW r \in Requests, WriteModel(r) \/ WriteManifest(r)
      PROVE  OwnersInOrder(m)'
  BY <1>0, <1>3, RegistryAssumption
  DEF WriteModel, WriteManifest, WriteFile, Goto, RegistryTypeOK, SubmissionInv, OwnersInOrder, FilesInOrder, CanManage,
      Registered, Uploading, Deleting, Uploads, Deletes, UploadPcs, DeletePcs
<1>4. ASSUME NEW r \in Requests, Register(r)
      PROVE  OwnersInOrder(m)'
  BY <1>0, <1>4, RegistryAssumption
  DEF Register, Goto, RegistryTypeOK, SubmissionInv, OwnersInOrder, FilesInOrder, CanManage,
      Registered, Uploading, Deleting, Uploads, Deletes, UploadPcs, DeletePcs
<1>5. ASSUME NEW r \in Requests,
             NEW k \in Models, NEW u \in Users \cup {Nil},
             BeginDelete(r, k, u)
      PROVE  OwnersInOrder(m)'
  BY <1>0, <1>5, RegistryAssumption
  DEF BeginDelete, Accept, Note, Goto, RegistryTypeOK, SubmissionInv, OwnersInOrder, FilesInOrder, CanManage,
      Registered, Uploading, Deleting, Uploads, Deletes, UploadPcs, DeletePcs
<1>6. ASSUME NEW r \in Requests, DropRow(r)
      PROVE  OwnersInOrder(m)'
  BY <1>0, <1>6, RegistryAssumption
  DEF DropRow, Goto, RegistryTypeOK, SubmissionInv, OwnersInOrder, FilesInOrder, CanManage,
      Registered, Uploading, Deleting, Uploads, Deletes, UploadPcs, DeletePcs
<1>7. ASSUME NEW r \in Requests, ListFiles(r)
      PROVE  OwnersInOrder(m)'
  BY <1>0, <1>7, RegistryAssumption
  DEF ListFiles, Goto, RegistryTypeOK, SubmissionInv, OwnersInOrder, FilesInOrder, CanManage,
      Registered, Uploading, Deleting, Uploads, Deletes, UploadPcs, DeletePcs
<1>8. ASSUME NEW r \in Requests, Unlink(r)
      PROVE  OwnersInOrder(m)'
  BY <1>0, <1>8, RegistryAssumption
  DEF Unlink, Goto, RegistryTypeOK, SubmissionInv, OwnersInOrder, FilesInOrder, CanManage,
      Registered, Uploading, Deleting, Uploads, Deletes, UploadPcs, DeletePcs
<1>9. ASSUME NEW r \in Requests, RemoveDir(r)
      PROVE  OwnersInOrder(m)'
  BY <1>0, <1>9, RegistryAssumption
  DEF RemoveDir, Goto, RegistryTypeOK, SubmissionInv, OwnersInOrder, FilesInOrder, CanManage,
      Registered, Uploading, Deleting, Uploads, Deletes, UploadPcs, DeletePcs
<1>10. ASSUME NEW r \in Requests,
              NEW k \in Models, NEW u \in Users \cup {Nil}, NEW n \in 1 .. BatchSize,
              BeginSubmit(r, k, u, n)
       PROVE  OwnersInOrder(m)'
  BY <1>0, <1>10, RegistryAssumption
  DEF BeginSubmit, Accept, Goto, RegistryTypeOK, SubmissionInv, OwnersInOrder, FilesInOrder, CanManage,
      Registered, Uploading, Deleting, Uploads, Deletes, UploadPcs, DeletePcs
<1>11. ASSUME NEW r \in Requests, Insert(r)
       PROVE  OwnersInOrder(m)'
  BY <1>0, <1>11, RegistryAssumption
  DEF Insert, Goto, RegistryTypeOK, SubmissionInv, OwnersInOrder, FilesInOrder, CanManage,
      Registered, Uploading, Deleting, Uploads, Deletes, UploadPcs, DeletePcs
<1>12. ASSUME NEW r \in Requests, Crash(r)
       PROVE  OwnersInOrder(m)'
  BY <1>0, <1>12, RegistryAssumption
  DEF Crash, Note, Goto, RegistryTypeOK, SubmissionInv, OwnersInOrder, FilesInOrder, CanManage,
      Registered, Uploading, Deleting, Uploads, Deletes, UploadPcs, DeletePcs
<1>13. ASSUME NEW r \in Requests,
              NEW f \in Files, TearFile(r, f)
       PROVE  OwnersInOrder(m)'
  BY <1>0, <1>13, RegistryAssumption
  DEF TearFile, Note, Goto, RegistryTypeOK, SubmissionInv, OwnersInOrder, FilesInOrder, CanManage,
      Registered, Uploading, Deleting, Uploads, Deletes, UploadPcs, DeletePcs
<1>14. CASE UNCHANGED registryVars
  BY <1>0, <1>14 DEF registryVars, OwnersInOrder, FilesInOrder, CanManage,
                     Registered, Uploading, Deleting, Uploads, Deletes, UploadPcs, DeletePcs
<1> QED
  BY <1>1, <1>2, <1>3, <1>4, <1>5, <1>6, <1>7, <1>8, <1>9, <1>10, <1>11, <1>12, <1>13,
     <1>14 DEF RegistryNext, Begin, Upload, Delete, Fail

\* Row and files are those of one upload.
LEMMA ContentsStep ==
    ASSUME RegistryTypeOK, SubmissionInv, FilesInv, OwnersInv, ContentsInv, [RegistryNext]_registryVars
    PROVE  ContentsInv'
<1> USE PcNames DEF rows, disk, request, At
<1> SUFFICES ASSUME NEW m \in Models, (overlap[m] = {})'
             PROVE  ContentsInOrder(m)'
  BY DEF ContentsInv
<1>0. overlap[m] \subseteq overlap'[m] /\ FilesInOrder(m) /\ OwnersInOrder(m) /\ ContentsInOrder(m)
  <2>1. overlap[m] = {}
    BY OverlapGrows
  <2> QED BY <2>1 DEF FilesInv, OwnersInv, ContentsInv
<1>1. ASSUME NEW r \in Requests,
             NEW k \in Models, NEW u \in Users \cup {Nil},
             BeginUpload(r, k, u)
      PROVE  ContentsInOrder(m)'
  BY <1>0, <1>1, RegistryAssumption
  DEF BeginUpload, Accept, Note, Goto, RegistryTypeOK, SubmissionInv, ContentsInOrder, OwnersInOrder, FilesInOrder, HasFiles, Files,
      Registered, Uploading, Deleting, Uploads, Deletes, UploadPcs, DeletePcs
<1>2. ASSUME NEW r \in Requests, MakeDir(r)
      PROVE  ContentsInOrder(m)'
  BY <1>0, <1>2, RegistryAssumption
  DEF MakeDir, Goto, RegistryTypeOK, SubmissionInv, ContentsInOrder, OwnersInOrder, FilesInOrder, HasFiles, Files,
      Registered, Uploading, Deleting, Uploads, Deletes, UploadPcs, DeletePcs
<1>3. ASSUME NEW r \in Requests, WriteModel(r) \/ WriteManifest(r)
      PROVE  ContentsInOrder(m)'
  BY <1>0, <1>3, RegistryAssumption
  DEF WriteModel, WriteManifest, WriteFile, Goto, RegistryTypeOK, SubmissionInv, ContentsInOrder, OwnersInOrder, FilesInOrder, HasFiles, Files,
      Registered, Uploading, Deleting, Uploads, Deletes, UploadPcs, DeletePcs
<1>4. ASSUME NEW r \in Requests, Register(r)
      PROVE  ContentsInOrder(m)'
  BY <1>0, <1>4, RegistryAssumption
  DEF Register, Goto, RegistryTypeOK, SubmissionInv, ContentsInOrder, OwnersInOrder, FilesInOrder, HasFiles, Files,
      Registered, Uploading, Deleting, Uploads, Deletes, UploadPcs, DeletePcs
<1>5. ASSUME NEW r \in Requests,
             NEW k \in Models, NEW u \in Users \cup {Nil},
             BeginDelete(r, k, u)
      PROVE  ContentsInOrder(m)'
  BY <1>0, <1>5, RegistryAssumption
  DEF BeginDelete, Accept, Note, Goto, RegistryTypeOK, SubmissionInv, ContentsInOrder, OwnersInOrder, FilesInOrder, HasFiles, Files,
      Registered, Uploading, Deleting, Uploads, Deletes, UploadPcs, DeletePcs
<1>6. ASSUME NEW r \in Requests, DropRow(r)
      PROVE  ContentsInOrder(m)'
  BY <1>0, <1>6, RegistryAssumption
  DEF DropRow, Goto, RegistryTypeOK, SubmissionInv, ContentsInOrder, OwnersInOrder, FilesInOrder, HasFiles, Files,
      Registered, Uploading, Deleting, Uploads, Deletes, UploadPcs, DeletePcs
<1>7. ASSUME NEW r \in Requests, ListFiles(r)
      PROVE  ContentsInOrder(m)'
  BY <1>0, <1>7, RegistryAssumption
  DEF ListFiles, Goto, RegistryTypeOK, SubmissionInv, ContentsInOrder, OwnersInOrder, FilesInOrder, HasFiles, Files,
      Registered, Uploading, Deleting, Uploads, Deletes, UploadPcs, DeletePcs
<1>8. ASSUME NEW r \in Requests, Unlink(r)
      PROVE  ContentsInOrder(m)'
  BY <1>0, <1>8, RegistryAssumption
  DEF Unlink, Goto, RegistryTypeOK, SubmissionInv, ContentsInOrder, OwnersInOrder, FilesInOrder, HasFiles, Files,
      Registered, Uploading, Deleting, Uploads, Deletes, UploadPcs, DeletePcs
<1>9. ASSUME NEW r \in Requests, RemoveDir(r)
      PROVE  ContentsInOrder(m)'
  BY <1>0, <1>9, RegistryAssumption
  DEF RemoveDir, Goto, RegistryTypeOK, SubmissionInv, ContentsInOrder, OwnersInOrder, FilesInOrder, HasFiles, Files,
      Registered, Uploading, Deleting, Uploads, Deletes, UploadPcs, DeletePcs
<1>10. ASSUME NEW r \in Requests,
              NEW k \in Models, NEW u \in Users \cup {Nil}, NEW n \in 1 .. BatchSize,
              BeginSubmit(r, k, u, n)
       PROVE  ContentsInOrder(m)'
  BY <1>0, <1>10, RegistryAssumption
  DEF BeginSubmit, Accept, Goto, RegistryTypeOK, SubmissionInv, ContentsInOrder, OwnersInOrder, FilesInOrder, HasFiles, Files,
      Registered, Uploading, Deleting, Uploads, Deletes, UploadPcs, DeletePcs
<1>11. ASSUME NEW r \in Requests, Insert(r)
       PROVE  ContentsInOrder(m)'
  BY <1>0, <1>11, RegistryAssumption
  DEF Insert, Goto, RegistryTypeOK, SubmissionInv, ContentsInOrder, OwnersInOrder, FilesInOrder, HasFiles, Files,
      Registered, Uploading, Deleting, Uploads, Deletes, UploadPcs, DeletePcs
<1>12. ASSUME NEW r \in Requests, Crash(r)
       PROVE  ContentsInOrder(m)'
  BY <1>0, <1>12, RegistryAssumption
  DEF Crash, Note, Goto, RegistryTypeOK, SubmissionInv, ContentsInOrder, OwnersInOrder, FilesInOrder, HasFiles, Files,
      Registered, Uploading, Deleting, Uploads, Deletes, UploadPcs, DeletePcs
<1>13. ASSUME NEW r \in Requests,
              NEW f \in Files, TearFile(r, f)
       PROVE  ContentsInOrder(m)'
  BY <1>0, <1>13, RegistryAssumption
  DEF TearFile, Note, Goto, RegistryTypeOK, SubmissionInv, ContentsInOrder, OwnersInOrder, FilesInOrder, HasFiles, Files,
      Registered, Uploading, Deleting, Uploads, Deletes, UploadPcs, DeletePcs
<1>14. CASE UNCHANGED registryVars
  BY <1>0, <1>14 DEF registryVars, ContentsInOrder, OwnersInOrder, FilesInOrder, HasFiles, Files,
                     Registered, Uploading, Deleting, Uploads, Deletes, UploadPcs, DeletePcs
<1> QED
  BY <1>1, <1>2, <1>3, <1>4, <1>5, <1>6, <1>7, <1>8, <1>9, <1>10, <1>11, <1>12, <1>13,
     <1>14 DEF RegistryNext, Begin, Upload, Delete, Fail

\* Files, owner and contents of a model are in order unless requests that could
\* spoil them have overlapped.
THEOREM OverlapInvariant == RegistrySpec => [](FilesInv /\ OwnersInv /\ ContentsInv)
<1>1. RegistryInit => FilesInv /\ OwnersInv /\ ContentsInv
  BY OverlapInitial
<1>2. ASSUME RegistryTypeOK, SubmissionInv, FilesInv, OwnersInv, ContentsInv,
             [RegistryNext]_registryVars
      PROVE  FilesInv' /\ OwnersInv' /\ ContentsInv'
  BY <1>2, FilesStep, OwnersStep, ContentsStep
<1> QED BY <1>1, <1>2, RegistryInvariant, PTL DEF RegistrySpec

\* A registered model has its files unless a deletion overlapped an upload.
THEOREM FilesOutlastRows == RegistrySpec => []RegisteredModelsHaveFiles
<1>1. FilesInv => RegisteredModelsHaveFiles
  BY DEF FilesInv, FilesInOrder, RegisteredModelsHaveFiles
<1> QED BY <1>1, OverlapInvariant, PTL

\* At rest, the row and the files of a model are those of one upload, unless
\* handlers have overlapped or died.
THEOREM FilesAreThoseOfTheRow == RegistrySpec => []RowsMatchFiles
<1>1. ContentsInv => RowsMatchFiles
  BY DEF ContentsInv, ContentsInOrder, RowsMatchFiles
<1> QED BY <1>1, OverlapInvariant, PTL

\* A registered model is replaced and removed by those who may manage it only,
\* unless handlers have overlapped.
THEOREM ModelsStayWithTheirOwners == RegistrySpec => OwnersKeepTheirModels
<1> DEFINE Kept(m) ==
      Registered(m) /\ version'[m] # version[m] /\ overlap[m] \subseteq {"crash"} =>
          /\ version'[m] # Nil => owner'[m] = owner[m]
          /\ \A r \in Requests : pc'[r] # pc[r] => CanManage(user[r], m)
<1>1. ASSUME RegistryTypeOK, SubmissionInv, OwnersInv, [RegistryNext]_registryVars,
             NEW m \in Models
      PROVE  Kept(m)
  <2> USE DEF rows, disk, At
  <2>1. ASSUME NEW r \in Requests, Register(r)
        PROVE  Kept(m)
    BY <1>1, <2>1 DEF Register, Goto, OwnersInv, OwnersInOrder, Registered, Uploads,
                      UploadPcs, RegistryTypeOK
  <2>2. ASSUME NEW r \in Requests, DropRow(r)
        PROVE  Kept(m)
    BY <1>1, <2>2 DEF DropRow, Goto, OwnersInv, OwnersInOrder, Registered, Deletes,
                      DeletePcs, RegistryTypeOK
  <2>3. CASE UNCHANGED version
    BY <2>3
  <2> HIDE DEF Kept
  <2>4. ASSUME NEW r \in Requests, Begin(r)
        PROVE  UNCHANGED version
    BY <2>4 DEF Begin, BeginUpload, BeginDelete, BeginSubmit
  <2>5. ASSUME NEW r \in Requests, Insert(r) \/ Fail(r)
        PROVE  UNCHANGED version
    BY <2>5 DEF Insert, Fail, Crash, TearFile
  <2>6. ASSUME NEW r \in Requests, Upload(r)
        PROVE  Register(r) \/ UNCHANGED version
    BY <2>6 DEF Upload, MakeDir, WriteModel, WriteManifest, WriteFile
  <2>7. ASSUME NEW r \in Requests, Delete(r)
        PROVE  DropRow(r) \/ UNCHANGED version
    BY <2>7 DEF Delete, ListFiles, Unlink, RemoveDir
  <2> QED BY <1>1, <2>1, <2>2, <2>3, <2>4, <2>5, <2>6, <2>7 DEF RegistryNext, registryVars
<1>2. ASSUME RegistryTypeOK, SubmissionInv, OwnersInv, [RegistryNext]_registryVars
      PROVE  [\A m \in Models : Kept(m)]_registryVars
  BY <1>1, <1>2
<1> QED BY <1>2, RegistryInvariant, OverlapInvariant, PTL DEF RegistrySpec, OwnersKeepTheirModels

=============================================================================
