------------------------- MODULE ReconstructionProofs -------------------------
(***************************************************************************)
(* The safety of the reconstruction dialog, proved for any images, outputs *)
(* and length of the queue.  The argument follows OnOK: each stage has a   *)
(* file of the one before it, of the images asked for unless a program has *)
(* ended without its file; and a batch and a single call exclude each      *)
(* other, by the position in the queue.                                    *)
(***************************************************************************)
EXTENDS Reconstruction, TLAPS

MeshStages == {"Sparse", "Convert", "Memory", "Dense", "Move", "NVM2SFM", "MeshRecon"}

OnOKStages == MeshStages \cup {"Texture"}

Files == [Kinds -> [Outputs -> Images \cup {NULL}]]

Checks == [allowed : Levels \cup {-1}, of : Images \cup {NULL}]

RTypeOK ==
  /\ dialog \in {"Open", "OK", "CANCEL"}
  /\ fields \in Jobs \cup {NULL}
  /\ imagesOfDefault \in Images \cup {NULL}
  /\ batchItems \in Seq(Jobs)
  /\ disableEndModal \in BOOLEAN /\ success \in BOOLEAN /\ silent \in BOOLEAN
  /\ position \in Nat
  /\ stage \in {"Idle", "Next"} \cup OnOKStages
  /\ files \in Files
  /\ config \in Configs /\ levelOfDetails \in Levels

(* OnOK runs on a job that is filled in, in an open dialog, and a batch is *)
(* on exactly while the dialog is forbidden to end.                        *)
CallsAreOrdered ==
  /\ stage \in OnOKStages => fields # NULL /\ dialog = "Open" /\ ~success
  /\ stage \in MeshStages => fields.mesh
  /\ stage = "Texture" => fields.texture
  /\ stage = "Next" => dialog = "Open" /\ disableEndModal
  /\ stage = "Idle" => position = 0 /\ ~disableEndModal
  /\ position > 0 => disableEndModal /\ fields # NULL
  /\ disableEndModal /\ position = 0 => stage = "Next" /\ ~success
  /\ success => fields # NULL
  /\ dialog # "Open" => stage = "Idle"
  /\ (dialog = "OK") <=> (success /\ stage = "Idle")

(* A mesh that is to be textured is there.                                 *)
HasMesh(job) == ~job.mesh => files["refine"][job.from] # NULL

MeshesAreThere ==
  /\ fields # NULL => HasMesh(fields)
  /\ \A i \in 1 .. Len(batchItems) : HasMesh(batchItems[i])

(* The file a stage starts from.                                           *)
Made(kind) ==
  /\ files[kind][fields.output] # NULL
  /\ silent \/ files[kind][fields.output] = fields.images

FilesFollowStages ==
  /\ stage = "Convert" => Made("sparse")
  /\ stage \in {"Memory", "NVM2SFM"} => Made("nvm")
  /\ stage = "MeshRecon" => Made("sfm")
  /\ stage = "Move" => Made("dense")
  /\ stage = "Texture" /\ fields.mesh => Made("refine")

(* The check is of this call, and outside a batch the default size is that *)
(* of the images in the field.                                             *)
CheckIsOfTheCall ==
  /\ stage \in {"NVM2SFM", "MeshRecon"} => check \in Checks
  /\ position = 0 /\ fields # NULL =>
       (fields.mesh => imagesOfDefault = fields.images)
  /\ MeasuresOwnImages
  /\ LevelFits

Inv ==
  /\ RTypeOK
  /\ CallsAreOrdered
  /\ MeshesAreThere
  /\ FilesFollowStages
  /\ SuccessShowsImages
  /\ CheckIsOfTheCall

LEMMA JobParts ==
  ASSUME NEW job \in Jobs
  PROVE  /\ job # NULL
         /\ job.mesh \in BOOLEAN /\ job.texture \in BOOLEAN /\ job.output \in Outputs
         /\ job.mesh => job.images \in Images
         /\ ~job.mesh => job.from \in Outputs /\ job.texture
  BY ReconstructionAssumption DEF Jobs

LEMMA InitEstablishesInv == Init => Inv
  <1> SUFFICES ASSUME Init PROVE Inv
    OBVIOUS
  <1>0. <<>> \in Seq(Jobs)
    OBVIOUS
  <1>1. RTypeOK
    BY <1>0 DEF Init, RTypeOK, Files
  <1>2. CallsAreOrdered /\ MeshesAreThere /\ FilesFollowStages
    BY DEF Init, CallsAreOrdered, MeshesAreThere, FilesFollowStages, OnOKStages, MeshStages
  <1>3. SuccessShowsImages /\ CheckIsOfTheCall
    BY DEF Init, SuccessShowsImages, CheckIsOfTheCall, MeasuresOwnImages, LevelFits
  <1> QED
    BY <1>1, <1>2, <1>3 DEF Inv

-----------------------------------------------------------------------------
(* The dialog between two calls.                                           *)
LEMMA DialogKeepsInv ==
  ASSUME Inv,
         \/ OnToolStartReconstruction \/ Cancel
         \/ \E job \in Jobs : Fill(job)
         \/ \E images \in Images : RefuseImages(images)
         \/ \E c \in Configs, l \in Levels : OnBtConfig(c, l)
         \/ OnBtBatchAdd \/ OnBtBatchStart
  PROVE  Inv'
  <1> USE DEF Inv, settings, queue, history, Ready, Forget, OnOKStages, MeshStages
  <1>1. CASE OnToolStartReconstruction
    <2>0. <<>> \in Seq(Jobs)
      OBVIOUS
    <2>3. RTypeOK'
      BY <1>1, <2>0 DEF OnToolStartReconstruction, RTypeOK
    <2>4. CallsAreOrdered'
      BY <1>1 DEF OnToolStartReconstruction, RTypeOK, CallsAreOrdered
    <2>1. RTypeOK' /\ CallsAreOrdered'
      BY <2>3, <2>4
    <2>2. MeshesAreThere' /\ FilesFollowStages' /\ SuccessShowsImages' /\ CheckIsOfTheCall'
      BY <1>1, <2>1 DEF OnToolStartReconstruction, RTypeOK, CallsAreOrdered, MeshesAreThere,
        FilesFollowStages, SuccessShowsImages, CheckIsOfTheCall, MeasuresOwnImages, LevelFits
    <2> QED
      BY <2>1, <2>2
  <1>2. CASE Cancel
    <2>0. <<>> \in Seq(Jobs)
      OBVIOUS
    <2>3. RTypeOK'
      BY <1>2, <2>0 DEF Cancel, RTypeOK
    <2>4. CallsAreOrdered'
      BY <1>2 DEF Cancel, RTypeOK, CallsAreOrdered
    <2>1. RTypeOK' /\ CallsAreOrdered'
      BY <2>3, <2>4
    <2>2. MeshesAreThere' /\ FilesFollowStages' /\ SuccessShowsImages' /\ CheckIsOfTheCall'
      BY <1>2, <2>1 DEF Cancel, RTypeOK, CallsAreOrdered, MeshesAreThere,
        FilesFollowStages, SuccessShowsImages, CheckIsOfTheCall, MeasuresOwnImages, LevelFits
    <2> QED
      BY <2>1, <2>2
  <1>3. ASSUME NEW job \in Jobs, Fill(job) PROVE Inv'
    <2>0. job # NULL /\ (job.mesh => job.images \in Images)
      BY JobParts
    <2>1. RTypeOK' /\ CallsAreOrdered'
      BY <1>3, <2>0 DEF Fill, RTypeOK, CallsAreOrdered
    <2>2. MeshesAreThere' /\ FilesFollowStages' /\ SuccessShowsImages' /\ CheckIsOfTheCall'
      BY <1>3, <2>0, <2>1 DEF Fill, RTypeOK, CallsAreOrdered, MeshesAreThere, HasMesh,
        FilesFollowStages, SuccessShowsImages, CheckIsOfTheCall, MeasuresOwnImages, LevelFits
    <2> QED
      BY <2>1, <2>2
  <1>4. ASSUME NEW c \in Configs, NEW l \in Levels, OnBtConfig(c, l) PROVE Inv'
    <2>1. RTypeOK' /\ CallsAreOrdered'
      BY <1>4 DEF OnBtConfig, RTypeOK, CallsAreOrdered
    <2>2. MeshesAreThere' /\ FilesFollowStages' /\ SuccessShowsImages' /\ CheckIsOfTheCall'
      BY <1>4, <2>1 DEF OnBtConfig, RTypeOK, CallsAreOrdered, MeshesAreThere, HasMesh,
        FilesFollowStages, SuccessShowsImages, CheckIsOfTheCall, MeasuresOwnImages, LevelFits
    <2> QED
      BY <2>1, <2>2
  <1>5. CASE OnBtBatchAdd
    <2>1. /\ fields \in Jobs /\ batchItems \in Seq(Jobs)
          /\ batchItems' = Append(batchItems, fields)
      BY <1>5 DEF OnBtBatchAdd, RTypeOK
    <2>2. /\ batchItems' \in Seq(Jobs) /\ Len(batchItems') = Len(batchItems) + 1
          /\ Len(batchItems) \in Nat
          /\ batchItems'[Len(batchItems) + 1] = fields
          /\ \A i \in 1 .. Len(batchItems) : batchItems'[i] = batchItems[i]
      BY <2>1
    <2>3. RTypeOK' /\ CallsAreOrdered'
      BY <1>5, <2>2 DEF OnBtBatchAdd, RTypeOK, CallsAreOrdered
    <2>4. fields # NULL /\ fields' = NULL /\ UNCHANGED files
      BY <1>5 DEF OnBtBatchAdd
    <2>5. HasMesh(fields) /\ \A i \in 1 .. Len(batchItems) : HasMesh(batchItems[i])
      BY <2>4 DEF MeshesAreThere
    <2>6. \A i \in 1 .. Len(batchItems') : i \in 1 .. Len(batchItems) \/ i = Len(batchItems) + 1
      BY <2>2
    <2>7. \A i \in 1 .. Len(batchItems') : HasMesh(batchItems'[i])
      BY <2>2, <2>5, <2>6
    <2>8. MeshesAreThere'
      BY <2>4, <2>7 DEF MeshesAreThere, HasMesh
    <2>9. FilesFollowStages' /\ SuccessShowsImages' /\ CheckIsOfTheCall'
      BY <1>5, <2>3 DEF OnBtBatchAdd, RTypeOK, CallsAreOrdered,
        FilesFollowStages, SuccessShowsImages, CheckIsOfTheCall, MeasuresOwnImages, LevelFits
    <2> QED
      BY <2>3, <2>8, <2>9
  <1>7. ASSUME NEW images \in Images, RefuseImages(images) PROVE Inv'
    <2>1. RTypeOK' /\ CallsAreOrdered'
      BY <1>7 DEF RefuseImages, RTypeOK, CallsAreOrdered
    <2>2. MeshesAreThere' /\ FilesFollowStages' /\ SuccessShowsImages' /\ CheckIsOfTheCall'
      BY <1>7, <2>1 DEF RefuseImages, RTypeOK, CallsAreOrdered, MeshesAreThere, HasMesh,
        FilesFollowStages, SuccessShowsImages, CheckIsOfTheCall, MeasuresOwnImages, LevelFits
    <2> QED
      BY <2>1, <2>2
  <1>6. CASE OnBtBatchStart
    <2>1. RTypeOK' /\ CallsAreOrdered'
      BY <1>6 DEF OnBtBatchStart, RTypeOK, CallsAreOrdered
    <2>2. MeshesAreThere' /\ FilesFollowStages' /\ SuccessShowsImages' /\ CheckIsOfTheCall'
      BY <1>6, <2>1 DEF OnBtBatchStart, RTypeOK, CallsAreOrdered, MeshesAreThere, HasMesh,
        FilesFollowStages, SuccessShowsImages, CheckIsOfTheCall, MeasuresOwnImages, LevelFits
    <2> QED
      BY <2>1, <2>2
  <1> QED
    BY <1>1, <1>2, <1>3, <1>4, <1>5, <1>6, <1>7

(* The calls that begin, and the end of a batch.                           *)
LEMMA BeginKeepsInv == ASSUME Inv, OnOK \/ NextItem \/ EndBatch PROVE Inv'
  <1> USE DEF Inv, settings, queue, history, Ready, Forget, Begin, OnOKStages, MeshStages
  <1>1. CASE OnOK
    <2>0. fields \in Jobs /\ (~fields.mesh => fields.texture) /\ fields.mesh \in BOOLEAN
      BY <1>1, JobParts DEF OnOK, RTypeOK
    <2>1. RTypeOK' /\ CallsAreOrdered'
      BY <1>1, <2>0 DEF OnOK, RTypeOK, CallsAreOrdered
    <2>2. MeshesAreThere' /\ FilesFollowStages' /\ SuccessShowsImages' /\ CheckIsOfTheCall'
      BY <1>1, <2>1 DEF OnOK, RTypeOK, CallsAreOrdered, MeshesAreThere, HasMesh,
        FilesFollowStages, SuccessShowsImages, CheckIsOfTheCall, MeasuresOwnImages, LevelFits
    <2> QED
      BY <2>1, <2>2
  <1>2. CASE NextItem
    <2>1. /\ position \in Nat /\ Len(batchItems) \in Nat /\ position < Len(batchItems)
          /\ position' = position + 1 /\ fields' = batchItems[position']
          /\ UNCHANGED <<files, batchItems>>
      BY <1>2 DEF NextItem, RTypeOK
    <2>2. position' \in 1 .. Len(batchItems) /\ position' \in Nat /\ position' > 0
      BY <2>1
    <2>3. fields' \in Jobs
      BY <2>1, <2>2 DEF RTypeOK
    <2>4. /\ fields' # NULL /\ fields'.mesh \in BOOLEAN /\ (~fields'.mesh => fields'.texture)
      BY <2>3, JobParts
    <2>5. RTypeOK'
      BY <1>2, <2>2, <2>3, <2>4 DEF NextItem, RTypeOK
    <2>8. CallsAreOrdered'
      BY <1>2, <2>2, <2>3, <2>4 DEF NextItem, RTypeOK, CallsAreOrdered
    <2>6. MeshesAreThere'
      BY <2>1, <2>2 DEF MeshesAreThere, HasMesh
    <2>7. FilesFollowStages' /\ SuccessShowsImages' /\ CheckIsOfTheCall'
      BY <1>2, <2>2, <2>4 DEF NextItem,
        FilesFollowStages, SuccessShowsImages, CheckIsOfTheCall, MeasuresOwnImages, LevelFits
    <2> QED
      BY <2>5, <2>6, <2>7, <2>8
  <1>3. CASE EndBatch
    <2>3. RTypeOK'
      BY <1>3 DEF EndBatch, RTypeOK
    <2>4. CallsAreOrdered'
      BY <1>3 DEF EndBatch, RTypeOK, CallsAreOrdered
    <2>1. RTypeOK' /\ CallsAreOrdered'
      BY <2>3, <2>4
    <2>2. MeshesAreThere' /\ FilesFollowStages' /\ SuccessShowsImages' /\ CheckIsOfTheCall'
      BY <1>3, <2>1 DEF EndBatch, RTypeOK, CallsAreOrdered, MeshesAreThere, HasMesh,
        FilesFollowStages, SuccessShowsImages, CheckIsOfTheCall, MeasuresOwnImages, LevelFits
    <2> QED
      BY <2>1, <2>2
  <1> QED
    BY <1>1, <1>2, <1>3

-----------------------------------------------------------------------------
(* The programs.                                                           *)
Same == UNCHANGED <<Rest, levelOfDetails>>

Ran(kind, content) ==
  \/ files' = Written(kind, content) /\ UNCHANGED silent
  \/ files[kind][fields.output] # NULL /\ UNCHANGED files /\ silent' = TRUE

LEMMA ProgramFailsOrRan ==
  ASSUME NEW kind, NEW content, NEW next, RunProgram(kind, content, next)
  PROVE  (Fail /\ UNCHANGED files) \/ (Ran(kind, content) /\ Go(next))
  BY DEF RunProgram, Ran

LEMMA CallHasJob ==
  ASSUME Inv, stage \in OnOKStages
  PROVE  fields \in Jobs /\ fields # NULL /\ fields.output \in Outputs
  BY JobParts DEF Inv, RTypeOK, CallsAreOrdered

LEMMA FailKeepsInv ==
  ASSUME Inv, stage \in OnOKStages, Fail, UNCHANGED files, Same
  PROVE  Inv'
  <1> USE DEF Inv, Fail, Return, Forget, Same, Rest, queue, OnOKStages, MeshStages
  <1>1. RTypeOK'
    BY DEF RTypeOK
  <1>2. CallsAreOrdered'
    BY DEF RTypeOK, CallsAreOrdered
  <1>3. MeshesAreThere'
    BY DEF MeshesAreThere, HasMesh
  <1>4. FilesFollowStages' /\ SuccessShowsImages'
    BY DEF FilesFollowStages, SuccessShowsImages
  <1>5. CheckIsOfTheCall'
    BY DEF CheckIsOfTheCall, MeasuresOwnImages, LevelFits
  <1> QED
    BY <1>1, <1>2, <1>3, <1>4, <1>5

LEMMA RanKeepsMeshes ==
  ASSUME Inv, stage \in OnOKStages, NEW kind \in Kinds, NEW content \in Images,
         Ran(kind, content), Same
  PROVE  files' \in Files /\ MeshesAreThere' /\ silent' \in BOOLEAN
  <1>1. fields.output \in Outputs /\ files \in Files /\ silent \in BOOLEAN
    BY CallHasJob DEF Inv, RTypeOK
  <1>2. content # NULL
    BY ReconstructionAssumption
  <1>3. files' \in Files /\ silent' \in BOOLEAN
    <2>1. CASE files' = Written(kind, content) /\ UNCHANGED silent
      <3> DEFINE row == [files[kind] EXCEPT ![fields.output] = content]
      <3>1. row \in [Outputs -> Images \cup {NULL}]
        BY <1>1 DEF Files
      <3>2. files' = [files EXCEPT ![kind] = row]
        BY <2>1 DEF Written
      <3> HIDE DEF row
      <3> QED
        BY <1>1, <2>1, <3>1, <3>2 DEF Files
    <2>2. CASE UNCHANGED files /\ silent' = TRUE
      BY <1>1, <2>2
    <2> QED
      BY <2>1, <2>2 DEF Ran
  <1>4. \A o \in Outputs : files["refine"][o] # NULL => files'["refine"][o] # NULL
    BY <1>1, <1>2 DEF Ran, Written, Files, Kinds
  <1>5. UNCHANGED <<fields, batchItems>>
    BY DEF Same, Rest, queue
  <1>6. ASSUME NEW job \in Jobs, HasMesh(job) PROVE HasMesh(job)'
    BY <1>4, <1>6, JobParts DEF HasMesh
  <1>7. fields \in Jobs /\ HasMesh(fields) /\ fields # NULL
    BY CallHasJob DEF Inv, MeshesAreThere
  <1>8. \A i \in 1 .. Len(batchItems) : batchItems[i] \in Jobs /\ HasMesh(batchItems[i])
    BY DEF Inv, MeshesAreThere, RTypeOK
  <1>9. HasMesh(fields)'
    <2>1. fields.mesh \/ files'["refine"][fields.from] # NULL
      BY <1>4, <1>7, JobParts DEF HasMesh
    <2> QED
      BY <2>1, <1>5 DEF HasMesh
  <1>10. ASSUME NEW i \in 1 .. Len(batchItems) PROVE HasMesh(batchItems[i])'
    <2>1. batchItems[i].mesh \/ files'["refine"][batchItems[i].from] # NULL
      BY <1>4, <1>8, JobParts DEF HasMesh
    <2> QED
      BY <2>1, <1>5 DEF HasMesh
  <1>11. MeshesAreThere'
    BY <1>5, <1>9, <1>10 DEF MeshesAreThere
  <1> QED
    BY <1>3, <1>11

(* What a program leaves is of the images it was to work on.               *)
LEMMA RanMakes ==
  ASSUME Inv, stage \in OnOKStages, NEW kind \in Kinds, NEW content \in Images,
         Ran(kind, content), Same
  PROVE  /\ files'[kind][fields.output] # NULL
         /\ silent' \/ (~silent /\ files'[kind][fields.output] = content)
  BY CallHasJob, ReconstructionAssumption DEF Inv, RTypeOK, Ran, Written, Files

(* On to the next stage.                                                   *)
LEMMA StageKeepsInv ==
  ASSUME Inv, stage \in OnOKStages,
         NEW next \in OnOKStages \ {"NVM2SFM"},
         stage' = next, UNCHANGED <<dialog, success, check>>, Same,
         files' \in Files, silent' \in BOOLEAN, MeshesAreThere', FilesFollowStages',
         next \in MeshStages => stage \in MeshStages,
         next = "Texture" => fields.texture,
         next = "MeshRecon" => stage = "NVM2SFM"
  PROVE  Inv'
  <1> USE DEF Inv, Same, Rest, queue, OnOKStages, MeshStages
  <1>1. RTypeOK'
    BY DEF RTypeOK
  <1>2. CallsAreOrdered'
    BY DEF RTypeOK, CallsAreOrdered
  <1>3. SuccessShowsImages'
    BY DEF CallsAreOrdered, SuccessShowsImages
  <1>4. CheckIsOfTheCall'
    BY DEF CheckIsOfTheCall, MeasuresOwnImages, LevelFits
  <1> QED
    BY <1>1, <1>2, <1>3, <1>4

LEMMA SucceedKeepsInv ==
  ASSUME Inv, stage \in OnOKStages, Succeed, Same,
         files' \in Files, silent' \in BOOLEAN, MeshesAreThere', SuccessShowsImages'
  PROVE  Inv'
  <1> USE DEF Inv, Succeed, Return, Same, Rest, queue, OnOKStages, MeshStages
  <1>1. RTypeOK'
    BY DEF RTypeOK
  <1>2. CallsAreOrdered'
    BY DEF RTypeOK, CallsAreOrdered
  <1>3. FilesFollowStages'
    BY DEF FilesFollowStages
  <1>4. CheckIsOfTheCall'
    BY DEF CheckIsOfTheCall, MeasuresOwnImages, LevelFits
  <1> QED
    BY <1>1, <1>2, <1>3, <1>4

(* A program of the reconstruction: its file is the one that the next      *)
(* stage, or FrmPrincipal, starts from.                                    *)
LEMMA MeshProgramKeepsInv ==
  ASSUME Inv, stage \in MeshStages, NEW kind \in Kinds, NEW content \in Images,
         silent \/ content = fields.images,
         NEW next \in {"Convert", "Memory", "Dense", "Move", "MeshRecon", "Texture", "End"},
         RunProgram(kind, content, next), Same,
         next = "Convert" => kind = "sparse",
         next = "Memory" => kind = "nvm",
         next = "MeshRecon" => kind = "sfm" /\ stage = "NVM2SFM",
         next = "Move" => kind = "dense",
         next = "Texture" => kind = "refine" /\ fields.texture,
         next = "End" => kind = "refine" /\ ~fields.texture
  PROVE  Inv'
  <1>0. stage \in OnOKStages /\ fields.mesh
    BY DEF Inv, CallsAreOrdered, OnOKStages
  <1>1. CASE Fail /\ UNCHANGED files
    BY <1>0, <1>1, FailKeepsInv
  <1>2. CASE Ran(kind, content) /\ Go(next)
    <2>1. files' \in Files /\ MeshesAreThere' /\ silent' \in BOOLEAN
      BY <1>0, <1>2, RanKeepsMeshes
    <2>2. /\ files'[kind][fields.output] # NULL
          /\ silent' \/ (~silent /\ files'[kind][fields.output] = content)
      BY <1>0, <1>2, RanMakes
    <2>3. UNCHANGED fields
      BY DEF Same, Rest
    <2>4. CASE next = "End"
      <3>1. Succeed
        BY <1>2, <2>4 DEF Go
      <3>2. SuccessShowsImages'
        BY <1>0, <2>2, <2>3, <2>4 DEF SuccessShowsImages, Shown, Asked
      <3> QED
        BY <1>0, <2>1, <3>1, <3>2, SucceedKeepsInv
    <2>5. CASE next # "End"
      <3>1. stage' = next /\ UNCHANGED <<dialog, success, check>>
        BY <1>2, <2>5 DEF Go
      <3>2. FilesFollowStages'
        BY <2>2, <2>3, <3>1 DEF FilesFollowStages, Made
      <3>3. next \in OnOKStages \ {"NVM2SFM"}
        BY <2>5 DEF OnOKStages, MeshStages
      <3> QED
        BY <1>0, <2>1, <3>1, <3>2, <3>3, StageKeepsInv
    <2> QED
      BY <2>4, <2>5
  <1> QED
    BY <1>1, <1>2, ProgramFailsOrRan

LEMMA JobImages == ASSUME Inv, stage \in MeshStages PROVE fields.images \in Images
  BY CallHasJob, JobParts DEF Inv, CallsAreOrdered, OnOKStages

LEMMA MadeIsImages ==
  ASSUME Inv, stage \in MeshStages, NEW kind \in Kinds, Made(kind)
  PROVE  /\ files[kind][fields.output] \in Images
         /\ silent \/ files[kind][fields.output] = fields.images
  BY CallHasJob DEF Inv, RTypeOK, Files, Made, OnOKStages

LEMMA ReconstructionKeepsInv ==
  ASSUME Inv,
         \/ executeSparse \/ modelConverter \/ executeDense
         \/ executeNVM2SFM \/ executeMeshRecon
  PROVE  Inv'
  <1>1. CASE executeSparse
    <2>1. stage \in MeshStages /\ Same /\ RunProgram("sparse", fields.images, "Convert")
      BY <1>1 DEF executeSparse, Same, MeshStages
    <2> QED
      BY <2>1, JobImages, MeshProgramKeepsInv DEF Kinds
  <1>2. CASE modelConverter
    <2> DEFINE next == IF config.forceDenseCOLMAP THEN "Dense" ELSE "Memory"
    <2>1. /\ stage \in MeshStages /\ Same
          /\ RunProgram("nvm", files["sparse"][fields.output], next)
      BY <1>2 DEF modelConverter, Same, MeshStages
    <2>2. Made("sparse")
      BY <1>2 DEF modelConverter, Inv, FilesFollowStages
    <2>3. next \in {"Dense", "Memory"}
      OBVIOUS
    <2> HIDE DEF next
    <2>4. /\ files["sparse"][fields.output] \in Images
          /\ silent \/ files["sparse"][fields.output] = fields.images
      BY <2>1, <2>2, MadeIsImages DEF Kinds
    <2> QED
      BY <2>1, <2>3, <2>4, MeshProgramKeepsInv DEF Kinds
  <1>3. CASE executeDense
    <2>1. stage \in MeshStages /\ Same /\ RunProgram("dense", fields.images, "Move")
      BY <1>3 DEF executeDense, Same, MeshStages
    <2> QED
      BY <2>1, JobImages, MeshProgramKeepsInv DEF Kinds
  <1>4. CASE executeNVM2SFM
    <2>1. /\ stage \in MeshStages /\ Same /\ stage = "NVM2SFM"
          /\ RunProgram("sfm", files["nvm"][fields.output], "MeshRecon")
      BY <1>4 DEF executeNVM2SFM, Same, MeshStages
    <2>2. Made("nvm")
      BY <2>1 DEF Inv, FilesFollowStages
    <2>3. /\ files["nvm"][fields.output] \in Images
          /\ silent \/ files["nvm"][fields.output] = fields.images
      BY <2>1, <2>2, MadeIsImages DEF Kinds
    <2> QED
      BY <2>1, <2>3, MeshProgramKeepsInv DEF Kinds
  <1>5. CASE executeMeshRecon
    <2>1. /\ stage \in MeshStages /\ Same /\ stage = "MeshRecon"
          /\ RunProgram("refine", files["sfm"][fields.output], AfterMesh)
      BY <1>5 DEF executeMeshRecon, Same, MeshStages
    <2>2. Made("sfm")
      BY <2>1 DEF Inv, FilesFollowStages
    <2>3. /\ files["sfm"][fields.output] \in Images
          /\ silent \/ files["sfm"][fields.output] = fields.images
      BY <2>1, <2>2, MadeIsImages DEF Kinds
    <2>4. /\ AfterMesh \in {"Texture", "End"}
          /\ AfterMesh = "Texture" => fields.texture
          /\ AfterMesh = "End" => ~fields.texture
      BY DEF AfterMesh
    <2> QED
      BY <2>1, <2>3, <2>4, MeshProgramKeepsInv DEF Kinds
  <1> QED
    BY <1>1, <1>2, <1>3, <1>4, <1>5

(* The memory check: the level it leaves is one it has allowed.            *)
LEMMA ChooseDenseKeepsInv == ASSUME Inv, ChooseDense PROVE Inv'
  <1>1. /\ stage = "Memory" /\ stage \in OnOKStages /\ stage \in MeshStages
        /\ UNCHANGED <<Rest, dialog, files, success, silent>>
        /\ Made("nvm")
    BY DEF ChooseDense, Inv, FilesFollowStages, OnOKStages, MeshStages
  <1>2. CASE stage' = "Dense" /\ UNCHANGED levelOfDetails
    <2> USE <1>1, <1>2 DEF Inv, Rest, queue, OnOKStages, MeshStages
    <2>1. RTypeOK' /\ CallsAreOrdered'
      BY DEF RTypeOK, CallsAreOrdered
    <2>2. MeshesAreThere' /\ FilesFollowStages'
      BY DEF MeshesAreThere, HasMesh, FilesFollowStages
    <2>3. SuccessShowsImages' /\ CheckIsOfTheCall'
      BY DEF CallsAreOrdered, SuccessShowsImages, CheckIsOfTheCall, MeasuresOwnImages, LevelFits
    <2> QED
      BY <2>1, <2>2, <2>3
  <1>3. ASSUME NEW allowed \in Levels \cup {-1}, MemoryCheck(allowed), stage' = "NVM2SFM"
        PROVE  Inv'
    <2> USE <1>1, <1>3 DEF Inv, Rest, queue, OnOKStages, MeshStages
    <2>1. /\ levelOfDetails' \in Levels
          /\ config.forceLevelOfDetails \/ allowed = -1 \/ levelOfDetails' >= allowed
      BY DEF MemoryCheck, RTypeOK, setLevelOfDetails, getLevelOfDetails, Levels
    <2>2. /\ check' = [allowed |-> allowed, of |-> imagesOfDefault] /\ check' \in Checks
          /\ check'.allowed = allowed /\ check'.of = imagesOfDefault
      BY DEF MemoryCheck, RTypeOK, Checks
    <2>3. RTypeOK' /\ CallsAreOrdered'
      BY <2>1 DEF RTypeOK, CallsAreOrdered
    <2>4. MeshesAreThere' /\ FilesFollowStages'
      BY DEF MeshesAreThere, HasMesh, FilesFollowStages, Made
    <2>5. SuccessShowsImages'
      BY DEF CallsAreOrdered, SuccessShowsImages
    <2>6. fields # NULL /\ fields.mesh
      BY DEF CallsAreOrdered
    <2>7. CheckIsOfTheCall'
      BY <2>1, <2>2, <2>6 DEF CheckIsOfTheCall, MeasuresOwnImages, LevelFits
    <2> QED
      BY <2>3, <2>4, <2>5, <2>7
  <1> QED
    BY <1>2, <1>3 DEF ChooseDense, MemoryCheck, setLevelOfDetails

LEMMA MoveFileKeepsInv == ASSUME Inv, MoveFile PROVE Inv'
  <1>1. stage = "Move" /\ stage \in OnOKStages /\ stage \in MeshStages /\ Same /\ Made("dense")
    BY DEF MoveFile, Same, Inv, FilesFollowStages, OnOKStages, MeshStages
  <1>2. CASE UNCHANGED files /\ Fail
    BY <1>1, <1>2, FailKeepsInv
  <1>3. CASE MoveDense /\ Go(AfterMesh) /\ UNCHANGED silent
    <2> DEFINE mesh == files["dense"][fields.output]
               dense == [files["dense"] EXCEPT ![fields.output] = NULL]
               refine == [files["refine"] EXCEPT ![fields.output] = mesh]
    <2>1. /\ mesh \in Images /\ (silent \/ mesh = fields.images)
          /\ fields \in Jobs /\ fields # NULL /\ fields.output \in Outputs
          /\ fields.mesh /\ silent \in BOOLEAN
      BY <1>1, MadeIsImages, CallHasJob DEF Inv, RTypeOK, CallsAreOrdered, Kinds
    <2>2. files \in Files /\ UNCHANGED <<fields, batchItems, silent>>
      BY <1>1, <1>3 DEF Inv, RTypeOK, Same, Rest, queue
    <2>3. /\ dense \in [Outputs -> Images \cup {NULL}]
          /\ refine \in [Outputs -> Images \cup {NULL}]
          /\ refine[fields.output] = mesh
          /\ \A o \in Outputs : refine[o] = IF o = fields.output THEN mesh ELSE files["refine"][o]
      BY <2>1, <2>2 DEF Files, Kinds
    <2>4. files' = [[files EXCEPT !["refine"] = refine] EXCEPT !["dense"] = dense]
      <3>1. files["dense"] = [files EXCEPT !["refine"] = refine]["dense"]
        BY <2>2 DEF Files, Kinds
      <3> QED
        BY <1>3, <3>1 DEF MoveDense
    <2> HIDE DEF dense, refine, mesh
    <2>5. files' \in Files /\ files'["refine"] = refine
      BY <2>2, <2>3, <2>4 DEF Files, Kinds
    <2>6. mesh # NULL
      BY <2>1, ReconstructionAssumption
    <2>7. \A o \in Outputs : files["refine"][o] # NULL => files'["refine"][o] # NULL
      BY <2>3, <2>5, <2>6
    <2>8. MeshesAreThere'
      <3>1. HasMesh(fields)'
        BY <2>1, <2>2 DEF HasMesh
      <3>2. ASSUME NEW i \in 1 .. Len(batchItems) PROVE HasMesh(batchItems[i])'
        <4>1. batchItems[i] \in Jobs /\ HasMesh(batchItems[i])
          BY DEF Inv, RTypeOK, MeshesAreThere
        <4>2. batchItems[i].mesh \/ files'["refine"][batchItems[i].from] # NULL
          BY <2>7, <4>1, JobParts DEF HasMesh
        <4> QED
          BY <2>2, <4>2 DEF HasMesh
      <3> QED
        BY <2>2, <3>1, <3>2 DEF MeshesAreThere
    <2>9. Made("refine")'
      BY <2>1, <2>2, <2>3, <2>5, <2>6 DEF Made
    <2>10. CASE fields.texture
      <3>1. stage' = "Texture" /\ UNCHANGED <<dialog, success, check>>
        BY <1>3, <2>10 DEF Go, AfterMesh
      <3>2. FilesFollowStages'
        BY <2>9, <3>1 DEF FilesFollowStages
      <3>3. "Texture" \in OnOKStages \ {"NVM2SFM"}
        BY DEF OnOKStages, MeshStages
      <3> QED
        BY <1>1, <2>1, <2>2, <2>5, <2>8, <2>10, <3>1, <3>2, <3>3, StageKeepsInv
    <2>11. CASE ~fields.texture
      <3>1. Succeed
        BY <1>3, <2>11 DEF Go, AfterMesh
      <3>2. SuccessShowsImages'
        BY <2>1, <2>2, <2>9, <2>11 DEF SuccessShowsImages, Shown, Asked, Made
      <3> QED
        BY <1>1, <2>1, <2>2, <2>5, <2>8, <3>1, <3>2, SucceedKeepsInv
    <2> QED
      BY <2>10, <2>11
  <1> QED
    BY <1>2, <1>3 DEF MoveFile

LEMMA TexturizeKeepsInv == ASSUME Inv, Texturize PROVE Inv'
  <1>1. stage = "Texture" /\ stage \in OnOKStages /\ Same /\ fields.texture
    BY DEF Texturize, Same, Inv, CallsAreOrdered, OnOKStages
  <1>2. /\ fields \in Jobs /\ fields # NULL /\ fields.output \in Outputs
        /\ files \in Files /\ silent \in BOOLEAN
    BY <1>1, CallHasJob DEF Inv, RTypeOK
  <1>3. UNCHANGED <<fields, batchItems, config>>
    BY <1>1 DEF Same, Rest, queue
  <1>4. MeshToTexturize \in Images /\ (fields.mesh => silent \/ MeshToTexturize = fields.images)
    <2>1. CASE fields.mesh
      BY <1>1, <1>2, <2>1 DEF Inv, FilesFollowStages, Made, MeshToTexturize, Files, Kinds
    <2>2. CASE ~fields.mesh
      BY <1>2, <2>2, JobParts DEF Inv, MeshesAreThere, HasMesh, MeshToTexturize, Files, Kinds
    <2> QED
      BY <2>1, <2>2
  <1>5. CASE Fail /\ UNCHANGED files
    BY <1>1, <1>5, FailKeepsInv
  <1>6. CASE Ran("textured", MeshToTexturize) /\ Go("End")
    <2>1. files' \in Files /\ MeshesAreThere' /\ silent' \in BOOLEAN
      BY <1>1, <1>4, <1>6, RanKeepsMeshes DEF Kinds
    <2>2. /\ files'["textured"][fields.output] # NULL
          /\ silent' \/ (~silent /\ files'["textured"][fields.output] = MeshToTexturize)
      BY <1>1, <1>4, <1>6, RanMakes DEF Kinds
    <2>3. ~fields.mesh => files'["refine"][fields.from] = files["refine"][fields.from]
      BY <1>2, <1>6, JobParts DEF Ran, Written, Files, Kinds
    <2>4. SuccessShowsImages'
      BY <1>1, <1>3, <1>4, <2>2, <2>3 DEF SuccessShowsImages, Shown, Asked, MeshToTexturize
    <2> QED
      BY <1>1, <1>6, <2>1, <2>4, SucceedKeepsInv DEF Go
  <1>7. CASE /\ fields.mesh /\ config.forceTexReconTexture
             /\ UNCHANGED files
             /\ Go("End") /\ silent' = TRUE
    <2>1. MeshesAreThere'
      BY <1>3, <1>7 DEF Inv, MeshesAreThere, HasMesh
    <2>2. SuccessShowsImages'
      BY <1>1, <1>3, <1>7 DEF SuccessShowsImages
    <2> QED
      BY <1>1, <1>2, <1>7, <2>1, <2>2, SucceedKeepsInv DEF Go
  <1> QED
    BY <1>5, <1>6, <1>7, ProgramFailsOrRan DEF Texturize

-----------------------------------------------------------------------------
LEMMA StutterKeepsInv == ASSUME Inv, UNCHANGED vars PROVE Inv'
  BY DEF vars, queue, settings, history, Inv, RTypeOK, CallsAreOrdered, MeshesAreThere,
    HasMesh, FilesFollowStages, Made, SuccessShowsImages, Shown, Asked, CheckIsOfTheCall,
    MeasuresOwnImages, LevelFits

THEOREM ReconstructionInvariant == Spec => []Inv
  <1>1. Inv /\ [Next]_vars => Inv'
    <2> SUFFICES ASSUME Inv, [Next]_vars PROVE Inv'
      OBVIOUS
    <2>1. CASE Next
      BY <2>1, DialogKeepsInv, BeginKeepsInv, ReconstructionKeepsInv, ChooseDenseKeepsInv,
        MoveFileKeepsInv, TexturizeKeepsInv DEF Next
    <2> QED
      BY <2>1, StutterKeepsInv
  <1> QED
    BY InitEstablishesInv, <1>1, PTL DEF Spec

(* SuccessShowsImages holds for any images, outputs and queue: a success   *)
(* without an older file in the way shows the images asked for.            *)
THEOREM SuccessIsOfTheImages == Spec => []SuccessShowsImages
  BY ReconstructionInvariant, PTL DEF Inv

(* LevelFits holds whatever was chosen, and in which order, before.        *)
THEOREM LevelIsAllowed == Spec => []LevelFits
  BY ReconstructionInvariant, PTL DEF Inv, CheckIsOfTheCall

(* MeasuresOwnImages holds after any number of batches.                    *)
THEOREM CheckMeasuresOwnImages == Spec => []MeasuresOwnImages
  BY ReconstructionInvariant, PTL DEF Inv, CheckIsOfTheCall

(* SuccessEndsDialog holds after any number of batches, of any length.     *)
THEOREM OnlySingleSuccessEnds == Spec => []SuccessEndsDialog
  <1>1. Inv => SuccessEndsDialog
    BY DEF Inv, CallsAreOrdered, SuccessEndsDialog
  <1> QED
    BY ReconstructionInvariant, <1>1, PTL
=============================================================================
