---------------------------- MODULE Reconstruction ----------------------------
(***************************************************************************)
(* The reconstruction dialog: the chain of external programs of OnOK, the  *)
(* queue of batch reconstructions that calls OnOK item by item, the memory *)
(* check with the level of details it changes, and the files that outlive  *)
(* the dialog.                                                             *)
(*                                                                         *)
(* A file's content is the images its data come from.  The exit codes of   *)
(* the programs are not read: a program that could be started may write    *)
(* its file or not, and the code looks whether there is a file.  What two  *)
(* programs do in one call is two steps; MeshRecon_init and _refine are    *)
(* one.  Each output has a folder of its own, as the dialog proposes.      *)
(* Everything runs on the GUI thread.                                      *)
(***************************************************************************)
EXTENDS Integers, Sequences

CONSTANTS
  Images,     \* folders of images
  Outputs,    \* output paths without their extension
  NULL,
  MaxQueue    \* bound of the model: items of the queue

VARIABLES
  dialog,            \* "Open", or how it has ended: "OK" or "CANCEL"
  fields,            \* check boxes and pickers as a job, NULL when cleared
  imagesOfDefault,   \* the images widthDefault and heightDefault are of
  batchItems,
  disableEndModal,
  position,          \* items of the batch begun, 0 outside a batch
  stage,             \* the call OnOK is about to make
  files,
  config,            \* useful statics of ConfigurationDialog but the level
  levelOfDetails,
  success,           \* history: the last OnOK has reached its end
  silent,            \* history: a program of it has ended without its file
  check              \* history: what its memory check has found

settings == <<config, levelOfDetails>>
queue == <<batchItems, disableEndModal, position>>
history == <<success, silent, check>>
vars == <<dialog, fields, imagesOfDefault, queue, stage, files, settings, history>>

Jobs ==
  [mesh : {TRUE}, texture : BOOLEAN, images : Images, from : {NULL}, output : Outputs]
    \cup
  [mesh : {FALSE}, texture : {TRUE}, images : {NULL}, from : Outputs, output : Outputs]

(* NULL is neither images nor a job.                                       *)
ASSUME ReconstructionAssumption == NULL \notin Images /\ NULL \notin Jobs

Configs == [forceDenseCOLMAP : BOOLEAN, forceLevelOfDetails : BOOLEAN,
            forceTexReconTexture : BOOLEAN]

(* 0 is high, 1 medium, 2 low; -1, as allowed, is none.                    *)
Levels == 0 .. 2

(* COLMAP's cameras, the NVM, the SFM, COLMAP's mesh in its own folder,    *)
(* <output>_refine.ply and <output>_textured.obj.                          *)
Kinds == {"sparse", "nvm", "sfm", "dense", "refine", "textured"}

Init ==
  /\ dialog = "CANCEL" /\ fields = NULL /\ imagesOfDefault = NULL
  /\ batchItems = <<>> /\ disableEndModal = FALSE /\ position = 0
  /\ stage = "Idle"
  /\ files = [k \in Kinds |-> [o \in Outputs |-> NULL]]
  /\ config \in Configs /\ levelOfDetails \in Levels
  /\ success = FALSE /\ silent = FALSE /\ check = NULL

-----------------------------------------------------------------------------
(* The dialog                                                              *)

Ready == dialog = "Open" /\ stage = "Idle"

Forget == success' = FALSE /\ silent' = FALSE /\ check' = NULL

OnToolStartReconstruction ==
  /\ dialog # "Open"
  /\ dialog' = "Open" /\ fields' = NULL /\ imagesOfDefault' = NULL
  /\ batchItems' = <<>> /\ disableEndModal' = FALSE
  /\ Forget
  /\ UNCHANGED <<position, stage, files, settings>>

Cancel ==
  /\ Ready
  /\ dialog' = "CANCEL" /\ fields' = NULL /\ imagesOfDefault' = NULL
  /\ batchItems' = <<>>
  /\ Forget
  /\ UNCHANGED <<disableEndModal, position, stage, files, settings>>

(* The user checks the boxes and picks images, which testImageFolder       *)
(* measures, or a mesh and its NVM, and an output.                         *)
Fill(job) ==
  /\ Ready
  /\ ~job.mesh => files["refine"][job.from] # NULL /\ files["nvm"][job.from] # NULL
  /\ fields' = job
  /\ imagesOfDefault' = IF job.mesh THEN job.images ELSE imagesOfDefault
  /\ Forget
  /\ UNCHANGED <<dialog, queue, stage, files, settings>>

(* Images of two sizes, say: the picker is cleared, the size is kept.      *)
RefuseImages(images) ==
  /\ Ready
  /\ fields' = NULL
  /\ imagesOfDefault' = images
  /\ Forget
  /\ UNCHANGED <<dialog, queue, stage, files, settings>>

OnBtConfig(c, l) ==
  /\ Ready
  /\ config' = c /\ levelOfDetails' = l
  /\ UNCHANGED <<dialog, fields, imagesOfDefault, queue, stage, files, history>>

OnBtBatchAdd ==
  /\ Ready
  /\ fields # NULL
  /\ Len(batchItems) < MaxQueue
  /\ batchItems' = Append(batchItems, fields)
  /\ fields' = NULL
  /\ Forget
  /\ UNCHANGED <<dialog, imagesOfDefault, disableEndModal, position, stage, files,
                 settings>>

OnBtBatchStart ==
  /\ Ready
  /\ disableEndModal' = TRUE
  /\ stage' = "Next"
  /\ Forget
  /\ UNCHANGED <<dialog, fields, imagesOfDefault, batchItems, position, files, settings>>

-----------------------------------------------------------------------------
(* OnOK                                                                    *)

Begin(job) ==
  /\ stage' = IF job.mesh THEN "Sparse" ELSE "Texture"
  /\ Forget

OnOK ==
  /\ Ready
  /\ fields # NULL
  /\ Begin(fields)
  /\ UNCHANGED <<dialog, fields, imagesOfDefault, queue, files, settings>>

(* OnOK returns: to the loop of OnBtBatchStart, or to the user.            *)
Return == stage' = IF position > 0 THEN "Next" ELSE "Idle"

Fail == Return /\ Forget /\ UNCHANGED dialog

Succeed ==
  /\ Return
  /\ success' = TRUE /\ check' = NULL
  /\ dialog' = IF disableEndModal THEN dialog ELSE "OK"

Go(next) ==
  IF next = "End" THEN Succeed ELSE stage' = next /\ UNCHANGED <<dialog, success, check>>

Written(kind, content) == [files EXCEPT ![kind][fields.output] = content]

(* A program cannot be started, writes its file, or ends without.  If      *)
(* there is no file then, OnOK ends.                                       *)
RunProgram(kind, content, next) ==
  \/ UNCHANGED files /\ Fail
  \/ files' = Written(kind, content) /\ Go(next) /\ UNCHANGED silent
  \/ /\ files[kind][fields.output] # NULL
     /\ UNCHANGED files
     /\ Go(next) /\ silent' = TRUE

Rest == <<fields, imagesOfDefault, queue, config>>

(* HelperCOLMAP::executeSparse: the cameras, then their conversion.        *)
executeSparse ==
  /\ stage = "Sparse"
  /\ RunProgram("sparse", fields.images, "Convert")
  /\ UNCHANGED <<Rest, levelOfDetails>>

modelConverter ==
  /\ stage = "Convert"
  /\ RunProgram("nvm", files["sparse"][fields.output],
                IF config.forceDenseCOLMAP THEN "Dense" ELSE "Memory")
  /\ UNCHANGED <<Rest, levelOfDetails>>

(* std::atoi of "High", "Medium" or "Low".                                 *)
getLevelOfDetails == 0

(* Fault: the user is warned, and nothing is changed.                      *)
setLevelOfDetailsNot(allowed) == UNCHANGED levelOfDetails

setLevelOfDetails(allowed) == levelOfDetails' = allowed

(* Too many cameras for MeshRecon, or the level that the free memory of    *)
(* the graphics card allows for that many images of the default size.      *)
(* What is meant as "lowering the settings" raises low to medium; and the  *)
(* way to COLMAP is not taken when no level is allowed, which is not       *)
(* greater than getLevelOfDetails.  What is allowed is any level, also for *)
(* more pixels than an int can count (widthDefault * heightDefault *       *)
(* numberOfcameras), which comes out as less memory than is needed.        *)
MemoryCheck(allowed) ==
  /\ check' = [allowed |-> allowed, of |-> imagesOfDefault]
  /\ IF getLevelOfDetails < allowed /\ ~config.forceLevelOfDetails
     THEN IF allowed >= 0
          THEN setLevelOfDetails(allowed) /\ stage' = "NVM2SFM"
          ELSE UNCHANGED levelOfDetails /\ stage' = "Dense"
     ELSE UNCHANGED levelOfDetails /\ stage' = "NVM2SFM"

ChooseDense ==
  /\ stage = "Memory"
  /\ \/ stage' = "Dense" /\ UNCHANGED <<levelOfDetails, check>>
     \/ \E allowed \in Levels \cup {-1} : MemoryCheck(allowed)
  /\ UNCHANGED <<Rest, dialog, files, success, silent>>

executeDense ==
  /\ stage = "Dense"
  /\ RunProgram("dense", fields.images, "Move")
  /\ UNCHANGED <<Rest, levelOfDetails>>

AfterMesh == IF fields.texture THEN "Texture" ELSE "End"

MoveDense ==
  files' = [files EXCEPT !["refine"][fields.output] = files["dense"][fields.output],
                         !["dense"][fields.output] = NULL]

(* Fault: what MoveFile returns is not looked at.                          *)
MoveFileUnseen ==
  /\ stage = "Move"
  /\ IF files["refine"][fields.output] = NULL THEN MoveDense ELSE UNCHANGED files
  /\ Go(AfterMesh)
  /\ UNCHANGED <<Rest, levelOfDetails, silent>>

(* MoveFile does not replace a file, so a mesh that is there already is    *)
(* never reconstructed again with COLMAP.                                  *)
MoveFile ==
  /\ stage = "Move"
  /\ \/ /\ files["refine"][fields.output] = NULL
        /\ MoveDense
        /\ Go(AfterMesh) /\ UNCHANGED silent
     \/ UNCHANGED files /\ Fail
  /\ UNCHANGED <<Rest, levelOfDetails>>

executeNVM2SFM ==
  /\ stage = "NVM2SFM"
  /\ RunProgram("sfm", files["nvm"][fields.output], "MeshRecon")
  /\ UNCHANGED <<Rest, levelOfDetails>>

executeMeshRecon ==
  /\ stage = "MeshRecon"
  /\ RunProgram("refine", files["sfm"][fields.output], AfterMesh)
  /\ UNCHANGED <<Rest, levelOfDetails>>

MeshToTexturize == files["refine"][IF fields.mesh THEN fields.output ELSE fields.from]

(* After a reconstruction TexRecon's file is not looked for.  AVTexturing  *)
(* fails too when it cannot read the cameras.                              *)
Texturize ==
  /\ stage = "Texture"
  /\ \/ RunProgram("textured", MeshToTexturize, "End")
     \/ /\ fields.mesh /\ config.forceTexReconTexture
        /\ UNCHANGED files
        /\ Go("End") /\ silent' = TRUE
  /\ UNCHANGED <<Rest, levelOfDetails>>

-----------------------------------------------------------------------------
(* The loop of OnBtBatchStart.  The items stay in the queue.               *)
NextItem ==
  /\ stage = "Next"
  /\ position < Len(batchItems)
  /\ position' = position + 1
  /\ fields' = batchItems[position']
  /\ Begin(fields')
  /\ UNCHANGED <<dialog, imagesOfDefault, batchItems, disableEndModal, files, settings>>

(* Fault: the fields keep the last item.                                   *)
EndBatchKeepingFields ==
  /\ stage = "Next"
  /\ position = Len(batchItems)
  /\ position' = 0 /\ stage' = "Idle" /\ disableEndModal' = FALSE
  /\ Forget
  /\ UNCHANGED <<dialog, fields, imagesOfDefault, batchItems, files, settings>>

(* Fault: OnOK stays forbidden to end the dialog.                          *)
EndBatchDisabled ==
  /\ stage = "Next"
  /\ position = Len(batchItems)
  /\ position' = 0 /\ fields' = NULL /\ stage' = "Idle"
  /\ Forget
  /\ UNCHANGED <<dialog, imagesOfDefault, batchItems, disableEndModal, files, settings>>

EndBatch ==
  /\ stage = "Next"
  /\ position = Len(batchItems)
  /\ position' = 0 /\ fields' = NULL /\ stage' = "Idle" /\ disableEndModal' = FALSE
  /\ Forget
  /\ UNCHANGED <<dialog, imagesOfDefault, batchItems, files, settings>>

-----------------------------------------------------------------------------
Next ==
  \/ OnToolStartReconstruction \/ Cancel
  \/ \E job \in Jobs : Fill(job)
  \/ \E images \in Images : RefuseImages(images)
  \/ \E c \in Configs, l \in Levels : OnBtConfig(c, l)
  \/ OnBtBatchAdd \/ OnBtBatchStart \/ NextItem \/ EndBatch
  \/ OnOK \/ executeSparse \/ modelConverter \/ ChooseDense
  \/ executeDense \/ MoveFile \/ executeNVM2SFM \/ executeMeshRecon \/ Texturize

Spec == Init /\ [][Next]_vars

-----------------------------------------------------------------------------
(* What OnOK was asked for.                                                *)
Asked == IF fields.mesh THEN fields.images ELSE files["refine"][fields.from]

Shown == files[IF fields.texture THEN "textured" ELSE "refine"][fields.output]

(* A reconstruction said to be a success has, at the path FrmPrincipal     *)
(* loads, the mesh of the images asked for: whatever earlier runs, with    *)
(* other images or other settings, successful or not, have left in the     *)
(* folder.  The exception is a program that ends without its file: then an *)
(* older file passes for it, and TexRecon after a reconstruction may leave *)
(* none at all.                                                            *)
SuccessShowsImages ==
  success =>
    \/ Shown = Asked
    \/ silent /\ Shown # NULL
    \/ silent /\ fields.mesh /\ fields.texture /\ config.forceTexReconTexture

(* The level MeshRecon works at is one the memory check has allowed,       *)
(* unless the check is disabled or has allowed none: through the levels    *)
(* the user chose and those that earlier items of a batch left behind,     *)
(* though the check reads neither.                                         *)
LevelFits ==
  stage \in {"NVM2SFM", "MeshRecon"} =>
    config.forceLevelOfDetails \/ check.allowed = -1 \/ levelOfDetails >= check.allowed

(* The memory check of a single reconstruction measures its own images.    *)
(* (One in a batch measures the images that were picked last.)             *)
MeasuresOwnImages ==
  stage \in {"NVM2SFM", "MeshRecon"} /\ position = 0 => check.of = fields.images

(* A single success ends the dialog, which then still tells the path of    *)
(* this job; nothing that happens in a batch, or that a batch has left     *)
(* behind, ends it or keeps it from ending.                                *)
SuccessEndsDialog ==
  (dialog = "OK") <=> (success /\ stage = "Idle")
=============================================================================
