------------------------- MODULE FrmPrincipalProofs -------------------------
(***************************************************************************)
(* The invariants of FrmPrincipal, proved for any set of meshes and of     *)
(* cameras.  They need each other: a handler comes back from               *)
(* disableMeasureTools because no two exclusive tools are enabled          *)
(* (OneToolAtATime), no two are because every handler that enables one has *)
(* come back from it; and a mesh can be deleted because the tools that are *)
(* off hold none (ToolsHoldLiveMeshes), which is also why the elevation    *)
(* tool hides no mesh while it is off (VisibleAsTicked).                   *)
(*                                                                         *)
(* Then two parts that rest on them: disableMeasureTools as it is written, *)
(* for any size of the stack, and the cameras the tools point to.          *)
(***************************************************************************)
EXTENDS FrmPrincipal, DisableMeasureTools, SequenceTheorems, TLAPS

Inv ==
  /\ TypeOK
  /\ OneToolAtATime
  /\ NeverRunsAway
  /\ ToolsHoldLiveMeshes
  /\ ToolbarShowsTools
  /\ MenuShowsTools
  /\ VisibleAsTicked

-----------------------------------------------------------------------------
(* With one exclusive tool at a time, disableMeasureTools comes back.      *)
LEMMA DisablingReturns ==
  ASSUME OneToolAtATime, NEW off
  PROVE  AfterDisabling(off) \subseteq {"running", "useAfterFree"}
  <1>1. ~RunsAway(enabled)
    BY DEF OneToolAtATime, RunsAway
  <1> QED
    BY <1>1 DEF AfterDisabling, AfterReading

LEMMA ReadingSurvives ==
  ASSUME NEW pointers
  PROVE  AfterReading(pointers) \subseteq {"running", "useAfterFree"}
  BY DEF AfterReading

(* What a handler owes to keep the invariant: the tools it leaves enabled  *)
(* exclude each other no more than before, the menu it leaves shows them,  *)
(* and it hides the mesh of the elevation tool and no other.               *)
LEMMA SwitchingKeepsInv ==
  ASSUME Inv,
         NEW off \in SUBSET Tools, NEW on \in SUBSET Tools,
         NEW meshesOn \in SUBSET meshVector, NEW camerasOn \in SUBSET Cameras,
         NEW shown \in SUBSET meshVector, NEW hidden, NEW menu \in SUBSET Tools,
         \A t, u \in ((enabled \ off) \cup on) \cap Exclusive : t = u,
         (enabled \ off) \cup on \subseteq menu,
         menu \ {"Delete"} \subseteq (enabled \ off) \cup on,
         IF "Elevation" \in on THEN "Elevation" \notin enabled /\ hidden = meshesOn
                               ELSE hidden = {},
         status' \in {"running", "useAfterFree", "nullPointer"},
         SwitchTools(off, on, meshesOn, camerasOn, menu),
         ShowOnTree(shown, off, hidden),
         UNCHANGED scene
  PROVE  Inv'
  <1> USE DEF Inv
  <1>e. "Elevation" \in Tools
    BY DEF Tools
  <1>1. TypeOK'
    <2>1. enabled' \subseteq Tools /\ checked' \subseteq Tools
      BY DEF TypeOK, SwitchTools
    <2>2. bitmapsOn' \subseteq ToolbarTools
      BY DEF TypeOK, SwitchTools
    <2>3. toolMeshes' \in [Tools -> SUBSET Meshes]
      BY DEF TypeOK, SwitchTools
    <2>4. toolCameras' \in [Tools -> SUBSET Cameras]
      BY DEF TypeOK, SwitchTools
    <2>5. ticked' \subseteq meshVector' /\ visible' \subseteq meshVector'
      BY <1>e DEF TypeOK, ShowOnTree, scene, ToolsHoldLiveMeshes
    <2> QED
      BY <2>1, <2>2, <2>3, <2>4, <2>5 DEF TypeOK, scene, Deaths
  <1>2. OneToolAtATime'
    BY DEF OneToolAtATime, SwitchTools
  <1>3. NeverRunsAway'
    BY DEF NeverRunsAway
  <1>4. ToolsHoldLiveMeshes'
    <2> SUFFICES ASSUME NEW t \in Tools
                 PROVE  /\ toolMeshes'[t] \subseteq meshVector'
                        /\ t \notin enabled' =>
                             toolMeshes'[t] = {} /\ toolCameras'[t] = {}
      BY DEF ToolsHoldLiveMeshes
    <2>1. CASE t \in on
      BY <2>1 DEF SwitchTools, scene
    <2>2. CASE t \notin on /\ t \in off
      BY <2>2 DEF SwitchTools
    <2>3. CASE t \notin on /\ t \notin off
      BY <2>3 DEF SwitchTools, scene, ToolsHoldLiveMeshes
    <2> QED
      BY <2>1, <2>2, <2>3
  <1>5. ToolbarShowsTools'
    BY DEF ToolbarShowsTools, SwitchTools
  <1>6. MenuShowsTools'
    BY DEF MenuShowsTools, SwitchTools
  <1>7. VisibleAsTicked'
    <2> SUFFICES ASSUME NEW m \in meshVector, m \notin toolMeshes'["Elevation"]
                 PROVE  m \in visible' <=> m \in ticked'
      BY DEF VisibleAsTicked, scene
    <2>1. m \notin hidden
      BY <1>e DEF SwitchTools
    <2>2. CASE "Elevation" \in off
      <3>1. CASE m \in toolMeshes["Elevation"]
        BY <2>1, <2>2, <3>1 DEF ShowOnTree
      <3>2. CASE m \notin toolMeshes["Elevation"]
        BY <2>1, <2>2, <3>2 DEF ShowOnTree, VisibleAsTicked
      <3> QED
        BY <3>1, <3>2
    <2>3. CASE "Elevation" \notin off
      <3>1. m \notin toolMeshes["Elevation"]
        BY <1>e, <2>3 DEF SwitchTools, ToolsHoldLiveMeshes
      <3> QED
        BY <2>1, <2>3, <3>1 DEF ShowOnTree, VisibleAsTicked
    <2> QED
      BY <2>2, <2>3
  <1> QED
    BY <1>1, <1>2, <1>3, <1>4, <1>5, <1>6, <1>7

-----------------------------------------------------------------------------
(* One lemma per handler.                                                  *)

(* Tools go off and none comes on.                                         *)
LEMMA DisableOnlyKeepsInv ==
  ASSUME Inv, NEW off \in SUBSET enabled, NEW shown \in SUBSET meshVector,
         NEW unchecked \in SUBSET Tools, unchecked \cap enabled \subseteq off,
         DisableOnly(off, shown, unchecked), UNCHANGED scene
  PROVE  Inv'
  <1>1. status' \in {"running", "useAfterFree", "nullPointer"}
    BY DisablingReturns DEF Inv, DisableOnly
  <1>2. /\ off \in SUBSET Tools /\ {} \in SUBSET Tools
        /\ {} \in SUBSET meshVector /\ {} \in SUBSET Cameras
        /\ checked \ (off \cup unchecked) \in SUBSET Tools
    BY DEF Inv, TypeOK
  <1>3. /\ (enabled \ off) \cup {} \subseteq checked \ (off \cup unchecked)
        /\ (checked \ (off \cup unchecked)) \ {"Delete"}
             \subseteq (enabled \ off) \cup {}
    BY DEF Inv, MenuShowsTools
  <1>4. \A t, u \in ((enabled \ off) \cup {}) \cap Exclusive : t = u
    BY DEF Inv, OneToolAtATime
  <1>5. SwitchTools(off, {}, {}, {}, checked \ (off \cup unchecked))
    BY DEF DisableOnly
  <1>6. ShowOnTree(shown, off, {})
    BY DEF DisableOnly
  <1> QED
    BY <1>1, <1>2, <1>3, <1>4, <1>5, <1>6, SwitchingKeepsInv

LEMMA ToggleOffKeepsInv ==
  ASSUME Inv, NEW tool \in Tools, ToggleOff(tool)
  PROVE  Inv'
  <1> DEFINE off == IF tool \in Exclusive THEN enabled ELSE {tool}
  <1>1. off \in SUBSET enabled
    BY DEF ToggleOff
  <1>2. DisableOnly(off, {}, {}) /\ UNCHANGED scene
    BY DEF ToggleOff
  <1> HIDE DEF off
  <1> QED
    BY <1>1, <1>2, DisableOnlyKeepsInv

LEMMA RefuseKeepsInv ==
  ASSUME Inv, NEW tool \in Tools, NEW shown \in SUBSET meshVector,
         Refuse(tool, shown)
  PROVE  Inv'
  <1> DEFINE off == IF tool \in Exclusive THEN Others(tool) ELSE {}
  <1>1. off \in SUBSET enabled
    BY DEF Others, SwitchedOff
  <1>2. DisableOnly(off, shown, {tool}) /\ UNCHANGED scene
    BY DEF Refuse
  <1>3. {tool} \cap enabled \subseteq off
    BY DEF Refuse
  <1> HIDE DEF off
  <1> QED
    BY <1>1, <1>2, <1>3, DisableOnlyKeepsInv

(* A tool comes on once the others are off.                                *)
LEMMA EnableOnMeshKeepsInv ==
  ASSUME Inv, NEW tool \in Tools, NEW m \in meshVector, EnableOnMesh(tool, m)
  PROVE  Inv'
  <1> DEFINE off == Others(tool)
             menu == (checked \ off) \cup {tool}
             hidden == IF tool = "Elevation" THEN {m} ELSE {}
  <1>1. status' \in {"running", "useAfterFree", "nullPointer"}
    BY DisablingReturns DEF Inv, EnableOnMesh
  <1>2. /\ off \in SUBSET Tools /\ {tool} \in SUBSET Tools
        /\ {m} \in SUBSET meshVector /\ {} \in SUBSET Cameras
        /\ menu \in SUBSET Tools
    BY DEF Inv, TypeOK, Others, SwitchedOff
  <1>3. (enabled \ off) \cup {tool} = {tool}
    BY DEF Others, SwitchedOff
  <1>4. {tool} \subseteq menu /\ menu \ {"Delete"} \subseteq {tool}
    BY DEF Inv, MenuShowsTools, Others, SwitchedOff
  <1>5. SwitchTools(off, {tool}, {m}, {}, menu)
    BY DEF EnableOnMesh
  <1>6. ShowOnTree({m}, off, hidden)
    BY DEF EnableOnMesh
  <1>7. tool \notin enabled /\ UNCHANGED scene
    BY DEF EnableOnMesh
  <1>8. IF "Elevation" \in {tool} THEN "Elevation" \notin enabled /\ hidden = {m}
                                  ELSE hidden = {}
    BY <1>7
  <1> HIDE DEF off, menu, hidden
  <1> QED
    BY <1>1, <1>2, <1>3, <1>4, <1>5, <1>6, <1>7, <1>8, SwitchingKeepsInv

(* The handlers that work alike.                                           *)
LEMMA MeshToolsKeepInv ==
  ASSUME Inv,
         \/ OnToolMeasure \/ OnToolAngle \/ OnToolElevation
         \/ OnToolDeletePointsFaces \/ OnToolVolume
  PROVE  Inv'
  <1>t. {"Distance", "Angle", "Elevation", "Delete", "Volume"} \subseteq Tools
    BY DEF Tools
  <1>1. PICK tool \in Tools :
          \/ ToggleOff(tool)
          \/ \E shown \in SUBSET meshVector : Refuse(tool, shown)
          \/ \E m \in meshVector : EnableOnMesh(tool, m)
    <2>1. CASE OnToolMeasure
      BY <1>t, <2>1 DEF OnToolMeasure
    <2>2. CASE OnToolAngle
      BY <1>t, <2>2 DEF OnToolAngle
    <2>3. CASE OnToolElevation
      BY <1>t, <2>3 DEF OnToolElevation
    <2>4. CASE OnToolDeletePointsFaces
      BY <1>t, <2>4 DEF OnToolDeletePointsFaces
    <2>5. CASE OnToolVolume
      <3>1. \A m \in meshVector : {m} \in SUBSET meshVector
        OBVIOUS
      <3> QED
        BY <1>t, <2>5, <3>1 DEF OnToolVolume
    <2> QED
      BY <2>1, <2>2, <2>3, <2>4, <2>5
  <1> QED
    BY <1>1, ToggleOffKeepsInv, RefuseKeepsInv, EnableOnMeshKeepsInv

(* CheckCam comes on beside the others: it is not one of the exclusive.    *)
LEMMA OnToolCheckCamVisibilityKeepsInv ==
  ASSUME Inv, OnToolCheckCamVisibility
  PROVE  Inv'
  <1>t. "CheckCam" \in Tools /\ "CheckCam" \notin Exclusive
    BY DEF Tools, Exclusive
  <1>1. CASE ToggleOff("CheckCam")
    BY <1>1, <1>t, ToggleOffKeepsInv
  <1>2. CASE \E shown \in SUBSET meshVector : Refuse("CheckCam", shown)
    BY <1>2, <1>t, RefuseKeepsInv
  <1>3. ASSUME NEW m \in meshVector,
               "CheckCam" \notin enabled,
               status' \in AfterReading({}),
               SwitchTools({}, {"CheckCam"}, {m}, {}, checked \cup {"CheckCam"}),
               ShowOnTree({m}, {}, {}),
               UNCHANGED scene
        PROVE  Inv'
    <2>1. status' \in {"running", "useAfterFree", "nullPointer"}
      BY <1>3, ReadingSurvives
    <2>2. /\ {} \in SUBSET Tools /\ {"CheckCam"} \in SUBSET Tools
          /\ {m} \in SUBSET meshVector /\ {} \in SUBSET Cameras
          /\ checked \cup {"CheckCam"} \in SUBSET Tools
      BY <1>t DEF Inv, TypeOK
    <2>3. \A t, u \in ((enabled \ {}) \cup {"CheckCam"}) \cap Exclusive : t = u
      BY <1>t DEF Inv, OneToolAtATime
    <2>4. /\ (enabled \ {}) \cup {"CheckCam"} \subseteq checked \cup {"CheckCam"}
          /\ (checked \cup {"CheckCam"}) \ {"Delete"}
               \subseteq (enabled \ {}) \cup {"CheckCam"}
      BY DEF Inv, MenuShowsTools
    <2>5. "Elevation" \notin {"CheckCam"}
      OBVIOUS
    <2> QED
      BY <1>3, <2>1, <2>2, <2>3, <2>4, <2>5, SwitchingKeepsInv
  <1>4. \A m \in meshVector : {m} \in SUBSET meshVector
    OBVIOUS
  <1> QED
    BY <1>1, <1>2, <1>3, <1>4 DEF OnToolCheckCamVisibility

LEMMA OnMenuUpdateCameraKeepsInv ==
  ASSUME Inv, OnMenuUpdateCamera
  PROVE  Inv'
  <1>t. "UpdateCamera" \in Tools
    BY DEF Tools
  <1> DEFINE off == Others("UpdateCamera")
             menu == (checked \ off) \cup {"UpdateCamera"}
  <1>o. off = enabled \ {"UpdateCamera"}
    BY DEF Others, SwitchedOff
  <1>1. CASE ToggleOff("UpdateCamera")
    BY <1>1, <1>t, ToggleOffKeepsInv
  <1>2. CASE /\ "UpdateCamera" \notin enabled
             /\ DisableOnly(off, {}, {"UpdateCamera"})
             /\ UNCHANGED scene
    <2>1. /\ off \in SUBSET enabled /\ {} \in SUBSET meshVector
          /\ {"UpdateCamera"} \in SUBSET Tools
          /\ {"UpdateCamera"} \cap enabled \subseteq off
      BY <1>2, <1>t, <1>o
    <2> HIDE DEF off
    <2> QED
      BY <1>2, <2>1, DisableOnlyKeepsInv
  <1>3. ASSUME NEW c \in LiveCameras,
               "UpdateCamera" \notin enabled,
               status' \in AfterDisabling(off),
               SwitchTools(off, {"UpdateCamera"}, {}, {c}, menu),
               ShowOnTree({}, off, {}),
               UNCHANGED scene
        PROVE  Inv'
    <2>1. status' \in {"running", "useAfterFree", "nullPointer"}
      BY <1>3, DisablingReturns DEF Inv
    <2>2. /\ off \in SUBSET Tools /\ {"UpdateCamera"} \in SUBSET Tools
          /\ {} \in SUBSET meshVector /\ {c} \in SUBSET Cameras
          /\ menu \in SUBSET Tools
      BY <1>t, <1>o DEF Inv, TypeOK, LiveCameras
    <2>3. (enabled \ off) \cup {"UpdateCamera"} = {"UpdateCamera"}
      BY <1>o
    <2>4. /\ {"UpdateCamera"} \subseteq menu
          /\ menu \ {"Delete"} \subseteq {"UpdateCamera"}
      BY <1>o DEF Inv, MenuShowsTools
    <2>5. "Elevation" \notin {"UpdateCamera"}
      OBVIOUS
    <2> HIDE DEF off, menu
    <2> QED
      BY <1>3, <2>1, <2>2, <2>3, <2>4, <2>5, SwitchingKeepsInv
  <1> QED
    BY <1>1, <1>2, <1>3 DEF OnMenuUpdateCamera

(* The click finds the item unchecked, since the tool is disabled.         *)
LEMMA OnMenuAlignToolKeepsInv ==
  ASSUME Inv, OnMenuAlignTool
  PROVE  Inv'
  <1>t. "Align" \in Tools /\ "Align" # "Delete"
    BY DEF Tools
  <1> DEFINE off == Others("Align")
             menu == Flipped("Align") \ off
  <1>o. off = enabled \ {"Align"}
    BY DEF Others, SwitchedOff
  <1>1. CASE ToggleOff("Align")
    BY <1>1, <1>t, ToggleOffKeepsInv
  <1>2. ASSUME NEW ms \in SUBSET meshVector,
               "Align" \notin enabled,
               DisableOnly(off, ms, {"Align"}),
               UNCHANGED scene
        PROVE  Inv'
    <2>1. /\ off \in SUBSET enabled /\ {"Align"} \in SUBSET Tools
          /\ {"Align"} \cap enabled \subseteq off
      BY <1>2, <1>t, <1>o
    <2> HIDE DEF off
    <2> QED
      BY <1>2, <2>1, DisableOnlyKeepsInv
  <1>3. ASSUME NEW ms \in SUBSET meshVector,
               "Align" \notin enabled,
               status' \in AfterDisabling(off),
               SwitchTools(off, {"Align"}, ms, {}, menu),
               ShowOnTree(ms, off, {}),
               UNCHANGED scene
        PROVE  Inv'
    <2>1. status' \in {"running", "useAfterFree", "nullPointer"}
      BY <1>3, DisablingReturns DEF Inv
    <2>2. menu = (checked \ off) \cup {"Align"}
      BY <1>3, <1>t, <1>o DEF Inv, MenuShowsTools, Flipped
    <2>3. /\ off \in SUBSET Tools /\ {"Align"} \in SUBSET Tools
          /\ {} \in SUBSET Cameras /\ menu \in SUBSET Tools
      BY <1>t, <1>o, <2>2 DEF Inv, TypeOK
    <2>4. (enabled \ off) \cup {"Align"} = {"Align"}
      BY <1>o
    <2>5. {"Align"} \subseteq menu /\ menu \ {"Delete"} \subseteq {"Align"}
      BY <1>o, <2>2 DEF Inv, MenuShowsTools
    <2>6. "Elevation" \notin {"Align"}
      OBVIOUS
    <2> HIDE DEF off, menu
    <2> QED
      BY <1>3, <2>1, <2>3, <2>4, <2>5, <2>6, SwitchingKeepsInv
  <1> QED
    BY <1>1, <1>2, <1>3 DEF OnMenuAlignTool

LEMMA OnMenuTransformKeepsInv ==
  ASSUME Inv, NEW m \in meshVector, OnMenuTransform(m)
  PROVE  Inv'
  <1>1. status' \in {"running", "useAfterFree", "nullPointer"}
    BY DisablingReturns DEF Inv, OnMenuTransform
  <1>2. /\ enabled \in SUBSET Tools /\ {} \in SUBSET Tools
        /\ {} \in SUBSET meshVector /\ {} \in SUBSET Cameras
        /\ {m} \in SUBSET meshVector /\ checked \ enabled \in SUBSET Tools
    BY DEF Inv, TypeOK
  <1>3. (enabled \ enabled) \cup {} = {}
    OBVIOUS
  <1>4. (checked \ enabled) \ {"Delete"} \subseteq {}
    BY DEF Inv, MenuShowsTools
  <1>5. /\ SwitchTools(enabled, {}, {}, {}, checked \ enabled)
        /\ ShowOnTree({m}, enabled, {}) /\ UNCHANGED scene
    BY DEF OnMenuTransform
  <1> QED
    BY <1>1, <1>2, <1>3, <1>4, <1>5, SwitchingKeepsInv

LEMMA CheckVisibilityKeepsInv ==
  ASSUME Inv, CheckVisibility
  PROVE  Inv'
  <1> USE DEF Inv
  <1>1. status' \in {"running", "useAfterFree"}
    BY ReadingSurvives DEF CheckVisibility
  <1>2. PICK seen \in SUBSET UNION {cameras[m] : m \in toolMeshes["CheckCam"]} :
          toolCameras' = [toolCameras EXCEPT !["CheckCam"] = seen]
    BY DEF CheckVisibility
  <1>3. /\ UNCHANGED <<meshVector, cameras, ticked, visible>>
        /\ UNCHANGED <<enabled, checked, bitmapsOn, toolMeshes>>
        /\ "CheckCam" \in enabled
    BY DEF CheckVisibility, scene, tree
  <1>4. "CheckCam" \in Tools
    BY DEF Tools
  <1>5. seen \subseteq Cameras
    <2>1. \A m \in toolMeshes["CheckCam"] : cameras[m] \subseteq Cameras
      BY <1>4 DEF TypeOK
    <2> QED
      BY <1>2, <2>1
  <1>6. TypeOK'
    BY <1>1, <1>2, <1>3, <1>5 DEF TypeOK, Deaths
  <1>7. ToolsHoldLiveMeshes'
    BY <1>2, <1>3 DEF ToolsHoldLiveMeshes, TypeOK
  <1>8. OneToolAtATime' /\ NeverRunsAway' /\ ToolbarShowsTools'
    BY <1>1, <1>3 DEF OneToolAtATime, NeverRunsAway, ToolbarShowsTools
  <1>9. MenuShowsTools' /\ VisibleAsTicked'
    BY <1>3 DEF MenuShowsTools, VisibleAsTicked
  <1> QED
    BY <1>6, <1>7, <1>8, <1>9

(* What is left of the invariant when a step changes the tree and may      *)
(* change the cameras, but neither the meshes nor the tools.               *)
LEMMA TreeStepKeepsInv ==
  ASSUME Inv, status' \in {"running", "closed", "useAfterFree", "nullPointer"},
         UNCHANGED <<meshVector, tools>>,
         cameras' \in [Meshes -> SUBSET Cameras],
         ticked' \subseteq meshVector, visible' \subseteq meshVector,
         VisibleAsTicked'
  PROVE  Inv'
  <1> USE DEF Inv
  <1>1. UNCHANGED <<meshVector, enabled, checked, bitmapsOn, toolMeshes, toolCameras>>
    BY DEF tools
  <1>2. TypeOK'
    BY <1>1 DEF TypeOK, Deaths
  <1>3. ToolsHoldLiveMeshes'
    BY <1>1 DEF ToolsHoldLiveMeshes
  <1>4. OneToolAtATime' /\ NeverRunsAway' /\ ToolbarShowsTools' /\ MenuShowsTools'
    BY <1>1 DEF OneToolAtATime, NeverRunsAway, ToolbarShowsTools, MenuShowsTools
  <1> QED
    BY <1>2, <1>3, <1>4

LEMMA MoveCameraKeepsInv ==
  ASSUME Inv, MoveCamera
  PROVE  Inv'
  <1>1. status' \in {"running", "useAfterFree"}
    BY ReadingSurvives DEF MoveCamera
  <1>2. UNCHANGED <<meshVector, cameras, ticked, visible, tools, toolMeshes>>
    BY DEF MoveCamera, scene, tree, tools
  <1>3. VisibleAsTicked'
    BY <1>2 DEF Inv, VisibleAsTicked
  <1> QED
    BY <1>1, <1>2, <1>3, TreeStepKeepsInv DEF Inv, TypeOK

LEMMA ShowMeshKeepsInv ==
  ASSUME Inv, NEW m \in meshVector, ShowOnTree({m}, {}, {}),
         UNCHANGED <<status, meshVector, tools>>,
         cameras' \in [Meshes -> SUBSET Cameras]
  PROVE  Inv'
  <1>1. ticked' = ticked \cup {m} /\ visible' = visible \cup {m}
    BY DEF ShowOnTree
  <1>2. UNCHANGED toolMeshes
    BY DEF tools
  <1>3. VisibleAsTicked'
    BY <1>1, <1>2 DEF Inv, VisibleAsTicked
  <1>4. status' \in {"running", "closed", "useAfterFree", "nullPointer"}
    BY DEF Inv, TypeOK, NeverRunsAway, Deaths
  <1> QED
    BY <1>1, <1>3, <1>4, TreeStepKeepsInv DEF Inv, TypeOK

(* The elevation tool has hidden its mesh: a click on its box then shows it*)
(* and unticks it, and the invariant does not look at that mesh.           *)
LEMMA OnTreeChoiceKeepsInv ==
  ASSUME Inv, NEW m \in meshVector, OnTreeChoice(m)
  PROVE  Inv'
  <1>1. UNCHANGED <<status, meshVector, cameras, tools, toolMeshes>>
    BY DEF OnTreeChoice, scene, tools
  <1>2. VisibleAsTicked'
    <2> SUFFICES ASSUME NEW n \in meshVector, n \notin toolMeshes["Elevation"]
                 PROVE  n \in visible' <=> n \in ticked'
      BY <1>1 DEF VisibleAsTicked
    <2>1. n \in visible <=> n \in ticked
      BY DEF Inv, VisibleAsTicked
    <2> QED
      BY <2>1 DEF OnTreeChoice
  <1>3. ticked' \subseteq meshVector /\ visible' \subseteq meshVector
    BY DEF OnTreeChoice, Inv, TypeOK
  <1>4. status' \in {"running", "closed", "useAfterFree", "nullPointer"}
    BY <1>1 DEF Inv, TypeOK, NeverRunsAway, Deaths
  <1> QED
    BY <1>1, <1>2, <1>3, <1>4, TreeStepKeepsInv DEF Inv, TypeOK

LEMMA OpenMeshKeepsInv ==
  ASSUME Inv, NEW m \in Meshes, OpenMesh(m)
  PROVE  Inv'
  <1> USE DEF Inv
  <1>1. /\ meshVector' = meshVector \cup {m}
        /\ ticked' = ticked \cup {m} /\ visible' = visible \cup {m}
        /\ UNCHANGED <<status, enabled, checked, bitmapsOn, toolMeshes, toolCameras>>
    BY DEF OpenMesh, tools
  <1>2. cameras' \in [Meshes -> SUBSET Cameras]
    BY DEF OpenMesh, FreeCameras, TypeOK
  <1>3. TypeOK'
    BY <1>1, <1>2 DEF TypeOK
  <1>4. ToolsHoldLiveMeshes'
    BY <1>1 DEF ToolsHoldLiveMeshes
  <1>5. VisibleAsTicked'
    BY <1>1 DEF VisibleAsTicked
  <1>6. OneToolAtATime' /\ NeverRunsAway' /\ ToolbarShowsTools' /\ MenuShowsTools'
    BY <1>1 DEF OneToolAtATime, NeverRunsAway, ToolbarShowsTools, MenuShowsTools
  <1> QED
    BY <1>3, <1>4, <1>5, <1>6

(* Every tool is off before a mesh goes, so no tool is left holding it.    *)
LEMMA OnToolDeleteKeepsInv ==
  ASSUME Inv, OnToolDelete
  PROVE  Inv'
  <1> USE DEF Inv
  <1>1. PICK ms \in SUBSET meshVector, cs \in SUBSET LiveCameras :
          /\ meshVector' = meshVector \ ms
          /\ cameras' = [m \in Meshes |-> IF m \in ms THEN {} ELSE cameras[m] \ cs]
          /\ LET restored == IF "Elevation" \in enabled
                               THEN toolMeshes["Elevation"] ELSE {}
             IN visible' = ((visible \ restored) \cup (restored \cap ticked)) \ ms
          /\ ticked' = ticked \ ms
    BY DEF OnToolDelete
  <1>2. status' \in {"running", "useAfterFree", "nullPointer"}
    BY DisablingReturns DEF OnToolDelete
  <1>3. SwitchTools(enabled, {}, {}, {}, checked \ enabled)
    BY DEF OnToolDelete
  <1>4. /\ enabled' = {} /\ checked' = checked \ enabled
        /\ bitmapsOn' = bitmapsOn \ enabled
    BY <1>3 DEF SwitchTools
  <1>5. /\ toolMeshes' = [t \in Tools |-> {}]
        /\ toolCameras' = [t \in Tools |-> {}]
    <2>1. \A t \in Tools : t \notin enabled =>
            toolMeshes[t] = {} /\ toolCameras[t] = {}
      BY DEF ToolsHoldLiveMeshes
    <2> QED
      BY <1>3, <2>1 DEF SwitchTools
  <1>6. "Elevation" \in Tools
    BY DEF Tools
  <1>7. TypeOK'
    <2>1. meshVector' \subseteq Meshes /\ cameras' \in [Meshes -> SUBSET Cameras]
      BY <1>1 DEF TypeOK
    <2>2. ticked' \subseteq meshVector' /\ visible' \subseteq meshVector'
      BY <1>1 DEF TypeOK
    <2> QED
      BY <1>2, <1>4, <1>5, <2>1, <2>2 DEF TypeOK, Deaths
  <1>8. VisibleAsTicked'
    <2> SUFFICES ASSUME NEW m \in meshVector'
                 PROVE  m \in visible' <=> m \in ticked'
      BY DEF VisibleAsTicked
    <2>1. CASE "Elevation" \in enabled
      BY <1>1, <2>1 DEF VisibleAsTicked
    <2>2. CASE "Elevation" \notin enabled
      <3>1. toolMeshes["Elevation"] = {}
        BY <1>6, <2>2 DEF ToolsHoldLiveMeshes
      <3> QED
        BY <1>1, <2>2, <3>1 DEF VisibleAsTicked
    <2> QED
      BY <2>1, <2>2
  <1>9. OneToolAtATime' /\ NeverRunsAway' /\ ToolbarShowsTools' /\ MenuShowsTools'
    BY <1>2, <1>4 DEF OneToolAtATime, NeverRunsAway, ToolbarShowsTools, MenuShowsTools
  <1>10. ToolsHoldLiveMeshes'
    BY <1>5 DEF ToolsHoldLiveMeshes
  <1> QED
    BY <1>7, <1>8, <1>9, <1>10

LEMMA OnCloseKeepsInv ==
  ASSUME Inv, OnClose
  PROVE  Inv'
  <1> USE DEF Inv
  <1>1. status' \in {"closed", "useAfterFree"}
    BY DisablingReturns DEF OnClose
  <1>2. /\ meshVector' = {} /\ cameras' = [m \in Meshes |-> {}]
        /\ ticked' = {} /\ visible' = {}
        /\ enabled' = {} /\ checked' = checked \ enabled
        /\ bitmapsOn' = bitmapsOn \ enabled
        /\ toolMeshes' = [t \in Tools |-> {}]
        /\ toolCameras' = [t \in Tools |-> {}]
    BY DEF OnClose
  <1>3. TypeOK'
    BY <1>1, <1>2 DEF TypeOK, Deaths
  <1>4. ToolsHoldLiveMeshes' /\ VisibleAsTicked'
    BY <1>2 DEF ToolsHoldLiveMeshes, VisibleAsTicked
  <1>5. OneToolAtATime' /\ NeverRunsAway' /\ ToolbarShowsTools' /\ MenuShowsTools'
    BY <1>1, <1>2 DEF OneToolAtATime, NeverRunsAway, ToolbarShowsTools, MenuShowsTools
  <1> QED
    BY <1>3, <1>4, <1>5

(* Whether or not the menu item of the delete tool is unchecked too, the   *)
(* menu invariant, which leaves that item out, is kept.                    *)
LEMMA DeleteSelectionKeepsInv ==
  ASSUME Inv, NEW unchecked \in SUBSET {"Delete"}, DeleteSelection(unchecked)
  PROVE  Inv'
  <1> USE DEF Inv
  <1>1. /\ enabled' = enabled \ {"Delete"} /\ checked' = checked \ unchecked
        /\ bitmapsOn' = bitmapsOn \ {"Delete"}
        /\ toolMeshes' = [toolMeshes EXCEPT !["Delete"] = {}]
        /\ toolCameras' = [toolCameras EXCEPT !["Delete"] = {}]
        /\ UNCHANGED <<status, meshVector, cameras, ticked, visible>>
    BY DEF DeleteSelection, scene, tree
  <1>2. "Delete" \in Tools /\ "Elevation" \in Tools
    BY DEF Tools
  <1>3. TypeOK'
    BY <1>1 DEF TypeOK
  <1>4. ToolsHoldLiveMeshes'
    BY <1>1, <1>2 DEF ToolsHoldLiveMeshes, TypeOK
  <1>5. VisibleAsTicked'
    <2>1. toolMeshes'["Elevation"] = toolMeshes["Elevation"]
      BY <1>1, <1>2 DEF TypeOK
    <2> QED
      BY <1>1, <2>1 DEF VisibleAsTicked
  <1>6. OneToolAtATime' /\ NeverRunsAway' /\ ToolbarShowsTools'
    BY <1>1 DEF OneToolAtATime, NeverRunsAway, ToolbarShowsTools
  <1>7. MenuShowsTools'
    BY <1>1 DEF MenuShowsTools
  <1> QED
    BY <1>3, <1>4, <1>5, <1>6, <1>7

-----------------------------------------------------------------------------
(* The inductive invariant.                                                *)

LEMMA ToolStepKeepsInv ==
  ASSUME Inv, ToolStep
  PROVE  Inv'
  <1>1. CASE \/ OnToolMeasure \/ OnToolAngle \/ OnToolElevation
             \/ OnToolDeletePointsFaces \/ OnToolVolume
    BY <1>1, MeshToolsKeepInv
  <1>2. CASE OnToolCheckCamVisibility
    BY <1>2, OnToolCheckCamVisibilityKeepsInv
  <1>3. CASE OnMenuUpdateCamera
    BY <1>3, OnMenuUpdateCameraKeepsInv
  <1>4. CASE OnMenuAlignTool
    BY <1>4, OnMenuAlignToolKeepsInv
  <1>5. CASE \E m \in meshVector : OnMenuTransform(m)
    BY <1>5, OnMenuTransformKeepsInv
  <1>6. CASE CheckVisibility
    BY <1>6, CheckVisibilityKeepsInv
  <1>7. CASE MoveCamera
    BY <1>7, MoveCameraKeepsInv
  <1> QED
    BY <1>1, <1>2, <1>3, <1>4, <1>5, <1>6, <1>7 DEF ToolStep

LEMMA SceneStepKeepsInv ==
  ASSUME Inv, SceneStep
  PROVE  Inv'
  <1>1. CASE \E m \in Meshes : OpenMesh(m)
    BY <1>1, OpenMeshKeepsInv
  <1>2. ASSUME NEW m \in meshVector, OpenCameras(m)
        PROVE  Inv'
    <2>1. cameras' \in [Meshes -> SUBSET Cameras]
      BY <1>2 DEF OpenCameras, FreeCameras, Inv, TypeOK
    <2> QED
      BY <1>2, <2>1, ShowMeshKeepsInv DEF OpenCameras
  <1>3. CASE \E m \in meshVector : OnTreeChoice(m)
    BY <1>3, OnTreeChoiceKeepsInv
  <1>4. ASSUME NEW m \in meshVector, ShowMesh(m)
        PROVE  Inv'
    <2>1. cameras' \in [Meshes -> SUBSET Cameras]
      BY <1>4 DEF ShowMesh, scene, Inv, TypeOK
    <2>2. UNCHANGED <<status, meshVector, tools>>
      BY <1>4 DEF ShowMesh, scene
    <2> QED
      BY <1>4, <2>1, <2>2, ShowMeshKeepsInv DEF ShowMesh
  <1>5. CASE OnToolDelete
    BY <1>5, OnToolDeleteKeepsInv
  <1>6. CASE OnClose
    BY <1>6, OnCloseKeepsInv
  <1> QED
    BY <1>1, <1>2, <1>3, <1>4, <1>5, <1>6 DEF SceneStep

LEMMA KeyStepKeepsInv ==
  ASSUME Inv, KeyStep
  PROVE  Inv'
  <1>1. CASE KeyEscape
    BY <1>1, DisableOnlyKeepsInv DEF KeyEscape
  <1>2. CASE KeyDelete
    <2>1. CASE DeleteSelection({})
      BY <2>1, DeleteSelectionKeepsInv
    <2>2. CASE OnToolDelete
      BY <2>2, OnToolDeleteKeepsInv
    <2> QED
      BY <1>2, <2>1, <2>2 DEF KeyDelete
  <1>3. CASE KeyReturn
    <2>1. CASE DeleteSelection({"Delete"})
      BY <2>1, DeleteSelectionKeepsInv
    <2>2. CASE ToggleOff("Volume")
      BY <2>2, ToggleOffKeepsInv DEF Tools
    <2> QED
      BY <1>3, <2>1, <2>2 DEF KeyReturn
  <1> QED
    BY <1>1, <1>2, <1>3 DEF KeyStep

LEMMA InitEstablishesInv ==
  ASSUME Init
  PROVE  Inv
  <1> USE DEF Init
  <1>1. TypeOK
    BY DEF TypeOK
  <1>2. OneToolAtATime /\ NeverRunsAway /\ ToolbarShowsTools /\ MenuShowsTools
    BY DEF OneToolAtATime, NeverRunsAway, ToolbarShowsTools, MenuShowsTools
  <1>3. ToolsHoldLiveMeshes /\ VisibleAsTicked
    BY DEF ToolsHoldLiveMeshes, VisibleAsTicked
  <1> QED
    BY <1>1, <1>2, <1>3 DEF Inv

LEMMA NextKeepsInv ==
  ASSUME Inv, [Next]_vars
  PROVE  Inv'
  <1>1. CASE Next
    BY <1>1, ToolStepKeepsInv, SceneStepKeepsInv, KeyStepKeepsInv DEF Next
  <1>2. CASE UNCHANGED vars
    <2>1. /\ UNCHANGED <<status, meshVector, cameras, ticked, visible>>
          /\ UNCHANGED <<enabled, checked, bitmapsOn, toolMeshes, toolCameras>>
      BY <1>2 DEF vars, scene, tree, tools
    <2>2. TypeOK'
      BY <2>1 DEF Inv, TypeOK
    <2>3. OneToolAtATime' /\ NeverRunsAway' /\ ToolbarShowsTools' /\ MenuShowsTools'
      BY <2>1 DEF Inv, OneToolAtATime, NeverRunsAway, ToolbarShowsTools, MenuShowsTools
    <2>4. ToolsHoldLiveMeshes' /\ VisibleAsTicked'
      BY <2>1 DEF Inv, ToolsHoldLiveMeshes, VisibleAsTicked
    <2> QED
      BY <2>2, <2>3, <2>4 DEF Inv
  <1> QED
    BY <1>1, <1>2

(* The frame's invariants hold together, whatever the order of the menu    *)
(* entries, buttons, keys and drops.                                       *)
THEOREM FrameInvariant == Spec => []Inv
  <1>1. Init => Inv
    BY InitEstablishesInv
  <1>2. Inv /\ [Next]_vars => Inv'
    BY NextKeepsInv
  <1> QED
    BY <1>1, <1>2, PTL DEF Spec

-----------------------------------------------------------------------------
(* What it says.                                                           *)

(* Every mesh ticked or visible on the tree is a loaded one, and the state *)
(* of the frame keeps its type.                                            *)
THEOREM FrameTypeCorrect == Spec => []TypeOK
  <1>1. Inv => TypeOK
    BY DEF Inv
  <1> QED
    BY <1>1, FrameInvariant, PTL

(* At most one of the tools that exclude each other is enabled, although   *)
(* each handler relies on the others' handlers to switch them off.         *)
THEOREM OneToolIsOn == Spec => []OneToolAtATime
  <1>1. Inv => OneToolAtATime
    BY DEF Inv
  <1> QED
    BY <1>1, FrameInvariant, PTL

(* disableMeasureTools and the handlers, which call each other, never fill *)
(* the stack.                                                              *)
THEOREM RecursionEnds == Spec => []NeverRunsAway
  <1>1. Inv => NeverRunsAway
    BY DEF Inv
  <1> QED
    BY <1>1, FrameInvariant, PTL

(* No tool keeps a pointer to a mesh that OnToolDelete has deleted.        *)
THEOREM NoDanglingMesh == Spec => []ToolsHoldLiveMeshes
  <1>1. Inv => ToolsHoldLiveMeshes
    BY DEF Inv
  <1> QED
    BY <1>1, FrameInvariant, PTL

(* The ON bitmaps of the tool bar are those of the enabled tools.          *)
THEOREM ButtonsTellTruth == Spec => []ToolbarShowsTools
  <1>1. Inv => ToolbarShowsTools
    BY DEF Inv
  <1> QED
    BY <1>1, FrameInvariant, PTL

(* The check marks of the menu are those of the enabled tools, the delete  *)
(* tool's apart.                                                           *)
THEOREM MenuTellsTruth == Spec => []MenuShowsTools
  <1>1. Inv => MenuShowsTools
    BY DEF Inv
  <1> QED
    BY <1>1, FrameInvariant, PTL

(* A mesh is visible as its box on the tree says, the one under elevation  *)
(* apart.                                                                  *)
THEOREM VisibilityFollowsTick == Spec => []VisibleAsTicked
  <1>1. Inv => VisibleAsTicked
    BY DEF Inv
  <1> QED
    BY <1>1, FrameInvariant, PTL

(* The two handlers that can drop a mesh, OnToolDelete and OnClose, switch *)
(* every tool off in the same step.                                        *)
THEOREM MeshesGoWithToolsOff == Spec => DeletionFindsToolsOff
  <1>1. ASSUME Next
        PROVE  ~(meshVector \subseteq meshVector') => enabled' = {}
    <2>1. CASE OnToolDelete
      BY <2>1 DEF OnToolDelete, SwitchTools
    <2>2. CASE OnClose
      BY <2>2 DEF OnClose
    <2>3. CASE meshVector \subseteq meshVector'
      BY <2>3
    <2>4. ToolStep => UNCHANGED meshVector
      BY DEF ToolStep, OnToolMeasure, OnToolAngle, OnToolElevation,
             OnToolDeletePointsFaces, OnToolVolume, OnToolCheckCamVisibility,
             OnMenuUpdateCamera, OnMenuAlignTool, OnMenuTransform,
             CheckVisibility, MoveCamera, ToggleOff, Refuse, EnableOnMesh, scene
    <2>5. SceneStep => \/ OnToolDelete \/ OnClose
                       \/ meshVector \subseteq meshVector'
      BY DEF SceneStep, OpenMesh, OpenCameras, OnTreeChoice, ShowMesh, scene
    <2>6. KeyStep => OnToolDelete \/ UNCHANGED meshVector
      BY DEF KeyStep, KeyEscape, KeyDelete, KeyReturn, DeleteSelection,
             ToggleOff, scene
    <2> QED
      BY <1>1, <2>1, <2>2, <2>3, <2>4, <2>5, <2>6 DEF Next
  <1>2. UNCHANGED vars => meshVector \subseteq meshVector'
    BY DEF vars, scene
  <1>3. [Next]_vars => [~(meshVector \subseteq meshVector') => enabled' = {}]_vars
    BY <1>1, <1>2
  <1> QED
    BY <1>3, PTL DEF Spec, DeletionFindsToolsOff

-----------------------------------------------------------------------------
(* disableMeasureTools itself, test by test and call by call: that it does *)
(* what AfterDisabling and SwitchedOff say of it, for any size of the      *)
(* stack.                                                                  *)

(* The tools that are left when a call has come to this place.             *)
LeftAt(call, place) ==
  {t \in call.toolsOn : \/ t = call.toolToAvoid
                        \/ \E j \in place .. LastTool : ToolOrder[j] = t}

(* The place the outermost call has got to.                                *)
OutermostPlace == IF callers = <<>> THEN nextTool ELSE callers[1].nextTool

(* A handler asks for all tools but its own to be disabled.                *)
HandlersSpareTheirTool ==
  /\ callers # <<>> => toolToAvoid \in Exclusive
  /\ \A k \in 2 .. Len(callers) : callers[k].toolToAvoid \in Exclusive

(* The outermost call returns at its end, when those within it have.       *)
ReturnsLast ==
  callStatus = "returned" => callers = <<>> /\ nextTool = LastTool + 1

StackFits == Len(callers) < StackBound

(* With at most one exclusive tool on, the only calls within the outermost *)
(* one are of the handler of that tool, and they make none.                *)
EndsInTwoCalls ==
  /\ callStatus # "overflow"
  /\ \A t \in Exclusive : t \in toolsOn <=> t \in LeftAt(begun, OutermostPlace)
  /\ "CheckCam" \in toolsOn => "CheckCam" \in LeftAt(begun, OutermostPlace)
  /\ toolsOn \subseteq begun.toolsOn
  /\ callers = <<>> => toolToAvoid = begun.toolToAvoid
  /\ callers # <<>> =>
       /\ Len(callers) = 1
       /\ callers[1].toolToAvoid = begun.toolToAvoid
       /\ toolToAvoid = ToolOrder[callers[1].nextTool]
       /\ toolToAvoid \in Exclusive \cap begun.toolsOn
       /\ toolToAvoid # begun.toolToAvoid

(* With two of them on, no call gets past both: one of them is not the     *)
(* tool it spares, and the handler of that one never comes back to it.     *)
NeverComesBack ==
  /\ callStatus # "returned"
  /\ toolsOn \cap Exclusive = begun.toolsOn \cap Exclusive
  /\ \A j \in 1 .. LastTool :
       j < nextTool /\ ToolOrder[j] \in Exclusive \cap begun.toolsOn =>
         ToolOrder[j] = toolToAvoid

CallInv ==
  /\ CallTypeOK
  /\ HandlersSpareTheirTool
  /\ ReturnsLast
  /\ StackFits
  /\ ~RunsAway(begun.toolsOn) => EndsInTwoCalls
  /\ RunsAway(begun.toolsOn) => NeverComesBack

LEMMA ToolOrderFacts ==
  /\ ToolOrder \in [1 .. LastTool -> Tools]
  /\ \A t \in Tools : \E i \in 1 .. LastTool : ToolOrder[i] = t
  /\ \A i, j \in 1 .. LastTool : ToolOrder[i] = ToolOrder[j] => i = j
  /\ \A i \in 1 .. LastTool : ToolOrder[i] \in Exclusive <=> i # 4
  /\ ToolOrder[4] = "CheckCam"
  <1>1. /\ ToolOrder[1] = "Distance" /\ ToolOrder[2] = "Angle"
        /\ ToolOrder[3] = "Elevation" /\ ToolOrder[4] = "CheckCam"
        /\ ToolOrder[5] = "Volume" /\ ToolOrder[6] = "Delete"
        /\ ToolOrder[7] = "UpdateCamera" /\ ToolOrder[8] = "Align"
    BY DEF ToolOrder
  <1>2. 1 .. LastTool = {1, 2, 3, 4, 5, 6, 7, 8}
    BY DEF LastTool
  <1>3. ToolOrder \in [1 .. LastTool -> Tools]
    BY DEF ToolOrder, LastTool, Tools
  <1>4. \A t \in Tools : \E i \in 1 .. LastTool : ToolOrder[i] = t
    BY <1>1, <1>2 DEF Tools
  <1>5. \A i, j \in 1 .. LastTool : ToolOrder[i] = ToolOrder[j] => i = j
    BY <1>1, <1>2
  <1>6. \A i \in 1 .. LastTool : ToolOrder[i] \in Exclusive <=> i # 4
    BY <1>1, <1>2 DEF Exclusive, Tools
  <1> QED
    BY <1>1, <1>3, <1>4, <1>5, <1>6

(* Past a place, the tool of the place is left only if it is spared.       *)
LEMMA LeftAfterPlace ==
  ASSUME NEW i \in 1 .. LastTool
  PROVE  \A t \in Tools :
           t \in LeftAt(begun, i + 1) <=>
             /\ t \in LeftAt(begun, i)
             /\ t = ToolOrder[i] => t = begun.toolToAvoid
  <1> SUFFICES ASSUME NEW t \in Tools
               PROVE  t \in LeftAt(begun, i + 1) <=>
                        /\ t \in LeftAt(begun, i)
                        /\ t = ToolOrder[i] => t = begun.toolToAvoid
    OBVIOUS
  <1>1. \A j \in i + 1 .. LastTool : j \in 1 .. LastTool /\ j # i
    BY DEF LastTool
  <1>2. \A j \in i .. LastTool : j = i \/ j \in i + 1 .. LastTool
    BY DEF LastTool
  <1>3. i \in i .. LastTool /\ \A j \in i + 1 .. LastTool : j \in i .. LastTool
    BY DEF LastTool
  <1> QED
    BY <1>1, <1>2, <1>3, ToolOrderFacts DEF LeftAt

LEMMA CallInitEstablishesInv == CallInit => CallInv
  <1> SUFFICES ASSUME CallInit
               PROVE  CallInv
    OBVIOUS
  <1>1. CallTypeOK
    BY DEF CallInit, CallTypeOK, LastTool
  <1>2. callers = <<>> /\ nextTool = 1 /\ OutermostPlace = 1
    BY DEF CallInit, OutermostPlace
  <1>3. \A t \in Tools : t \in LeftAt(begun, 1) <=> t \in toolsOn
    BY ToolOrderFacts DEF CallInit, LeftAt
  <1>4. EndsInTwoCalls
    BY <1>2, <1>3 DEF CallInit, EndsInTwoCalls, Exclusive, Tools
  <1>5. NeverComesBack
    BY <1>2 DEF CallInit, NeverComesBack, LastTool
  <1>6. HandlersSpareTheirTool
    BY <1>2 DEF HandlersSpareTheirTool
  <1>7. ReturnsLast
    BY DEF CallInit, ReturnsLast
  <1>8. StackFits
    BY <1>2, StackAssumption DEF StackFits
  <1> QED
    BY <1>1, <1>4, <1>5, <1>6, <1>7, <1>8 DEF CallInv

LEMMA FrontAndLast ==
  ASSUME NEW S, NEW seq \in Seq(S), seq # <<>>
  PROVE  /\ Len(seq) \in Nat \ {0}
         /\ Front(seq) \in Seq(S) /\ Len(Front(seq)) = Len(seq) - 1
         /\ \A k \in 1 .. Len(seq) - 1 : Front(seq)[k] = seq[k]
         /\ Last(seq) = seq[Len(seq)] /\ Last(seq) \in S
  <1>1. Len(seq) \in Nat \ {0}
    BY EmptySeq
  <1>2. Front(seq) \in Seq(S) /\ Len(Front(seq)) = Len(seq) - 1
    BY <1>1 DEF Front
  <1>3. \A k \in 1 .. Len(seq) - 1 : Front(seq)[k] = seq[k]
    BY <1>1 DEF Front
  <1>4. Last(seq) = seq[Len(seq)] /\ Last(seq) \in S
    BY <1>1, ElementOfSeq DEF Last
  <1> QED
    BY <1>1, <1>2, <1>3, <1>4

LEMMA CallKeepsType ==
  ASSUME CallTypeOK, HandlersSpareTheirTool, [CallNext]_callVars
  PROVE  CallTypeOK' /\ HandlersSpareTheirTool'
  <1> DEFINE Calls == [toolToAvoid : Arguments, nextTool : 1 .. LastTool]
  <1> USE DEF CallTypeOK
  <1>1. CASE UNCHANGED callVars
    BY <1>1 DEF callVars, HandlersSpareTheirTool
  <1>2. ASSUME NEW i \in 1 .. LastTool, PassTool(i)
        PROVE  CallTypeOK' /\ HandlersSpareTheirTool'
    BY <1>2 DEF PassTool, LastTool, HandlersSpareTheirTool
  <1>3. ASSUME NEW i \in 1 .. LastTool, ToggleCheckCam(i)
        PROVE  CallTypeOK' /\ HandlersSpareTheirTool'
    <2>1. toolsOn' \in SUBSET Tools
      BY <1>3 DEF ToggleCheckCam, Toggled, Tools
    <2> QED
      BY <1>3, <2>1 DEF ToggleCheckCam, LastTool, HandlersSpareTheirTool
  <1>4. ASSUME NEW i \in 1 .. LastTool, CallHandler(i)
        PROVE  CallTypeOK' /\ HandlersSpareTheirTool'
    <2>1. toolToAvoid' \in Arguments /\ nextTool' \in 1 .. LastTool + 1
      BY <1>4 DEF CallHandler, Arguments, LastTool
    <2> DEFINE call == [toolToAvoid |-> toolToAvoid, nextTool |-> i]
    <2>2. call \in Calls /\ callers \in Seq(Calls) /\ callers' = Append(callers, call)
      BY <1>4 DEF CallHandler
    <2>3. callers' \in Seq(Calls)
      BY <2>2, AppendProperties
    <2>4. CallTypeOK'
      BY <1>4, <2>1, <2>3 DEF CallHandler
    <2>5. toolToAvoid' \in Exclusive
      BY <1>4 DEF CallHandler
    <2>6. ASSUME NEW k \in 2 .. Len(callers')
          PROVE  callers'[k].toolToAvoid \in Exclusive
      <3>1. Len(callers') = Len(callers) + 1 /\ Len(callers) \in Nat
        BY <2>2, AppendProperties
      <3>2. CASE k \in 2 .. Len(callers)
        <4>1. callers'[k] = callers[k]
          BY <2>2, <3>2, AppendProperties
        <4> QED
          BY <3>2, <4>1 DEF HandlersSpareTheirTool
      <3>3. CASE k = Len(callers) + 1
        <4>1. callers'[k] = call
          BY <2>2, <3>3, AppendProperties
        <4>2. callers # <<>>
          BY <3>1, <3>3, Len(<<>>) = 0
        <4> QED
          BY <4>1, <4>2 DEF HandlersSpareTheirTool
      <3> QED
        BY <3>1, <3>2, <3>3
    <2> QED
      BY <2>4, <2>5, <2>6 DEF HandlersSpareTheirTool
  <1>5. ASSUME NEW i \in 1 .. LastTool, Overflow(i)
        PROVE  CallTypeOK' /\ HandlersSpareTheirTool'
    BY <1>5 DEF Overflow, HandlersSpareTheirTool
  <1>6. CASE ReturnToHandler
    <2>1. callers # <<>> /\ callers \in Seq(Calls) /\ Len(callers) \in Nat \ {0}
      BY <1>6, EmptySeq DEF ReturnToHandler
    <2>2. /\ callers' \in Seq(Calls) /\ Len(callers') = Len(callers) - 1
          /\ \A k \in 1 .. Len(callers) - 1 : callers'[k] = callers[k]
      BY <1>6, <2>1, FrontAndLast DEF ReturnToHandler
    <2>3. Last(callers) \in Calls /\ Last(callers) = callers[Len(callers)]
      BY <2>1, FrontAndLast
    <2>4. toolsOn' \in SUBSET Tools
      BY <1>6 DEF ReturnToHandler, Toggled, HandlersSpareTheirTool, Exclusive
    <2>5. toolToAvoid' \in Arguments /\ nextTool' \in 1 .. LastTool + 1
      BY <1>6, <2>3 DEF ReturnToHandler, LastTool
    <2>6. CallTypeOK'
      BY <1>6, <2>2, <2>4, <2>5 DEF ReturnToHandler
    <2>7. ASSUME callers' # <<>>
          PROVE  toolToAvoid' \in Exclusive
      <3>1. Len(callers) \in 2 .. Len(callers)
        BY <2>1, <2>2, <2>7, EmptySeq
      <3> QED
        BY <1>6, <2>3, <3>1 DEF ReturnToHandler, HandlersSpareTheirTool
    <2>8. \A k \in 2 .. Len(callers') : callers'[k].toolToAvoid \in Exclusive
      BY <2>1, <2>2 DEF HandlersSpareTheirTool
    <2> QED
      BY <2>6, <2>7, <2>8 DEF HandlersSpareTheirTool
  <1>7. CASE Return
    BY <1>7 DEF Return, HandlersSpareTheirTool
  <1> QED
    BY <1>1, <1>2, <1>3, <1>4, <1>5, <1>6, <1>7 DEF CallNext

LEMMA PassToolEndsInTwo ==
  ASSUME CallInv, ~RunsAway(begun.toolsOn),
         NEW i \in 1 .. LastTool, PassTool(i)
  PROVE  EndsInTwoCalls'
  <1> USE DEF CallInv, EndsInTwoCalls
  <1>1. /\ nextTool = i /\ nextTool' = i + 1 /\ ~MustSwitch(ToolOrder[i])
        /\ UNCHANGED <<toolsOn, toolToAvoid, callers, callStatus, begun>>
    BY DEF PassTool, LooksAt
  <1>2. CASE callers = <<>>
    <2>1. OutermostPlace = i /\ OutermostPlace' = i + 1
      BY <1>1, <1>2 DEF OutermostPlace
    <2>2. \A t \in Tools :
            t \in LeftAt(begun, i + 1) <=>
              t \in LeftAt(begun, i) /\ (t = ToolOrder[i] => t = begun.toolToAvoid)
      BY LeftAfterPlace
    <2>3. ToolOrder[i] \in toolsOn => ToolOrder[i] = begun.toolToAvoid
      BY <1>1, <1>2 DEF MustSwitch
    <2>4. \A t \in Exclusive : t \in toolsOn' <=> t \in LeftAt(begun', OutermostPlace')
      BY <1>1, <2>1, <2>2, <2>3 DEF Exclusive
    <2>5. "CheckCam" \in toolsOn' => "CheckCam" \in LeftAt(begun', OutermostPlace')
      BY <1>1, <2>1, <2>2, <2>3 DEF Tools
    <2> QED
      BY <1>1, <1>2, <2>4, <2>5
  <1>3. CASE callers # <<>>
    <2>1. OutermostPlace' = OutermostPlace
      BY <1>1, <1>3 DEF OutermostPlace
    <2> QED
      BY <1>1, <1>3, <2>1
  <1> QED
    BY <1>2, <1>3

LEMMA ToggleCheckCamEndsInTwo ==
  ASSUME CallInv, ~RunsAway(begun.toolsOn),
         NEW i \in 1 .. LastTool, ToggleCheckCam(i)
  PROVE  EndsInTwoCalls'
  <1> USE DEF CallInv, EndsInTwoCalls
  <1>1. /\ nextTool = i /\ nextTool' = i + 1 /\ ToolOrder[i] = "CheckCam"
        /\ toolsOn' = toolsOn \ {"CheckCam"}
        /\ UNCHANGED <<toolToAvoid, callers, callStatus, begun>>
    BY DEF ToggleCheckCam, LooksAt, MustSwitch, Toggled
  <1>2. "CheckCam" \notin Exclusive
    BY DEF Exclusive
  <1>3. CASE callers = <<>>
    <2>1. OutermostPlace = i /\ OutermostPlace' = i + 1
      BY <1>1, <1>3 DEF OutermostPlace
    <2>2. \A t \in Exclusive : t \in LeftAt(begun, i + 1) <=> t \in LeftAt(begun, i)
      BY <1>1, <1>2, LeftAfterPlace DEF Exclusive
    <2> QED
      BY <1>1, <1>2, <1>3, <2>1, <2>2
  <1>4. CASE callers # <<>>
    <2>1. OutermostPlace' = OutermostPlace
      BY <1>1, <1>4 DEF OutermostPlace
    <2> QED
      BY <1>1, <1>2, <1>4, <2>1
  <1> QED
    BY <1>3, <1>4

(* Within a call that a handler makes, no other handler is called: its tool*)
(* would exclude the one the handler is of.                                *)
LEMMA OnlyTheOutermostCalls ==
  ASSUME CallInv, ~RunsAway(begun.toolsOn), NEW i \in 1 .. LastTool,
         ToolOrder[i] \in Exclusive, MustSwitch(ToolOrder[i])
  PROVE  callers = <<>>
  <1> SUFFICES ASSUME callers # <<>>
               PROVE  FALSE
    OBVIOUS
  <1>1. /\ toolToAvoid \in Exclusive \cap begun.toolsOn
        /\ ToolOrder[i] \in Exclusive \cap begun.toolsOn
        /\ ToolOrder[i] # toolToAvoid
    BY DEF CallInv, EndsInTwoCalls, MustSwitch
  <1> QED
    BY <1>1 DEF RunsAway

LEMMA CallHandlerEndsInTwo ==
  ASSUME CallInv, ~RunsAway(begun.toolsOn),
         NEW i \in 1 .. LastTool, CallHandler(i)
  PROVE  EndsInTwoCalls'
  <1> USE DEF CallInv, EndsInTwoCalls
  <1> DEFINE call == [toolToAvoid |-> toolToAvoid, nextTool |-> i]
  <1>1. /\ nextTool = i /\ nextTool' = 1 /\ ToolOrder[i] \in Exclusive
        /\ MustSwitch(ToolOrder[i])
        /\ callers' = Append(callers, call) /\ toolToAvoid' = ToolOrder[i]
        /\ UNCHANGED <<toolsOn, callStatus, begun>>
    BY DEF CallHandler, LooksAt
  <1>2. callers = <<>>
    BY <1>1, OnlyTheOutermostCalls
  <1>3. callers' = <<call>>
    BY <1>1, <1>2
  <1>4. Len(callers') = 1 /\ callers'[1] = call /\ callers' # <<>>
    BY <1>3
  <1>5. OutermostPlace' = i /\ OutermostPlace = i
    BY <1>1, <1>2, <1>4 DEF OutermostPlace
  <1>6. ToolOrder[i] \in begun.toolsOn /\ ToolOrder[i] # begun.toolToAvoid
    BY <1>1, <1>2 DEF MustSwitch
  <1> QED
    BY <1>1, <1>2, <1>4, <1>5, <1>6

LEMMA OneCall ==
  ASSUME NEW S, NEW seq \in Seq(S), seq # <<>>, Len(seq) = 1
  PROVE  seq[1] \in S /\ Last(seq) = seq[1] /\ Front(seq) = <<>>
  <1>1. Last(seq) = seq[1] /\ seq[1] \in S
    <2>1. Last(seq) = seq[Len(seq)] /\ Last(seq) \in S
      BY FrontAndLast
    <2> QED
      BY <2>1
  <1>2. Front(seq) \in Seq(S) /\ Len(Front(seq)) = 0
    BY FrontAndLast
  <1>3. Front(seq) = <<>>
    BY <1>2, EmptySeq
  <1> QED
    BY <1>1, <1>3

LEMMA ReturnToHandlerEndsInTwo ==
  ASSUME CallInv, ~RunsAway(begun.toolsOn), ReturnToHandler
  PROVE  EndsInTwoCalls'
  <1> USE DEF CallInv, EndsInTwoCalls
  <1> DEFINE Calls == [toolToAvoid : Arguments, nextTool : 1 .. LastTool]
             i == callers[1].nextTool
  <1>1. callers # <<>> /\ Len(callers) = 1
    BY DEF ReturnToHandler
  <1>2. callers \in Seq(Calls)
    BY DEF CallTypeOK
  <1> HIDE DEF Calls
  <1>3. callers[1] \in Calls /\ Last(callers) = callers[1] /\ Front(callers) = <<>>
    BY <1>1, <1>2, OneCall
  <1>4. i \in 1 .. LastTool
    BY <1>3 DEF Calls
  <1>5. /\ toolsOn' = toolsOn \ {ToolOrder[i]}
        /\ nextTool' = i + 1 /\ toolToAvoid' = begun.toolToAvoid
        /\ callers' = <<>>
        /\ UNCHANGED <<callStatus, begun>>
    <2>1. toolToAvoid = ToolOrder[i] /\ toolToAvoid \in Exclusive
      BY <1>1
    <2>2. toolToAvoid \in toolsOn
      <3>1. toolToAvoid \in LeftAt(begun, i)
        BY <1>1, <1>4 DEF LeftAt, LastTool
      <3> QED
        BY <1>1, <2>1, <3>1 DEF OutermostPlace
    <2> QED
      BY <1>1, <1>3, <2>1, <2>2 DEF ReturnToHandler, Toggled
  <1>6. OutermostPlace = i /\ OutermostPlace' = i + 1
    BY <1>1, <1>5 DEF OutermostPlace
  <1>7. ToolOrder[i] # begun.toolToAvoid /\ ToolOrder[i] # "CheckCam"
    BY <1>1 DEF Exclusive
  <1>8. \A t \in Tools :
          t \in LeftAt(begun, i + 1) <=> t \in LeftAt(begun, i) /\ t # ToolOrder[i]
    BY <1>4, <1>7, LeftAfterPlace
  <1>9. \A t \in Exclusive : t \in toolsOn' <=> t \in LeftAt(begun', OutermostPlace')
    BY <1>5, <1>6, <1>8 DEF Exclusive
  <1>10. "CheckCam" \in toolsOn' => "CheckCam" \in LeftAt(begun', OutermostPlace')
    BY <1>5, <1>6, <1>7, <1>8 DEF Tools
  <1> QED
    BY <1>5, <1>9, <1>10

(* With two exclusive tools on, a call that has passed every place has met *)
(* one it does not spare.                                                  *)
LEMMA NoCallEnds ==
  ASSUME CallInv, RunsAway(begun.toolsOn)
  PROVE  nextTool # LastTool + 1
  <1> SUFFICES ASSUME nextTool = LastTool + 1
               PROVE  FALSE
    OBVIOUS
  <1>1. \A j \in 1 .. LastTool :
          ToolOrder[j] \in Exclusive \cap begun.toolsOn => ToolOrder[j] = toolToAvoid
    BY DEF CallInv, NeverComesBack, LastTool
  <1>2. ASSUME NEW t \in Exclusive \cap begun.toolsOn
        PROVE  t = toolToAvoid
    <2>1. PICK i \in 1 .. LastTool : ToolOrder[i] = t
      BY ToolOrderFacts DEF Exclusive
    <2> QED
      BY <1>1, <2>1
  <1> QED
    BY <1>2 DEF RunsAway

LEMMA RunawayStepNeverComesBack ==
  ASSUME CallInv, RunsAway(begun.toolsOn), CallNext
  PROVE  NeverComesBack'
  <1> USE DEF CallInv, NeverComesBack
  <1>1. ASSUME NEW i \in 1 .. LastTool, PassTool(i)
        PROVE  NeverComesBack'
    <2>1. /\ nextTool = i /\ nextTool' = i + 1 /\ ~MustSwitch(ToolOrder[i])
          /\ UNCHANGED <<toolsOn, toolToAvoid, callStatus, begun>>
      BY <1>1 DEF PassTool, LooksAt
    <2>2. ToolOrder[i] \in Exclusive \cap begun.toolsOn => ToolOrder[i] = toolToAvoid
      BY <2>1 DEF MustSwitch
    <2>3. \A j \in 1 .. LastTool : j < i + 1 => j < i \/ j = i
      BY DEF LastTool
    <2> QED
      BY <2>1, <2>2, <2>3
  <1>2. ASSUME NEW i \in 1 .. LastTool, ToggleCheckCam(i)
        PROVE  NeverComesBack'
    <2>1. /\ nextTool = i /\ nextTool' = i + 1 /\ ToolOrder[i] = "CheckCam"
          /\ toolsOn' = toolsOn \ {"CheckCam"}
          /\ UNCHANGED <<toolToAvoid, callStatus, begun>>
      BY <1>2 DEF ToggleCheckCam, LooksAt, MustSwitch, Toggled
    <2>2. "CheckCam" \notin Exclusive
      BY DEF Exclusive
    <2>3. \A j \in 1 .. LastTool : j < i + 1 => j < i \/ j = i
      BY DEF LastTool
    <2> QED
      BY <2>1, <2>2, <2>3
  <1>3. ASSUME NEW i \in 1 .. LastTool, CallHandler(i)
        PROVE  NeverComesBack'
    BY <1>3 DEF CallHandler, LastTool
  <1>4. ASSUME NEW i \in 1 .. LastTool, Overflow(i)
        PROVE  NeverComesBack'
    BY <1>4 DEF Overflow
  <1>5. CASE ReturnToHandler \/ Return
    BY <1>5, NoCallEnds DEF ReturnToHandler, Return, LooksAt
  <1> QED
    BY <1>1, <1>2, <1>3, <1>4, <1>5 DEF CallNext

LEMMA StackStaysWithin ==
  ASSUME CallTypeOK, StackFits, CallNext
  PROVE  StackFits'
  <1> DEFINE Calls == [toolToAvoid : Arguments, nextTool : 1 .. LastTool]
  <1>1. callers \in Seq(Calls) /\ Len(callers) \in Nat
    BY DEF CallTypeOK
  <1>2. ASSUME NEW i \in 1 .. LastTool, CallHandler(i)
        PROVE  StackFits'
    <2>1. [toolToAvoid |-> toolToAvoid, nextTool |-> i] \in Calls
      BY DEF CallTypeOK
    <2>2. Len(callers') = Len(callers) + 1
      BY <1>1, <1>2, <2>1, AppendProperties DEF CallHandler
    <2> QED
      BY <1>2, <2>2 DEF CallHandler, StackFits
  <1>3. CASE ReturnToHandler
    <2>1. Len(callers') = Len(callers) - 1
      BY <1>1, <1>3, FrontAndLast DEF ReturnToHandler
    <2> QED
      BY <1>1, <2>1, StackAssumption DEF StackFits
  <1> QED
    BY <1>2, <1>3 DEF CallNext, PassTool, ToggleCheckCam, Overflow, Return, StackFits

LEMMA CallNextKeepsInv ==
  ASSUME CallInv, [CallNext]_callVars
  PROVE  CallInv'
  <1>1. CallTypeOK' /\ HandlersSpareTheirTool'
    BY CallKeepsType DEF CallInv
  <1>2. CASE UNCHANGED callVars
    BY <1>1, <1>2 DEF CallInv, callVars, ReturnsLast, StackFits, EndsInTwoCalls, OutermostPlace,
                      NeverComesBack
  <1>3. CASE CallNext
    <2>1. begun' = begun
      BY <1>3 DEF CallNext, PassTool, ToggleCheckCam, CallHandler, Overflow,
                  ReturnToHandler, Return
    <2>2. ASSUME ~RunsAway(begun.toolsOn)
          PROVE  EndsInTwoCalls'
      <3>1. ASSUME NEW i \in 1 .. LastTool, Overflow(i)
            PROVE  FALSE
        <4>1. callers = <<>>
          BY <2>2, <3>1, OnlyTheOutermostCalls DEF Overflow
        <4>2. Len(callers) + 1 = StackBound
          BY <3>1 DEF Overflow
        <4> QED
          BY <4>1, <4>2, StackAssumption
      <3>2. CASE Return
        BY <2>2, <3>2 DEF Return, CallInv, EndsInTwoCalls, OutermostPlace
      <3> QED
        BY <1>3, <2>2, <3>1, <3>2, PassToolEndsInTwo, ToggleCheckCamEndsInTwo,
           CallHandlerEndsInTwo, ReturnToHandlerEndsInTwo DEF CallNext
    <2>3. RunsAway(begun.toolsOn) => NeverComesBack'
      BY <1>3, RunawayStepNeverComesBack
    <2>4. ReturnsLast'
      BY <1>3 DEF CallInv, ReturnsLast, CallNext, PassTool, ToggleCheckCam,
                  CallHandler, Overflow, ReturnToHandler, Return, LooksAt
    <2>5. StackFits'
      BY <1>3, StackStaysWithin DEF CallInv
    <2> QED
      BY <1>1, <2>1, <2>2, <2>3, <2>4, <2>5 DEF CallInv
  <1> QED
    BY <1>2, <1>3

(* The inductive invariant of disableMeasureTools.                         *)
THEOREM CallInvariant == CallSpec => []CallInv
  <1>1. CallInit => CallInv
    BY CallInitEstablishesInv
  <1>2. CallInv /\ [CallNext]_callVars => CallInv'
    BY CallNextKeepsInv
  <1> QED
    BY <1>1, <1>2, PTL DEF CallSpec

(* The variables of disableMeasureTools have their types: the tools it     *)
(* toggles and the calls on its stack are what the code's numbers stand    *)
(* for.                                                                    *)
THEOREM CallTypeCorrect == CallSpec => []CallTypeOK
  <1>1. CallInv => CallTypeOK
    BY DEF CallInv
  <1> QED
    BY <1>1, CallInvariant, PTL

(* Whatever the size of the stack, the recursion of disableMeasureTools and*)
(* the handlers returns only if no two tools that exclude each other are   *)
(* on, and exhausts the stack only if two are.                             *)
THEOREM RecursionEndsUnlessTwoAreOn == CallSpec => []EndsUnlessRunsAway
  <1>1. CallInv => EndsUnlessRunsAway
    BY DEF CallInv, EndsInTwoCalls, NeverComesBack, EndsUnlessRunsAway
  <1> QED
    BY <1>1, CallInvariant, PTL

(* When the call returns it has switched off every tool but the one in its *)
(* parameter, the check-camera tool whose handler does not call back among *)
(* them, and it has switched nothing on.                                   *)
THEOREM CallDisablesAllButOne == CallSpec => []DisablesAllButOne
  <1>1. ASSUME CallInv, callStatus = "returned"
        PROVE  toolsOn = begun.toolsOn \ SwitchedOff(begun.toolsOn, begun.toolToAvoid)
    <2>1. EndsInTwoCalls /\ OutermostPlace = LastTool + 1
      BY <1>1 DEF CallInv, ReturnsLast, NeverComesBack, OutermostPlace
    <2>2. \A t : t \in LeftAt(begun, LastTool + 1) <=>
                   t \in begun.toolsOn /\ t = begun.toolToAvoid
      BY DEF LeftAt, LastTool
    <2>3. toolsOn \subseteq Tools /\ begun.toolsOn \subseteq Tools
      BY <1>1 DEF CallInv, CallTypeOK
    <2>4. begun.toolToAvoid # "CheckCam"
      BY <1>1 DEF CallInv, CallTypeOK, Arguments, Exclusive, NoTool
    <2>5. ASSUME NEW t \in Tools
          PROVE  t \in toolsOn <=> t \in begun.toolsOn /\ t = begun.toolToAvoid
      <3>1. CASE t \in Exclusive
        BY <2>1, <2>2, <3>1 DEF EndsInTwoCalls
      <3>2. CASE t = "CheckCam"
        BY <2>1, <2>2, <2>4, <3>2 DEF EndsInTwoCalls
      <3> QED
        BY <3>1, <3>2 DEF Exclusive
    <2> QED
      BY <2>3, <2>5 DEF SwitchedOff
  <1>2. CallInv => DisablesAllButOne
    BY <1>1 DEF DisablesAllButOne
  <1> QED
    BY <1>2, CallInvariant, PTL

(* The frame calls disableMeasureTools with the tools it has enabled, of   *)
(* which one at most is exclusive (OneToolIsOn): none of its handlers      *)
(* exhausts the stack, which is what AfterDisabling takes from it.         *)
THEOREM FrameCallsReturn ==
  CallSpec /\ Inv /\ toolsOn = enabled => [](callStatus # "overflow")
  <1>1. CallInit /\ Inv /\ toolsOn = enabled => ~RunsAway(begun.toolsOn)
    BY DEF CallInit, Inv, OneToolAtATime, RunsAway
  <1>2. ~RunsAway(begun.toolsOn) /\ [CallNext]_callVars =>
          (~RunsAway(begun.toolsOn))'
    BY DEF CallNext, PassTool, ToggleCheckCam, CallHandler, Overflow,
           ReturnToHandler, Return, callVars
  <1>3. CallInv /\ ~RunsAway(begun.toolsOn) => callStatus # "overflow"
    BY DEF CallInv, EndsInTwoCalls
  <1> QED
    BY <1>1, <1>2, <1>3, CallInvariant, PTL DEF CallSpec

(* What the call can still do before it ends or runs out of stack: places  *)
(* it has to look at, or calls the stack has room for.                     *)
StepsLeft ==
  IF RunsAway(begun.toolsOn)
  THEN 10 * (StackBound - Len(callers)) + (LastTool + 1 - nextTool)
  ELSE 20 * (LastTool + 1 - OutermostPlace)
         + (IF callers = <<>> THEN 19 ELSE LastTool + 1 - nextTool)

LEMMA CallRanges ==
  ASSUME CallInv
  PROVE  /\ nextTool \in 1 .. LastTool + 1 /\ OutermostPlace \in 1 .. LastTool + 1
         /\ Len(callers) \in Nat /\ StackBound - Len(callers) \in Nat \ {0}
         /\ callers # <<>> => OutermostPlace \in 1 .. LastTool
  <1> DEFINE Calls == [toolToAvoid : Arguments, nextTool : 1 .. LastTool]
  <1>1. callers \in Seq(Calls) /\ Len(callers) \in Nat /\ nextTool \in 1 .. LastTool + 1
    BY DEF CallInv, CallTypeOK
  <1>2. StackBound - Len(callers) \in Nat \ {0}
    BY <1>1, StackAssumption DEF CallInv, StackFits
  <1>3. callers # <<>> => callers[1] \in Calls
    <2> HIDE DEF Calls
    <2> SUFFICES ASSUME callers # <<>>
                 PROVE  callers[1] \in Calls
      OBVIOUS
    <2>1. Len(callers) \in Nat \ {0}
      BY <1>1, EmptySeq
    <2> QED
      BY <1>1, <2>1, ElementOfSeq
  <1> QED
    BY <1>1, <1>2, <1>3 DEF OutermostPlace, LastTool

LEMMA StepsLeftInNat ==
  ASSUME CallInv
  PROVE  StepsLeft \in Nat
  <1> DEFINE room == StackBound - Len(callers)
  <1>1. /\ room \in Nat
        /\ nextTool \in 1 .. LastTool + 1 /\ OutermostPlace \in 1 .. LastTool + 1
    BY CallRanges
  <1>2. StepsLeft = IF RunsAway(begun.toolsOn)
                    THEN 10 * room + (LastTool + 1 - nextTool)
                    ELSE 20 * (LastTool + 1 - OutermostPlace)
                           + (IF callers = <<>> THEN 19 ELSE LastTool + 1 - nextTool)
    BY DEF StepsLeft
  <1> HIDE DEF room
  <1>3. /\ 10 * room + (LastTool + 1 - nextTool) \in Nat
        /\ 20 * (LastTool + 1 - OutermostPlace) + 19 \in Nat
        /\ 20 * (LastTool + 1 - OutermostPlace) + (LastTool + 1 - nextTool) \in Nat
    BY <1>1 DEF LastTool
  <1> QED
    BY <1>2, <1>3

(* A place passed by the outermost call, or by the one that runs.          *)
LEMMA PassingCounts ==
  ASSUME CallInv, nextTool' = nextTool + 1, UNCHANGED <<callers, begun>>
  PROVE  StepsLeft' < StepsLeft
  <1> DEFINE room == StackBound - Len(callers)
  <1>1. /\ room \in Nat /\ room' = room
        /\ nextTool \in 1 .. LastTool + 1 /\ OutermostPlace \in 1 .. LastTool + 1
    BY CallRanges
  <1>2. CASE RunsAway(begun.toolsOn)
    <2>1. /\ StepsLeft = 10 * room + (LastTool + 1 - nextTool)
          /\ StepsLeft' = 10 * room + (LastTool + 1 - (nextTool + 1))
      BY <1>2 DEF StepsLeft
    <2> HIDE DEF room
    <2> QED
      BY <1>1, <2>1 DEF LastTool
  <1>3. CASE ~RunsAway(begun.toolsOn) /\ callers = <<>>
    <2>1. OutermostPlace' = OutermostPlace + 1
      BY <1>3 DEF OutermostPlace
    <2>2. /\ StepsLeft = 20 * (LastTool + 1 - OutermostPlace) + 19
          /\ StepsLeft' = 20 * (LastTool + 1 - (OutermostPlace + 1)) + 19
      BY <1>3, <2>1 DEF StepsLeft
    <2> QED
      BY <1>1, <2>2 DEF LastTool
  <1>4. CASE ~RunsAway(begun.toolsOn) /\ callers # <<>>
    <2>1. OutermostPlace' = OutermostPlace
      BY <1>4 DEF OutermostPlace
    <2>2. /\ StepsLeft = 20 * (LastTool + 1 - OutermostPlace)
                           + (LastTool + 1 - nextTool)
          /\ StepsLeft' = 20 * (LastTool + 1 - OutermostPlace)
                            + (LastTool + 1 - (nextTool + 1))
      BY <1>4, <2>1 DEF StepsLeft
    <2> QED
      BY <1>1, <2>2 DEF LastTool
  <1> QED
    BY <1>2, <1>3, <1>4

LEMMA CallingCounts ==
  ASSUME CallInv, NEW i \in 1 .. LastTool, CallHandler(i)
  PROVE  StepsLeft' < StepsLeft
  <1> DEFINE Calls == [toolToAvoid : Arguments, nextTool : 1 .. LastTool]
             call  == [toolToAvoid |-> toolToAvoid, nextTool |-> i]
  <1>1. /\ nextTool = i /\ nextTool' = 1 /\ begun' = begun
        /\ MustSwitch(ToolOrder[i]) /\ ToolOrder[i] \in Exclusive
        /\ callers' = Append(callers, call)
    BY DEF CallHandler, LooksAt
  <1>2. call \in Calls /\ callers \in Seq(Calls)
    BY DEF CallInv, CallTypeOK
  <1> HIDE DEF Calls, call
  <1>3. /\ Len(callers') = Len(callers) + 1 /\ callers' # <<>>
    BY <1>1, <1>2, AppendProperties
  <1>4. CASE RunsAway(begun.toolsOn)
    <2>1. StepsLeft' = 10 * (StackBound - (Len(callers) + 1)) + (LastTool + 1 - 1)
      BY <1>1, <1>3, <1>4 DEF StepsLeft
    <2>2. StepsLeft = 10 * (StackBound - Len(callers)) + (LastTool + 1 - i)
      BY <1>1, <1>4 DEF StepsLeft
    <2> QED
      BY <2>1, <2>2, CallRanges, StackAssumption DEF LastTool
  <1>5. CASE ~RunsAway(begun.toolsOn)
    <2>1. callers = <<>>
      BY <1>1, <1>5, OnlyTheOutermostCalls
    <2>2. callers'[1] = call
      BY <1>1, <2>1
    <2>3. OutermostPlace = i /\ OutermostPlace' = i
      BY <1>1, <1>3, <2>1, <2>2 DEF OutermostPlace, call
    <2>4. StepsLeft' = 20 * (LastTool + 1 - i) + (LastTool + 1 - 1)
      BY <1>1, <1>3, <1>5, <2>3 DEF StepsLeft
    <2>5. StepsLeft = 20 * (LastTool + 1 - i) + 19
      BY <1>5, <2>1, <2>3 DEF StepsLeft
    <2> QED
      BY <2>4, <2>5 DEF LastTool
  <1> QED
    BY <1>4, <1>5

LEMMA ReturningCounts ==
  ASSUME CallInv, ReturnToHandler
  PROVE  StepsLeft' < StepsLeft
  <1> DEFINE Calls == [toolToAvoid : Arguments, nextTool : 1 .. LastTool]
  <1>1. ~RunsAway(begun.toolsOn)
    BY NoCallEnds DEF ReturnToHandler, LooksAt
  <1>2. /\ callers # <<>> /\ Len(callers) = 1
        /\ nextTool' = Last(callers).nextTool + 1
        /\ callers' = Front(callers) /\ begun' = begun
    BY <1>1 DEF ReturnToHandler, CallInv, EndsInTwoCalls
  <1>3. callers \in Seq(Calls)
    BY DEF CallInv, CallTypeOK
  <1> HIDE DEF Calls
  <1>4. Last(callers) = callers[1] /\ callers' = <<>>
    BY <1>2, <1>3, OneCall
  <1>5. OutermostPlace' = OutermostPlace + 1
    BY <1>2, <1>4 DEF OutermostPlace
  <1>6. StepsLeft' = 20 * (LastTool + 1 - (OutermostPlace + 1)) + 19
    BY <1>1, <1>2, <1>4, <1>5 DEF StepsLeft
  <1>7. StepsLeft = 20 * (LastTool + 1 - OutermostPlace) + (LastTool + 1 - nextTool)
    BY <1>1, <1>2 DEF StepsLeft
  <1>8. OutermostPlace \in 1 .. LastTool /\ nextTool \in 1 .. LastTool + 1
    BY <1>2, CallRanges
  <1> QED
    BY <1>6, <1>7, <1>8 DEF LastTool

(* The mutual recursion of disableMeasureTools and the handlers cannot go  *)
(* round for ever within one stack: every test, call and return but the    *)
(* one that ends it brings it nearer to its end or to the end of the stack.*)
THEOREM EveryStepCounts ==
  CallSpec => /\ [](StepsLeft \in Nat)
              /\ [][callStatus' = "running" => StepsLeft' < StepsLeft]_callVars
  <1>1. CallInv => StepsLeft \in Nat
    BY StepsLeftInNat
  <1>2. ASSUME CallInv, CallNext, callStatus' = "running"
        PROVE  StepsLeft' < StepsLeft
    <2>1. ASSUME NEW i \in 1 .. LastTool, PassTool(i) \/ ToggleCheckCam(i)
          PROVE  StepsLeft' < StepsLeft
      BY <1>2, <2>1, PassingCounts DEF PassTool, ToggleCheckCam, LooksAt
    <2>2. ~Return /\ \A i \in 1 .. LastTool : ~Overflow(i)
      BY <1>2 DEF Return, Overflow
    <2> QED
      BY <1>2, <2>1, <2>2, CallingCounts, ReturningCounts DEF CallNext
  <1>3. CallInv /\ [CallNext]_callVars =>
          [callStatus' = "running" => StepsLeft' < StepsLeft]_callVars
    BY <1>2
  <1> QED
    BY <1>1, <1>3, CallInvariant, PTL DEF CallSpec

-----------------------------------------------------------------------------
(* The cameras.  FrmPrincipal shows a use of deleted cameras; what follows *)
(* says that "Open cameras..." and the drop of a camera file, which delete *)
(* cameras and disable no tool, are its only cause.                        *)

ToolsHoldLiveCameras == \A t \in Tools : toolCameras[t] \subseteq LiveCameras

SomeCamerasOpen == \E m \in meshVector : OpenCameras(m)

LEMMA HeldCamerasLive ==
  ASSUME ToolsHoldLiveCameras, NEW off \in SUBSET Tools
  PROVE  UNION {toolCameras[t] : t \in off} \subseteq LiveCameras
  BY DEF ToolsHoldLiveCameras

LEMMA SwitchingKeepsCameras ==
  ASSUME Inv, ToolsHoldLiveCameras,
         NEW off, NEW on, NEW meshesOn, NEW camerasOn \in SUBSET LiveCameras, NEW menu,
         SwitchTools(off, on, meshesOn, camerasOn, menu), UNCHANGED scene
  PROVE  ToolsHoldLiveCameras'
  <1>1. LiveCameras' = LiveCameras
    BY DEF LiveCameras, scene
  <1>2. ASSUME NEW t \in Tools
        PROVE  toolCameras'[t] \subseteq LiveCameras
    BY DEF SwitchTools, ToolsHoldLiveCameras
  <1> QED
    BY <1>1, <1>2 DEF ToolsHoldLiveCameras

LEMMA ToolStepKeepsCameras ==
  ASSUME Inv, ToolsHoldLiveCameras, ToolStep
  PROVE  ToolsHoldLiveCameras'
  <1> {} \in SUBSET LiveCameras
    OBVIOUS
  <1>1. \A tool, m : EnableOnMesh(tool, m) => ToolsHoldLiveCameras'
    BY SwitchingKeepsCameras DEF EnableOnMesh
  <1>2. \A off, shown, unchecked :
          DisableOnly(off, shown, unchecked) /\ UNCHANGED scene => ToolsHoldLiveCameras'
    BY SwitchingKeepsCameras DEF DisableOnly
  <1>3. \A tool, shown : ToggleOff(tool) \/ Refuse(tool, shown) => ToolsHoldLiveCameras'
    BY <1>2 DEF ToggleOff, Refuse
  <1>4. CASE OnToolCheckCamVisibility
    BY <1>3, <1>4, SwitchingKeepsCameras DEF OnToolCheckCamVisibility
  <1>5. CASE OnMenuUpdateCamera
    <2>1. ASSUME NEW c \in LiveCameras, NEW off, NEW menu,
                 SwitchTools(off, {"UpdateCamera"}, {}, {c}, menu), UNCHANGED scene
          PROVE  ToolsHoldLiveCameras'
      BY <2>1, SwitchingKeepsCameras
    <2> QED
      BY <1>2, <1>3, <1>5, <2>1 DEF OnMenuUpdateCamera
  <1>6. CASE OnMenuAlignTool
    BY <1>2, <1>3, <1>6, SwitchingKeepsCameras DEF OnMenuAlignTool
  <1>7. ASSUME NEW m, OnMenuTransform(m)
        PROVE  ToolsHoldLiveCameras'
    BY <1>7, SwitchingKeepsCameras DEF OnMenuTransform
  <1>8. CASE CheckVisibility
    <2>1. LiveCameras' = LiveCameras
      BY <1>8 DEF CheckVisibility, LiveCameras, scene
    <2>2. UNION {cameras[m] : m \in toolMeshes["CheckCam"]} \subseteq LiveCameras
      BY DEF Inv, ToolsHoldLiveMeshes, LiveCameras, Tools
    <2>3. ASSUME NEW t \in Tools
          PROVE  toolCameras'[t] \subseteq LiveCameras
      BY <1>8, <2>2 DEF CheckVisibility, ToolsHoldLiveCameras, Inv, TypeOK
    <2> QED
      BY <2>1, <2>3 DEF ToolsHoldLiveCameras
  <1>9. CASE MoveCamera
    BY <1>9 DEF MoveCamera, ToolsHoldLiveCameras, LiveCameras, scene, tools
  <1> QED
    BY <1>1, <1>3, <1>4, <1>5, <1>6, <1>7, <1>8, <1>9
    DEF ToolStep, OnToolMeasure, OnToolAngle, OnToolElevation, OnToolDeletePointsFaces,
        OnToolVolume

LEMMA SceneStepKeepsCameras ==
  ASSUME Inv, ToolsHoldLiveCameras, SceneStep, ~SomeCamerasOpen
  PROVE  ToolsHoldLiveCameras'
  <1>1. ASSUME NEW m \in Meshes, OpenMesh(m)
        PROVE  ToolsHoldLiveCameras'
    <2>1. ASSUME NEW n \in meshVector
          PROVE  n \in meshVector' /\ cameras'[n] = cameras[n]
      BY <1>1 DEF OpenMesh, Inv, TypeOK
    <2>2. LiveCameras \subseteq LiveCameras'
      BY <2>1 DEF LiveCameras
    <2> QED
      BY <1>1, <2>2 DEF OpenMesh, tools, ToolsHoldLiveCameras
  <1>2. ASSUME NEW m, OnTreeChoice(m) \/ ShowMesh(m)
        PROVE  ToolsHoldLiveCameras'
    BY <1>2 DEF OnTreeChoice, ShowMesh, scene, tools, ToolsHoldLiveCameras, LiveCameras
  <1>3. CASE OnToolDelete
    <2>1. \A t \in Tools : toolCameras'[t] = {}
      BY <1>3 DEF OnToolDelete, SwitchTools, Inv, ToolsHoldLiveMeshes
    <2> QED
      BY <2>1 DEF ToolsHoldLiveCameras
  <1>4. CASE OnClose
    BY <1>4 DEF OnClose, ToolsHoldLiveCameras
  <1> QED
    BY <1>1, <1>2, <1>3, <1>4 DEF SceneStep, SomeCamerasOpen

LEMMA KeyStepKeepsCameras ==
  ASSUME Inv, ToolsHoldLiveCameras, KeyStep
  PROVE  ToolsHoldLiveCameras'
  <1>1. ASSUME NEW off, DisableOnly(off, {}, {}), UNCHANGED scene
        PROVE  ToolsHoldLiveCameras'
    BY <1>1, SwitchingKeepsCameras DEF DisableOnly
  <1>2. CASE KeyEscape
    BY <1>1, <1>2 DEF KeyEscape
  <1>3. ASSUME NEW unchecked, DeleteSelection(unchecked)
        PROVE  ToolsHoldLiveCameras'
    <2>1. LiveCameras' = LiveCameras
      BY <1>3 DEF DeleteSelection, LiveCameras, scene
    <2>2. ASSUME NEW t \in Tools
          PROVE  toolCameras'[t] \subseteq LiveCameras
      BY <1>3 DEF DeleteSelection, ToolsHoldLiveCameras, Inv, TypeOK
    <2> QED
      BY <2>1, <2>2 DEF ToolsHoldLiveCameras
  <1>4. CASE OnToolDelete
    <2>1. \A t \in Tools : toolCameras'[t] = {}
      BY <1>4 DEF OnToolDelete, SwitchTools, Inv, ToolsHoldLiveMeshes
    <2> QED
      BY <2>1 DEF ToolsHoldLiveCameras
  <1>5. CASE ToggleOff("Volume")
    BY <1>1, <1>5 DEF ToggleOff
  <1> QED
    BY <1>2, <1>3, <1>4, <1>5 DEF KeyStep, KeyDelete, KeyReturn

(* "Open cameras..." is harmless with the tools off.                       *)
LEMMA OpeningWithToolsOff ==
  ASSUME Inv, SomeCamerasOpen, enabled = {}
  PROVE  ToolsHoldLiveCameras'
  BY DEF SomeCamerasOpen, OpenCameras, tools, Inv, ToolsHoldLiveMeshes, ToolsHoldLiveCameras

(* A handler reads no deleted camera while the tools hold none.            *)
LEMMA LiveCamerasAreRead ==
  ASSUME Inv, ToolsHoldLiveCameras, status = "running", [Next]_vars
  PROVE  status' # "useAfterFree"
  <1>1. \A off \in SUBSET Tools : AfterDisabling(off) = {"running"}
    <2>1. ~RunsAway(enabled)
      BY DEF Inv, OneToolAtATime, RunsAway
    <2> QED
      BY <2>1, HeldCamerasLive DEF AfterDisabling, AfterReading
  <1>2. \A t \in Tools : AfterReading(toolCameras[t]) = {"running"}
    BY DEF ToolsHoldLiveCameras, AfterReading
  <1>3. enabled \in SUBSET Tools /\ \A t : Others(t) \in SUBSET Tools
    BY DEF Inv, TypeOK, Others, SwitchedOff
  <1>4. \A off \in SUBSET Tools : \A shown, unchecked :
          DisableOnly(off, shown, unchecked) => status' = "running"
    BY <1>1 DEF DisableOnly
  <1>5. \A t, shown : ToggleOff(t) \/ Refuse(t, shown) => status' = "running"
    BY <1>3, <1>4 DEF ToggleOff, Refuse
  <1>6. \A t, m : EnableOnMesh(t, m) => status' = "running"
    BY <1>1, <1>3 DEF EnableOnMesh
  <1>7. ToolStep => status' # "useAfterFree"
    <2>1. OnToolCheckCamVisibility => status' = "running"
      BY <1>5 DEF OnToolCheckCamVisibility, AfterReading
    <2>2. OnMenuUpdateCamera => status' = "running"
      BY <1>1, <1>3, <1>4, <1>5 DEF OnMenuUpdateCamera
    <2>3. OnMenuAlignTool => status' = "running"
      BY <1>1, <1>3, <1>4, <1>5 DEF OnMenuAlignTool
    <2>4. \A m : OnMenuTransform(m) => status' \in {"running", "nullPointer"}
      BY <1>1, <1>3 DEF OnMenuTransform
    <2>5. CheckVisibility \/ MoveCamera => status' = "running"
      BY <1>2 DEF CheckVisibility, MoveCamera, Tools
    <2> QED
      BY <1>5, <1>6, <2>1, <2>2, <2>3, <2>4, <2>5
      DEF ToolStep, OnToolMeasure, OnToolAngle, OnToolElevation,
          OnToolDeletePointsFaces, OnToolVolume
  <1>8. SceneStep => status' # "useAfterFree"
    <2>1. OnToolDelete => status' = "running"
      BY <1>1, <1>3 DEF OnToolDelete
    <2>2. OnClose => status' = "closed"
      BY <1>1, <1>3 DEF OnClose
    <2> QED
      BY <2>1, <2>2 DEF SceneStep, OpenMesh, OpenCameras, OnTreeChoice, ShowMesh
  <1>9. KeyStep => status' # "useAfterFree"
    BY <1>1, <1>3, <1>4, <1>5
    DEF KeyStep, KeyEscape, KeyDelete, KeyReturn, DeleteSelection, OnToolDelete
  <1> QED
    BY <1>7, <1>8, <1>9 DEF Next, vars

(* No handler but "Open cameras..." and the drop of a camera file leaves a *)
(* tool with a camera that has been deleted.                               *)
OnlyOpeningLosesCameras ==
  [][ToolsHoldLiveCameras /\ ~SomeCamerasOpen => ToolsHoldLiveCameras']_vars

(* Deleting meshes and cameras from the tree, closing, and switching tools *)
(* on and off leave no tool with a deleted camera.                         *)
THEOREM OnlyOpeningLosesThem == Spec => OnlyOpeningLosesCameras
  <1>1. Inv /\ [Next]_vars =>
          [ToolsHoldLiveCameras /\ ~SomeCamerasOpen => ToolsHoldLiveCameras']_vars
    BY ToolStepKeepsCameras, SceneStepKeepsCameras, KeyStepKeepsCameras DEF Next
  <1> QED
    BY <1>1, FrameInvariant, PTL DEF Spec, OnlyOpeningLosesCameras

(* If cameras were opened only with the tools off, as meshes and cameras   *)
(* are deleted only after disableTools(), no handler would read a deleted  *)
(* camera: opening them is the one cause of the use after free that        *)
(* EscapeDisablesTools meets.                                              *)
THEOREM CamerasOpenedWithToolsOff ==
  Spec /\ [][SomeCamerasOpen => enabled = {}]_vars => [](status # "useAfterFree")
  <1> DEFINE Alive == status # "useAfterFree" /\ ToolsHoldLiveCameras
  <1>1. Init => Alive
    BY DEF Init, ToolsHoldLiveCameras
  <1>2. ASSUME Inv, Alive, [Next]_vars, [SomeCamerasOpen => enabled = {}]_vars
        PROVE  Alive'
    <2>1. CASE UNCHANGED vars
      BY <1>2, <2>1 DEF vars, scene, tools, ToolsHoldLiveCameras, LiveCameras
    <2>2. CASE Next /\ ~(UNCHANGED vars)
      <3>1. status = "running"
        BY <2>2 DEF Next
      <3>2. status' # "useAfterFree"
        BY <1>2, <3>1, LiveCamerasAreRead
      <3>3. SomeCamerasOpen => enabled = {}
        BY <1>2, <2>2
      <3>4. ToolsHoldLiveCameras'
        BY <1>2, <2>2, <3>3, OpeningWithToolsOff, ToolStepKeepsCameras,
           SceneStepKeepsCameras, KeyStepKeepsCameras DEF Next
      <3> QED
        BY <3>2, <3>4
    <2> QED
      BY <1>2, <2>1, <2>2
  <1> QED
    BY <1>1, <1>2, FrameInvariant, PTL DEF Spec

=============================================================================
