---------------------------- MODULE FrmPrincipal ----------------------------
(***************************************************************************)
(* The main frame of SMART3D as the owner of the meshes, their cameras and *)
(* the tools: which tool is enabled and on what, what the menu, the tool   *)
(* bar and the mesh tree show of it, and how loading, deleting and         *)
(* replacing meshes and cameras reach the tools that point to them.        *)
(*                                                                         *)
(* What the user has selected on the tree is a parameter of the handlers:  *)
(* he may change it before any of them.  A tool's own work (its line, its  *)
(* plane, its picks) is left to the tool's module; here it is the choice a *)
(* handler makes from it.                                                  *)
(***************************************************************************)
EXTENDS MeasureTools, FiniteSets

CONSTANTS Meshes, Cameras     \* the addresses a Mesh and a Camera can have

VARIABLES
  status,        \* "running", "closed", or what the program died of
  meshVector,    \* the loaded meshes
  cameras,       \* of each mesh, the Camera objects it owns
  ticked,        \* the meshes whose box on the tree is ticked
  visible,       \* the meshes whose actors are visible
  enabled,       \* the tools with GetEnabled()
  checked,       \* the tools whose menu item is checked
  bitmapsOn,     \* the tools whose button shows its ON bitmap
  toolMeshes,    \* of each tool, the Mesh* it holds
  toolCameras    \* of each tool, the Camera* it holds

scene == <<meshVector, cameras>>
tree  == <<ticked, visible>>
tools == <<enabled, checked, bitmapsOn, toolMeshes, toolCameras>>
vars  == <<status, scene, tree, tools>>

(* "Update camera" and "Align meshs" have no button on the tool bar.       *)
ToolbarTools == Tools \ {"UpdateCamera", "Align"}

LiveCameras == UNION {cameras[m] : m \in meshVector}

-----------------------------------------------------------------------------
(* Switching tools.                                                        *)

(* Reading through a Camera* whose Camera was deleted: the build may go on *)
(* with what is left of it, or die.                                        *)
AfterReading(pointers) ==
  IF pointers \subseteq LiveCameras THEN {"running"}
                                    ELSE {"running", "useAfterFree"}

(* Disabling a tool reads the cameras it holds, to give them back their    *)
(* colour or opacity; disabling the others first may never end.            *)
AfterDisabling(off) ==
  IF RunsAway(enabled) THEN {"stackOverflow"}
  ELSE AfterReading(UNION {toolCameras[t] : t \in off})

(* The tools of "off" are disabled and those of "on" enabled, on these     *)
(* meshes and cameras; "menu" is the check marks the menu is left with.    *)
SwitchTools(off, on, meshesOn, camerasOn, menu) ==
  /\ enabled' = (enabled \ off) \cup on
  /\ checked' = menu
  /\ bitmapsOn' = (bitmapsOn \ off) \cup (on \cap ToolbarTools)
  /\ toolMeshes' = [t \in Tools |-> IF t \in on THEN meshesOn
                                    ELSE IF t \in off THEN {}
                                    ELSE toolMeshes[t]]
  /\ toolCameras' = [t \in Tools |-> IF t \in on THEN camerasOn
                                     ELSE IF t \in off THEN {}
                                     ELSE toolCameras[t]]

(* Fault: the elevation tool leaves its mesh visible.                      *)
ShowOnTreeAnyway(shown, off, hidden) ==
  /\ ticked' = ticked \cup shown
  /\ visible' = (visible \cup shown \cup
                 (IF "Elevation" \in off THEN toolMeshes["Elevation"] ELSE {}))
                \ hidden

(* What that does to the tree: getMeshFromTree ticks and shows the meshes  *)
(* it finds; the elevation tool hides its mesh (and shows the map instead),*)
(* and gives it back the visibility its tick says when it is disabled.     *)
ShowOnTree(shown, off, hidden) ==
  LET restored == IF "Elevation" \in off THEN toolMeshes["Elevation"] ELSE {}
  IN /\ ticked' = ticked \cup shown
     /\ visible' = ((visible \ restored) \cup (restored \cap ticked')
                    \cup shown) \ hidden

(* The tools of "off" are disabled; the menu items of "unchecked" too lose *)
(* their check mark.                                                       *)
DisableOnly(off, shown, unchecked) ==
  /\ status' \in AfterDisabling(off)
  /\ SwitchTools(off, {}, {}, {}, checked \ (off \cup unchecked))
  /\ ShowOnTree(shown, off, {})

(* getMeshFromTree finds nothing only when the user has to select a mesh:  *)
(* a single mesh is taken without asking.                                  *)
NoMeshFound == Cardinality(meshVector) # 1

-----------------------------------------------------------------------------
(* The handlers of the tools.                                              *)

Others(tool) == SwitchedOff(enabled, tool)

(* Fault: the handler forgets its menu item.                               *)
ToggleOffButMenu(tool) ==
  /\ tool \in enabled
  /\ LET off == IF tool \in Exclusive THEN enabled ELSE {tool}
     IN /\ status' \in AfterDisabling(off)
        /\ SwitchTools(off, {}, {}, {}, checked \ (off \ {tool}))
        /\ ShowOnTree({}, off, {})
  /\ UNCHANGED scene

(* The second call of a tool's handler.                                    *)
ToggleOff(tool) ==
  /\ tool \in enabled
  /\ DisableOnly(IF tool \in Exclusive THEN enabled ELSE {tool}, {}, {})
  /\ UNCHANGED scene

(* The handler finds no mesh (shown = {}), or one it cannot use.           *)
Refuse(tool, shown) ==
  /\ tool \notin enabled
  /\ shown = {} => NoMeshFound
  /\ DisableOnly(IF tool \in Exclusive THEN Others(tool) ELSE {}, shown, {tool})
  /\ UNCHANGED scene

(* The handlers of Distance, Angle, Elevation, Volume and Delete enable    *)
(* their tool on the mesh of the tree, once the others are off.            *)
EnableOnMesh(tool, m) ==
  /\ tool \notin enabled
  /\ status' \in AfterDisabling(Others(tool))
  /\ SwitchTools(Others(tool), {tool}, {m}, {},
                 (checked \ Others(tool)) \cup {tool})
  /\ ShowOnTree({m}, Others(tool), IF tool = "Elevation" THEN {m} ELSE {})
  /\ UNCHANGED scene

OnToolMeasure ==
  \/ ToggleOff("Distance")
  \/ Refuse("Distance", {})
  \/ \E m \in meshVector : EnableOnMesh("Distance", m)

(* Fault: the handler does not disable the other tools.                    *)
OnToolAngleBeside ==
  \/ ToggleOff("Angle")
  \/ /\ "Angle" \notin enabled
     /\ status' = "running"
     /\ \E m \in meshVector :
          /\ SwitchTools({}, {"Angle"}, {m}, {}, checked \cup {"Angle"})
          /\ ShowOnTree({m}, {}, {})
     /\ UNCHANGED scene

OnToolAngle ==
  \/ ToggleOff("Angle")
  \/ Refuse("Angle", {})
  \/ \E m \in meshVector : EnableOnMesh("Angle", m)

OnToolElevation ==
  \/ ToggleOff("Elevation")
  \/ Refuse("Elevation", {})
  \/ \E m \in meshVector : EnableOnMesh("Elevation", m)

OnToolDeletePointsFaces ==
  \/ ToggleOff("Delete")
  \/ Refuse("Delete", {})
  \/ \E m \in meshVector : EnableOnMesh("Delete", m)

(* A mesh that is not watertight is reconstructed first, which may fail.   *)
OnToolVolume ==
  \/ ToggleOff("Volume")
  \/ Refuse("Volume", {})
  \/ \E m \in meshVector : \/ Refuse("Volume", {m})
                           \/ EnableOnMesh("Volume", m)

(* This handler disables no other tool.  It wants a mesh with cameras that *)
(* are not 360 degree ones.                                                *)
OnToolCheckCamVisibility ==
  \/ ToggleOff("CheckCam")
  \/ Refuse("CheckCam", {})
  \/ \E m \in meshVector :
       \/ Refuse("CheckCam", {m})
       \/ /\ "CheckCam" \notin enabled
          /\ cameras[m] # {}
          /\ status' \in AfterReading({})
          /\ SwitchTools({}, {"CheckCam"}, {m}, {}, checked \cup {"CheckCam"})
          /\ ShowOnTree({m}, {}, {})
          /\ UNCHANGED scene

(* The camera selected on the tree, if the selection is one.               *)
OnMenuUpdateCamera ==
  \/ ToggleOff("UpdateCamera")
  \/ /\ "UpdateCamera" \notin enabled
     /\ DisableOnly(Others("UpdateCamera"), {}, {"UpdateCamera"})
     /\ UNCHANGED scene
  \/ /\ "UpdateCamera" \notin enabled
     /\ status' \in AfterDisabling(Others("UpdateCamera"))
     /\ \E c \in LiveCameras :
          SwitchTools(Others("UpdateCamera"), {"UpdateCamera"}, {}, {c},
                      (checked \ Others("UpdateCamera")) \cup {"UpdateCamera"})
     /\ ShowOnTree({}, Others("UpdateCamera"), {})
     /\ UNCHANGED scene

(* A click on a menu item that can be checked flips its mark, before the   *)
(* handler is called.  The other handlers then set the mark themselves.    *)
Flipped(tool) ==
  IF tool \in checked THEN checked \ {tool} ELSE checked \cup {tool}

(* Two meshes have to be selected.  The menu is the only way to this tool, *)
(* and its handler leaves the mark as the click has set it.                *)
OnMenuAlignTool ==
  \/ ToggleOff("Align")
  \/ /\ "Align" \notin enabled
     /\ \E ms \in SUBSET meshVector :
          /\ Cardinality(ms) < 2
          /\ DisableOnly(Others("Align"), ms, {"Align"})
     /\ UNCHANGED scene
  \/ /\ "Align" \notin enabled
     /\ \E ms \in SUBSET meshVector :
          /\ Cardinality(ms) = 2
          /\ status' \in AfterDisabling(Others("Align"))
          /\ SwitchTools(Others("Align"), {"Align"}, ms, {},
                         Flipped("Align") \ Others("Align"))
          /\ ShowOnTree(ms, Others("Align"), {})
     /\ UNCHANGED scene

(* "Align Z with tool" enables AlignWithAxisTool, whose SetEnabled calls   *)
(* its line widget without having created one; so it is never found        *)
(* enabled here.                                                           *)
OnMenuTransform(m) ==
  /\ \E s \in AfterDisabling(enabled) :
       status' \in {s, IF s = "running" THEN "nullPointer" ELSE s}
  /\ SwitchTools(enabled, {}, {}, {}, checked \ enabled)
  /\ ShowOnTree({m}, enabled, {})
  /\ UNCHANGED scene

(* CheckCamTool::checkVisibility, when its polygon closes.                 *)
CheckVisibility ==
  /\ "CheckCam" \in enabled
  /\ status' \in AfterReading(toolCameras["CheckCam"])
  /\ \E seen \in SUBSET UNION {cameras[m] : m \in toolMeshes["CheckCam"]} :
       toolCameras' = [toolCameras EXCEPT !["CheckCam"] = seen]
  /\ UNCHANGED <<scene, tree, enabled, checked, bitmapsOn, toolMeshes>>

(* UpdateCameraTool::OnKeyPressed moves its camera.                        *)
MoveCamera ==
  /\ "UpdateCamera" \in enabled
  /\ status' \in AfterReading(toolCameras["UpdateCamera"])
  /\ UNCHANGED <<scene, tree, tools>>

-----------------------------------------------------------------------------
(* Meshes and cameras come and go.                                         *)

(* Where the Camera objects of a mesh may be allocated.                    *)
FreeCameras(m) == Cameras \ UNION {cameras[n] : n \in meshVector \ {m}}

(* loadMesh: a textured mesh comes with its cameras.                       *)
OpenMesh(m) ==
  /\ m \notin meshVector
  /\ meshVector' = meshVector \cup {m}
  /\ \E cs \in SUBSET FreeCameras(m) : cameras' = [cameras EXCEPT ![m] = cs]
  /\ ticked' = ticked \cup {m}
  /\ visible' = visible \cup {m}
  /\ UNCHANGED <<status, tools>>

(* "Open cameras..." and the drop of a .sfm or .nvm file replace the       *)
(* cameras of a mesh, by none when the file cannot be loaded.  No tool is  *)
(* disabled.                                                               *)
OpenCameras(m) ==
  /\ \E cs \in SUBSET FreeCameras(m) : cameras' = [cameras EXCEPT ![m] = cs]
  /\ ShowOnTree({m}, {}, {})
  /\ UNCHANGED <<status, meshVector, tools>>

(* Fault: the handler spares a tool, as the call that OnTreeChoice has     *)
(* commented out would, disableMeasureTools(3).                            *)
OnToolDeleteBesideCheckCam ==
  \E ms \in SUBSET meshVector :
    /\ DisableOnly(enabled \ {"CheckCam"}, {}, {})
    /\ meshVector' = meshVector \ ms
    /\ cameras' = [m \in Meshes |-> IF m \in ms THEN {} ELSE cameras[m]]

(* Fault: a mesh leaves its tick behind.                                   *)
OnToolDeleteTickStays ==
  \E ms \in SUBSET meshVector :
    /\ DisableOnly(enabled, {}, {})
    /\ meshVector' = meshVector \ ms
    /\ cameras' = [m \in Meshes |-> IF m \in ms THEN {} ELSE cameras[m]]

(* The tool bar's "Delete", with these meshes and cameras selected on the  *)
(* tree (none, when the selection is a texture or a volume).               *)
OnToolDelete ==
  \E ms \in SUBSET meshVector, cs \in SUBSET LiveCameras :
    /\ status' \in AfterDisabling(enabled)
    /\ SwitchTools(enabled, {}, {}, {}, checked \ enabled)
    /\ meshVector' = meshVector \ ms
    /\ cameras' = [m \in Meshes |-> IF m \in ms THEN {} ELSE cameras[m] \ cs]
    /\ LET restored == IF "Elevation" \in enabled
                         THEN toolMeshes["Elevation"] ELSE {}
       IN visible' = ((visible \ restored) \cup (restored \cap ticked)) \ ms
    /\ ticked' = ticked \ ms

(* The user ticks or unticks a mesh: the control has flipped the box when  *)
(* OnTreeChoice is called.                                                 *)
OnTreeChoice(m) ==
  /\ ticked' = IF m \in ticked THEN ticked \ {m} ELSE ticked \cup {m}
  /\ visible' = IF m \in visible THEN visible \ {m} ELSE visible \cup {m}
  /\ UNCHANGED <<status, scene, tools>>

(* The other handlers that take a mesh from the tree, or are told one by a *)
(* double click on it, show it.                                            *)
ShowMesh(m) ==
  /\ ShowOnTree({m}, {}, {})
  /\ UNCHANGED <<status, scene, tools>>

OnClose ==
  /\ \E s \in AfterDisabling(enabled) :
       status' = IF s = "running" THEN "closed" ELSE s
  /\ meshVector' = {}
  /\ cameras' = [m \in Meshes |-> {}]
  /\ ticked' = {}
  /\ visible' = {}
  /\ enabled' = {}
  /\ checked' = checked \ enabled
  /\ bitmapsOn' = bitmapsOn \ enabled
  /\ toolMeshes' = [t \in Tools |-> {}]
  /\ toolCameras' = [t \in Tools |-> {}]

-----------------------------------------------------------------------------
(* Keys that act on tools directly.                                        *)

(* disableTools().                                                         *)
KeyEscape ==
  /\ DisableOnly(enabled, {}, {})
  /\ UNCHANGED scene

(* Fault: the button keeps its ON bitmap.                                  *)
DeleteSelectionButBitmap(unchecked) ==
  /\ "Delete" \in enabled
  /\ enabled' = enabled \ {"Delete"}
  /\ checked' = checked \ unchecked
  /\ toolMeshes' = [toolMeshes EXCEPT !["Delete"] = {}]
  /\ toolCameras' = [toolCameras EXCEPT !["Delete"] = {}]
  /\ UNCHANGED <<status, scene, tree, bitmapsOn>>

(* The delete tool deletes what is selected, if anything is, and disables  *)
(* itself; the frame then turns its button off.                            *)
DeleteSelection(unchecked) ==
  /\ "Delete" \in enabled
  /\ enabled' = enabled \ {"Delete"}
  /\ checked' = checked \ unchecked
  /\ bitmapsOn' = bitmapsOn \ {"Delete"}
  /\ toolMeshes' = [toolMeshes EXCEPT !["Delete"] = {}]
  /\ toolCameras' = [toolCameras EXCEPT !["Delete"] = {}]
  /\ UNCHANGED <<status, scene, tree>>

KeyDelete ==
  \/ DeleteSelection({})
  \/ /\ "Delete" \notin enabled
     /\ OnToolDelete

(* When the volume has been computed the tool is disabled by its handler.  *)
KeyReturn ==
  \/ DeleteSelection({"Delete"})
  \/ /\ "Delete" \notin enabled
     /\ ToggleOff("Volume")

-----------------------------------------------------------------------------

Init ==
  /\ status = "running"
  /\ meshVector = {}
  /\ cameras = [m \in Meshes |-> {}]
  /\ ticked = {}
  /\ visible = {}
  /\ enabled = {}
  /\ checked = {}
  /\ bitmapsOn = {}
  /\ toolMeshes = [t \in Tools |-> {}]
  /\ toolCameras = [t \in Tools |-> {}]

ToolStep ==
  \/ OnToolMeasure
  \/ OnToolAngle
  \/ OnToolElevation
  \/ OnToolDeletePointsFaces
  \/ OnToolVolume
  \/ OnToolCheckCamVisibility
  \/ OnMenuUpdateCamera
  \/ OnMenuAlignTool
  \/ \E m \in meshVector : OnMenuTransform(m)
  \/ CheckVisibility
  \/ MoveCamera

SceneStep ==
  \/ \E m \in Meshes : OpenMesh(m)
  \/ \E m \in meshVector : OpenCameras(m)
  \/ \E m \in meshVector : OnTreeChoice(m)
  \/ \E m \in meshVector : ShowMesh(m)
  \/ OnToolDelete
  \/ OnClose

KeyStep ==
  \/ KeyEscape
  \/ KeyDelete
  \/ KeyReturn

Next == /\ status = "running"
        /\ ToolStep \/ SceneStep \/ KeyStep

Spec == Init /\ [][Next]_vars

-----------------------------------------------------------------------------

Deaths == {"useAfterFree", "stackOverflow", "nullPointer"}

(* The type of the frame's state.                                          *)
TypeOK ==
  /\ status \in {"running", "closed"} \cup Deaths
  /\ meshVector \subseteq Meshes
  /\ cameras \in [Meshes -> SUBSET Cameras]
  /\ ticked \subseteq meshVector
  /\ visible \subseteq meshVector
  /\ enabled \subseteq Tools
  /\ checked \subseteq Tools
  /\ bitmapsOn \subseteq ToolbarTools
  /\ toolMeshes \in [Tools -> SUBSET Meshes]
  /\ toolCameras \in [Tools -> SUBSET Cameras]

(* No sequence of handlers leaves two tools enabled that switch each other *)
(* off; only "Check camera visibility" joins another tool.                 *)
OneToolAtATime ==
  \A t, u \in enabled \cap Exclusive : t = u

(* The handlers and disableMeasureTools, which call each other, always come*)
(* back (disableMeasureTools and OnTool...).                               *)
NeverRunsAway == status # "stackOverflow"

(* A tool holds only meshes that are loaded, and a disabled tool holds     *)
(* nothing: a Mesh that is deleted is not the mesh of any tool.            *)
ToolsHoldLiveMeshes ==
  \A t \in Tools :
    /\ toolMeshes[t] \subseteq meshVector
    /\ t \notin enabled => toolMeshes[t] = {} /\ toolCameras[t] = {}

(* The tool bar shows the ON bitmap of exactly the tools that are enabled, *)
(* whichever of the handlers, keys and other tools switched them.          *)
ToolbarShowsTools == bitmapsOn = enabled \cap ToolbarTools

(* The menu has a tick at every enabled tool, and at no other, except that *)
(* of the delete tool: the Delete key, unlike Enter, disables the tool and  *)
(* leaves the item checked.                                                *)
MenuShowsTools == enabled \subseteq checked /\ checked \ {"Delete"} \subseteq enabled

(* A mesh is visible exactly when its box on the tree is ticked, unless the*)
(* elevation tool is showing its map in its place: however the box was     *)
(* clicked meanwhile, the two agree again when the tool is gone.           *)
VisibleAsTicked ==
  \A m \in meshVector \ toolMeshes["Elevation"] : m \in visible <=> m \in ticked

(* A mesh leaves the scene only in a step that leaves no tool enabled.     *)
DeletionFindsToolsOff ==
  [][~(meshVector \subseteq meshVector') => enabled' = {}]_vars

-----------------------------------------------------------------------------
(* What the help says, and the code does not do.                           *)

(* helpMart-0050: "Press ESC. All the tools will be disabled."             *)
EscapeDisablesTools ==
  [][KeyEscape => enabled' = {} /\ status' = "running"]_vars
=============================================================================
