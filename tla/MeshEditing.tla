----------------------------- MODULE MeshEditing -----------------------------
(***************************************************************************)
(* What changes the elements (faces or points) and the place of a mesh,    *)
(* and who keeps a copy of them meanwhile: the caches of Mesh, the copy    *)
(* and the selection of DeleteTool, the points of AlignTool, the locator   *)
(* of CheckCamTool, and the handlers of FrmPrincipal that transform,       *)
(* register, simplify or replace a mesh.                                   *)
(*                                                                         *)
(* The line a tool draws is here its number of vertices, 0 while it is     *)
(* open: LineWidget shows that a closed one has three at least.  A mesh    *)
(* has one actor, whose matrix is the identity outside VR.  Deleting a     *)
(* mesh is FrmPrincipal's.                                                 *)
(***************************************************************************)
EXTENDS Integers, FiniteSets

CONSTANTS
  Meshes,
  Clouds,          \* the meshes that are point clouds
  Source, Target,  \* getMeshsFromTree's pair, in the order of its set
  Elements,        \* faces, or points of a cloud
  NULL,
  MaxVertices,     \* bound of the model: vertices of the line of AlignTool
  MaxChanges       \* bound of the model: changes of shape

ASSUME MeshAssumption ==
  /\ Clouds \subseteq Meshes
  /\ Source \in Meshes /\ Target \in Meshes /\ Source # Target
  /\ IsFiniteSet(Elements)
  /\ MaxVertices \in Nat /\ MaxChanges \in Nat

(* The polydata of an actor.  "shape" stands for the coordinates, "joined" *)
(* says that all the points of a cloud are one cell, as they are loaded.   *)
PolyData == [elements : SUBSET Elements, shape : 0 .. MaxChanges, joined : BOOLEAN]

ASSUME NullAssumption ==
  /\ NULL \notin Meshes /\ NULL \notin PolyData
  /\ NULL \notin [number : Nat, on : PolyData]
  /\ NULL \notin [list : SUBSET Elements, inverse : BOOLEAN]

VARIABLES
  actor,           \* of each mesh, the polydata of its actor's mapper
  polyData,        \* Mesh::polyData, or NULL
  meshCellLocator, \* the polydata Mesh::meshCellLocator was built on, or NULL
  shapes,          \* shapes given so far
  tool,            \* "None", "Delete" or "Align"
  toolMesh,        \* DeleteTool::mesh
  copy,            \* DeleteTool::polyDatas
  selection,       \* DeleteTool::selections: its list and INVERSE, or NULL
  line,            \* vertices of AlignTool's closed loop, 0 for an open line
  lineMesh,        \* the mesh AlignTool's line widget is on, NULL for none
  lineLocator,     \* the polydata of that widget's locator
  pointsSource,    \* how many, and the polydata they were picked on, or NULL
  pointsTarget,
  camMesh,         \* CheckCamTool::mesh, NULL with the tool off
  camLocator,      \* the polydata of CheckCamTool's locator
  bypassed         \* history: <<holder, mesh>>, the mesh was changed by a
                   \* handler that did not ask the tool holding its data

caches == <<polyData, meshCellLocator>>
deleteTool == <<toolMesh, copy, selection>>
alignTool == <<line, lineMesh, lineLocator, pointsSource, pointsTarget>>
checkCamTool == <<camMesh, camLocator>>
vars == <<actor, caches, shapes, tool, deleteTool, alignTool, checkCamTool, bypassed>>

(* Fault: the selection outlives the tool.                                 *)
NoDeleteButSelection == toolMesh' = NULL /\ copy' = NULL /\ UNCHANGED selection

(* What SetEnabled(false) of the tools clears.                             *)
NoLine == line' = 0 /\ lineMesh' = NULL /\ lineLocator' = NULL
NoDelete == toolMesh' = NULL /\ copy' = NULL /\ selection' = NULL
NoAlign == NoLine /\ pointsSource' = NULL /\ pointsTarget' = NULL
NoCheckCam == camMesh' = NULL /\ camLocator' = NULL

Init ==
  /\ actor = [m \in Meshes |-> [elements |-> Elements, shape |-> 0, joined |-> m \in Clouds]]
  /\ polyData = actor                     \* read by the constructor
  /\ meshCellLocator = [m \in Meshes |-> NULL]
  /\ shapes = 0
  /\ tool = "None" /\ toolMesh = NULL /\ copy = NULL /\ selection = NULL
  /\ line = 0 /\ lineMesh = NULL /\ lineLocator = NULL
  /\ pointsSource = NULL /\ pointsTarget = NULL
  /\ camMesh = NULL /\ camLocator = NULL
  /\ bypassed = {}

-----------------------------------------------------------------------------
(* Mesh                                                                    *)

PolyDataOf(m) == IF polyData[m] # NULL THEN polyData[m] ELSE actor[m]
LocatorOf(m) == IF meshCellLocator[m] # NULL THEN meshCellLocator[m] ELSE PolyDataOf(m)

getPolyData(m) ==
  /\ polyData' = [polyData EXCEPT ![m] = PolyDataOf(m)]
  /\ UNCHANGED meshCellLocator

(* The polydata is asked for only if the locator has to be built.          *)
getCellLocator(m) ==
  /\ meshCellLocator' = [meshCellLocator EXCEPT ![m] = LocatorOf(m)]
  /\ polyData' = IF meshCellLocator[m] # NULL THEN polyData
                 ELSE [polyData EXCEPT ![m] = PolyDataOf(m)]

(* The cached polydata after the handler has asked for that of the meshes  *)
(* in "asked" too.                                                         *)
Read(cached, asked) ==
  [m \in Meshes |-> IF m \in asked /\ cached[m] = NULL THEN actor'[m] ELSE cached[m]]

(* Fault: the locator outlives the cells.                                  *)
ReplaceKeepingLocator(m, new, asked) ==
  /\ actor' = [actor EXCEPT ![m] = new]
  /\ polyData' = Read([polyData EXCEPT ![m] = NULL], asked)
  /\ UNCHANGED meshCellLocator

(* transform, updateCells, updateActors: the mapper has a new input and    *)
(* the caches go.                                                          *)
Replace(m, new, asked) ==
  /\ actor' = [actor EXCEPT ![m] = new]
  /\ polyData' = Read([polyData EXCEPT ![m] = NULL], asked)
  /\ meshCellLocator' = [meshCellLocator EXCEPT ![m] = NULL]

Reshape(m, asked) ==
  /\ shapes < MaxChanges
  /\ shapes' = shapes + 1
  /\ Replace(m, [actor[m] EXCEPT !.shape = shapes'], asked)

(* Who holds data of a mesh: one tool at a time, and CheckCam beside it.   *)
HoldsData(holder, m) ==
  IF holder = "CheckCam" THEN camMesh = m
  ELSE \/ tool = "Delete" /\ toolMesh = m
       \/ tool = "Align" /\ m \in {Source, Target}

Holders(m) == {h \in {"Tool", "CheckCam"} : HoldsData(h, m)}

Bypass(holders, m) == bypassed \cup (holders \X {m})

Beside(m) == bypassed' = Bypass(Holders(m), m)

ForgetOf(holder, b) == {x \in b : x[1] # holder}

-----------------------------------------------------------------------------
(* FrmPrincipal                                                            *)

disableTools ==
  /\ tool' = "None"
  /\ NoDelete /\ NoAlign /\ NoCheckCam
  /\ bypassed' = {}

(* OnTreeItemActivated, exports, filters that only read, ICP given up.     *)
ReadMesh(m) ==
  /\ getPolyData(m)
  /\ UNCHANGED <<actor, shapes, tool, deleteTool, alignTool, checkCamTool, bypassed>>

KeyEscape ==
  /\ disableTools
  /\ UNCHANGED <<actor, caches, shapes>>

(* The handlers of the tools switch the others off, CheckCam included, and *)
(* their own if it is on.                                                  *)
OnToolDeletePointsFaces(m) ==
  /\ IF tool = "Delete"
     THEN disableTools
     ELSE /\ tool' = "Delete"
          /\ toolMesh' = m
          /\ copy' = actor[m]
          /\ selection' = NULL
          /\ NoAlign /\ NoCheckCam
          /\ bypassed' = {}
  /\ UNCHANGED <<actor, caches, shapes>>

(* setLineWidgetMesh: a new line widget, with the locator of its mesh.     *)
setLineWidgetMesh(m) ==
  /\ line' = 0
  /\ lineMesh' = m
  /\ lineLocator' = LocatorOf(m)
  /\ getCellLocator(m)

OnMenuAlignTool ==
  /\ IF tool = "Align"
     THEN disableTools /\ UNCHANGED caches
     ELSE /\ tool' = "Align"
          /\ NoDelete /\ NoCheckCam
          /\ setLineWidgetMesh(Source)
          /\ pointsSource' = NULL /\ pointsTarget' = NULL
          /\ bypassed' = {}
  /\ UNCHANGED <<actor, shapes>>

(* The only handler that leaves the other tools on.                        *)
OnToolCheckCamVisibility(m) ==
  /\ IF camMesh = NULL
     THEN camMesh' = m /\ camLocator' = LocatorOf(m) /\ getCellLocator(m)
     ELSE NoCheckCam /\ UNCHANGED caches
  /\ bypassed' = ForgetOf("CheckCam", bypassed)
  /\ UNCHANGED <<actor, shapes, tool, deleteTool, alignTool>>

(* Fault: the tools stay on.                                               *)
OnMenuTransformBesideTools(m) ==
  /\ Reshape(m, {m})
  /\ UNCHANGED <<tool, deleteTool, alignTool, checkCamTool, bypassed>>

(* The camera is reset to the bounds of the new polydata.  A transform     *)
(* given up leaves the tools disabled, as KeyEscape does.                  *)
OnMenuTransform(m) ==
  /\ disableTools
  /\ Reshape(m, {m})

(* The handlers that follow do not look at the tools.  ICP has read both   *)
(* meshes.                                                                 *)
OnMenuICP ==
  /\ Reshape(Source, {Target})
  /\ Beside(Source)
  /\ UNCHANGED <<tool, deleteTool, alignTool, checkCamTool>>

(* Faces with vertex 0 are dropped before, others by the simplification.   *)
OnMenuFastQuadricSimplification(m) ==
  /\ m \notin Clouds
  /\ actor[m].elements # {}
  /\ shapes < MaxChanges
  /\ shapes' = shapes + 1
  /\ \E left \in SUBSET actor[m].elements :
       Replace(m, [elements |-> left, shape |-> shapes', joined |-> FALSE], {})
  /\ Beside(m)
  /\ UNCHANGED <<tool, deleteTool, alignTool, checkCamTool>>

(* OnToolVR, when the user keeps what VR has left.                         *)
updateActors(m) ==
  /\ Reshape(m, {})
  /\ Beside(m)
  /\ UNCHANGED <<tool, deleteTool, alignTool, checkCamTool>>

-----------------------------------------------------------------------------
(* DeleteTool                                                              *)

shown == IF selection.inverse THEN copy.elements \ selection.list ELSE selection.list

(* UpdateRepresentation when the loop closes over "inside": a selection    *)
(* drops the line widget.  A loop that is not convex, or that selects      *)
(* nothing, leaves the tool as it was, with its line widget reset.         *)
SelectInside(inside) ==
  /\ tool = "Delete"
  /\ selection = NULL
  /\ inside \subseteq copy.elements
  /\ selection' = [list |-> inside, inverse |-> FALSE]
  /\ UNCHANGED <<actor, caches, shapes, tool, toolMesh, copy, alignTool, checkCamTool, bypassed>>

KeyI ==
  /\ tool = "Delete"
  /\ selection # NULL
  /\ selection' = [selection EXCEPT !.inverse = ~selection.inverse]
  /\ UNCHANGED <<actor, caches, shapes, tool, toolMesh, copy, alignTool, checkCamTool, bypassed>>

NumberOfCells == IF copy.joined THEN 1 ELSE Cardinality(copy.elements)

(* The list has as many values as the copy has cells: "Delete all mesh".   *)
IsWholeMesh == NumberOfCells = Cardinality(selection.list)

(* Fault: the selection is extracted, not what it leaves.                  *)
RemainingUninverted == IF IsWholeMesh THEN {} ELSE shown

(* The inverse of the selection is extracted, or nothing.                  *)
Remaining == IF IsWholeMesh THEN {} ELSE copy.elements \ shown

(* CheckCam may be on beside this tool, and keeps its locator.             *)
enterKeyPressedDelete ==
  /\ tool = "Delete"
  /\ selection # NULL
  /\ Replace(toolMesh, [elements |-> Remaining, shape |-> copy.shape, joined |-> FALSE], {})
  /\ tool' = "None"
  /\ NoDelete
  /\ bypassed' = ForgetOf("Tool", Bypass(Holders(toolMesh), toolMesh))
  /\ UNCHANGED <<shapes, alignTool, checkCamTool>>

-----------------------------------------------------------------------------
(* AlignTool                                                               *)

(* The user draws; LineWidget.                                             *)
Draw(n) ==
  /\ tool = "Align"
  /\ lineMesh # NULL
  /\ line' = n
  /\ UNCHANGED <<actor, caches, shapes, tool, deleteTool, lineMesh, lineLocator,
                 pointsSource, pointsTarget, checkCamTool, bypassed>>

EnoughPoints == line >= 4

(* Fault: as many as have been asked for, or more.                         *)
AsManyPointsAtLeast == line >= pointsSource.number
AsManyPoints == line = pointsSource.number

picked == [number |-> line, on |-> lineLocator]

(* Enter over the closed loop on the source.                               *)
TakeSource ==
  /\ tool = "Align" /\ lineMesh # NULL /\ line # 0
  /\ pointsSource = NULL
  /\ EnoughPoints
  /\ pointsSource' = picked
  /\ setLineWidgetMesh(Target)
  /\ UNCHANGED <<actor, shapes, tool, deleteTool, pointsTarget, checkCamTool, bypassed>>

(* Enter over the closed loop on the target, with a wrong number.          *)
DrawTargetAgain ==
  /\ tool = "Align" /\ lineMesh # NULL /\ line # 0
  /\ pointsSource # NULL
  /\ ~AsManyPoints
  /\ setLineWidgetMesh(Target)
  /\ UNCHANGED <<actor, shapes, tool, deleteTool, pointsSource, pointsTarget, checkCamTool, bypassed>>

(* With the right one: the source moves, and the tool stays on without a   *)
(* line.                                                                   *)
TakeTarget ==
  /\ tool = "Align" /\ lineMesh # NULL /\ line # 0
  /\ pointsSource # NULL
  /\ AsManyPoints
  /\ pointsTarget' = picked
  /\ NoLine
  /\ Reshape(Source, {})
  /\ bypassed' = Bypass(Holders(Source) \ {"Tool"}, Source)
  /\ UNCHANGED <<tool, deleteTool, pointsSource, checkCamTool>>

-----------------------------------------------------------------------------
Next ==
  \/ KeyEscape \/ OnMenuAlignTool \/ OnMenuICP
  \/ KeyI \/ enterKeyPressedDelete
  \/ TakeSource \/ DrawTargetAgain \/ TakeTarget
  \/ \E n \in {0} \cup 3 .. MaxVertices : Draw(n)
  \/ \E inside \in SUBSET Elements \ {{}} : SelectInside(inside)
  \/ \E m \in Meshes :
       \/ ReadMesh(m) \/ updateActors(m) \/ OnMenuTransform(m)
       \/ OnMenuFastQuadricSimplification(m)
       \/ OnToolDeletePointsFaces(m) \/ OnToolCheckCamVisibility(m)

Spec == Init /\ [][Next]_vars

-----------------------------------------------------------------------------
(* Properties                                                              *)

(* Types, and that a tool which is off holds nothing: SetEnabled(true)     *)
(* clears nothing, so what is left behind would be found the next time.    *)
Picked == [number : 3 .. MaxVertices, on : PolyData]

TypeOK ==
  /\ actor \in [Meshes -> PolyData]
  /\ polyData \in [Meshes -> PolyData \cup {NULL}]
  /\ meshCellLocator \in [Meshes -> PolyData \cup {NULL}]
  /\ shapes \in 0 .. MaxChanges
  /\ tool \in {"None", "Delete", "Align"}
  /\ toolMesh \in Meshes \cup {NULL}
  /\ copy \in PolyData \cup {NULL}
  /\ selection \in [list : SUBSET Elements, inverse : BOOLEAN] \cup {NULL}
  /\ line \in {0} \cup 3 .. MaxVertices
  /\ lineMesh \in {Source, Target, NULL}
  /\ lineLocator \in PolyData \cup {NULL}
  /\ pointsSource \in Picked \cup {NULL}
  /\ pointsTarget \in Picked \cup {NULL}
  /\ camMesh \in Meshes \cup {NULL}
  /\ camLocator \in PolyData \cup {NULL}
  /\ bypassed \subseteq {"Tool", "CheckCam"} \X Meshes
  /\ (tool = "Delete") = (toolMesh # NULL) /\ (toolMesh = NULL) = (copy = NULL)
  /\ selection # NULL => tool = "Delete"
  /\ lineMesh # NULL \/ pointsSource # NULL => tool = "Align"
  /\ (lineMesh = NULL) = (lineLocator = NULL)
  /\ (camMesh = NULL) = (camLocator = NULL)

(* getPolyData and getCellLocator answer with the mesh as it is, whichever *)
(* of the handlers moved, cut or replaced it and whatever was asked before.*)
CachesAreCurrent ==
  \A m \in Meshes : /\ polyData[m] \in {NULL, actor[m]}
                    /\ meshCellLocator[m] \in {NULL, actor[m]}

(* What a tool keeps of a mesh is the mesh as it is, unless one of the     *)
(* three handlers that do not switch the tools off, or the tool beside     *)
(* CheckCam, has changed the mesh since: no other path leaves a selection  *)
(* on other cells, or points on another place, than those the user sees.   *)
HeldDataIsCurrent ==
  \A m \in Meshes :
    /\ <<"Tool", m>> \notin bypassed =>
         /\ tool = "Delete" /\ toolMesh = m => copy = actor[m]
         /\ lineMesh = m => lineLocator = actor[m]
         /\ m = Source /\ pointsSource # NULL /\ pointsTarget = NULL
              => pointsSource.on = actor[m]
    /\ <<"CheckCam", m>> \notin bypassed /\ camMesh = m => camLocator = actor[m]

(* The source is moved onto as many points of the target, once: there is   *)
(* no line to take points from afterwards.                                 *)
MatchesPairs ==
  pointsTarget # NULL =>
    /\ pointsSource # NULL /\ pointsTarget.number = pointsSource.number
    /\ pointsSource.number >= 4
    /\ lineMesh = NULL

(* The delete tool goes off with its mesh changed, and the mesh is one no  *)
(* bypassing handler has touched.                                          *)
Deletion ==
  /\ tool = "Delete" /\ tool' = "None"
  /\ actor' # actor /\ shapes' = shapes
  /\ <<"Tool", toolMesh>> \notin bypassed

(* The test for the whole mesh counts the list and not what is highlighted,*)
(* and the cells and not the points.                                       *)
CountedAsWhole ==
  \/ ~actor[toolMesh].joined /\ selection.inverse /\ selection.list = actor[toolMesh].elements
  \/ actor[toolMesh].joined /\ Cardinality(selection.list) = 1

(* Enter deletes all that is highlighted, leaves the other meshes and the  *)
(* place of this one alone, and deletes nothing else, where the two counts *)
(* of the test for the whole mesh mean the same; where they do not, see    *)
(* DeletesOnlyWhatIsShown.                                                 *)
DeletesWhatIsShown ==
  [][Deletion =>
       /\ \A m \in Meshes \ {toolMesh} : actor'[m] = actor[m]
       /\ actor'[toolMesh].shape = actor[toolMesh].shape
       /\ actor'[toolMesh].elements \subseteq actor[toolMesh].elements \ shown
       /\ ~CountedAsWhole =>
            actor'[toolMesh].elements = actor[toolMesh].elements \ shown]_vars

(* helpMart-0060.htm: "The selected points/faces will be highlighted in    *)
(* red" (63), "You can press "I" to invert the selection" (74), "The       *)
(* selected points/faces will be deleted" (93): what is not highlighted is *)
(* left.                                                                   *)
DeletesOnlyWhatIsShown ==
  [][Deletion => actor[toolMesh].elements \ shown \subseteq actor'[toolMesh].elements]_vars
=============================================================================
