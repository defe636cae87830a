-------------------------- MODULE MeshEditingProofs --------------------------
(***************************************************************************)
(* The safety of the editing of meshes, proved for any meshes, elements,   *)
(* number of changes and length of the line.  The caches are current       *)
(* because Replace is the only way to a new mapper input; what the tools   *)
(* hold is current because every handler that replaces either switches the *)
(* tools off or is recorded in bypassed; and the points of the source were *)
(* taken before those of the target because the line moves from the one to *)
(* the other.                                                              *)
(***************************************************************************)
EXTENDS MeshEditing, FiniteSetTheorems, TLAPS

(* AlignTool's line is on the source until its points are taken, then on   *)
(* the target.                                                             *)
LineFollowsPoints ==
  /\ lineMesh # NULL => lineMesh = IF pointsSource = NULL THEN Source ELSE Target
  /\ pointsSource # NULL => pointsSource.number >= 4

(* A selection is of elements of the copy.                                 *)
SelectionOfCopy == selection # NULL => selection.list \subseteq copy.elements

Inv ==
  /\ TypeOK
  /\ CachesAreCurrent
  /\ LineFollowsPoints
  /\ HeldDataIsCurrent
  /\ MatchesPairs
  /\ SelectionOfCopy

USE DEF caches, deleteTool, alignTool, checkCamTool

LEMMA NullIsNothing ==
  /\ NULL \notin Meshes /\ NULL \notin PolyData /\ NULL \notin Picked
  /\ NULL \notin [list : SUBSET Elements, inverse : BOOLEAN]
  BY NullAssumption, MeshAssumption DEF Picked

LEMMA InitEstablishesInv == Init => Inv
  <1> SUFFICES ASSUME Init PROVE Inv
    OBVIOUS
  <1>1. actor \in [Meshes -> PolyData]
    BY MeshAssumption DEF Init, PolyData
  <1>2. TypeOK
    BY <1>1, MeshAssumption, NullIsNothing DEF Init, TypeOK
  <1> QED
    BY <1>1, <1>2, NullIsNothing
    DEF Init, Inv, CachesAreCurrent, LineFollowsPoints, HeldDataIsCurrent,
        MatchesPairs, SelectionOfCopy

-----------------------------------------------------------------------------
(* The operations of Mesh.                                                 *)

LEMMA ReadIsCurrent ==
  ASSUME TypeOK, CachesAreCurrent, NEW m \in Meshes
  PROVE  PolyDataOf(m) = actor[m] /\ LocatorOf(m) = actor[m] /\ actor[m] \in PolyData
  BY DEF TypeOK, CachesAreCurrent, PolyDataOf, LocatorOf

(* Asking for the polydata or for the locator leaves the caches right.     *)
LEMMA ReadKeepsCaches ==
  ASSUME TypeOK, CachesAreCurrent, NEW m \in Meshes,
         actor' = actor, getPolyData(m) \/ getCellLocator(m)
  PROVE  /\ CachesAreCurrent'
         /\ polyData' \in [Meshes -> PolyData \cup {NULL}]
         /\ meshCellLocator' \in [Meshes -> PolyData \cup {NULL}]
  BY ReadIsCurrent DEF TypeOK, CachesAreCurrent, getPolyData, getCellLocator

LEMMA ReplaceKeepsCaches ==
  ASSUME TypeOK, CachesAreCurrent, NEW m \in Meshes, NEW new \in PolyData,
         NEW asked \in SUBSET Meshes, Replace(m, new, asked)
  PROVE  /\ CachesAreCurrent'
         /\ actor' \in [Meshes -> PolyData]
         /\ polyData' \in [Meshes -> PolyData \cup {NULL}]
         /\ meshCellLocator' \in [Meshes -> PolyData \cup {NULL}]
         /\ actor'[m] = new
         /\ \A n \in Meshes \ {m} : actor'[n] = actor[n]
  BY DEF TypeOK, CachesAreCurrent, Replace, Read

LEMMA ReshapeKeepsCaches ==
  ASSUME TypeOK, CachesAreCurrent, NEW m \in Meshes, NEW asked \in SUBSET Meshes,
         Reshape(m, asked)
  PROVE  /\ CachesAreCurrent'
         /\ actor' \in [Meshes -> PolyData]
         /\ polyData' \in [Meshes -> PolyData \cup {NULL}]
         /\ meshCellLocator' \in [Meshes -> PolyData \cup {NULL}]
         /\ shapes' \in 0 .. MaxChanges
         /\ \A n \in Meshes \ {m} : actor'[n] = actor[n]
  <1>1. shapes' \in 0 .. MaxChanges
    BY MeshAssumption DEF TypeOK, Reshape
  <1>2. [actor[m] EXCEPT !.shape = shapes'] \in PolyData
    BY <1>1 DEF TypeOK, PolyData
  <1> QED
    BY <1>1, <1>2, ReplaceKeepsCaches DEF Reshape

LEMMA PickedIsTyped ==
  ASSUME TypeOK, line # 0, lineMesh # NULL
  PROVE  picked \in Picked /\ picked.number = line /\ picked.on = lineLocator
  BY MeshAssumption DEF TypeOK, picked, Picked

LEMMA BypassIsTyped ==
  ASSUME TypeOK, NEW m \in Meshes, NEW H \in SUBSET {"Tool", "CheckCam"}
  PROVE  /\ Bypass(H, m) \subseteq {"Tool", "CheckCam"} \X Meshes
         /\ \A h \in {"Tool", "CheckCam"}, n \in Meshes :
              <<h, n>> \in Bypass(H, m) <=> <<h, n>> \in bypassed \/ (h \in H /\ n = m)
         /\ Holders(m) \in SUBSET {"Tool", "CheckCam"}
         /\ \A h \in {"Tool", "CheckCam"} : h \in Holders(m) <=> HoldsData(h, m)
  BY DEF TypeOK, Bypass, Holders

LEMMA ForgetIsTyped ==
  ASSUME NEW holder, NEW b \in SUBSET ({"Tool", "CheckCam"} \X Meshes)
  PROVE  /\ ForgetOf(holder, b) \subseteq {"Tool", "CheckCam"} \X Meshes
         /\ \A h \in {"Tool", "CheckCam"}, n \in Meshes :
              <<h, n>> \in ForgetOf(holder, b) <=> <<h, n>> \in b /\ h # holder
  BY DEF ForgetOf

LEMMA RemainingIsTyped ==
  ASSUME TypeOK, tool = "Delete"
  PROVE  /\ toolMesh \in Meshes /\ copy \in PolyData
         /\ [elements |-> Remaining, shape |-> copy.shape, joined |-> FALSE] \in PolyData
  <1>1. toolMesh \in Meshes /\ copy \in PolyData
    BY DEF TypeOK
  <1>2. Remaining \in SUBSET Elements
    BY <1>1 DEF Remaining, PolyData
  <1> QED
    BY <1>1, <1>2 DEF PolyData

-----------------------------------------------------------------------------
(* The handlers that switch tools.                                         *)

LEMMA DisableKeepsInv ==
  ASSUME Inv, disableTools, shapes' \in 0 .. MaxChanges,
         actor' \in [Meshes -> PolyData],
         polyData' \in [Meshes -> PolyData \cup {NULL}],
         meshCellLocator' \in [Meshes -> PolyData \cup {NULL}],
         CachesAreCurrent'
  PROVE  Inv'
  <1>1. TypeOK'
    BY DEF Inv, TypeOK, disableTools, NoDelete, NoAlign, NoLine, NoCheckCam
  <1> QED
    BY <1>1, NullIsNothing
    DEF Inv, disableTools, NoDelete, NoAlign, NoLine, NoCheckCam, LineFollowsPoints,
        HeldDataIsCurrent, MatchesPairs, SelectionOfCopy

LEMMA ReadMeshKeepsInv == ASSUME Inv, NEW m \in Meshes, ReadMesh(m) PROVE Inv'
  <1>1. /\ CachesAreCurrent'
        /\ polyData' \in [Meshes -> PolyData \cup {NULL}]
        /\ meshCellLocator' \in [Meshes -> PolyData \cup {NULL}]
    BY ReadKeepsCaches DEF ReadMesh, Inv
  <1>2. TypeOK'
    BY <1>1 DEF Inv, TypeOK, ReadMesh
  <1> QED
    BY <1>1, <1>2
    DEF Inv, ReadMesh, LineFollowsPoints, HeldDataIsCurrent, MatchesPairs, SelectionOfCopy

LEMMA KeyEscapeKeepsInv == ASSUME Inv, KeyEscape PROVE Inv'
  <1>1. /\ CachesAreCurrent'
        /\ actor' = actor /\ polyData' = polyData /\ meshCellLocator' = meshCellLocator
    BY DEF KeyEscape, Inv, CachesAreCurrent
  <1> QED
    BY <1>1, DisableKeepsInv DEF KeyEscape, Inv, TypeOK

LEMMA DeleteToolKeepsInv ==
  ASSUME Inv, NEW m \in Meshes, OnToolDeletePointsFaces(m)
  PROVE  Inv'
  <1>1. CASE tool = "Delete"
    <2>1. KeyEscape
      BY <1>1 DEF OnToolDeletePointsFaces, KeyEscape
    <2> QED
      BY <2>1, KeyEscapeKeepsInv
  <1>2. CASE tool # "Delete"
    <2>1. /\ CachesAreCurrent'
          /\ actor' = actor /\ polyData' = polyData /\ meshCellLocator' = meshCellLocator
      BY DEF OnToolDeletePointsFaces, Inv, CachesAreCurrent
    <2>2. TypeOK'
      BY <1>2, <2>1, NullIsNothing
      DEF OnToolDeletePointsFaces, Inv, TypeOK, NoAlign, NoLine, NoCheckCam
    <2> QED
      BY <1>2, <2>1, <2>2, NullIsNothing
      DEF Inv, OnToolDeletePointsFaces, NoAlign, NoLine, NoCheckCam, LineFollowsPoints,
          HeldDataIsCurrent, MatchesPairs, SelectionOfCopy
  <1> QED
    BY <1>1, <1>2

LEMMA AlignToolKeepsInv == ASSUME Inv, OnMenuAlignTool PROVE Inv'
  <1>1. CASE tool = "Align"
    <2>1. KeyEscape
      BY <1>1 DEF OnMenuAlignTool, KeyEscape
    <2> QED
      BY <2>1, KeyEscapeKeepsInv
  <1>2. CASE tool # "Align"
    <2>1. getCellLocator(Source) /\ actor' = actor /\ LocatorOf(Source) = actor[Source]
      BY <1>2, ReadIsCurrent, MeshAssumption DEF OnMenuAlignTool, setLineWidgetMesh, Inv
    <2>2. /\ CachesAreCurrent'
          /\ polyData' \in [Meshes -> PolyData \cup {NULL}]
          /\ meshCellLocator' \in [Meshes -> PolyData \cup {NULL}]
      BY <2>1, ReadKeepsCaches, MeshAssumption DEF Inv
    <2>3. TypeOK'
      BY <1>2, <2>1, <2>2, NullIsNothing, MeshAssumption
      DEF OnMenuAlignTool, setLineWidgetMesh, Inv, TypeOK, NoDelete, NoCheckCam
    <2> QED
      BY <1>2, <2>1, <2>2, <2>3, NullIsNothing, MeshAssumption
      DEF Inv, OnMenuAlignTool, setLineWidgetMesh, NoDelete, NoCheckCam, LineFollowsPoints,
          HeldDataIsCurrent, MatchesPairs, SelectionOfCopy
  <1> QED
    BY <1>1, <1>2

LEMMA CheckCamKeepsInv ==
  ASSUME Inv, NEW m \in Meshes, OnToolCheckCamVisibility(m)
  PROVE  Inv'
  <1>1. actor' = actor /\ LocatorOf(m) = actor[m] /\ actor[m] \in PolyData
    BY ReadIsCurrent DEF OnToolCheckCamVisibility, Inv
  <1>2. /\ CachesAreCurrent'
        /\ polyData' \in [Meshes -> PolyData \cup {NULL}]
        /\ meshCellLocator' \in [Meshes -> PolyData \cup {NULL}]
    <2>1. CASE camMesh = NULL
      BY <2>1, <1>1, ReadKeepsCaches DEF OnToolCheckCamVisibility, Inv
    <2>2. CASE camMesh # NULL
      BY <2>2, <1>1 DEF OnToolCheckCamVisibility, Inv, CachesAreCurrent, TypeOK
    <2> QED
      BY <2>1, <2>2
  <1>3. /\ bypassed' \subseteq {"Tool", "CheckCam"} \X Meshes
        /\ \A n \in Meshes : <<"Tool", n>> \in bypassed' <=> <<"Tool", n>> \in bypassed
    BY ForgetIsTyped DEF OnToolCheckCamVisibility, Inv, TypeOK
  <1>4. \/ camMesh' = m /\ camLocator' = actor[m]
        \/ camMesh' = NULL /\ camLocator' = NULL
    BY <1>1 DEF OnToolCheckCamVisibility, NoCheckCam
  <1>5. TypeOK'
    BY <1>1, <1>2, <1>3, <1>4, NullIsNothing DEF OnToolCheckCamVisibility, Inv, TypeOK
  <1> QED
    BY <1>1, <1>2, <1>3, <1>4, <1>5, NullIsNothing
    DEF Inv, OnToolCheckCamVisibility, LineFollowsPoints, HeldDataIsCurrent, MatchesPairs,
        SelectionOfCopy

LEMMA TransformKeepsInv == ASSUME Inv, NEW m \in Meshes, OnMenuTransform(m) PROVE Inv'
  BY DisableKeepsInv, ReshapeKeepsCaches DEF OnMenuTransform, Inv

-----------------------------------------------------------------------------
(* The handlers that change a mesh beside the tools.                       *)

(* A mesh changed beside the tools is written down against each of them.   *)
LEMMA BesideKeepsInv ==
  ASSUME Inv, NEW m \in Meshes, Beside(m),
         UNCHANGED <<tool, deleteTool, alignTool, checkCamTool>>,
         CachesAreCurrent',
         actor' \in [Meshes -> PolyData],
         polyData' \in [Meshes -> PolyData \cup {NULL}],
         meshCellLocator' \in [Meshes -> PolyData \cup {NULL}],
         shapes' \in 0 .. MaxChanges,
         \A n \in Meshes \ {m} : actor'[n] = actor[n]
  PROVE  Inv'
  <1>1. /\ bypassed' \subseteq {"Tool", "CheckCam"} \X Meshes
        /\ \A h \in {"Tool", "CheckCam"}, n \in Meshes :
             <<h, n>> \in bypassed' <=> <<h, n>> \in bypassed \/ (HoldsData(h, m) /\ n = m)
    <2>1. /\ Holders(m) \in SUBSET {"Tool", "CheckCam"}
          /\ \A h \in {"Tool", "CheckCam"} : h \in Holders(m) <=> HoldsData(h, m)
      BY BypassIsTyped DEF Inv
    <2>2. /\ Bypass(Holders(m), m) \subseteq {"Tool", "CheckCam"} \X Meshes
          /\ \A h \in {"Tool", "CheckCam"}, n \in Meshes :
               <<h, n>> \in Bypass(Holders(m), m)
                 <=> <<h, n>> \in bypassed \/ (h \in Holders(m) /\ n = m)
      BY <2>1, BypassIsTyped DEF Inv
    <2> QED
      BY <2>1, <2>2 DEF Beside
  <1>2. TypeOK'
    BY <1>1 DEF Inv, TypeOK
  <1>3. HeldDataIsCurrent'
    <2> SUFFICES ASSUME NEW n \in Meshes
                 PROVE  /\ <<"Tool", n>> \notin bypassed' =>
                             /\ tool = "Delete" /\ toolMesh = n => copy = actor'[n]
                             /\ lineMesh = n => lineLocator = actor'[n]
                             /\ n = Source /\ pointsSource # NULL /\ pointsTarget = NULL
                                  => pointsSource.on = actor'[n]
                        /\ <<"CheckCam", n>> \notin bypassed' /\ camMesh = n
                             => camLocator = actor'[n]
      BY DEF HeldDataIsCurrent
    <2>1. CASE n # m
      BY <1>1, <2>1 DEF Inv, HeldDataIsCurrent
    <2>2. CASE n = m
      <3>1. <<"Tool", m>> \notin bypassed' => ~HoldsData("Tool", m)
        BY <1>1
      <3>2. <<"CheckCam", m>> \notin bypassed' => ~HoldsData("CheckCam", m)
        BY <1>1
      <3> QED
        BY <2>2, <3>1, <3>2, NullIsNothing DEF HoldsData, Inv, TypeOK
    <2> QED
      BY <2>1, <2>2
  <1> QED
    BY <1>2, <1>3 DEF Inv, LineFollowsPoints, MatchesPairs, SelectionOfCopy

LEMMA ICPKeepsInv == ASSUME Inv, OnMenuICP PROVE Inv'
  BY BesideKeepsInv, ReshapeKeepsCaches, MeshAssumption DEF OnMenuICP, Inv

LEMMA VRKeepsInv == ASSUME Inv, NEW m \in Meshes, updateActors(m) PROVE Inv'
  BY BesideKeepsInv, ReshapeKeepsCaches DEF updateActors, Inv

LEMMA SimplificationKeepsInv ==
  ASSUME Inv, NEW m \in Meshes, OnMenuFastQuadricSimplification(m)
  PROVE  Inv'
  <1>1. shapes' \in 0 .. MaxChanges
    BY MeshAssumption DEF OnMenuFastQuadricSimplification, Inv, TypeOK
  <1>2. PICK left \in SUBSET actor[m].elements :
          Replace(m, [elements |-> left, shape |-> shapes', joined |-> FALSE], {})
    BY DEF OnMenuFastQuadricSimplification
  <1>3. [elements |-> left, shape |-> shapes', joined |-> FALSE] \in PolyData
    BY <1>1 DEF Inv, TypeOK, PolyData
  <1> QED
    BY <1>1, <1>2, <1>3, ReplaceKeepsCaches, BesideKeepsInv
    DEF OnMenuFastQuadricSimplification, Inv

-----------------------------------------------------------------------------
(* DeleteTool.                                                             *)

LEMMA SelectKeepsInv ==
  ASSUME Inv, NEW inside \in SUBSET Elements, SelectInside(inside)
  PROVE  Inv'
  <1>1. TypeOK'
    BY DEF Inv, TypeOK, SelectInside
  <1> QED
    BY <1>1 DEF Inv, SelectInside, CachesAreCurrent, LineFollowsPoints,
               HeldDataIsCurrent, MatchesPairs, SelectionOfCopy

LEMMA KeyIKeepsInv == ASSUME Inv, KeyI PROVE Inv'
  <1>1. /\ selection' \in [list : SUBSET Elements, inverse : BOOLEAN]
        /\ selection'.list = selection.list
    BY DEF Inv, TypeOK, KeyI
  <1>2. TypeOK'
    BY <1>1 DEF Inv, TypeOK, KeyI
  <1> QED
    BY <1>1, <1>2 DEF Inv, KeyI, CachesAreCurrent, LineFollowsPoints,
                     HeldDataIsCurrent, MatchesPairs, SelectionOfCopy

LEMMA DeletionKeepsInv == ASSUME Inv, enterKeyPressedDelete PROVE Inv'
  <1>1. /\ toolMesh \in Meshes
        /\ [elements |-> Remaining, shape |-> copy.shape, joined |-> FALSE] \in PolyData
    BY RemainingIsTyped DEF Inv, enterKeyPressedDelete
  <1>2. /\ CachesAreCurrent'
        /\ actor' \in [Meshes -> PolyData]
        /\ polyData' \in [Meshes -> PolyData \cup {NULL}]
        /\ meshCellLocator' \in [Meshes -> PolyData \cup {NULL}]
        /\ \A n \in Meshes \ {toolMesh} : actor'[n] = actor[n]
    BY <1>1, ReplaceKeepsCaches DEF enterKeyPressedDelete, Inv
  <1>3. /\ bypassed' \subseteq {"Tool", "CheckCam"} \X Meshes
        /\ \A n \in Meshes :
             <<"CheckCam", n>> \in bypassed'
               <=> <<"CheckCam", n>> \in bypassed \/ (camMesh = toolMesh /\ n = toolMesh)
    <2>1. /\ Bypass(Holders(toolMesh), toolMesh) \subseteq {"Tool", "CheckCam"} \X Meshes
          /\ \A n \in Meshes :
               <<"CheckCam", n>> \in Bypass(Holders(toolMesh), toolMesh)
                 <=> <<"CheckCam", n>> \in bypassed \/ (camMesh = toolMesh /\ n = toolMesh)
      BY <1>1, BypassIsTyped DEF Inv, HoldsData
    <2> QED
      BY <2>1, ForgetIsTyped DEF enterKeyPressedDelete
  <1>4. TypeOK'
    BY <1>2, <1>3, NullIsNothing DEF Inv, TypeOK, enterKeyPressedDelete, NoDelete
  <1>5. lineMesh = NULL /\ pointsSource = NULL
    BY DEF Inv, TypeOK, enterKeyPressedDelete
  <1> QED
    BY <1>2, <1>3, <1>4, <1>5, NullIsNothing
    DEF Inv, enterKeyPressedDelete, NoDelete, LineFollowsPoints, HeldDataIsCurrent,
        MatchesPairs, SelectionOfCopy

-----------------------------------------------------------------------------
(* AlignTool.                                                              *)

LEMMA DrawKeepsInv ==
  ASSUME Inv, NEW n \in {0} \cup 3 .. MaxVertices, Draw(n)
  PROVE  Inv'
  <1>1. TypeOK'
    BY DEF Inv, TypeOK, Draw
  <1> QED
    BY <1>1 DEF Inv, Draw, CachesAreCurrent, LineFollowsPoints, HeldDataIsCurrent,
               MatchesPairs, SelectionOfCopy

(* The line goes to the target, with the locator of the target as it is.   *)
LEMMA LineToTarget ==
  ASSUME Inv, setLineWidgetMesh(Target), actor' = actor
  PROVE  /\ CachesAreCurrent'
         /\ polyData' \in [Meshes -> PolyData \cup {NULL}]
         /\ meshCellLocator' \in [Meshes -> PolyData \cup {NULL}]
         /\ line' = 0 /\ lineMesh' = Target
         /\ lineLocator' = actor[Target] /\ lineLocator' \in PolyData
  BY ReadKeepsCaches, ReadIsCurrent, MeshAssumption DEF setLineWidgetMesh, Inv

LEMMA TakeSourceKeepsInv == ASSUME Inv, TakeSource PROVE Inv'
  <1>1. /\ pointsSource' \in Picked
        /\ pointsSource'.number >= 4
        /\ pointsSource'.on = lineLocator
    BY PickedIsTyped DEF Inv, TakeSource, EnoughPoints
  <1>2. lineMesh = Source /\ pointsTarget = NULL
    BY DEF Inv, TakeSource, LineFollowsPoints, MatchesPairs
  <1>3. TypeOK'
    BY <1>1, LineToTarget, NullIsNothing, MeshAssumption DEF TakeSource, Inv, TypeOK
  <1> QED
    BY <1>1, <1>2, <1>3, LineToTarget, NullIsNothing, MeshAssumption
    DEF Inv, TakeSource, LineFollowsPoints, HeldDataIsCurrent, MatchesPairs,
        SelectionOfCopy

LEMMA DrawAgainKeepsInv == ASSUME Inv, DrawTargetAgain PROVE Inv'
  <1>1. TypeOK'
    BY LineToTarget, NullIsNothing, MeshAssumption DEF DrawTargetAgain, Inv, TypeOK
  <1> QED
    BY <1>1, LineToTarget, NullIsNothing, MeshAssumption
    DEF Inv, DrawTargetAgain, LineFollowsPoints, HeldDataIsCurrent, MatchesPairs,
        SelectionOfCopy

LEMMA TakeTargetKeepsInv == ASSUME Inv, TakeTarget PROVE Inv'
  <1>1. pointsTarget' \in Picked /\ pointsTarget'.number = pointsSource.number
    BY PickedIsTyped DEF Inv, TakeTarget, AsManyPoints
  <1>2. /\ CachesAreCurrent'
        /\ actor' \in [Meshes -> PolyData]
        /\ polyData' \in [Meshes -> PolyData \cup {NULL}]
        /\ meshCellLocator' \in [Meshes -> PolyData \cup {NULL}]
        /\ shapes' \in 0 .. MaxChanges
        /\ \A n \in Meshes \ {Source} : actor'[n] = actor[n]
    BY ReshapeKeepsCaches, MeshAssumption DEF TakeTarget, Inv
  <1>3. /\ bypassed' \subseteq {"Tool", "CheckCam"} \X Meshes
        /\ \A n \in Meshes :
             <<"CheckCam", n>> \in bypassed'
               <=> <<"CheckCam", n>> \in bypassed \/ (camMesh = Source /\ n = Source)
    <2>1. Holders(Source) \ {"Tool"} \in SUBSET {"Tool", "CheckCam"}
      BY DEF Holders
    <2>2. "CheckCam" \in Holders(Source) \ {"Tool"} <=> camMesh = Source
      BY DEF Holders, HoldsData
    <2> QED
      BY <2>1, <2>2, BypassIsTyped, MeshAssumption DEF TakeTarget, Inv
  <1>4. TypeOK'
    BY <1>1, <1>2, <1>3, NullIsNothing DEF TakeTarget, NoLine, Inv, TypeOK
  <1> QED
    BY <1>1, <1>2, <1>3, <1>4, NullIsNothing
    DEF Inv, TakeTarget, NoLine, LineFollowsPoints, HeldDataIsCurrent, MatchesPairs,
        SelectionOfCopy

-----------------------------------------------------------------------------
LEMMA NextKeepsInv == Inv /\ [Next]_vars => Inv'
  <1> SUFFICES ASSUME Inv, [Next]_vars PROVE Inv'
    OBVIOUS
  <1>1. CASE UNCHANGED vars
    BY <1>1 DEF vars, Inv, TypeOK, CachesAreCurrent, LineFollowsPoints, HeldDataIsCurrent,
               MatchesPairs, SelectionOfCopy
  <1>2. CASE KeyEscape \/ OnMenuAlignTool \/ OnMenuICP
    BY <1>2, KeyEscapeKeepsInv, AlignToolKeepsInv, ICPKeepsInv
  <1>3. CASE KeyI \/ enterKeyPressedDelete
    BY <1>3, KeyIKeepsInv, DeletionKeepsInv
  <1>4. CASE TakeSource \/ DrawTargetAgain \/ TakeTarget
    BY <1>4, TakeSourceKeepsInv, DrawAgainKeepsInv, TakeTargetKeepsInv
  <1>5. ASSUME NEW n \in {0} \cup 3 .. MaxVertices, Draw(n) PROVE Inv'
    BY <1>5, DrawKeepsInv
  <1>6. ASSUME NEW inside \in SUBSET Elements \ {{}}, SelectInside(inside) PROVE Inv'
    BY <1>6, SelectKeepsInv
  <1>7. ASSUME NEW m \in Meshes, ReadMesh(m) \/ updateActors(m) \/ OnMenuTransform(m)
        PROVE  Inv'
    BY <1>7, ReadMeshKeepsInv, VRKeepsInv, TransformKeepsInv
  <1>8. ASSUME NEW m \in Meshes,
               \/ OnMenuFastQuadricSimplification(m)
               \/ OnToolDeletePointsFaces(m) \/ OnToolCheckCamVisibility(m)
        PROVE  Inv'
    BY <1>8, SimplificationKeepsInv, DeleteToolKeepsInv, CheckCamKeepsInv
  <1> QED
    BY <1>1, <1>2, <1>3, <1>4, <1>5, <1>6, <1>7, <1>8 DEF Next

(* The inductive invariant of the editing of meshes.                       *)
THEOREM EditingInvariant == Spec => []Inv
  BY InitEstablishesInv, NextKeepsInv, PTL DEF Spec

(* A tool that is off holds nothing, so none finds an old selection, line  *)
(* or set of points when it is switched on again.                          *)
THEOREM EditingTypeCorrect == Spec => []TypeOK
  BY EditingInvariant, PTL DEF Inv

(* Mesh::getPolyData and getCellLocator never answer with what the mesh    *)
(* was before a transformation, a cut or a simplification.                 *)
THEOREM CachesTellTheMesh == Spec => []CachesAreCurrent
  BY EditingInvariant, PTL DEF Inv

(* Between the switching on of a tool and its use, only the handlers named *)
(* in the model and the tool beside CheckCam change the mesh it looks at.  *)
THEOREM ToolsHoldTheMesh == Spec => []HeldDataIsCurrent
  BY EditingInvariant, PTL DEF Inv

(* Alignment has four pairs of points at least, and no point without its   *)
(* fellow.                                                                 *)
THEOREM AlignmentMatchesPairs == Spec => []MatchesPairs
  BY EditingInvariant, PTL DEF Inv

-----------------------------------------------------------------------------
(* What Enter deletes.                                                     *)

(* The test that counts cells and values finds the list full exactly when  *)
(* it is: the list is part of the copy, which is finite.                   *)
LEMMA WholeMeshIsFullList ==
  ASSUME Inv, selection # NULL
  PROVE  /\ tool = "Delete" /\ copy \in PolyData
         /\ IsWholeMesh <=> \/ ~copy.joined /\ selection.list = copy.elements
                            \/ copy.joined /\ Cardinality(selection.list) = 1
  <1>1. tool = "Delete" /\ copy \in PolyData /\ selection.list \subseteq copy.elements
    BY NullIsNothing DEF Inv, TypeOK, SelectionOfCopy
  <1>2. copy.elements \subseteq Elements
    BY <1>1 DEF PolyData
  <1>3. IsFiniteSet(copy.elements)
    BY <1>2, MeshAssumption, FS_Subset
  <1>4. CASE copy.joined
    BY <1>1, <1>4 DEF IsWholeMesh, NumberOfCells
  <1>5. CASE ~copy.joined
    <2>1. selection.list # copy.elements
            => Cardinality(selection.list) # Cardinality(copy.elements)
      BY <1>1, <1>3, FS_Subset
    <2> QED
      BY <1>1, <1>5, <2>1 DEF IsWholeMesh, NumberOfCells
  <1> QED
    BY <1>1, <1>4, <1>5

DeletionShown ==
  Deletion =>
    /\ \A m \in Meshes \ {toolMesh} : actor'[m] = actor[m]
    /\ actor'[toolMesh].shape = actor[toolMesh].shape
    /\ actor'[toolMesh].elements \subseteq actor[toolMesh].elements \ shown
    /\ ~CountedAsWhole => actor'[toolMesh].elements = actor[toolMesh].elements \ shown

LEMMA DeletionDeletesShown ==
  ASSUME Inv, enterKeyPressedDelete PROVE DeletionShown
  <1> SUFFICES ASSUME Deletion
               PROVE  /\ \A m \in Meshes \ {toolMesh} : actor'[m] = actor[m]
                      /\ actor'[toolMesh].shape = actor[toolMesh].shape
                      /\ actor'[toolMesh].elements \subseteq actor[toolMesh].elements \ shown
                      /\ ~CountedAsWhole =>
                           actor'[toolMesh].elements = actor[toolMesh].elements \ shown
    BY DEF DeletionShown
  <1>1. selection # NULL /\ tool = "Delete" /\ toolMesh \in Meshes
    BY RemainingIsTyped DEF enterKeyPressedDelete, Inv
  <1>2. copy = actor[toolMesh]
    BY <1>1 DEF Deletion, Inv, HeldDataIsCurrent
  <1>3. /\ actor'[toolMesh] = [elements |-> Remaining, shape |-> copy.shape, joined |-> FALSE]
        /\ \A m \in Meshes \ {toolMesh} : actor'[m] = actor[m]
    BY <1>1, RemainingIsTyped, ReplaceKeepsCaches DEF enterKeyPressedDelete, Inv
  <1>4. IsWholeMesh <=> \/ ~copy.joined /\ selection.list = copy.elements
                        \/ copy.joined /\ Cardinality(selection.list) = 1
    BY <1>1, WholeMeshIsFullList
  <1>5. ~selection.inverse /\ selection.list = copy.elements => copy.elements \ shown = {}
    BY DEF shown
  <1>6. Remaining \subseteq copy.elements \ shown
    BY DEF Remaining
  <1>7. ~CountedAsWhole => Remaining = copy.elements \ shown
    BY <1>2, <1>4, <1>5 DEF Remaining, CountedAsWhole
  <1> QED
    BY <1>2, <1>3, <1>6, <1>7

(* No other step ends the delete tool and leaves shapes but changes meshes.*)
LEMMA StepsDeleteShown == Inv /\ [Next]_vars => [DeletionShown]_vars
  <1> SUFFICES ASSUME Inv, Next PROVE DeletionShown
    OBVIOUS
  <1>1. CASE KeyEscape \/ OnMenuAlignTool \/ KeyI
    BY <1>1 DEF KeyEscape, OnMenuAlignTool, KeyI, DeletionShown, Deletion
  <1>2. CASE enterKeyPressedDelete
    BY <1>2, DeletionDeletesShown
  <1>3. CASE TakeSource \/ DrawTargetAgain \/ TakeTarget
    BY <1>3 DEF TakeSource, DrawTargetAgain, TakeTarget, DeletionShown, Deletion
  <1>4. ASSUME NEW m \in Meshes, NEW asked, Reshape(m, asked) PROVE shapes' # shapes
    BY <1>4 DEF Reshape, Inv, TypeOK
  <1>5. CASE OnMenuICP
    BY <1>4, <1>5, MeshAssumption DEF OnMenuICP, DeletionShown, Deletion
  <1>6. ASSUME NEW n \in {0} \cup 3 .. MaxVertices, Draw(n) PROVE DeletionShown
    BY <1>6 DEF Draw, DeletionShown, Deletion
  <1>7. ASSUME NEW inside \in SUBSET Elements \ {{}}, SelectInside(inside)
        PROVE  DeletionShown
    BY <1>7 DEF SelectInside, DeletionShown, Deletion
  <1>8. ASSUME NEW m \in Meshes, ReadMesh(m) \/ updateActors(m) \/ OnMenuTransform(m)
        PROVE  DeletionShown
    BY <1>4, <1>8 DEF ReadMesh, updateActors, OnMenuTransform, DeletionShown, Deletion
  <1>9. ASSUME NEW m \in Meshes,
               \/ OnMenuFastQuadricSimplification(m)
               \/ OnToolDeletePointsFaces(m) \/ OnToolCheckCamVisibility(m)
        PROVE  DeletionShown
    BY <1>9 DEF OnMenuFastQuadricSimplification, OnToolDeletePointsFaces,
                OnToolCheckCamVisibility, DeletionShown, Deletion
  <1> QED
    BY <1>1, <1>2, <1>3, <1>5, <1>6, <1>7, <1>8, <1>9 DEF Next

(* Enter deletes of the mesh the user sees all that is highlighted on it,  *)
(* and nothing else but in the two cases its test for the whole mesh takes *)
(* in.                                                                     *)
THEOREM EnterDeletesWhatIsShown == Spec => DeletesWhatIsShown
  <1>1. DeletesWhatIsShown <=> [][DeletionShown]_vars
    BY DEF DeletesWhatIsShown, DeletionShown
  <1> QED
    BY <1>1, EditingInvariant, StepsDeleteShown, PTL DEF Spec
=============================================================================
