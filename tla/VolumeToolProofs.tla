--------------------------- MODULE VolumeToolProofs ---------------------------
(***************************************************************************)
(* The volume tool and the volumes of the mesh, for any heights, any number*)
(* of volumes and of calibrations.  The polygon needs to know that there   *)
(* is no closed loop without a line widget; the numbers, that they are all *)
(* below the count, which no deletion takes back.  The line of the tool    *)
(* goes on implementing PolylineEditor, whatever the tool does with it.    *)
(***************************************************************************)
EXTENDS VolumeTool, LineWidgetProofs

USE DEF polygon, mesh

-----------------------------------------------------------------------------
(* The polygon.                                                            *)

LoopHasWidget == loopClosed => hasLineWidget

PolygonInv == PolygonIsLoop /\ LoopHasWidget

(* A polygon built now is of the line and the height as they now are.      *)
LEMMA UpdateBuildsPolygon ==
  ASSUME UpdateRepresentation PROVE PolygonIsLoop'
  BY DEF UpdateRepresentation, PolygonIsLoop

LEMMA LineEventKeepsPolygon ==
  ASSUME PolygonInv, LineEvent PROVE PolygonInv'
  <1>1. LoopHasWidget'
    BY DEF LineEvent, LoopHasWidget, hasLineWidget
  <1>2. CASE invoked' = "None"
    BY <1>1, <1>2, SilentEventsKeepFigure
    DEF LineEvent, figure, PolygonInv, PolygonIsLoop
  <1>3. CASE invoked' # "None"
    BY <1>1, <1>3, UpdateBuildsPolygon DEF LineEvent, PolygonInv
  <1> QED
    BY <1>2, <1>3

LEMMA OnKeyPressKeepsPolygon ==
  ASSUME PolygonInv, NEW h \in Heights, OnKeyPress(h) PROVE PolygonInv'
  <1>1. LoopHasWidget'
    BY DEF OnKeyPress, PolygonInv, LoopHasWidget, hasLineWidget, vars
  <1>2. CASE hasLineWidget
    BY <1>1, <1>2, UpdateBuildsPolygon DEF OnKeyPress, PolygonInv
  <1>3. CASE ~hasLineWidget
    BY <1>1, <1>3 DEF OnKeyPress, PolygonInv, PolygonIsLoop, LoopHasWidget, vars
  <1> QED
    BY <1>2, <1>3

(* What leaves the polygon and the line alone, and takes no line widget    *)
(* away.                                                                   *)
LEMMA IdleKeepsPolygon ==
  ASSUME PolygonInv, UNCHANGED <<vars, polygonHeight, pointsPolygon, polygonShown>>,
         hasLineWidget => planeWidget' = planeWidget
  PROVE  PolygonInv'
  BY DEF PolygonInv, PolygonIsLoop, LoopHasWidget, hasLineWidget, vars

LEMMA ToolNextKeepsPolygon == PolygonInv /\ [ToolNext]_toolVars => PolygonInv'
  <1> SUFFICES ASSUME PolygonInv, [ToolNext]_toolVars PROVE PolygonInv'
    OBVIOUS
  <1>1. CASE EnableTool \/ OnRightButton \/ FixPlane
    BY <1>1, IdleKeepsPolygon
    DEF EnableTool, OnRightButton, FixPlane, enabled, hasLineWidget
  <1>2. CASE DisableTool \/ computeVolume
    BY <1>2 DEF DisableTool, computeVolume, DropLineAndPolygon, reset,
                PolygonInv, PolygonIsLoop, LoopHasWidget
  <1>3. CASE setCalibration \/ destructVolumes \/ \E i \in DOMAIN volumes : deleteVolume(i)
    BY <1>3, IdleKeepsPolygon DEF setCalibration, destructVolumes, deleteVolume
  <1>4. CASE UNCHANGED toolVars
    BY <1>4, IdleKeepsPolygon DEF toolVars
  <1> QED
    BY <1>1, <1>2, <1>3, <1>4, LineEventKeepsPolygon, OnKeyPressKeepsPolygon DEF ToolNext

-----------------------------------------------------------------------------
(* The line under the polygon.                                             *)

LEMMA DropIsReset ==
  ASSUME IInv, DropLineAndPolygon PROVE IInv' /\ EditorStep
  BY ResetPreserves, ResetStep DEF DropLineAndPolygon

LEMMA ToolNextKeepsLine ==
  IInv /\ [ToolNext]_toolVars => IInv' /\ [Editor!Next]_Editor!vars
  <1> SUFFICES ASSUME IInv, [ToolNext]_toolVars PROVE IInv' /\ EditorStep
    BY DEF EditorStep
  <1>1. CASE [Next]_vars
    BY <1>1, NextPreserves, NextIsEditorStep DEF EditorStep
  <1>2. CASE DisableTool \/ computeVolume
    BY <1>2, DropIsReset DEF DisableTool, computeVolume
  <1>3. CASE LineEvent
    BY <1>1, <1>3 DEF LineEvent, Next
  <1>4. CASE UNCHANGED vars
    BY <1>1, <1>4
  <1> QED
    BY <1>2, <1>3, <1>4
    DEF ToolNext, EnableTool, OnRightButton, FixPlane, OnKeyPress, setCalibration,
        deleteVolume, destructVolumes, toolVars

(* The polygon that cuts, less the copy that closed its line, has at least *)
(* three points.                                                           *)
CutsWithPolygon == polygonShown => Len(pointsPolygon.points) >= 3

LEMMA LoopGivesPolygon == IInv /\ PolygonIsLoop => CutsWithPolygon
  <1> SUFFICES ASSUME IInv, PolygonIsLoop, polygonShown
               PROVE  Len(pointsPolygon.points) >= 3
    BY DEF CutsWithPolygon
  <1>1. loopClosed /\ pointsPolygon.points = Front(nodePoints)
    BY DEF PolygonIsLoop
  <1>2. /\ NumberOfNodes \in Nat /\ NumberOfNodes >= 4 /\ WidgetState # "Define"
    BY <1>1, SequenceFacts, ConstantFacts DEF IInv, ClosedLoopIsPolygon, CompleteWhenFinished
  <1>3. nodePoints \in Seq(Positions) /\ Len(nodePoints) = NumberOfNodes
    BY <1>2, SequenceFacts
  <1>4. Len(Front(nodePoints)) = NumberOfNodes - 1
    BY <1>2, <1>3, FrontProperties
  <1> QED
    BY <1>1, <1>2, <1>4

-----------------------------------------------------------------------------
(* The volumes.                                                            *)

VolumeRecords == [number : Nat, unit : Nat \cup {NoUnit}, scale : Nat]

NumbersBelowCount == \A i \in 1 .. Len(volumes) : volumes[i].number < qtdVolumes

VolumesInv ==
  /\ volumes \in Seq(VolumeRecords) /\ qtdVolumes \in Nat /\ calibration \in Nat
  /\ NumbersBelowCount
  /\ NumbersNameVolumes
  /\ VolumesTellUnit

LEMMA VolumesFacts ==
  ASSUME VolumesInv
  PROVE  /\ DOMAIN volumes = 1 .. Len(volumes) /\ Len(volumes) \in Nat
         /\ \A i \in 1 .. Len(volumes) :
              /\ volumes[i] \in VolumeRecords
              /\ volumes[i].number < qtdVolumes
              /\ volumes[i].unit \in {calibration, NoUnit}
         /\ \A i, j \in 1 .. Len(volumes) : volumes[i].number = volumes[j].number => i = j
  BY LenProperties, ElementOfSeq
  DEF VolumesInv, NumbersBelowCount, NumbersNameVolumes, VolumesTellUnit

(* The converse, of the volumes after a step.                              *)
LEMMA VolumesEstablish ==
  ASSUME volumes' \in Seq(VolumeRecords), qtdVolumes' \in Nat, calibration' \in Nat,
         \A i \in 1 .. Len(volumes') :
           /\ volumes'[i].number < qtdVolumes'
           /\ volumes'[i].unit \in {calibration', NoUnit},
         \A i, j \in 1 .. Len(volumes') : volumes'[i].number = volumes'[j].number => i = j
  PROVE  VolumesInv'
  <1>1. DOMAIN volumes' = 1 .. Len(volumes')
    BY LenProperties
  <1> QED
    BY <1>1 DEF VolumesInv, NumbersBelowCount, NumbersNameVolumes, VolumesTellUnit

LEMMA AddVolume ==
  ASSUME VolumesInv, NEW v \in VolumeRecords, v.number = qtdVolumes,
         v.unit \in {calibration, NoUnit},
         volumes' = Append(volumes, v), qtdVolumes' = qtdVolumes + 1,
         calibration' = calibration
  PROVE  VolumesInv'
  <1>1. /\ volumes' \in Seq(VolumeRecords)
        /\ Len(volumes') = Len(volumes) + 1
        /\ \A i \in 1 .. Len(volumes) : volumes'[i] = volumes[i]
        /\ volumes'[Len(volumes) + 1] = v
    BY AppendProperties DEF VolumesInv
  <1>2. \A i \in 1 .. Len(volumes') : i \in 1 .. Len(volumes) \/ i = Len(volumes) + 1
    BY <1>1, VolumesFacts
  <1>3. qtdVolumes \in Nat /\ calibration \in Nat
    BY DEF VolumesInv
  <1>4. \A i \in 1 .. Len(volumes) : volumes[i].number \in Nat
    BY VolumesFacts DEF VolumeRecords
  <1>5. \A i \in 1 .. Len(volumes') :
          /\ volumes'[i].number < qtdVolumes'
          /\ volumes'[i].unit \in {calibration', NoUnit}
    BY <1>1, <1>2, <1>3, <1>4, VolumesFacts
  <1>6. \A i, j \in 1 .. Len(volumes') : volumes'[i].number = volumes'[j].number => i = j
    BY <1>1, <1>2, <1>3, <1>4, VolumesFacts
  <1> QED
    BY <1>1, <1>3, <1>5, <1>6, VolumesEstablish

LEMMA CalibrateVolumes == ASSUME VolumesInv, setCalibration PROVE VolumesInv'
  <1> DEFINE c == calibration + 1
             n == Len(volumes)
             f == [i \in 1 .. n |-> updateCalibration(volumes[i], c)]
  <1>1. /\ c \in Nat /\ n \in Nat /\ qtdVolumes' = qtdVolumes /\ qtdVolumes \in Nat
        /\ calibration' = c /\ volumes' = f
    BY VolumesFacts DEF VolumesInv, setCalibration
  <1>2. ASSUME NEW i \in 1 .. n
        PROVE  /\ updateCalibration(volumes[i], c) \in VolumeRecords
               /\ updateCalibration(volumes[i], c).number = volumes[i].number
               /\ updateCalibration(volumes[i], c).unit \in {c, NoUnit}
    <2>1. volumes[i] \in VolumeRecords /\ c \in Nat
      BY <1>1, VolumesFacts
    <2> QED
      BY <2>1 DEF updateCalibration, VolumeRecords
  <1>3. /\ f \in Seq(VolumeRecords) /\ Len(f) = n
        /\ \A i \in 1 .. n : /\ f[i].number = volumes[i].number
                             /\ f[i].unit \in {c, NoUnit}
    <2>1. f \in [1 .. n -> VolumeRecords]
      BY <1>2
    <2>2. f \in Seq(VolumeRecords) /\ Len(f) = n
      BY <1>1, <2>1, IsASeq, LenProperties
    <2> QED
      BY <1>2, <2>2
  <1> HIDE DEF f, c
  <1> QED
    BY <1>1, <1>3, VolumesFacts, VolumesEstablish

LEMMA DeleteVolume ==
  ASSUME VolumesInv, NEW i \in DOMAIN volumes, deleteVolume(i) PROVE VolumesInv'
  <1>1. i \in 1 .. Len(volumes) /\ Len(volumes) \in Nat
    BY VolumesFacts
  <1>2. /\ volumes' \in Seq(VolumeRecords)
        /\ Len(volumes') = Len(volumes) - 1
        /\ \A k \in 1 .. Len(volumes) - 1 :
             volumes'[k] = IF k < i THEN volumes[k] ELSE volumes[k + 1]
    BY <1>1, RemoveAtProperties DEF deleteVolume, VolumesInv
  <1> DEFINE old(k) == IF k < i THEN k ELSE k + 1
  <1>3. /\ \A k \in 1 .. Len(volumes') :
             old(k) \in 1 .. Len(volumes) /\ volumes'[k] = volumes[old(k)]
        /\ \A k, l \in 1 .. Len(volumes') : old(k) = old(l) => k = l
    BY <1>1, <1>2
  <1>4. qtdVolumes' = qtdVolumes /\ calibration' = calibration
    BY DEF deleteVolume
  <1> HIDE DEF old
  <1> QED
    BY <1>2, <1>3, <1>4, VolumesFacts, VolumesEstablish DEF VolumesInv

LEMMA ToolNextKeepsVolumes == VolumesInv /\ [ToolNext]_toolVars => VolumesInv'
  <1> SUFFICES ASSUME VolumesInv, [ToolNext]_toolVars PROVE VolumesInv'
    OBVIOUS
  <1>1. CASE UNCHANGED mesh
    BY <1>1 DEF VolumesInv, NumbersBelowCount, NumbersNameVolumes, VolumesTellUnit
  <1>2. CASE computeVolume
    <2>1. CASE UNCHANGED <<volumes, qtdVolumes>>
      BY <1>1, <1>2, <2>1 DEF computeVolume
    <2>2. ASSUME NEW v \in {newVolume, [newVolume EXCEPT !.unit = NoUnit]},
                 volumes' = Append(volumes, v), qtdVolumes' = qtdVolumes + 1
          PROVE  VolumesInv'
      <3>1. /\ v \in VolumeRecords /\ v.number = qtdVolumes
            /\ v.unit \in {calibration, NoUnit}
        BY <2>2 DEF newVolume, number, VolumeRecords, VolumesInv
      <3> QED
        BY <1>2, <2>2, <3>1, AddVolume DEF computeVolume
    <2> QED
      BY <1>2, <2>1, <2>2 DEF computeVolume
  <1>3. CASE destructVolumes
    <2>1. volumes' = <<>> /\ volumes' \in Seq(VolumeRecords) /\ Len(volumes') = 0
      BY <1>3, EmptySeq DEF destructVolumes
    <2> QED
      BY <1>3, <2>1, VolumesEstablish DEF destructVolumes, VolumesInv
  <1> QED
    BY <1>1, <1>2, <1>3, CalibrateVolumes, DeleteVolume
    DEF ToolNext, LineEvent, EnableTool, OnRightButton, FixPlane, DisableTool,
        OnKeyPress, toolVars

LEMMA InitHasNoVolumes == ToolInit => VolumesInv
  <1> SUFFICES ASSUME ToolInit PROVE VolumesInv
    OBVIOUS
  <1>1. volumes = <<>> /\ volumes \in Seq(VolumeRecords) /\ Len(volumes) = 0
    BY EmptySeq DEF ToolInit
  <1>2. DOMAIN volumes = {}
    BY <1>1
  <1> QED
    BY <1>1, <1>2
    DEF ToolInit, VolumesInv, NumbersBelowCount, NumbersNameVolumes, VolumesTellUnit

-----------------------------------------------------------------------------
(* The polygon that cuts the mesh is the one the user sees.                *)
THEOREM PolygonFollowsLoop == ToolSpec => []PolygonIsLoop
  <1>1. ToolInit => PolygonInv
    BY DEF ToolInit, Init, PolygonInv, PolygonIsLoop, LoopHasWidget
  <1>2. PolygonInv => PolygonIsLoop
    BY DEF PolygonInv
  <1> QED
    BY <1>1, <1>2, ToolNextKeepsPolygon, PTL DEF ToolSpec

(* No two volumes of a mesh have one number, through any deletions.        *)
THEOREM NumbersAreUnique == ToolSpec => []NumbersNameVolumes
  <1>1. VolumesInv => NumbersNameVolumes
    BY DEF VolumesInv
  <1> QED
    BY <1>1, InitHasNoVolumes, ToolNextKeepsVolumes, PTL DEF ToolSpec

(* Every volume that could be measured tells the mesh's present unit.      *)
THEOREM UnitIsOfCalibration == ToolSpec => []VolumesTellUnit
  <1>1. VolumesInv => VolumesTellUnit
    BY DEF VolumesInv
  <1> QED
    BY <1>1, InitHasNoVolumes, ToolNextKeepsVolumes, PTL DEF ToolSpec

(* computeVolume never cuts with fewer than three points: vtkPolygon and   *)
(* the extrusion take what they are given.                                 *)
THEOREM PolygonHasThreePoints == ToolSpec => []CutsWithPolygon
  <1>1. ToolInit => IInv /\ PolygonInv
    BY InitEstablishes DEF ToolInit, Init, PolygonInv, PolygonIsLoop, LoopHasWidget
  <1>2. IInv /\ PolygonInv => CutsWithPolygon
    BY LoopGivesPolygon DEF PolygonInv
  <1> QED
    BY <1>1, <1>2, ToolNextKeepsLine, ToolNextKeepsPolygon, PTL DEF ToolSpec

(* Drawing the line of a volume is editing a list of vertices, over any    *)
(* number of volumes, calibrations and changes of height.                  *)
THEOREM VolumeToolImplementsEditor == ToolSpec => ImplementsEditor
  <1>1. ToolInit => IInv /\ Editor!Init
    BY InitEstablishes, InitIsEditorInit DEF ToolInit
  <1> QED
    BY <1>1, ToolNextKeepsLine, PTL DEF ToolSpec, ImplementsEditor, Editor!Spec
=============================================================================
