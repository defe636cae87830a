------------------------------ MODULE VolumeTool ------------------------------
(***************************************************************************)
(* The volume tool on the line widget it creates, the volumes it leaves on *)
(* the mesh, and what a calibration and a deletion do to them: VolumeTool, *)
(* Volume, and the volumes of Mesh.                                        *)
(*                                                                         *)
(* The user picks a place for a plane, fixes the plane with Enter, draws a *)
(* closed line on it, sets the height of the polygon over the line, and    *)
(* has the mesh cut by the polygon with Enter.  As with the other tools,   *)
(* the events of the widget are handled inside the widget's handlers.      *)
(***************************************************************************)
EXTENDS LineWidgetRefinement

CONSTANTS
  Heights,          \* of the polygon; any two reach each other with "=" and "-"
  InitialHeight,    \* polygonHeight of a new tool
  MaxVolumes,       \* bound of the model: volumes computed
  MaxCalibrations   \* bound of the model: calibrations of the mesh

ASSUME VolumeAssumption ==
  /\ InitialHeight \in Heights
  /\ CloseLoopOnFirstNode
  /\ MaxVolumes \in Nat /\ MaxCalibrations \in Nat

VARIABLES
  planeWidget,     \* "NULL" with the tool off, else "Off", "On" or "Fixed"
  polygonHeight,   \* outlives the tool's being switched off
  pointsPolygon,   \* the points and the height of the polygon, or NULL
  polygonShown,    \* polygonActor is in the renderer
  updatePolygon,
  volumes,         \* Mesh::volumes: the number in the caption, the
                   \* calibration whose unit it tells, and the one its value
                   \* is scaled by (0 for none)
  qtdVolumes,      \* Mesh::qtdVolumes
  calibration      \* of the mesh, 0 for the initial one

polygon == <<pointsPolygon, polygonShown, updatePolygon>>
mesh == <<volumes, qtdVolumes, calibration>>
toolVars == <<vars, planeWidget, polygonHeight, polygon, mesh>>

enabled == planeWidget # "NULL"
hasLineWidget == planeWidget = "Fixed"

ToolInit ==
  /\ Init
  /\ planeWidget = "NULL"
  /\ polygonHeight = InitialHeight
  /\ pointsPolygon = NULL /\ polygonShown = FALSE /\ updatePolygon = FALSE
  /\ volumes = <<>> /\ qtdVolumes = 0 /\ calibration = 0

-----------------------------------------------------------------------------
(* VolumeTool                                                              *)

(* Fault: the polygon is built once.                                       *)
UpdateRepresentationOnce ==
  IF pointsPolygon = NULL /\ loopClosed'
  THEN /\ pointsPolygon' = [points |-> Front(nodePoints'), height |-> polygonHeight']
       /\ polygonShown' = TRUE
       /\ updatePolygon' = FALSE
  ELSE UNCHANGED polygon

(* Every caller has just set updatePolygon; an open line leaves it set.    *)
UpdateRepresentation ==
  /\ updatePolygon' = ~loopClosed'
  /\ polygonShown' = loopClosed'
  /\ pointsPolygon' = IF loopClosed'
                      THEN [points |-> Front(nodePoints'), height |-> polygonHeight']
                      ELSE pointsPolygon

LineEvent ==
  /\ hasLineWidget
  /\ HandleEvent
  /\ UNCHANGED <<planeWidget, polygonHeight, mesh>>
  /\ IF invoked' = "None" THEN UNCHANGED polygon ELSE UpdateRepresentation

EnableTool ==
  /\ ~enabled
  /\ planeWidget' = "Off"
  /\ UNCHANGED <<vars, polygonHeight, polygon, mesh>>

(* The picker finds the mesh.  Once the plane is fixed the right button is *)
(* the line widget's.                                                      *)
OnRightButton ==
  /\ planeWidget = "Off"
  /\ planeWidget' = "On"
  /\ UNCHANGED <<vars, polygonHeight, polygon, mesh>>

(* enterKeyPressed with the plane on: a new line widget.                   *)
FixPlane ==
  /\ planeWidget = "On"
  /\ planeWidget' = "Fixed"
  /\ updatePolygon' = TRUE
  /\ UNCHANGED <<vars, polygonHeight, pointsPolygon, polygonShown, mesh>>

(* Fault: the height waits for the next event of the line.                 *)
OnKeyPressUnseen(h) ==
  /\ enabled
  /\ polygonHeight' = h
  /\ updatePolygon' = TRUE
  /\ UNCHANGED <<vars, planeWidget, pointsPolygon, polygonShown, mesh>>

(* "=" and "-", which stops at a least height.  Without a line widget      *)
(* UpdateRepresentation does nothing.                                      *)
OnKeyPress(h) ==
  /\ enabled
  /\ polygonHeight' = h
  /\ UNCHANGED <<vars, planeWidget, mesh>>
  /\ IF hasLineWidget
     THEN UpdateRepresentation
     ELSE updatePolygon' = TRUE /\ UNCHANGED <<pointsPolygon, polygonShown>>

(* SetEnabled(false).                                                      *)
DropLineAndPolygon ==
  /\ planeWidget' = "NULL"
  /\ reset
  /\ WidgetState' = "Start"
  /\ invoked' = "None"
  /\ pointsPolygon' = NULL /\ polygonShown' = FALSE /\ updatePolygon' = FALSE

DisableTool ==
  /\ enabled
  /\ DropLineAndPolygon
  /\ UNCHANGED <<polygonHeight, mesh>>

(* Fault: the number is taken from the volumes there are.                  *)
numberByCount == Len(volumes)

number == qtdVolumes

(* The caption of a volume that could not be measured has no unit.         *)
NoUnit == -1

(* Fault: the number has no unit until the next calibration.               *)
newVolumeUnitless == [number |-> number, unit |-> 0, scale |-> 0]

(* The caption tells the unit of the mesh's calibration; the value comes   *)
(* from the clipped surface as it is.                                      *)
newVolume == [number |-> number, unit |-> calibration, scale |-> 0]

(* enterKeyPressed with a closed loop: the polygon cuts something or       *)
(* nothing, or a surface without a volume; the frame switches the tool off *)
(* in every case.                                                          *)
computeVolume ==
  /\ hasLineWidget
  /\ loopClosed
  /\ \/ /\ qtdVolumes < MaxVolumes
        /\ \E v \in {newVolume, [newVolume EXCEPT !.unit = NoUnit]} :
             volumes' = Append(volumes, v)
        /\ qtdVolumes' = qtdVolumes + 1
     \/ UNCHANGED <<volumes, qtdVolumes>>
  /\ DropLineAndPolygon
  /\ UNCHANGED <<polygonHeight, calibration>>

-----------------------------------------------------------------------------
(* Mesh.  The distance tool calibrates, and OnToolDelete deletes, with the *)
(* volume tool off.                                                        *)

(* The volume is measured again, scaled.  The test for an error compares   *)
(* two measures of one surface, so it comes out as it did the first time.  *)
updateCalibration(v, c) ==
  IF v.unit = NoUnit THEN v ELSE [v EXCEPT !.unit = c, !.scale = c]

setCalibration ==
  /\ ~enabled
  /\ calibration < MaxCalibrations
  /\ calibration' = calibration + 1
  /\ volumes' = [i \in DOMAIN volumes |-> updateCalibration(volumes[i], calibration')]
  /\ UNCHANGED <<vars, planeWidget, polygonHeight, polygon, qtdVolumes>>

deleteVolume(i) ==
  /\ ~enabled
  /\ volumes' = RemoveAt(volumes, i)
  /\ UNCHANGED <<vars, planeWidget, polygonHeight, polygon, qtdVolumes, calibration>>

destructVolumes ==
  /\ ~enabled
  /\ volumes # <<>>
  /\ volumes' = <<>>
  /\ UNCHANGED <<vars, planeWidget, polygonHeight, polygon, qtdVolumes, calibration>>

-----------------------------------------------------------------------------
ToolNext ==
  \/ LineEvent \/ EnableTool \/ OnRightButton \/ FixPlane \/ DisableTool
  \/ computeVolume \/ setCalibration \/ destructVolumes
  \/ \E h \in Heights : OnKeyPress(h)
  \/ \E i \in DOMAIN volumes : deleteVolume(i)

ToolSpec == ToolInit /\ [][ToolNext]_toolVars

-----------------------------------------------------------------------------
(* The polygon that will cut the mesh is the one on the screen, over the   *)
(* loop as it is now and of the present height, and it is on the screen    *)
(* exactly while the loop is closed: after every dragging, opening, closing*)
(* again and change of height.  computeVolume reads pointsPolygon without  *)
(* asking.                                                                 *)
PolygonIsLoop ==
  /\ polygonShown <=> loopClosed
  /\ loopClosed =>
       pointsPolygon = [points |-> Front(nodePoints), height |-> polygonHeight]

(* A number names one volume on the screen and on the tree, whatever has   *)
(* been deleted since.                                                     *)
NumbersNameVolumes ==
  \A i, j \in DOMAIN volumes : volumes[i].number = volumes[j].number => i = j

(* All volumes of a mesh tell the unit of its present calibration, those   *)
(* measured before it and those measured after it, through any number of   *)
(* calibrations and deletions.                                             *)
VolumesTellUnit ==
  \A i \in DOMAIN volumes : volumes[i].unit \in {calibration, NoUnit}

(* helpMart-0023.htm:43, of a calibration: "The mesh will be calibrated,   *)
(* further measures will use this as reference."                           *)
MeasuresUseCalibration ==
  \A i \in DOMAIN volumes : volumes[i].unit = calibration => volumes[i].scale = calibration
=============================================================================
