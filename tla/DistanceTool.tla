----------------------------- MODULE DistanceTool -----------------------------
(***************************************************************************)
(* The distance tool on the line widget it creates (two nodes), and the    *)
(* calibration of the mesh it measures.  Every event the widget invokes    *)
(* runs UpdateRepresentation to its end before the widget's handler        *)
(* returns, so widget and tool step together.                              *)
(***************************************************************************)
EXTENDS LineWidgetRefinement

CONSTANT RealMeasures   \* numbers the user can type into the calibration

(* The real length typed in, over the distance measured, none at first.    *)
Calibrations == [real : Int, over : (SUBSET Positions) \cup {NULL}]

ASSUME DistanceAssumption ==
  /\ MaxNumberOfNodes = 2 /\ ~CloseLoopOnFirstNode
  /\ RealMeasures \subseteq Int
  /\ NULL \notin [points : Seq(Positions), scale : Calibrations]

VARIABLES
  enabled,      \* the tool is on, and has its line widget and its mesh
  textActor,    \* the caption: the points it measures and their scale
  distance,     \* the last distance measured, as the set of its two ends
  calibration   \* of the mesh, outliving the tool: real length over distance

tool == <<enabled, textActor, distance, calibration>>
toolVars == <<vars, tool>>

Uncalibrated == [real |-> 1, over |-> NULL]

ToolInit ==
  /\ Init
  /\ enabled = FALSE
  /\ textActor = NULL
  /\ distance = {}
  /\ calibration = Uncalibrated

(* Fault: the text of a line that is gone stays.                           *)
UpdateRepresentationKeepsText ==
  IF nodePoints' = NULL \/ Len(nodePoints') # 2
  THEN UNCHANGED <<textActor, distance>>
  ELSE /\ distance' = ToSet(nodePoints')
       /\ textActor' = [points |-> nodePoints', scale |-> calibration']

UpdateRepresentation ==
  IF nodePoints' = NULL
  THEN textActor' = NULL /\ UNCHANGED distance
  ELSE IF Len(nodePoints') # 2
  THEN UNCHANGED <<textActor, distance>>
  ELSE /\ distance' = ToSet(nodePoints')
       /\ textActor' = [points |-> nodePoints', scale |-> calibration']

(* A handler of the widget, and what the tool does on its event.           *)
LineEvent ==
  /\ enabled
  /\ HandleEvent
  /\ UNCHANGED <<enabled, calibration>>
  /\ IF invoked' = "None" THEN UNCHANGED <<textActor, distance>>
                          ELSE UpdateRepresentation

(* SetEnabled(true) makes a new line widget.                               *)
EnableTool ==
  /\ ~enabled
  /\ enabled' = TRUE
  /\ UNCHANGED <<vars, textActor, distance, calibration>>

(* SetEnabled(false) drops the line widget and forgets the mesh, not the   *)
(* distance.                                                               *)
DisableTool ==
  /\ enabled
  /\ enabled' = FALSE
  /\ textActor' = NULL
  /\ reset
  /\ WidgetState' = "Start"
  /\ invoked' = "None"
  /\ UNCHANGED <<distance, calibration>>

(* Fault: the rubber band will do.                                         *)
hasPoints == enabled /\ nodePoints # NULL

hasFinished == enabled /\ WidgetState = "Finished"

(* A number that is not positive is refused.  The two ends may be one      *)
(* position, over which the code divides all the same.                     *)
updateCalibration(realMeasure) ==
  /\ realMeasure > 0
  /\ calibration' = [real |-> realMeasure, over |-> distance]
  /\ UpdateRepresentation

OnToolCalibration(realMeasure) ==
  /\ hasFinished
  /\ UNCHANGED <<vars, enabled>>
  /\ updateCalibration(realMeasure)

ToolNext ==
  \/ LineEvent
  \/ EnableTool
  \/ DisableTool
  \/ \E r \in RealMeasures : OnToolCalibration(r)

ToolSpec == ToolInit /\ [][ToolNext]_toolVars

-----------------------------------------------------------------------------
ToolTypeOK ==
  /\ TypeOK
  /\ enabled \in BOOLEAN
  /\ textActor \in [points : Seq(Positions), scale : Calibrations] \cup {NULL}
  /\ distance \in SUBSET Positions
  /\ calibration \in Calibrations

(* The caption measures the line the user sees, in the mesh's present      *)
(* calibration, and is there exactly while there is a line: whichever      *)
(* handler moved, cut or calibrated last has told the tool.                *)
CaptionMeasuresLine ==
  /\ textActor = NULL <=> nodePoints = NULL
  /\ textActor # NULL =>
       /\ textActor = [points |-> nodePoints, scale |-> calibration]
       /\ distance = ToSet(nodePoints)

(* The mesh is calibrated with a distance between two placed nodes that    *)
(* the user sees measured, never with a rubber band nor with the distance  *)
(* of an earlier line, which the tool keeps.                               *)
CalibratesPlacedLine ==
  [][calibration' # calibration =>
       /\ NumberOfNodes = 2
       /\ calibration'.over = ToSet(nodesActors)
       /\ textActor'.scale = calibration']_toolVars
=============================================================================
