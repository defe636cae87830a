-------------------------- MODULE DistanceToolProofs --------------------------
(***************************************************************************)
(* The distance tool, for any positions and any lengths typed in.  A line  *)
(* of two nodes that exists has two points, so UpdateRepresentation never  *)
(* takes the way out that leaves an old caption; and the events the widget *)
(* does not invoke leave the figure alone.                                 *)
(***************************************************************************)
EXTENDS DistanceTool, LineWidgetProofs

USE DEF tool

(* A line of at most two nodes has two points from its first node on.      *)
TwoPoints ==
  nodePoints # NULL => nodePoints \in Seq(Positions) /\ Len(nodePoints) = 2

LEMMA LineHasTwoPoints == IInv => TwoPoints
  <1> SUFFICES ASSUME IInv, nodePoints # NULL
               PROVE  nodePoints \in Seq(Positions) /\ Len(nodePoints) = 2
    BY DEF TwoPoints
  <1>1. /\ nodePoints \in Seq(Positions)
        /\ nodesActors \in Seq(Positions) /\ nodesActors # <<>>
        /\ ~loopClosed
    BY DistanceAssumption
    DEF IInv, TypeOK, PointsFollowNodes, ClosedLoopIsPolygon
  <1>2. NumberOfNodes \in Nat /\ NumberOfNodes # 0
    BY <1>1, EmptySeq, LenProperties DEF NumberOfNodes
  <1>3. CASE WidgetState = "Define"
    BY <1>1, <1>2, <1>3, DistanceAssumption DEF IInv, PointsFollowNodes, CompleteWhenFinished
  <1>4. CASE WidgetState \in {"Manipulate", "Finished"}
    BY <1>1, <1>4, DistanceAssumption DEF IInv, PointsFollowNodes, CompleteWhenFinished
  <1>5. WidgetState # "Start"
    BY <1>1 DEF IInv, StartIsEmpty
  <1> QED
    BY <1>1, <1>3, <1>4, <1>5 DEF IInv, TypeOK

(* A finished line is its two nodes.                                       *)
LEMMA FinishedLineIsNodes ==
  ASSUME IInv, WidgetState = "Finished"
  PROVE  NumberOfNodes = 2 /\ nodePoints # NULL /\ nodePoints = nodesActors
  <1>1. NumberOfNodes = 2
    BY DistanceAssumption DEF IInv, CompleteWhenFinished, ClosedLoopIsPolygon
  <1>2. nodePoints # NULL
    BY <1>1, EmptySeq DEF IInv, PointsFollowNodes, NumberOfNodes
  <1>3. /\ nodePoints \in Seq(Positions) /\ nodesActors \in Seq(Positions)
        /\ Len(nodePoints) = Len(nodesActors)
        /\ \A k \in 1 .. Len(nodesActors) : nodePoints[k] = nodesActors[k]
    BY <1>2 DEF IInv, TypeOK, PointsFollowNodes, NumberOfNodes
  <1>4. nodePoints = nodesActors
    BY <1>3, SeqEqual
  <1> QED
    BY <1>1, <1>2, <1>4

(* The same of the line a step leaves.                                     *)
LEMMA NewLineHasTwoPoints == IInv' => TwoPoints'
  BY LineHasTwoPoints, PTL

Inv == IInv /\ ToolTypeOK /\ CaptionMeasuresLine

LEMMA ToolInitEstablishesInv == ToolInit => Inv
  <1> SUFFICES ASSUME ToolInit PROVE Inv
    OBVIOUS
  <1>1. IInv
    BY InitEstablishes DEF ToolInit
  <1>2. Uncalibrated \in Calibrations
    BY DEF Uncalibrated, Calibrations
  <1>3. ToolTypeOK
    BY <1>1, <1>2 DEF ToolInit, ToolTypeOK, IInv
  <1>4. CaptionMeasuresLine
    <2>1. textActor = NULL /\ nodePoints = NULL
      BY DEF ToolInit, Init
    <2> QED
      BY <2>1 DEF CaptionMeasuresLine
  <1> QED
    BY <1>1, <1>3, <1>4 DEF Inv

(* A caption and a distance written from the line as it now is.            *)
LEMMA UpdateMeasuresLine ==
  ASSUME IInv', ToolTypeOK, calibration' \in Calibrations, enabled' \in BOOLEAN,
         UpdateRepresentation
  PROVE  ToolTypeOK' /\ CaptionMeasuresLine'
  <1>1. TypeOK'
    BY DEF IInv
  <1>2. CASE nodePoints' = NULL
    BY <1>1, <1>2 DEF UpdateRepresentation, ToolTypeOK, CaptionMeasuresLine
  <1>3. CASE nodePoints' # NULL
    <2>1. nodePoints' \in Seq(Positions) /\ Len(nodePoints') = 2
      BY <1>3, NewLineHasTwoPoints DEF TwoPoints
    <2>2. /\ distance' = ToSet(nodePoints')
          /\ textActor' = [points |-> nodePoints', scale |-> calibration']
      BY <1>3, <2>1 DEF UpdateRepresentation
    <2>3. distance' \in SUBSET Positions
      BY <2>1, <2>2, ElementOfSeq DEF ToSet
    <2>4. textActor' \in [points : Seq(Positions), scale : Calibrations] /\ textActor' # NULL
      BY <2>1, <2>2, DistanceAssumption
    <2> QED
      BY <1>1, <1>3, <2>2, <2>3, <2>4 DEF ToolTypeOK, CaptionMeasuresLine
  <1> QED
    BY <1>2, <1>3

LEMMA LineEventKeepsInv == ASSUME Inv, LineEvent PROVE Inv'
  <1>1. IInv' /\ enabled' \in BOOLEAN /\ calibration' \in Calibrations
    BY NextPreserves DEF LineEvent, Next, Inv, ToolTypeOK
  <1>2. CASE invoked' = "None"
    <2>1. nodePoints' = nodePoints /\ UNCHANGED <<textActor, distance, enabled, calibration>>
      BY <1>2, SilentEventsKeepFigure DEF LineEvent, figure
    <2>2. ToolTypeOK' /\ CaptionMeasuresLine'
      BY <1>1, <2>1 DEF Inv, IInv, ToolTypeOK, CaptionMeasuresLine
    <2> QED
      BY <1>1, <2>2 DEF Inv
  <1>3. CASE invoked' # "None"
    BY <1>1, <1>3, UpdateMeasuresLine DEF LineEvent, Inv
  <1> QED
    BY <1>2, <1>3

LEMMA DisableToolKeepsInv == ASSUME Inv, DisableTool PROVE Inv'
  <1>1. IInv' /\ nodePoints' = NULL
    BY ResetPreserves DEF DisableTool, Inv, reset
  <1> QED
    BY <1>1 DEF DisableTool, Inv, IInv, ToolTypeOK, CaptionMeasuresLine

LEMMA CalibrationKeepsInv ==
  ASSUME Inv, NEW r \in RealMeasures, OnToolCalibration(r)
  PROVE  Inv'
  <1>1. IInv' /\ enabled' \in BOOLEAN
    BY NextPreserves DEF OnToolCalibration, Inv, ToolTypeOK
  <1>2. calibration' \in Calibrations
    BY DistanceAssumption DEF OnToolCalibration, updateCalibration, Calibrations, Inv, ToolTypeOK
  <1>3. UpdateRepresentation
    BY DEF OnToolCalibration, updateCalibration
  <1> QED
    BY <1>1, <1>2, <1>3, UpdateMeasuresLine DEF Inv

LEMMA ToolNextKeepsInv == Inv /\ [ToolNext]_toolVars => Inv'
  <1> SUFFICES ASSUME Inv, [ToolNext]_toolVars PROVE Inv'
    OBVIOUS
  <1>1. CASE EnableTool \/ UNCHANGED toolVars
    <2>1. UNCHANGED <<vars, textActor, distance, calibration>> /\ enabled' \in BOOLEAN
      BY <1>1 DEF EnableTool, toolVars, Inv, ToolTypeOK
    <2>2. IInv'
      BY <2>1, NextPreserves DEF Inv
    <2> QED
      BY <2>1, <2>2 DEF vars, Inv, IInv, ToolTypeOK, CaptionMeasuresLine
  <1>2. ASSUME NEW r \in RealMeasures, OnToolCalibration(r) PROVE Inv'
    BY <1>2, CalibrationKeepsInv
  <1> QED
    BY <1>1, <1>2, LineEventKeepsInv, DisableToolKeepsInv DEF ToolNext

-----------------------------------------------------------------------------
(* The tool, its caption and the calibration keep their types.             *)
THEOREM DistanceTypeCorrect == ToolSpec => []ToolTypeOK
  <1>1. Inv => ToolTypeOK
    BY DEF Inv
  <1> QED
    BY <1>1, ToolInitEstablishesInv, ToolNextKeepsInv, PTL DEF ToolSpec

(* The user reads the length of the line on the screen, in the unit of the *)
(* present calibration.                                                    *)
THEOREM CaptionIsOfTheLine == ToolSpec => []CaptionMeasuresLine
  <1>1. Inv => CaptionMeasuresLine
    BY DEF Inv
  <1> QED
    BY <1>1, ToolInitEstablishesInv, ToolNextKeepsInv, PTL DEF ToolSpec

(* A mesh is calibrated with two placed nodes only.                        *)
THEOREM CalibrationIsOfPlacedLine == ToolSpec => CalibratesPlacedLine
  <1> DEFINE Calibrates == calibration' # calibration =>
               /\ NumberOfNodes = 2
               /\ calibration'.over = ToSet(nodesActors)
               /\ textActor'.scale = calibration'
  <1>1. Inv /\ [ToolNext]_toolVars => [Calibrates]_toolVars
    <2> SUFFICES ASSUME Inv, ToolNext, calibration' # calibration PROVE Calibrates
      OBVIOUS
    <2>1. PICK r \in RealMeasures : OnToolCalibration(r)
      BY DEF ToolNext, LineEvent, EnableTool, DisableTool
    <2>2. NumberOfNodes = 2 /\ nodePoints # NULL /\ nodePoints = nodesActors
      BY <2>1, FinishedLineIsNodes DEF OnToolCalibration, hasFinished, Inv
    <2>3. distance = ToSet(nodesActors)
      BY <2>2 DEF Inv, CaptionMeasuresLine
    <2>4. Inv' /\ nodePoints' # NULL
      BY <2>1, <2>2, CalibrationKeepsInv DEF OnToolCalibration, vars
    <2>5. textActor'.scale = calibration'
      BY <2>4 DEF Inv, CaptionMeasuresLine
    <2> QED
      BY <2>1, <2>2, <2>3, <2>5 DEF OnToolCalibration, updateCalibration
  <1>2. CalibratesPlacedLine <=> [][Calibrates]_toolVars
    BY DEF CalibratesPlacedLine
  <1> QED
    BY <1>1, <1>2, ToolInitEstablishesInv, ToolNextKeepsInv, PTL DEF ToolSpec

(* Switching the tool off is a clearing, and neither switching it on nor a *)
(* calibration touches the vertices.                                       *)
LEMMA ToolNextIsEditorStep == Inv /\ [ToolNext]_toolVars => [Editor!Next]_Editor!vars
  <1> SUFFICES ASSUME Inv, [ToolNext]_toolVars PROVE [Editor!Next]_Editor!vars
    OBVIOUS
  <1>1. CASE [Next]_vars
    BY <1>1, NextIsEditorStep DEF Inv
  <1>2. CASE DisableTool
    BY <1>2, ResetStep DEF DisableTool, EditorStep
  <1>3. CASE LineEvent
    BY <1>1, <1>3 DEF LineEvent, Next
  <1>4. ASSUME NEW r \in RealMeasures, OnToolCalibration(r)
        PROVE  [Editor!Next]_Editor!vars
    BY <1>1, <1>4 DEF OnToolCalibration
  <1>5. CASE EnableTool \/ UNCHANGED toolVars
    BY <1>1, <1>5 DEF EnableTool, toolVars
  <1> QED
    BY <1>2, <1>3, <1>4, <1>5 DEF ToolNext

(* The user of the distance tool edits a list of vertices, over any number *)
(* of lines and calibrations.                                              *)
THEOREM DistanceToolImplementsEditor == ToolSpec => ImplementsEditor
  <1>1. ToolInit => Editor!Init
    BY InitIsEditorInit DEF ToolInit
  <1> QED
    BY <1>1, ToolInitEstablishesInv, ToolNextKeepsInv, ToolNextIsEditorStep, PTL
    DEF ToolSpec, ImplementsEditor, Editor!Spec
=============================================================================
