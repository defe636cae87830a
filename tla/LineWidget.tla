----------------------------- MODULE LineWidget -----------------------------
(***************************************************************************)
(* The polyline editor every measuring, cutting and aligning tool is built *)
(* on: LineWidget (the event handlers and the widget state) together with  *)
(* LineWidgetRepresentation (the nodes and the points of the line).        *)
(*                                                                         *)
(* The user places nodes on a mesh with the right button, the mouse        *)
(* stretches a rubber band from the last node, Ctrl+Z deletes, and when    *)
(* the figure is complete a node can be dragged.  Each event is handled to *)
(* its end by the GUI thread, so each handler is one action.               *)
(*                                                                         *)
(* What the pickers answer depends on the mesh, the VTK camera and the     *)
(* cursor; it is an input of the handler: the position picked (or NoPick)  *)
(* and the node the cursor is over.  Indices of nodes are the code's, from *)
(* 0, with -1 for none; the sequences are indexed from 1.                  *)
(***************************************************************************)
EXTENDS Integers, SequencesExt

CONSTANTS
  Positions,             \* world positions a pick can return
  NoPick,                \* the pick missed every prop
  NULL,                  \* no vtkPoints allocated
  MaxNumberOfNodes,      \* setMaxNumberOfNodes, VTK_INT_MAX when not called
  CloseLoopOnFirstNode,  \* setCloseLoopOnFirstNode
  NodeBound              \* bound of the model: nodes the user places

ASSUME PickAssumption == NoPick \notin Positions /\ NULL \notin Seq(Positions)

(* Every tool asks for 2 or 3 nodes, or leaves VTK_INT_MAX and asks for a  *)
(* loop.                                                                   *)
ASSUME NodeAssumption ==
  /\ MaxNumberOfNodes \in Nat /\ MaxNumberOfNodes >= 2
  /\ CloseLoopOnFirstNode \in BOOLEAN
  /\ NodeBound \in Nat

VARIABLES
  WidgetState,       \* LineWidget::_WidgetState
  nodesActors,       \* positions of the spheres, in order
  nodePoints,        \* points of the line; one more than nodes while it grows
  loopClosed,        \* the last node is a copy of the first
  indexActiveNode,   \* node under the cursor
  InteractionState,  \* LineWidgetRepresentation::_InteractionState
  invoked            \* VTK event the last handler invoked for the tools

vars == <<WidgetState, nodesActors, nodePoints, loopClosed, indexActiveNode,
          InteractionState, invoked>>

figure == <<nodesActors, nodePoints, loopClosed>>

NumberOfNodes == Len(nodesActors)

(* Nodes at one position hide each other from pickNode, which returns the  *)
(* first in order; any other node can be the one under the cursor.         *)
PickableNodes ==
  {i \in 0 .. NumberOfNodes - 1 :
     \A j \in 0 .. i - 1 : nodesActors[j + 1] # nodesActors[i + 1]}

(* The cursor is on pixel row or column 0, where ComputeInteractionState   *)
(* does not ask pickNode.                                                  *)
Edge == -2

Cursors == PickableNodes \cup {-1, Edge}
Picks == Positions \cup {NoPick}

-----------------------------------------------------------------------------
(* LineWidgetRepresentation                                                *)

ComputeInteractionState(c) ==
  /\ indexActiveNode' = IF c = Edge THEN indexActiveNode ELSE c
  /\ InteractionState' = IF c >= 0 THEN "OverNode" ELSE "Outside"

addNode(p) ==
  IF p = NoPick
  THEN UNCHANGED figure
  ELSE /\ nodePoints' = IF nodePoints = NULL
                        THEN <<p, p>>
                        ELSE Append(ReplaceAt(nodePoints, Len(nodePoints), p), p)
       /\ nodesActors' = Append(nodesActors, p)
       /\ UNCHANGED loopClosed

addFinalNode(p) ==
  /\ nodePoints' = ReplaceAt(nodePoints, Len(nodePoints), p)
  /\ nodesActors' = Append(nodesActors, p)
  /\ UNCHANGED loopClosed

(* Fault: the loop closes without a node on its end.                       *)
closeLoopWithoutNode ==
  /\ nodePoints' = ReplaceAt(nodePoints, Len(nodePoints), nodePoints[1])
  /\ loopClosed' = TRUE
  /\ UNCHANGED nodesActors

closeLoop ==
  /\ nodePoints' = ReplaceAt(nodePoints, Len(nodePoints), nodePoints[1])
  /\ nodesActors' = Append(nodesActors, nodePoints[1])
  /\ loopClosed' = TRUE

(* Fault: the opened line gets no rubber band.                             *)
PopNodeAndPoint(nodes, points) ==
  /\ nodesActors' = Front(nodes)
  /\ nodePoints' = Front(points)

(* The last node goes and the line gets a rubber band again.               *)
PopNode(nodes, points) ==
  /\ nodesActors' = Front(nodes)
  /\ nodePoints' = Append(Front(points), Last(Front(nodes)))

deleteNode(id) ==
  IF NumberOfNodes = 0
  THEN UNCHANGED <<figure, indexActiveNode, InteractionState>>
  ELSE
    /\ InteractionState' = "Outside"
    /\ indexActiveNode' = -1
    /\ CASE NumberOfNodes = 1 ->
              /\ nodesActors' = <<>>
              /\ nodePoints' = NULL
              /\ UNCHANGED loopClosed
         [] NumberOfNodes > 1 /\ NumberOfNodes < Len(nodePoints) ->
              /\ nodesActors' = Front(nodesActors)
              /\ nodePoints' = Front(nodePoints)
              /\ UNCHANGED loopClosed
         [] NumberOfNodes > 1 /\ NumberOfNodes >= Len(nodePoints) /\ loopClosed ->
              LET nodes == RemoveAt(nodesActors, id + 1)
                  points == RemoveAt(nodePoints, id + 1)
              IN CASE id \in {0, NumberOfNodes - 1} ->
                        /\ PopNode(nodesActors, nodePoints)
                        /\ loopClosed' = FALSE
                   [] id \notin {0, NumberOfNodes - 1} /\ Len(nodes) = 3 ->
                        /\ PopNode(nodes, points)
                        /\ loopClosed' = FALSE
                   [] OTHER ->
                        /\ nodesActors' = nodes
                        /\ nodePoints' = points
                        /\ UNCHANGED loopClosed
         [] OTHER ->
              LET nodes == RemoveAt(nodesActors, id + 1)
              IN /\ nodesActors' = nodes
                 /\ nodePoints' = Append(RemoveAt(nodePoints, id + 1), Last(nodes))
                 /\ UNCHANGED loopClosed

(* Fault: the active node outlives the nodes.                              *)
resetKeepsActiveNode ==
  /\ InteractionState' = "Outside"
  /\ nodesActors' = <<>>
  /\ nodePoints' = NULL
  /\ loopClosed' = FALSE
  /\ UNCHANGED indexActiveNode

reset ==
  /\ InteractionState' = "Outside"
  /\ indexActiveNode' = -1
  /\ nodesActors' = <<>>
  /\ nodePoints' = NULL
  /\ loopClosed' = FALSE

MoveTo(s, moved, p) == [k \in 1 .. Len(s) |-> IF k - 1 \in moved THEN p ELSE s[k]]

(* Fault: only the end under the mouse moves.                              *)
DraggedNodeAlone == {indexActiveNode}

(* While a closed loop is dragged its two ends move together.              *)
DraggedNodes ==
  IF loopClosed /\ indexActiveNode \in {0, NumberOfNodes - 1}
  THEN {0, NumberOfNodes - 1}
  ELSE {indexActiveNode}

updateActiveNode(p) ==
  IF indexActiveNode = -1 \/ p = NoPick
  THEN UNCHANGED figure
  ELSE /\ nodesActors' = MoveTo(nodesActors, DraggedNodes, p)
       /\ nodePoints' = MoveTo(nodePoints, DraggedNodes, p)
       /\ UNCHANGED loopClosed

finishUpdateActiveNode(p) ==
  IF indexActiveNode = -1 \/ p = NoPick
  THEN UNCHANGED <<figure, indexActiveNode, InteractionState>>
  ELSE /\ nodesActors' = ReplaceAt(nodesActors, indexActiveNode + 1, p)
       /\ nodePoints' = ReplaceAt(nodePoints, indexActiveNode + 1, p)
       /\ indexActiveNode' = -1
       /\ InteractionState' = "Outside"
       /\ UNCHANGED loopClosed

(* The line actor exists when points do: every handler ends in Render,     *)
(* which builds it.                                                        *)
updateLine(p) ==
  /\ nodePoints' = IF nodePoints = NULL \/ p = NoPick
                   THEN nodePoints
                   ELSE ReplaceAt(nodePoints, Len(nodePoints), p)
  /\ UNCHANGED <<nodesActors, loopClosed>>

-----------------------------------------------------------------------------
(* LineWidget                                                              *)

(* Fault: one node too few.                                                *)
CanCloseSegment == CloseLoopOnFirstNode /\ NumberOfNodes >= 2

IsLastMissingNode == NumberOfNodes + 1 >= MaxNumberOfNodes
CanCloseLoop == CloseLoopOnFirstNode /\ NumberOfNodes >= 3

Init ==
  /\ WidgetState = "Start"
  /\ nodesActors = <<>>
  /\ nodePoints = NULL
  /\ loopClosed = FALSE
  /\ indexActiveNode = -1
  /\ InteractionState = "Outside"
  /\ invoked = "None"

(* SelectAction, the branch that ends the figure with its last node.       *)
SelectFinalNode(p) ==
  /\ WidgetState = "Define"
  /\ IsLastMissingNode
  /\ IF p = NoPick
     THEN /\ invoked' = "None"
          /\ UNCHANGED <<WidgetState, figure>>
     ELSE /\ addFinalNode(p)
          /\ WidgetState' = "Finished"
          /\ invoked' = "EndInteractionEvent"
  /\ UNCHANGED <<indexActiveNode, InteractionState>>

(* SelectAction, the branch that ends the figure on its first node.        *)
SelectFirstNode ==
  /\ WidgetState = "Define"
  /\ ~IsLastMissingNode
  /\ CanCloseLoop
  /\ closeLoop
  /\ indexActiveNode' = 0
  /\ WidgetState' = "Finished"
  /\ invoked' = "EndInteractionEvent"
  /\ UNCHANGED InteractionState

(* SelectAction, Start and Define: one more node.  isOverFirstNode leaves  *)
(* the node it found in indexActiveNode although it is not the first.      *)
SelectNewNode(c, p) ==
  /\ \/ WidgetState = "Start"
     \/ WidgetState = "Define" /\ ~IsLastMissingNode
  /\ IF WidgetState = "Define" /\ CanCloseLoop
     THEN c \notin {0, Edge} /\ indexActiveNode' = c
     ELSE c = -1 /\ UNCHANGED indexActiveNode
  /\ p # NoPick => NumberOfNodes < NodeBound
  /\ addNode(p)
  /\ WidgetState' = "Define"
  /\ invoked' = "StartInteractionEvent"
  /\ UNCHANGED InteractionState

(* SelectAction once the figure is complete: a drag may start.             *)
SelectComplete(c) ==
  /\ \/ /\ WidgetState = "Finished"
        /\ ComputeInteractionState(c)
        /\ WidgetState' = IF c >= 0 THEN "Manipulate" ELSE "Finished"
     \/ /\ WidgetState = "Manipulate"
        /\ UNCHANGED <<WidgetState, indexActiveNode, InteractionState>>
  /\ invoked' = "StartInteractionEvent"
  /\ UNCHANGED figure

MoveDrag(p) ==
  /\ WidgetState = "Manipulate"
  /\ IF InteractionState = "OverNode" THEN updateActiveNode(p) ELSE UNCHANGED figure
  /\ invoked' = "InteractionEvent"
  /\ UNCHANGED <<WidgetState, indexActiveNode, InteractionState>>

MoveLine(p) ==
  /\ WidgetState \in {"Start", "Define"}
  /\ IF WidgetState = "Define" THEN updateLine(p) ELSE UNCHANGED figure
  /\ invoked' = "InteractionEvent"
  /\ UNCHANGED <<WidgetState, indexActiveNode, InteractionState>>

MoveHover(c) ==
  /\ WidgetState = "Finished"
  /\ ComputeInteractionState(c)
  /\ invoked' = IF InteractionState' = "Outside" THEN "None" ELSE "InteractionEvent"
  /\ UNCHANGED <<WidgetState, figure>>

MoveAction(c, p) == MoveDrag(p) \/ MoveLine(p) \/ MoveHover(c)

(* Fault: a loop that stays closed is taken for a line to be continued.    *)
StateAfterDeleteInLoop ==
  IF Len(nodesActors') < MaxNumberOfNodes
  THEN "Define"
  ELSE IF Len(nodesActors') = 0 THEN "Start" ELSE WidgetState

(* What the delete leaves decides the state, read after it.                *)
StateAfterDelete ==
  IF Len(nodesActors') < MaxNumberOfNodes /\ ~loopClosed'
  THEN "Define"
  ELSE IF Len(nodesActors') = 0 THEN "Start" ELSE WidgetState

CtrlKeyPress(c) ==
  /\ \/ /\ WidgetState = "Finished"
        /\ c >= 0
        /\ deleteNode(c)
     \/ /\ WidgetState = "Finished"
        /\ c < 0
        /\ reset
     \/ /\ WidgetState \in {"Start", "Define"}
        /\ deleteNode(-1)
     \/ /\ WidgetState = "Manipulate"
        /\ UNCHANGED <<figure, indexActiveNode, InteractionState>>
  /\ WidgetState' = StateAfterDelete
  /\ invoked' = "InteractionEvent"

EndSelectAction(p) ==
  /\ InteractionState # "Outside"
  /\ WidgetState = "Manipulate"
  /\ finishUpdateActiveNode(p)
  /\ WidgetState' = "Finished"
  /\ invoked' = "EndInteractionEvent"

(* SetEnabled(true) sets Start and leaves the representation alone.  The   *)
(* only widget enabled twice is DeleteTool's, which resets the             *)
(* representation of a closed loop it cannot use just before.              *)
SetEnabled ==
  /\ WidgetState = "Finished"
  /\ loopClosed
  /\ reset
  /\ WidgetState' = "Start"
  /\ invoked' = "None"

(* The event map of the constructor.                                       *)
HandleEvent ==
  \/ SelectFirstNode
  \/ \E p \in Picks : SelectFinalNode(p) \/ EndSelectAction(p)
  \/ \E c \in Cursors : SelectComplete(c) \/ CtrlKeyPress(c)
  \/ \E c \in Cursors, p \in Picks : SelectNewNode(c, p) \/ MoveAction(c, p)

Next == HandleEvent \/ SetEnabled

Spec == Init /\ [][Next]_vars

-----------------------------------------------------------------------------
(* Properties                                                              *)

TypeOK ==
  /\ WidgetState \in {"Start", "Define", "Manipulate", "Finished"}
  /\ nodesActors \in Seq(Positions)
  /\ nodePoints \in Seq(Positions) \cup {NULL}
  /\ loopClosed \in BOOLEAN
  /\ indexActiveNode \in Int
  /\ InteractionState \in {"Outside", "OverNode"}
  /\ invoked \in {"None", "StartInteractionEvent", "InteractionEvent",
                  "EndInteractionEvent"}

(* The line a tool measures is the line the user sees: every node has its  *)
(* point, at the same index and the same place, and there is exactly one   *)
(* more point, the rubber band, while the figure grows and none when it is *)
(* complete.  getPoints() is all a tool reads, and every SetPoint and      *)
(* every erase of the handlers relies on these lengths.                    *)
PointsFollowNodes ==
  /\ nodePoints = NULL <=> nodesActors = <<>>
  /\ nodePoints # NULL =>
       /\ Len(nodePoints) = IF WidgetState = "Define"
                            THEN NumberOfNodes + 1
                            ELSE NumberOfNodes
       /\ \A k \in 1 .. NumberOfNodes : nodePoints[k] = nodesActors[k]

(* hasFinished() tells the truth: a widget past Define has the nodes it    *)
(* was asked for or a closed loop, and one that still defines has neither, *)
(* through any mix of placing, dragging and deleting.                      *)
CompleteWhenFinished ==
  IF WidgetState \in {"Manipulate", "Finished"}
  THEN loopClosed \/ NumberOfNodes = MaxNumberOfNodes
  ELSE ~loopClosed /\ NumberOfNodes < MaxNumberOfNodes

(* A closed loop encloses an area: at least three nodes and the copy that  *)
(* closes it, and it was closed before the last node was due, so opening   *)
(* it leaves a node to place.  The tools build a polygon without looking.  *)
ClosedLoopIsPolygon ==
  loopClosed => CloseLoopOnFirstNode /\ NumberOfNodes \in 4 .. MaxNumberOfNodes - 1

(* A drag always has a node: moving or releasing the mouse writes to       *)
(* nodesActors.at(indexActiveNode).                                        *)
DragHasNode ==
  /\ indexActiveNode \in -1 .. NumberOfNodes - 1
  /\ InteractionState = "OverNode" =>
       indexActiveNode # -1 /\ WidgetState \in {"Manipulate", "Finished"}
  /\ WidgetState = "Manipulate" => InteractionState = "OverNode"

(* The two ends of a closed loop part only when a drag is released, never  *)
(* while it is under way, when a node is deleted or when the loop closes.  *)
EndsMeet == loopClosed => nodesActors[1] = nodesActors[NumberOfNodes]
EndsPartOnlyOnRelease ==
  [][EndsMeet /\ ~EndsMeet' => invoked' = "EndInteractionEvent" /\ loopClosed]_vars

(* The tools compute their result on EndInteractionEvent: it is invoked    *)
(* only with a complete figure, whose points are those of the nodes.       *)
EndMeansComplete ==
  [][invoked' = "EndInteractionEvent" =>
       /\ WidgetState' = "Finished"
       /\ loopClosed' \/ Len(nodesActors') = MaxNumberOfNodes
       /\ nodePoints' = nodesActors']_vars
=============================================================================
