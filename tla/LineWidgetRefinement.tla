------------------------ MODULE LineWidgetRefinement ------------------------
(* LineWidget implements PolylineEditor.  The vertices are the nodes, less *)
(* the copy of the first that closes a loop.                               *)
EXTENDS LineWidget

Vertices == IF loopClosed THEN Front(nodesActors) ELSE nodesActors
Complete == WidgetState \in {"Manipulate", "Finished"}

Editor == INSTANCE PolylineEditor WITH
  Limit <- MaxNumberOfNodes,
  Closable <- CloseLoopOnFirstNode,
  vertices <- Vertices,
  complete <- Complete

(* Whatever the user does with mouse and Ctrl+Z, a tool sees a list of     *)
(* vertices that changes one vertex at a time or is cleared: no handler of *)
(* the widget duplicates, reorders or loses a vertex on the way.           *)
ImplementsEditor == Editor!Spec
=============================================================================
