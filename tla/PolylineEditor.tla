--------------------------- MODULE PolylineEditor ---------------------------
(***************************************************************************)
(* What a LineWidget promises to a tool: an ordered list of vertices that  *)
(* grows at its end until the figure is complete, and once complete can be *)
(* moved vertex by vertex, or opened again by taking a vertex away.        *)
(***************************************************************************)
EXTENDS Integers, SequencesExt

CONSTANTS Positions, Limit, Closable

VARIABLES vertices, complete

vars == <<vertices, complete>>

Init == vertices = <<>> /\ complete = FALSE

(* The vertex that fills the list completes the figure.                    *)
Place(p) ==
  /\ ~complete
  /\ Len(vertices) < Limit
  /\ vertices' = Append(vertices, p)
  /\ complete' = (Len(vertices') = Limit)

Close ==
  /\ ~complete
  /\ Closable
  /\ Len(vertices) >= 3
  /\ complete' = TRUE
  /\ UNCHANGED vertices

Move(i, p) ==
  /\ complete
  /\ vertices' = ReplaceAt(vertices, i, p)
  /\ UNCHANGED complete

TakeBack ==
  /\ ~complete
  /\ vertices # <<>>
  /\ vertices' = Front(vertices)
  /\ UNCHANGED complete

(* A full list opens, a closed one stays closed while it can.              *)
TakeOut(i) ==
  /\ complete
  /\ vertices' = RemoveAt(vertices, i)
  /\ complete' = (Closable /\ Len(vertices) < Limit /\ Len(vertices') >= 3)

Open ==
  /\ complete
  /\ Closable
  /\ complete' = FALSE
  /\ UNCHANGED vertices

Clear == vertices' = <<>> /\ complete' = FALSE

Next ==
  \/ Close \/ TakeBack \/ Open \/ Clear
  \/ \E p \in Positions : Place(p)
  \/ \E i \in DOMAIN vertices : TakeOut(i)
  \/ \E i \in DOMAIN vertices, p \in Positions : Move(i, p)

Spec == Init /\ [][Next]_vars
=============================================================================
