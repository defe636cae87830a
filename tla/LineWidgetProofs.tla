-------------------------- MODULE LineWidgetProofs --------------------------
(***************************************************************************)
(* The safety invariants of LineWidget for every set of positions, every   *)
(* number of nodes and every bound; then what its events and its releases  *)
(* may do, and that it implements PolylineEditor, step by step.            *)
(***************************************************************************)
EXTENDS LineWidgetRefinement, SequenceTheorems, TLAPS

(* Start is left on the first node and entered only with none.             *)
StartIsEmpty == WidgetState = "Start" => nodesActors = <<>>

IInv ==
  /\ TypeOK
  /\ PointsFollowNodes
  /\ CompleteWhenFinished
  /\ ClosedLoopIsPolygon
  /\ DragHasNode
  /\ StartIsEmpty

-----------------------------------------------------------------------------
(* The sequence operators the handlers are built from.                     *)

LEMMA FrontProperties ==
  ASSUME NEW S, NEW s \in Seq(S), Len(s) >= 1
  PROVE  /\ Front(s) \in Seq(S)
         /\ Len(Front(s)) = Len(s) - 1
         /\ \A k \in 1 .. Len(s) - 1 : Front(s)[k] = s[k]
<1>1. \A k \in 1 .. Len(s) - 1 : s[k] \in S
  BY LenProperties, ElementOfSeq
<1>2. Len(s) \in Nat /\ Len(s) - 1 \in Int /\ 1 \in Int
  BY LenProperties
<1> DEFINE f == SubSeq(s, 1, Len(s) - 1)
<1>3. /\ f \in Seq(S)
      /\ Len(f) = IF 1 <= Len(s) - 1 THEN (Len(s) - 1) - 1 + 1 ELSE 0
      /\ \A k \in 1 .. (Len(s) - 1) - 1 + 1 : f[k] = s[1 + k - 1]
  BY <1>1, <1>2, SubSeqProperties
<1>4. Front(s) = f
  BY DEF Front
<1> HIDE DEF f
<1>5. QED
  BY <1>2, <1>3, <1>4

LEMMA LastProperties ==
  ASSUME NEW S, NEW s \in Seq(S), Len(s) >= 1
  PROVE  Last(s) \in S
BY LenProperties, ElementOfSeq DEF Last

LEMMA RemoveAtProperties ==
  ASSUME NEW S, NEW s \in Seq(S), NEW i \in 1 .. Len(s)
  PROVE  /\ RemoveAt(s, i) \in Seq(S)
         /\ Len(RemoveAt(s, i)) = Len(s) - 1
         /\ \A k \in 1 .. Len(s) - 1 :
              RemoveAt(s, i)[k] = IF k < i THEN s[k] ELSE s[k + 1]
<1>1. Len(s) \in Nat /\ i \in Int
  BY LenProperties
<1>2. \A k \in 1 .. Len(s) : s[k] \in S
  BY ElementOfSeq
<1> DEFINE f == SubSeq(s, 1, i - 1)
           g == SubSeq(s, i + 1, Len(s))
<1>3. /\ f \in Seq(S)
      /\ Len(f) = IF 1 <= i - 1 THEN (i - 1) - 1 + 1 ELSE 0
      /\ \A k \in 1 .. (i - 1) - 1 + 1 : f[k] = s[1 + k - 1]
  <2>1. \A k \in 1 .. i - 1 : s[k] \in S
    BY <1>1, <1>2
  <2>2. QED
    BY <1>1, <2>1, SubSeqProperties
<1>4. /\ g \in Seq(S)
      /\ Len(g) = IF i + 1 <= Len(s) THEN Len(s) - (i + 1) + 1 ELSE 0
      /\ \A k \in 1 .. Len(s) - (i + 1) + 1 : g[k] = s[(i + 1) + k - 1]
  <2>1. \A k \in i + 1 .. Len(s) : s[k] \in S
    BY <1>1, <1>2
  <2>2. QED
    BY <1>1, <2>1, SubSeqProperties
<1>5. RemoveAt(s, i) = f \o g
  BY DEF RemoveAt
<1> HIDE DEF f, g
<1>6. Len(f) = i - 1 /\ Len(g) = Len(s) - i
  BY <1>1, <1>3, <1>4
<1>7. /\ f \o g \in Seq(S)
      /\ Len(f \o g) = Len(f) + Len(g)
      /\ \A k \in 1 .. Len(f) + Len(g) :
           (f \o g)[k] = IF k <= Len(f) THEN f[k] ELSE g[k - Len(f)]
  BY <1>3, <1>4, ConcatProperties
<1>8. \A k \in 1 .. Len(s) - 1 : (f \o g)[k] = IF k < i THEN s[k] ELSE s[k + 1]
  <2>1. \A k \in 1 .. i - 1 : f[k] = s[k]
    BY <1>1, <1>3
  <2>2. \A k \in 1 .. Len(s) - i : g[k] = s[i + k]
    BY <1>1, <1>4
  <2>3. QED
    BY <1>1, <1>6, <1>7, <2>1, <2>2
<1>9. QED
  BY <1>1, <1>5, <1>6, <1>7, <1>8

LEMMA ReplaceAtProperties ==
  ASSUME NEW S, NEW s \in Seq(S), NEW i \in 1 .. Len(s), NEW e \in S
  PROVE  /\ ReplaceAt(s, i, e) \in Seq(S)
         /\ Len(ReplaceAt(s, i, e)) = Len(s)
         /\ \A k \in 1 .. Len(s) : k # i => ReplaceAt(s, i, e)[k] = s[k]
         /\ ReplaceAt(s, i, e)[i] = e
BY ExceptSeq DEF ReplaceAt

LEMMA ReplaceLastProperties ==
  ASSUME NEW S, NEW s \in Seq(S), Len(s) >= 1, NEW e \in S
  PROVE  /\ ReplaceAt(s, Len(s), e) \in Seq(S)
         /\ Len(ReplaceAt(s, Len(s), e)) = Len(s)
         /\ \A k \in 1 .. Len(s) - 1 : ReplaceAt(s, Len(s), e)[k] = s[k]
         /\ ReplaceAt(s, Len(s), e)[Len(s)] = e
<1> DEFINE l == Len(s)
<1>1. l \in 1 .. Len(s) /\ l \in Nat
  BY LenProperties
<1> HIDE DEF l
<1>2. ReplaceAt(s, l, e) \in Seq(S)
  BY <1>1, ReplaceAtProperties
<1>3. Len(ReplaceAt(s, l, e)) = Len(s)
  BY <1>1, ReplaceAtProperties
<1>4. /\ \A k \in 1 .. Len(s) : k # l => ReplaceAt(s, l, e)[k] = s[k]
      /\ ReplaceAt(s, l, e)[l] = e
  BY <1>1, ReplaceAtProperties
<1>5. QED
  BY <1>1, <1>2, <1>3, <1>4 DEF l

-----------------------------------------------------------------------------
(* What the operations of the representation do to a figure.               *)

(* A line with its nodes, as PointsFollowNodes wants it in a widget state. *)
Figure(nodes, points, state) ==
  /\ nodes \in Seq(Positions)
  /\ points \in Seq(Positions)
  /\ Len(nodes) >= 1
  /\ Len(points) = IF state = "Define" THEN Len(nodes) + 1 ELSE Len(nodes)
  /\ \A k \in 1 .. Len(nodes) : points[k] = nodes[k]

(* addFinalNode and closeLoop: the rubber band becomes the last node.      *)
LEMMA EndFigure ==
  ASSUME NEW nodes, NEW points, NEW p \in Positions,
         Figure(nodes, points, "Define")
  PROVE  /\ Figure(Append(nodes, p), ReplaceAt(points, Len(points), p), "Finished")
         /\ Len(Append(nodes, p)) = Len(nodes) + 1
<1>1. /\ nodes \in Seq(Positions) /\ points \in Seq(Positions)
      /\ Len(nodes) \in Nat /\ Len(nodes) >= 1
      /\ Len(points) = Len(nodes) + 1
      /\ \A k \in 1 .. Len(nodes) : points[k] = nodes[k]
  BY LenProperties DEF Figure
<1> DEFINE n == Append(nodes, p)
           q == ReplaceAt(points, Len(points), p)
<1>2. /\ n \in Seq(Positions)
      /\ Len(n) = Len(nodes) + 1
      /\ \A k \in 1 .. Len(nodes) : n[k] = nodes[k]
      /\ n[Len(nodes) + 1] = p
  BY <1>1, AppendProperties
<1>3. /\ q \in Seq(Positions)
      /\ Len(q) = Len(points)
      /\ \A k \in 1 .. Len(points) - 1 : q[k] = points[k]
      /\ q[Len(points)] = p
  <2>1. Len(points) >= 1
    BY <1>1
  <2>2. QED
    BY <1>1, <2>1, ReplaceLastProperties, Zenon
<1> HIDE DEF n, q
<1>4. Figure(n, q, "Finished")
  BY <1>1, <1>2, <1>3 DEF Figure
<1>5. QED
  BY <1>2, <1>4 DEF n, q

(* The copy of the last node that becomes the rubber band.                 *)
LEMMA ExtendFigure ==
  ASSUME NEW nodes, NEW points, NEW p \in Positions,
         Figure(nodes, points, "Finished")
  PROVE  Figure(nodes, Append(points, p), "Define")
<1>1. /\ nodes \in Seq(Positions) /\ points \in Seq(Positions)
      /\ Len(nodes) \in Nat /\ Len(nodes) >= 1
      /\ Len(points) = Len(nodes)
      /\ \A k \in 1 .. Len(nodes) : points[k] = nodes[k]
  BY LenProperties DEF Figure
<1> DEFINE q == Append(points, p)
<1>2. /\ q \in Seq(Positions)
      /\ Len(q) = Len(points) + 1
      /\ \A k \in 1 .. Len(points) : q[k] = points[k]
  BY <1>1, AppendProperties
<1> HIDE DEF q
<1>3. QED
  BY <1>1, <1>2 DEF Figure, q

(* Front of both sequences, in a growing or a complete figure.             *)
LEMMA FrontFigure ==
  ASSUME NEW nodes, NEW points, NEW state, Figure(nodes, points, state),
         Len(nodes) >= 2
  PROVE  /\ Figure(Front(nodes), Front(points), state)
         /\ Len(Front(nodes)) = Len(nodes) - 1
<1>1. /\ nodes \in Seq(Positions) /\ points \in Seq(Positions)
      /\ Len(nodes) \in Nat
      /\ Len(points) \in Nat /\ Len(points) >= Len(nodes)
      /\ Len(points) = IF state = "Define" THEN Len(nodes) + 1 ELSE Len(nodes)
      /\ \A k \in 1 .. Len(nodes) : points[k] = nodes[k]
  BY LenProperties DEF Figure
<1>2. /\ Front(nodes) \in Seq(Positions)
      /\ Len(Front(nodes)) = Len(nodes) - 1
      /\ \A k \in 1 .. Len(nodes) - 1 : Front(nodes)[k] = nodes[k]
  BY <1>1, FrontProperties
<1>3. /\ Front(points) \in Seq(Positions)
      /\ Len(Front(points)) = Len(points) - 1
      /\ \A k \in 1 .. Len(points) - 1 : Front(points)[k] = points[k]
  BY <1>1, FrontProperties
<1>4. QED
  BY <1>1, <1>2, <1>3 DEF Figure

(* One node and its point erased, in a complete figure.                    *)
LEMMA RemoveFigure ==
  ASSUME NEW nodes, NEW points, Figure(nodes, points, "Finished"),
         Len(nodes) >= 2, NEW i \in 1 .. Len(nodes)
  PROVE  /\ Figure(RemoveAt(nodes, i), RemoveAt(points, i), "Finished")
         /\ Len(RemoveAt(nodes, i)) = Len(nodes) - 1
<1>1. /\ nodes \in Seq(Positions) /\ points \in Seq(Positions)
      /\ Len(nodes) \in Nat
      /\ Len(points) = Len(nodes)
      /\ \A k \in 1 .. Len(nodes) : points[k] = nodes[k]
  BY LenProperties DEF Figure
<1>2. /\ RemoveAt(nodes, i) \in Seq(Positions)
      /\ Len(RemoveAt(nodes, i)) = Len(nodes) - 1
      /\ \A k \in 1 .. Len(nodes) - 1 :
           RemoveAt(nodes, i)[k] = IF k < i THEN nodes[k] ELSE nodes[k + 1]
  BY <1>1, RemoveAtProperties
<1>3. /\ RemoveAt(points, i) \in Seq(Positions)
      /\ Len(RemoveAt(points, i)) = Len(nodes) - 1
      /\ \A k \in 1 .. Len(nodes) - 1 :
           RemoveAt(points, i)[k] = IF k < i THEN points[k] ELSE points[k + 1]
  BY <1>1, RemoveAtProperties
<1>4. \A k \in 1 .. Len(nodes) - 1 : RemoveAt(points, i)[k] = RemoveAt(nodes, i)[k]
  BY <1>1, <1>2, <1>3
<1>5. QED
  BY <1>1, <1>2, <1>3, <1>4 DEF Figure

(* PopNode: the last node goes and the figure grows again.                 *)
LEMMA PopFigure ==
  ASSUME NEW nodes, NEW points, Figure(nodes, points, "Finished"), Len(nodes) >= 2
  PROVE  /\ Figure(Front(nodes), Append(Front(points), Last(Front(nodes))), "Define")
         /\ Len(Front(nodes)) = Len(nodes) - 1
<1>1. /\ Figure(Front(nodes), Front(points), "Finished")
      /\ Len(Front(nodes)) = Len(nodes) - 1
  BY FrontFigure
<1>2. Last(Front(nodes)) \in Positions
  BY <1>1, LastProperties DEF Figure
<1>3. QED
  BY <1>1, <1>2, ExtendFigure

(* updateActiveNode: the same places of both sequences get the new position. *)
LEMMA MoveToProperties ==
  ASSUME NEW s \in Seq(Positions), NEW moved, NEW p \in Positions
  PROVE  /\ MoveTo(s, moved, p) \in Seq(Positions)
         /\ Len(MoveTo(s, moved, p)) = Len(s)
         /\ \A k \in 1 .. Len(s) :
              MoveTo(s, moved, p)[k] = IF k - 1 \in moved THEN p ELSE s[k]
<1> DEFINE m == MoveTo(s, moved, p)
           n == Len(s)
<1>1. n \in Nat /\ \A k \in 1 .. n : s[k] \in Positions
  BY LenProperties, ElementOfSeq
<1>2. m \in [1 .. n -> Positions] /\ DOMAIN m = 1 .. n
  BY <1>1 DEF MoveTo
<1>3. \A k \in 1 .. n : m[k] = IF k - 1 \in moved THEN p ELSE s[k]
  BY DEF MoveTo
<1> HIDE DEF m, n
<1>4. m \in Seq(Positions)
  BY <1>1, <1>2, SeqDef
<1>5. Len(m) \in Nat /\ DOMAIN m = 1 .. Len(m)
  BY <1>4, LenProperties
<1>6. Len(m) = n
  BY <1>1, <1>2, <1>5
<1>7. QED
  BY <1>3, <1>4, <1>6 DEF m, n

LEMMA MoveFigure ==
  ASSUME NEW nodes, NEW points, NEW moved, NEW p \in Positions,
         Figure(nodes, points, "Finished")
  PROVE  /\ Figure(MoveTo(nodes, moved, p), MoveTo(points, moved, p), "Finished")
         /\ Len(MoveTo(nodes, moved, p)) = Len(nodes)
<1>1. /\ nodes \in Seq(Positions) /\ points \in Seq(Positions)
      /\ Len(points) = Len(nodes) /\ Len(nodes) >= 1
      /\ \A k \in 1 .. Len(nodes) : points[k] = nodes[k]
  BY DEF Figure
<1> DEFINE n == MoveTo(nodes, moved, p)
           q == MoveTo(points, moved, p)
<1>2. /\ n \in Seq(Positions) /\ Len(n) = Len(nodes)
      /\ \A k \in 1 .. Len(nodes) : n[k] = IF k - 1 \in moved THEN p ELSE nodes[k]
  BY <1>1, MoveToProperties
<1>3. /\ q \in Seq(Positions) /\ Len(q) = Len(points)
      /\ \A k \in 1 .. Len(points) : q[k] = IF k - 1 \in moved THEN p ELSE points[k]
  BY <1>1, MoveToProperties
<1> HIDE DEF n, q
<1>4. Figure(n, q, "Finished")
  BY <1>1, <1>2, <1>3 DEF Figure
<1>5. QED
  BY <1>2, <1>4 DEF n, q

(* finishUpdateActiveNode: one place of both sequences.                    *)
LEMMA ReplaceIsMove ==
  ASSUME NEW s \in Seq(Positions), NEW i \in 1 .. Len(s), NEW p \in Positions
  PROVE  ReplaceAt(s, i, p) = MoveTo(s, {i - 1}, p)
<1>1. Len(s) \in Nat /\ DOMAIN s = 1 .. Len(s)
  BY LenProperties
<1>2. ReplaceAt(s, i, p) = [k \in 1 .. Len(s) |-> IF k = i THEN p ELSE s[k]]
  BY <1>1 DEF ReplaceAt
<1>3. \A k \in 1 .. Len(s) : k - 1 \in {i - 1} <=> k = i
  BY <1>1
<1>4. QED
  BY <1>2, <1>3 DEF MoveTo

LEMMA ReplaceFigure ==
  ASSUME NEW nodes, NEW points, NEW p \in Positions,
         Figure(nodes, points, "Finished"), NEW i \in 1 .. Len(nodes)
  PROVE  /\ Figure(ReplaceAt(nodes, i, p), ReplaceAt(points, i, p), "Finished")
         /\ Len(ReplaceAt(nodes, i, p)) = Len(nodes)
<1>1. nodes \in Seq(Positions) /\ points \in Seq(Positions) /\ Len(points) = Len(nodes)
  BY DEF Figure
<1>2. ReplaceAt(nodes, i, p) = MoveTo(nodes, {i - 1}, p)
  BY <1>1, ReplaceIsMove
<1>3. ReplaceAt(points, i, p) = MoveTo(points, {i - 1}, p)
  <2>1. i \in 1 .. Len(points)
    BY <1>1
  <2>2. QED
    BY <1>1, <2>1, ReplaceIsMove
<1>4. QED
  BY <1>2, <1>3, MoveFigure

(* addNode on a line that already has points.                              *)
LEMMA GrowFigure ==
  ASSUME NEW nodes, NEW points, NEW p \in Positions,
         Figure(nodes, points, "Define")
  PROVE  /\ Figure(Append(nodes, p),
                   Append(ReplaceAt(points, Len(points), p), p), "Define")
         /\ Len(Append(nodes, p)) = Len(nodes) + 1
BY EndFigure, ExtendFigure

(* addNode on a line that has none.                                        *)
LEMMA FirstFigure ==
  ASSUME NEW p \in Positions
  PROVE  Figure(<<p>>, <<p, p>>, "Define")
BY DEF Figure

(* updateLine: the rubber band follows the mouse.                          *)
LEMMA StretchFigure ==
  ASSUME NEW nodes, NEW points, NEW p \in Positions,
         Figure(nodes, points, "Define")
  PROVE  Figure(nodes, ReplaceAt(points, Len(points), p), "Define")
<1>1. /\ nodes \in Seq(Positions) /\ points \in Seq(Positions)
      /\ Len(nodes) \in Nat /\ Len(nodes) >= 1
      /\ Len(points) = Len(nodes) + 1 /\ Len(points) >= 1
      /\ \A k \in 1 .. Len(nodes) : points[k] = nodes[k]
  BY LenProperties DEF Figure
<1> DEFINE q == ReplaceAt(points, Len(points), p)
<1>2. /\ q \in Seq(Positions)
      /\ Len(q) = Len(points)
      /\ \A k \in 1 .. Len(points) - 1 : q[k] = points[k]
      /\ q[Len(points)] = p
  BY <1>1, ReplaceLastProperties, Zenon
<1> HIDE DEF q
<1>3. Figure(nodes, q, "Define")
  BY <1>1, <1>2 DEF Figure
<1>4. QED
  BY <1>3 DEF q

-----------------------------------------------------------------------------
(* The invariant and the figure.                                           *)

LEMMA ConstantFacts ==
  /\ MaxNumberOfNodes \in Nat /\ MaxNumberOfNodes >= 2
  /\ NULL \notin Seq(Positions)
  /\ NoPick \notin Positions
BY PickAssumption, NodeAssumption

(* What the invariant says of the two sequences, in the terms the handlers *)
(* need: once there is a node there are points, and the reverse.           *)
LEMMA SequenceFacts ==
  ASSUME IInv
  PROVE  /\ NumberOfNodes \in Nat
         /\ nodesActors = <<>> <=> NumberOfNodes = 0
         /\ NumberOfNodes >= 1 =>
              /\ nodePoints # NULL
              /\ nodePoints \in Seq(Positions)
              /\ Len(nodePoints) = IF WidgetState = "Define"
                                   THEN NumberOfNodes + 1
                                   ELSE NumberOfNodes
         /\ NumberOfNodes = 0 => nodePoints = NULL
<1>1. nodesActors \in Seq(Positions) /\ nodePoints \in Seq(Positions) \cup {NULL}
  BY DEF IInv, TypeOK
<1>2. NumberOfNodes \in Nat /\ (nodesActors = <<>> <=> NumberOfNodes = 0)
  BY <1>1, LenProperties, EmptySeq DEF NumberOfNodes
<1>3. QED
  BY <1>1, <1>2 DEF IInv, PointsFollowNodes

(* An event that leaves the figure, the widget state and the active node   *)
(* alone leaves the invariant alone.                                       *)
LEMMA FigureUnchanged ==
  ASSUME IInv,
         UNCHANGED <<WidgetState, figure, indexActiveNode, InteractionState>>,
         invoked' \in {"None", "StartInteractionEvent", "InteractionEvent",
                      "EndInteractionEvent"}
  PROVE  IInv'
BY DEF IInv, TypeOK, PointsFollowNodes, CompleteWhenFinished,
       ClosedLoopIsPolygon, DragHasNode, StartIsEmpty, NumberOfNodes, figure

(* The invariant from facts about the next state of the figure.  Handlers  *)
(* that change the figure prove these facts and cite this lemma.           *)
LEMMA FigureEstablishes ==
  ASSUME Figure(nodesActors', nodePoints', WidgetState'),
         WidgetState' \in {"Define", "Manipulate", "Finished"},
         loopClosed' \in BOOLEAN,
         indexActiveNode' \in Int,
         InteractionState' \in {"Outside", "OverNode"},
         invoked' \in {"None", "StartInteractionEvent", "InteractionEvent",
                      "EndInteractionEvent"},
         CompleteWhenFinished', ClosedLoopIsPolygon', DragHasNode'
  PROVE  IInv'
<1>1. nodesActors' # <<>> /\ nodePoints' # NULL
  BY EmptySeq, PickAssumption DEF Figure
<1>2. TypeOK'
  BY DEF Figure, TypeOK
<1>3. PointsFollowNodes'
  BY <1>1 DEF Figure, PointsFollowNodes, NumberOfNodes
<1>4. StartIsEmpty'
  BY DEF StartIsEmpty
<1>5. QED
  BY <1>2, <1>3, <1>4 DEF IInv

(* The empty figure, after reset or the delete of the only node.           *)
LEMMA EmptyEstablishes ==
  ASSUME nodesActors' = <<>>, nodePoints' = NULL, loopClosed' = FALSE,
         WidgetState' \in {"Start", "Define"},
         indexActiveNode' = -1, InteractionState' = "Outside",
         invoked' \in {"None", "StartInteractionEvent", "InteractionEvent",
                      "EndInteractionEvent"}
  PROVE  IInv'
<1>1. nodesActors' \in Seq(Positions) /\ Len(nodesActors') = 0
  BY EmptySeq
<1>2. TypeOK'
  <2>1. indexActiveNode' \in Int
    OBVIOUS
  <2>2. QED
    BY <1>1, <2>1, Zenon DEF TypeOK
<1>3. PointsFollowNodes'
  BY DEF PointsFollowNodes
<1>4. CompleteWhenFinished' /\ ClosedLoopIsPolygon' /\ DragHasNode'
  BY <1>1, ConstantFacts
     DEF CompleteWhenFinished, ClosedLoopIsPolygon, DragHasNode, NumberOfNodes
<1>5. QED
  BY <1>2, <1>3, <1>4 DEF IInv, StartIsEmpty

LEMMA FigureHolds ==
  ASSUME IInv, NumberOfNodes >= 1
  PROVE  Figure(nodesActors, nodePoints, WidgetState)
BY SequenceFacts DEF IInv, TypeOK, PointsFollowNodes, Figure, NumberOfNodes

-----------------------------------------------------------------------------
LEMMA InitEstablishes == Init => IInv
<1> SUFFICES ASSUME Init PROVE IInv
  OBVIOUS
<1>1. nodesActors \in Seq(Positions) /\ Len(nodesActors) = 0
  BY EmptySeq DEF Init
<1>2. TypeOK
  <2>1. -1 \in Int
    OBVIOUS
  <2>2. QED
    BY <1>1, <2>1, Zenon DEF Init, TypeOK
<1>3. PointsFollowNodes
  BY DEF Init, PointsFollowNodes
<1>4. CompleteWhenFinished /\ ClosedLoopIsPolygon /\ DragHasNode
  BY <1>1, ConstantFacts
     DEF Init, CompleteWhenFinished, ClosedLoopIsPolygon, DragHasNode, NumberOfNodes
<1>5. QED
  BY <1>2, <1>3, <1>4 DEF Init, IInv, StartIsEmpty

-----------------------------------------------------------------------------
(* One lemma per handler.                                                  *)

LEMMA SelectFinalNodePreserves ==
  ASSUME IInv, NEW p \in Picks, SelectFinalNode(p)
  PROVE  IInv'
<1>1. CASE p = NoPick
  BY <1>1, FigureUnchanged DEF SelectFinalNode, figure
<1>2. CASE p # NoPick
  <2>1. p \in Positions
    BY <1>2 DEF Picks
  <2>2. /\ WidgetState = "Define" /\ WidgetState' = "Finished"
        /\ nodePoints' = ReplaceAt(nodePoints, Len(nodePoints), p)
        /\ nodesActors' = Append(nodesActors, p)
        /\ loopClosed' = loopClosed
        /\ UNCHANGED <<indexActiveNode, InteractionState>>
        /\ invoked' = "EndInteractionEvent"
    BY <1>2 DEF SelectFinalNode, addFinalNode
  <2>3. /\ NumberOfNodes \in Nat
        /\ NumberOfNodes + 1 = MaxNumberOfNodes
        /\ ~loopClosed
        /\ NumberOfNodes >= 1
    BY <2>2, SequenceFacts, ConstantFacts
       DEF SelectFinalNode, IsLastMissingNode, IInv, CompleteWhenFinished
  <2>4. Figure(nodesActors, nodePoints, "Define")
    BY <2>2, <2>3, FigureHolds
  <2>5. /\ Figure(nodesActors', nodePoints', "Finished")
        /\ Len(nodesActors') = Len(nodesActors) + 1
    BY <2>1, <2>2, <2>4, EndFigure
  <2>6. CompleteWhenFinished'
    BY <2>2, <2>3, <2>5 DEF CompleteWhenFinished, NumberOfNodes
  <2>7. ClosedLoopIsPolygon'
    BY <2>2, <2>3 DEF ClosedLoopIsPolygon
  <2>8. DragHasNode'
    BY <2>2, <2>3, <2>5 DEF IInv, DragHasNode, NumberOfNodes
  <2>9. QED
    BY <2>2, <2>5, <2>6, <2>7, <2>8, FigureEstablishes DEF IInv, TypeOK
<1>3. QED
  BY <1>1, <1>2

LEMMA SelectFirstNodePreserves ==
  ASSUME IInv, SelectFirstNode
  PROVE  IInv'
<1>1. /\ WidgetState = "Define" /\ WidgetState' = "Finished"
      /\ nodePoints' = ReplaceAt(nodePoints, Len(nodePoints), nodePoints[1])
      /\ nodesActors' = Append(nodesActors, nodePoints[1])
      /\ loopClosed' = TRUE
      /\ indexActiveNode' = 0
      /\ InteractionState' = InteractionState
      /\ invoked' = "EndInteractionEvent"
      /\ CloseLoopOnFirstNode /\ NumberOfNodes >= 3
  BY DEF SelectFirstNode, closeLoop, CanCloseLoop
<1>2. Figure(nodesActors, nodePoints, "Define") /\ NumberOfNodes \in Nat
  BY <1>1, FigureHolds, SequenceFacts
<1>3. nodePoints[1] \in Positions
  <2>1. nodePoints \in Seq(Positions) /\ 1 \in 1 .. Len(nodePoints)
    BY <1>1, <1>2 DEF Figure, NumberOfNodes
  <2>2. QED
    BY <2>1, ElementOfSeq
<1>4. /\ Figure(nodesActors', nodePoints', "Finished")
      /\ Len(nodesActors') = Len(nodesActors) + 1
  BY <1>1, <1>2, <1>3, EndFigure
<1>5. CompleteWhenFinished'
  BY <1>1 DEF CompleteWhenFinished
<1>6. ClosedLoopIsPolygon'
  <2>1. NumberOfNodes + 1 < MaxNumberOfNodes
    BY <1>2, ConstantFacts DEF SelectFirstNode, IsLastMissingNode
  <2>2. QED
    BY <1>1, <1>2, <1>4, <2>1, ConstantFacts DEF ClosedLoopIsPolygon, NumberOfNodes
<1>7. DragHasNode'
  BY <1>1, <1>2, <1>4 DEF IInv, DragHasNode, TypeOK, NumberOfNodes
<1>8. QED
  BY <1>1, <1>4, <1>5, <1>6, <1>7, FigureEstablishes DEF IInv, TypeOK

LEMMA SelectNewNodePreserves ==
  ASSUME IInv, NEW c \in Cursors, NEW p \in Picks, SelectNewNode(c, p)
  PROVE  IInv'
<1>1. /\ WidgetState \in {"Start", "Define"} /\ WidgetState' = "Define"
      /\ WidgetState = "Define" => ~IsLastMissingNode
      /\ addNode(p)
      /\ InteractionState' = InteractionState
      /\ invoked' = "StartInteractionEvent"
  BY DEF SelectNewNode
<1>2. /\ ~loopClosed /\ loopClosed' = loopClosed
      /\ InteractionState = "Outside"
      /\ NumberOfNodes \in Nat
      /\ NumberOfNodes + 1 < MaxNumberOfNodes
  <2>1. NumberOfNodes \in Nat
    BY SequenceFacts
  <2>2. ~loopClosed /\ InteractionState = "Outside"
    BY <1>1 DEF IInv, CompleteWhenFinished, DragHasNode, TypeOK
  <2>3. loopClosed' = loopClosed
    BY <1>1 DEF addNode, figure
  <2>4. NumberOfNodes + 1 < MaxNumberOfNodes
    <3>1. CASE WidgetState = "Start"
      BY <3>1, SequenceFacts, ConstantFacts DEF IInv, StartIsEmpty
    <3>2. CASE WidgetState = "Define"
      BY <1>1, <2>1, <3>2, ConstantFacts DEF IsLastMissingNode
    <3>3. QED
      BY <1>1, <3>1, <3>2
  <2>5. QED
    BY <2>1, <2>2, <2>3, <2>4
<1>3. indexActiveNode' \in -1 .. NumberOfNodes - 1
  <2>1. \/ indexActiveNode' = indexActiveNode
        \/ indexActiveNode' = c /\ c \notin {0, Edge}
    BY DEF SelectNewNode
  <2>2. QED
    BY <1>2, <2>1 DEF IInv, DragHasNode, Cursors, PickableNodes, Edge
<1>4. CASE p = NoPick
  <2>1. UNCHANGED figure
    BY <1>1, <1>4 DEF addNode
  <2>2. CASE NumberOfNodes = 0
    <3>1. /\ nodesActors' = <<>> /\ nodePoints' = NULL
          /\ indexActiveNode' = -1
      BY <1>3, <2>1, <2>2, SequenceFacts DEF figure
    <3>2. loopClosed' = FALSE
      BY <1>2, Zenon DEF IInv, TypeOK
    <3>3. QED
      BY <1>1, <1>2, <3>1, <3>2, EmptyEstablishes
  <2>3. CASE NumberOfNodes # 0
    <3>1. WidgetState = "Define" /\ NumberOfNodes >= 1
      BY <1>1, <1>2, <2>3, SequenceFacts DEF IInv, StartIsEmpty
    <3>2. Figure(nodesActors', nodePoints', "Define")
      BY <2>1, <3>1, FigureHolds DEF figure
    <3>3. CompleteWhenFinished' /\ ClosedLoopIsPolygon'
      <4>1. NumberOfNodes' = NumberOfNodes
        BY <2>1 DEF NumberOfNodes, figure
      <4>2. ~loopClosed' /\ NumberOfNodes' < MaxNumberOfNodes
        BY <1>2, <4>1, ConstantFacts
      <4>3. QED
        BY <1>1, <4>2 DEF CompleteWhenFinished, ClosedLoopIsPolygon
    <3>4. DragHasNode'
      BY <1>1, <1>2, <1>3, <2>1 DEF DragHasNode, NumberOfNodes, figure
    <3>5. loopClosed' \in BOOLEAN
      BY <1>2 DEF IInv, TypeOK
    <3>6. indexActiveNode' \in Int /\ InteractionState' \in {"Outside", "OverNode"}
      BY <1>1, <1>2, <1>3
    <3>7. QED
      BY <1>1, <3>2, <3>3, <3>4, <3>5, <3>6, FigureEstablishes
  <2>4. QED
    BY <2>2, <2>3
<1>5. CASE p # NoPick
  <2>1. p \in Positions
    BY <1>5 DEF Picks
  <2>2. /\ nodePoints' = IF nodePoints = NULL
                         THEN <<p, p>>
                         ELSE Append(ReplaceAt(nodePoints, Len(nodePoints), p), p)
        /\ nodesActors' = Append(nodesActors, p)
    BY <1>1, <1>5 DEF addNode
  <2>3. /\ Figure(nodesActors', nodePoints', "Define")
        /\ Len(nodesActors') = NumberOfNodes + 1
    <3>1. CASE NumberOfNodes = 0
      <4>1. nodesActors = <<>> /\ nodePoints = NULL
        BY <3>1, SequenceFacts
      <4>2. nodesActors' = <<p>> /\ nodePoints' = <<p, p>>
        BY <2>2, <4>1
      <4>3. Len(nodesActors') = 1
        BY <4>2
      <4>4. QED
        BY <2>1, <3>1, <4>2, <4>3, FirstFigure
    <3>2. CASE NumberOfNodes # 0
      <4>1. WidgetState = "Define" /\ NumberOfNodes >= 1 /\ nodePoints # NULL
        BY <1>1, <1>2, <3>2, SequenceFacts DEF IInv, StartIsEmpty
      <4>2. Figure(nodesActors, nodePoints, "Define")
        BY <4>1, FigureHolds
      <4>3. QED
        BY <2>1, <2>2, <4>1, <4>2, GrowFigure DEF NumberOfNodes
    <3>3. QED
      BY <3>1, <3>2
  <2>4. CompleteWhenFinished' /\ ClosedLoopIsPolygon'
    BY <1>1, <1>2, <2>3 DEF CompleteWhenFinished, ClosedLoopIsPolygon, NumberOfNodes
  <2>5. DragHasNode'
    BY <1>1, <1>2, <1>3, <2>3 DEF DragHasNode, NumberOfNodes
  <2>6. loopClosed' \in BOOLEAN
    BY <1>2 DEF IInv, TypeOK
  <2>7. indexActiveNode' \in Int /\ InteractionState' \in {"Outside", "OverNode"}
    BY <1>1, <1>2, <1>3
  <2>8. QED
    BY <1>1, <2>3, <2>4, <2>5, <2>6, <2>7, FigureEstablishes
<1>6. QED
  BY <1>4, <1>5

(* ComputeInteractionState finds a node of the figure or none.             *)
LEMMA CursorFacts ==
  ASSUME IInv, NEW c \in Cursors, ComputeInteractionState(c)
  PROVE  /\ indexActiveNode' \in -1 .. NumberOfNodes - 1
         /\ InteractionState' \in {"Outside", "OverNode"}
         /\ InteractionState' = "OverNode" <=> c >= 0
         /\ c >= 0 => indexActiveNode' = c
<1>1. NumberOfNodes \in Nat
  BY SequenceFacts
<1>2. QED
  BY <1>1 DEF ComputeInteractionState, Cursors, PickableNodes, Edge, IInv, DragHasNode

(* The cursor moves over a complete figure.                                *)
LEMMA HoverPreserves ==
  ASSUME IInv, NEW c \in Cursors, WidgetState = "Finished",
         ComputeInteractionState(c), UNCHANGED figure,
         WidgetState' = "Finished" \/ (WidgetState' = "Manipulate" /\ c >= 0),
         invoked' \in {"None", "StartInteractionEvent", "InteractionEvent",
                      "EndInteractionEvent"}
  PROVE  IInv'
<1>1. /\ indexActiveNode' \in -1 .. NumberOfNodes - 1
      /\ InteractionState' \in {"Outside", "OverNode"}
      /\ InteractionState' = "OverNode" <=> c >= 0
      /\ c >= 0 => indexActiveNode' = c
  BY CursorFacts
<1>2. NumberOfNodes \in Nat /\ NumberOfNodes' = NumberOfNodes
  BY SequenceFacts DEF figure, NumberOfNodes
<1>3. TypeOK'
  <2>1. /\ nodesActors' \in Seq(Positions)
        /\ nodePoints' \in Seq(Positions) \cup {NULL}
        /\ loopClosed' \in BOOLEAN
    BY DEF IInv, TypeOK, figure
  <2>2. indexActiveNode' \in Int
    BY <1>1, <1>2
  <2>3. QED
    BY <1>1, <2>1, <2>2 DEF TypeOK
<1>4. PointsFollowNodes'
  BY DEF IInv, PointsFollowNodes, figure, NumberOfNodes
<1>5. CompleteWhenFinished'
  BY <1>2 DEF IInv, CompleteWhenFinished, figure
<1>6. ClosedLoopIsPolygon'
  BY <1>2 DEF IInv, ClosedLoopIsPolygon, figure
<1>7. DragHasNode'
  <2>1. c >= 0 => c # -1
    BY <1>2 DEF Cursors, PickableNodes, Edge
  <2>2. QED
    BY <1>1, <1>2, <2>1 DEF DragHasNode
<1>8. QED
  BY <1>3, <1>4, <1>5, <1>6, <1>7 DEF IInv, StartIsEmpty

LEMMA SelectCompletePreserves ==
  ASSUME IInv, NEW c \in Cursors, SelectComplete(c)
  PROVE  IInv'
<1>1. CASE WidgetState = "Finished"
  BY <1>1, HoverPreserves DEF SelectComplete
<1>2. CASE WidgetState = "Manipulate"
  BY <1>2, FigureUnchanged DEF SelectComplete
<1>3. QED
  BY <1>1, <1>2 DEF SelectComplete

LEMMA MoveHoverPreserves ==
  ASSUME IInv, NEW c \in Cursors, MoveHover(c)
  PROVE  IInv'
<1>1. /\ WidgetState = "Finished" /\ WidgetState' = "Finished"
      /\ ComputeInteractionState(c)
      /\ UNCHANGED figure
      /\ invoked' \in {"None", "InteractionEvent"}
  BY DEF MoveHover
<1>2. QED
  BY <1>1, HoverPreserves

(* A complete figure whose nodes move stays what it was.                   *)
LEMMA MovedPreserves ==
  ASSUME IInv, WidgetState = "Manipulate", WidgetState' \in {"Manipulate", "Finished"},
         Figure(nodesActors', nodePoints', "Finished"),
         Len(nodesActors') = Len(nodesActors),
         UNCHANGED loopClosed,
         \/ UNCHANGED <<indexActiveNode, InteractionState>>
         \/ /\ WidgetState' = "Finished"
            /\ indexActiveNode' = -1 /\ InteractionState' = "Outside",
         invoked' \in {"None", "StartInteractionEvent", "InteractionEvent",
                      "EndInteractionEvent"}
  PROVE  IInv'
<1>1. NumberOfNodes \in Nat /\ NumberOfNodes' = NumberOfNodes
  BY SequenceFacts DEF NumberOfNodes
<1>2. Figure(nodesActors', nodePoints', WidgetState')
  BY DEF Figure
<1>3. CompleteWhenFinished'
  BY <1>1 DEF IInv, CompleteWhenFinished
<1>4. ClosedLoopIsPolygon'
  BY <1>1 DEF IInv, ClosedLoopIsPolygon
<1>5. DragHasNode'
  BY <1>1 DEF IInv, DragHasNode
<1>6. /\ loopClosed' \in BOOLEAN /\ indexActiveNode' \in Int
      /\ InteractionState' \in {"Outside", "OverNode"}
  BY DEF IInv, TypeOK
<1>7. QED
  BY <1>2, <1>3, <1>4, <1>5, <1>6, FigureEstablishes

(* A drag finds the figure complete and its node in it.                    *)
LEMMA DragFacts ==
  ASSUME IInv, WidgetState = "Manipulate"
  PROVE  /\ Figure(nodesActors, nodePoints, "Finished")
         /\ indexActiveNode + 1 \in 1 .. Len(nodesActors)
<1>1. NumberOfNodes \in Nat /\ indexActiveNode \in 0 .. NumberOfNodes - 1
  BY SequenceFacts DEF IInv, DragHasNode, TypeOK
<1>2. NumberOfNodes >= 1
  BY <1>1
<1>3. Figure(nodesActors, nodePoints, WidgetState)
  BY <1>2, FigureHolds
<1>4. QED
  BY <1>1, <1>3 DEF Figure, NumberOfNodes

LEMMA MoveDragPreserves ==
  ASSUME IInv, NEW p \in Picks, MoveDrag(p)
  PROVE  IInv'
<1>1. CASE UNCHANGED figure
  BY <1>1, FigureUnchanged DEF MoveDrag
<1>2. CASE ~UNCHANGED figure
  <2>1. /\ WidgetState = "Manipulate" /\ WidgetState' = "Manipulate"
        /\ UNCHANGED <<indexActiveNode, InteractionState>>
        /\ invoked' = "InteractionEvent"
        /\ updateActiveNode(p)
    BY <1>2 DEF MoveDrag
  <2>2. /\ p # NoPick
        /\ nodesActors' = MoveTo(nodesActors, DraggedNodes, p)
        /\ nodePoints' = MoveTo(nodePoints, DraggedNodes, p)
        /\ UNCHANGED loopClosed
    BY <1>2, <2>1 DEF updateActiveNode
  <2>3. p \in Positions
    BY <2>2 DEF Picks
  <2>4. Figure(nodesActors, nodePoints, "Finished")
    BY <2>1, DragFacts
  <2>5. /\ Figure(nodesActors', nodePoints', "Finished")
        /\ Len(nodesActors') = Len(nodesActors)
    BY <2>2, <2>3, <2>4, MoveFigure
  <2>6. QED
    BY <2>1, <2>2, <2>5, MovedPreserves
<1>3. QED
  BY <1>1, <1>2

LEMMA EndSelectActionPreserves ==
  ASSUME IInv, NEW p \in Picks, EndSelectAction(p)
  PROVE  IInv'
<1>1. /\ WidgetState = "Manipulate" /\ WidgetState' = "Finished"
      /\ invoked' = "EndInteractionEvent"
      /\ finishUpdateActiveNode(p)
  BY DEF EndSelectAction
<1>2. /\ Figure(nodesActors, nodePoints, "Finished")
      /\ indexActiveNode + 1 \in 1 .. Len(nodesActors)
  BY <1>1, DragFacts
<1>3. CASE UNCHANGED <<figure, indexActiveNode, InteractionState>>
  BY <1>1, <1>2, <1>3, MovedPreserves DEF figure
<1>4. CASE ~UNCHANGED <<figure, indexActiveNode, InteractionState>>
  <2>1. /\ p # NoPick
        /\ nodesActors' = ReplaceAt(nodesActors, indexActiveNode + 1, p)
        /\ nodePoints' = ReplaceAt(nodePoints, indexActiveNode + 1, p)
        /\ indexActiveNode' = -1 /\ InteractionState' = "Outside"
        /\ UNCHANGED loopClosed
    BY <1>1, <1>4 DEF finishUpdateActiveNode
  <2>2. p \in Positions
    BY <2>1 DEF Picks
  <2>3. /\ Figure(nodesActors', nodePoints', "Finished")
        /\ Len(nodesActors') = Len(nodesActors)
    BY <1>2, <2>1, <2>2, ReplaceFigure
  <2>4. QED
    BY <1>1, <2>1, <2>3, MovedPreserves
<1>5. QED
  BY <1>3, <1>4

LEMMA MoveLinePreserves ==
  ASSUME IInv, NEW p \in Picks, MoveLine(p)
  PROVE  IInv'
<1>1. /\ WidgetState' = WidgetState
      /\ UNCHANGED <<indexActiveNode, InteractionState>>
      /\ invoked' = "InteractionEvent"
  BY DEF MoveLine
<1>2. CASE UNCHANGED figure
  BY <1>1, <1>2, FigureUnchanged
<1>3. CASE ~UNCHANGED figure
  <2>1. /\ WidgetState = "Define" /\ nodePoints # NULL /\ p # NoPick
        /\ nodePoints' = ReplaceAt(nodePoints, Len(nodePoints), p)
        /\ nodesActors' = nodesActors /\ loopClosed' = loopClosed
    BY <1>3 DEF MoveLine, updateLine, figure
  <2>2. p \in Positions
    BY <2>1 DEF Picks
  <2>3. Figure(nodesActors, nodePoints, "Define")
    <3>1. NumberOfNodes >= 1
      BY <2>1, SequenceFacts
    <3>2. QED
      BY <2>1, <3>1, FigureHolds
  <2>4. Figure(nodesActors', nodePoints', "Define")
    BY <2>1, <2>2, <2>3, StretchFigure
  <2>5. CompleteWhenFinished' /\ ClosedLoopIsPolygon' /\ DragHasNode'
    BY <1>1, <2>1 DEF IInv, CompleteWhenFinished, ClosedLoopIsPolygon, DragHasNode,
       NumberOfNodes
  <2>6. /\ loopClosed' \in BOOLEAN /\ indexActiveNode' \in Int
        /\ InteractionState' \in {"Outside", "OverNode"}
    BY <1>1, <2>1 DEF IInv, TypeOK
  <2>7. QED
    BY <1>1, <2>1, <2>4, <2>5, <2>6, FigureEstablishes
<1>4. QED
  BY <1>2, <1>3

-----------------------------------------------------------------------------
(* Ctrl+Z.                                                                 *)

(* A delete that leaves a growing figure.                                  *)
LEMMA GrowsAfterDelete ==
  ASSUME Figure(nodesActors', nodePoints', "Define"),
         Len(nodesActors') < MaxNumberOfNodes,
         loopClosed' = FALSE,
         indexActiveNode' = -1, InteractionState' = "Outside",
         WidgetState' = StateAfterDelete, invoked' = "InteractionEvent"
  PROVE  IInv'
<1>1. WidgetState' = "Define"
  BY DEF StateAfterDelete
<1>2. Len(nodesActors') \in Nat /\ Len(nodesActors') >= 1
  BY LenProperties DEF Figure
<1>3. CompleteWhenFinished' /\ ClosedLoopIsPolygon'
  BY <1>1 DEF CompleteWhenFinished, ClosedLoopIsPolygon, NumberOfNodes
<1>4. DragHasNode'
  BY <1>1, <1>2 DEF DragHasNode, NumberOfNodes
<1>5. loopClosed' \in BOOLEAN
  BY Zenon
<1>6. indexActiveNode' \in Int /\ InteractionState' \in {"Outside", "OverNode"}
  OBVIOUS
<1>7. QED
  BY <1>1, <1>3, <1>4, <1>5, <1>6, FigureEstablishes

(* deleteNode(-1) in Start and Define.                                     *)
LEMMA UndoPreserves ==
  ASSUME IInv, WidgetState \in {"Start", "Define"}, deleteNode(-1),
         WidgetState' = StateAfterDelete, invoked' = "InteractionEvent"
  PROVE  IInv'
<1>1. /\ NumberOfNodes \in Nat /\ NumberOfNodes < MaxNumberOfNodes
      /\ ~loopClosed /\ loopClosed \in BOOLEAN
  BY SequenceFacts DEF IInv, CompleteWhenFinished, TypeOK
<1>2. CASE NumberOfNodes = 0
  <2>1. UNCHANGED <<figure, indexActiveNode, InteractionState>>
    BY <1>2 DEF deleteNode
  <2>2. nodesActors' = <<>> /\ nodePoints' = NULL
    BY <1>2, <2>1, SequenceFacts DEF figure
  <2>3. loopClosed' = FALSE
    BY <1>1, <2>1, Zenon DEF figure
  <2>4. Len(nodesActors') = 0
    BY <2>2, EmptySeq
  <2>5. WidgetState' = "Define"
    BY <2>3, <2>4, ConstantFacts DEF StateAfterDelete
  <2>6. indexActiveNode' = -1 /\ InteractionState' = "Outside"
    <3>1. indexActiveNode = -1
      BY <1>2 DEF IInv, DragHasNode
    <3>2. InteractionState = "Outside"
      BY DEF IInv, DragHasNode, TypeOK
    <3>3. QED
      BY <2>1, <3>1, <3>2
  <2>7. QED
    BY <2>2, <2>3, <2>5, <2>6, EmptyEstablishes
<1>3. CASE NumberOfNodes = 1
  <2>1. /\ nodesActors' = <<>> /\ nodePoints' = NULL
        /\ indexActiveNode' = -1 /\ InteractionState' = "Outside"
        /\ loopClosed' = loopClosed
    BY <1>3 DEF deleteNode
  <2>2. loopClosed' = FALSE
    BY <1>1, <2>1, Zenon
  <2>3. Len(nodesActors') = 0
    BY <2>1, EmptySeq
  <2>4. WidgetState' = "Define"
    BY <2>2, <2>3, ConstantFacts DEF StateAfterDelete
  <2>5. QED
    BY <2>1, <2>2, <2>4, EmptyEstablishes
<1>4. CASE NumberOfNodes > 1
  <2>1. WidgetState = "Define"
    BY <1>4, SequenceFacts DEF IInv, StartIsEmpty
  <2>2. Len(nodePoints) = NumberOfNodes + 1
    BY <1>4, <2>1, SequenceFacts
  <2>3. /\ nodesActors' = Front(nodesActors)
        /\ nodePoints' = Front(nodePoints)
        /\ indexActiveNode' = -1 /\ InteractionState' = "Outside"
        /\ loopClosed' = loopClosed
    BY <1>1, <1>4, <2>2 DEF deleteNode
  <2>4. Figure(nodesActors, nodePoints, "Define") /\ Len(nodesActors) >= 2
    BY <1>1, <1>4, <2>1, FigureHolds DEF NumberOfNodes
  <2>5. /\ Figure(nodesActors', nodePoints', "Define")
        /\ Len(nodesActors') = Len(nodesActors) - 1
    BY <2>3, <2>4, FrontFigure
  <2>6. loopClosed' = FALSE
    BY <1>1, <2>3, Zenon
  <2>7. Len(nodesActors') < MaxNumberOfNodes
    BY <1>1, <2>5, ConstantFacts DEF NumberOfNodes
  <2>8. QED
    BY <2>3, <2>5, <2>6, <2>7, GrowsAfterDelete
<1>5. QED
  BY <1>1, <1>2, <1>3, <1>4

(* deleteNode of the node under the cursor of a complete figure.           *)
LEMMA DeletePreserves ==
  ASSUME IInv, WidgetState = "Finished", NEW c \in 0 .. NumberOfNodes - 1,
         deleteNode(c),
         WidgetState' = StateAfterDelete, invoked' = "InteractionEvent"
  PROVE  IInv'
<1>1. /\ NumberOfNodes \in Nat /\ NumberOfNodes >= 2
      /\ NumberOfNodes <= MaxNumberOfNodes \/ loopClosed
      /\ loopClosed => NumberOfNodes \in 4 .. MaxNumberOfNodes - 1
      /\ Len(nodePoints) = NumberOfNodes
      /\ loopClosed \in BOOLEAN
  <2>1. /\ NumberOfNodes \in Nat /\ NumberOfNodes >= 2
        /\ NumberOfNodes <= MaxNumberOfNodes \/ loopClosed
        /\ loopClosed => NumberOfNodes \in 4 .. MaxNumberOfNodes - 1
    BY SequenceFacts, ConstantFacts DEF IInv, CompleteWhenFinished, ClosedLoopIsPolygon
  <2>2. Len(nodePoints) = NumberOfNodes
    BY <2>1, SequenceFacts
  <2>3. loopClosed \in BOOLEAN
    BY DEF IInv, TypeOK
  <2>4. QED
    BY <2>1, <2>2, <2>3
<1>2. Figure(nodesActors, nodePoints, "Finished") /\ Len(nodesActors) = NumberOfNodes
  BY <1>1, FigureHolds DEF NumberOfNodes
<1>3. indexActiveNode' = -1 /\ InteractionState' = "Outside"
  BY <1>1 DEF deleteNode
<1> DEFINE nodes == RemoveAt(nodesActors, c + 1)
           points == RemoveAt(nodePoints, c + 1)
<1>4. Figure(nodes, points, "Finished") /\ Len(nodes) = NumberOfNodes - 1
  <2>1. c + 1 \in 1 .. Len(nodesActors)
    BY <1>1, <1>2
  <2>2. QED
    BY <1>1, <1>2, <2>1, RemoveFigure
<1>5. CASE loopClosed
  <2>1. \/ PopNode(nodesActors, nodePoints) /\ loopClosed' = FALSE
        \/ PopNode(nodes, points) /\ loopClosed' = FALSE /\ Len(nodes) = 3
        \/ /\ nodesActors' = nodes /\ nodePoints' = points
           /\ loopClosed' = loopClosed /\ Len(nodes) # 3
    <3>1. /\ NumberOfNodes # 0 /\ NumberOfNodes # 1 /\ NumberOfNodes > 1
          /\ ~(NumberOfNodes < Len(nodePoints)) /\ NumberOfNodes >= Len(nodePoints)
      BY <1>1
    <3>2. CASE c \in {0, NumberOfNodes - 1}
      BY <1>5, <3>1, <3>2 DEF deleteNode
    <3>3. CASE c \notin {0, NumberOfNodes - 1} /\ Len(nodes) = 3
      BY <1>5, <3>1, <3>3 DEF deleteNode
    <3>4. CASE c \notin {0, NumberOfNodes - 1} /\ Len(nodes) # 3
      BY <1>5, <3>1, <3>4 DEF deleteNode
    <3>5. QED
      BY <1>4, <1>5, <3>2, <3>3, <3>4 DEF ClosedLoopIsPolygon, IInv
  <2> HIDE DEF nodes, points
  <2>2. CASE PopNode(nodesActors, nodePoints) /\ loopClosed' = FALSE
    <3>1. /\ Figure(nodesActors', nodePoints', "Define")
          /\ Len(nodesActors') = NumberOfNodes - 1
      BY <1>1, <1>2, <2>2, PopFigure DEF PopNode
    <3>2. Len(nodesActors') < MaxNumberOfNodes
      BY <1>1, <1>5, <3>1, ConstantFacts
    <3>3. QED
      BY <1>3, <2>2, <3>1, <3>2, GrowsAfterDelete
  <2>3. CASE PopNode(nodes, points) /\ loopClosed' = FALSE /\ Len(nodes) = 3
    <3>1. /\ Figure(nodesActors', nodePoints', "Define")
          /\ Len(nodesActors') = 2
      <4>1. /\ nodesActors' = Front(nodes)
            /\ nodePoints' = Append(Front(points), Last(Front(nodes)))
        BY <2>3 DEF PopNode
      <4>2. Figure(nodes, points, "Finished") /\ Len(nodes) = 3 /\ Len(nodes) >= 2
        <5>1. Figure(nodes, points, "Finished")
          BY <1>4, Zenon
        <5>2. Len(nodes) = 3
          BY <2>3, Zenon
        <5>3. QED
          BY <5>1, <5>2
      <4>3. /\ Figure(Front(nodes), Append(Front(points), Last(Front(nodes))), "Define")
            /\ Len(Front(nodes)) = Len(nodes) - 1
        BY <4>2, PopFigure
      <4>4. QED
        BY <4>1, <4>2, <4>3
    <3>2. Len(nodesActors') < MaxNumberOfNodes
      BY <1>1, <1>5, <3>1, ConstantFacts
    <3>3. QED
      BY <1>3, <2>3, <3>1, <3>2, GrowsAfterDelete
  <2>4. CASE /\ nodesActors' = nodes /\ nodePoints' = points
             /\ loopClosed' = loopClosed /\ Len(nodes) # 3
    <3>1. WidgetState' = "Finished"
      <4>1. Len(nodesActors') # 0
        BY <1>1, <1>4, <1>5, <2>4
      <4>2. QED
        BY <1>5, <2>4, <4>1 DEF StateAfterDelete
    <3>2. Figure(nodesActors', nodePoints', "Finished")
      BY <1>4, <2>4
    <3>3. Len(nodesActors') \in 4 .. MaxNumberOfNodes - 1
      BY <1>1, <1>4, <1>5, <2>4, ConstantFacts
    <3>4. CompleteWhenFinished' /\ ClosedLoopIsPolygon'
      BY <1>5, <2>4, <3>1, <3>3
         DEF IInv, CompleteWhenFinished, ClosedLoopIsPolygon, NumberOfNodes
    <3>5. DragHasNode'
      BY <1>3, <3>1, <3>3 DEF DragHasNode, NumberOfNodes
    <3>6. loopClosed' \in BOOLEAN
      BY <1>1, <2>4
    <3>7. indexActiveNode' \in Int /\ InteractionState' \in {"Outside", "OverNode"}
      BY <1>3
    <3>8. QED
      BY <3>1, <3>2, <3>4, <3>5, <3>6, <3>7, FigureEstablishes
  <2>5. QED
    BY <2>1, <2>2, <2>3, <2>4
<1>6. CASE ~loopClosed
  <2>1. /\ nodesActors' = nodes
        /\ nodePoints' = Append(points, Last(nodes))
        /\ loopClosed' = loopClosed
    BY <1>1, <1>6 DEF deleteNode
  <2> HIDE DEF nodes, points
  <2>2. Last(nodes) \in Positions
    BY <1>1, <1>4, LastProperties DEF Figure
  <2>3. Figure(nodesActors', nodePoints', "Define")
    BY <1>4, <2>1, <2>2, ExtendFigure
  <2>4. Len(nodesActors') < MaxNumberOfNodes
    BY <1>1, <1>4, <1>6, <2>1, ConstantFacts
  <2>5. loopClosed' = FALSE
    BY <1>1, <1>6, <2>1, Zenon
  <2>6. QED
    BY <1>3, <2>3, <2>4, <2>5, GrowsAfterDelete
<1>7. QED
  BY <1>5, <1>6

LEMMA ResetPreserves ==
  ASSUME IInv, reset, WidgetState' \in {"Start", "Define"},
         invoked' \in {"None", "InteractionEvent"}
  PROVE  IInv'
BY EmptyEstablishes DEF reset

LEMMA CtrlKeyPressPreserves ==
  ASSUME IInv, NEW c \in Cursors, CtrlKeyPress(c)
  PROVE  IInv'
<1>1. WidgetState' = StateAfterDelete /\ invoked' = "InteractionEvent"
  BY DEF CtrlKeyPress
<1>2. CASE WidgetState = "Finished" /\ c >= 0 /\ deleteNode(c)
  <2>1. c \in 0 .. NumberOfNodes - 1
    BY <1>2, SequenceFacts DEF Cursors, PickableNodes, Edge
  <2>2. QED
    BY <1>1, <1>2, <2>1, DeletePreserves
<1>3. CASE WidgetState = "Finished" /\ reset
  <2>1. nodesActors' = <<>> /\ loopClosed' = FALSE
    BY <1>3, Zenon DEF reset
  <2>2. Len(nodesActors') = 0
    BY <2>1, EmptySeq
  <2>3. WidgetState' = "Define"
    BY <1>1, <2>1, <2>2, ConstantFacts DEF StateAfterDelete
  <2>4. QED
    BY <1>1, <1>3, <2>3, ResetPreserves
<1>4. CASE WidgetState \in {"Start", "Define"} /\ deleteNode(-1)
  BY <1>1, <1>4, UndoPreserves
<1>5. CASE /\ WidgetState = "Manipulate"
           /\ UNCHANGED <<figure, indexActiveNode, InteractionState>>
  <2>1. loopClosed \/ NumberOfNodes = MaxNumberOfNodes
    BY <1>5 DEF IInv, CompleteWhenFinished
  <2>2. Len(nodesActors') = NumberOfNodes /\ loopClosed' = loopClosed
    BY <1>5 DEF figure, NumberOfNodes
  <2>3. NumberOfNodes \in Nat /\ (loopClosed => NumberOfNodes >= 4)
    BY SequenceFacts, ConstantFacts DEF IInv, ClosedLoopIsPolygon
  <2>4. WidgetState' = "Manipulate"
    BY <1>1, <1>5, <2>1, <2>2, <2>3, ConstantFacts DEF StateAfterDelete
  <2>5. QED
    BY <1>1, <1>5, <2>4, FigureUnchanged
<1>6. QED
  BY <1>2, <1>3, <1>4, <1>5 DEF CtrlKeyPress

LEMMA SetEnabledPreserves ==
  ASSUME IInv, SetEnabled
  PROVE  IInv'
BY ResetPreserves DEF SetEnabled

LEMMA NextPreserves == IInv /\ [Next]_vars => IInv'
<1> SUFFICES ASSUME IInv, [Next]_vars PROVE IInv'
  OBVIOUS
<1>1. CASE SelectFirstNode
  BY <1>1, SelectFirstNodePreserves
<1>2. CASE SetEnabled
  BY <1>2, SetEnabledPreserves
<1>3. ASSUME NEW p \in Picks, SelectFinalNode(p) PROVE IInv'
  BY <1>3, SelectFinalNodePreserves
<1>4. ASSUME NEW p \in Picks, EndSelectAction(p) PROVE IInv'
  BY <1>4, EndSelectActionPreserves
<1>5. ASSUME NEW c \in Cursors, SelectComplete(c) PROVE IInv'
  BY <1>5, SelectCompletePreserves
<1>6. ASSUME NEW c \in Cursors, CtrlKeyPress(c) PROVE IInv'
  BY <1>6, CtrlKeyPressPreserves
<1>7. ASSUME NEW c \in Cursors, NEW p \in Picks, SelectNewNode(c, p) PROVE IInv'
  BY <1>7, SelectNewNodePreserves
<1>8. ASSUME NEW c \in Cursors, NEW p \in Picks, MoveAction(c, p) PROVE IInv'
  BY <1>8, MoveDragPreserves, MoveLinePreserves, MoveHoverPreserves DEF MoveAction
<1>9. CASE UNCHANGED vars
  <2>1. /\ UNCHANGED <<WidgetState, figure, indexActiveNode, InteractionState>>
        /\ invoked' \in {"None", "StartInteractionEvent", "InteractionEvent",
                         "EndInteractionEvent"}
    BY <1>9 DEF vars, figure, IInv, TypeOK
  <2>2. QED
    BY <2>1, FigureUnchanged
<1>10. QED
  BY <1>1, <1>2, <1>3, <1>4, <1>5, <1>6, <1>7, <1>8, <1>9 DEF Next, HandleEvent

(* A tool is not told only of events that leave the figure alone.          *)
LEMMA SilentEventsKeepFigure ==
  ASSUME HandleEvent, invoked' = "None"
  PROVE  UNCHANGED figure
  <1>1. ~SelectFirstNode
    BY DEF SelectFirstNode
  <1>2. ASSUME NEW p \in Picks, SelectFinalNode(p) PROVE UNCHANGED figure
    BY <1>2 DEF SelectFinalNode
  <1>3. \A p \in Picks : ~EndSelectAction(p)
    BY DEF EndSelectAction
  <1>4. \A c \in Cursors : ~SelectComplete(c) /\ ~CtrlKeyPress(c)
    BY DEF SelectComplete, CtrlKeyPress
  <1>5. \A c \in Cursors, p \in Picks : ~SelectNewNode(c, p) /\ ~MoveDrag(p) /\ ~MoveLine(p)
    BY DEF SelectNewNode, MoveDrag, MoveLine
  <1>6. ASSUME NEW c \in Cursors, MoveHover(c) PROVE UNCHANGED figure
    BY <1>6 DEF MoveHover
  <1> QED
    BY <1>1, <1>2, <1>3, <1>4, <1>5, <1>6 DEF HandleEvent, MoveAction

-----------------------------------------------------------------------------
(* The end of an interaction, and the two ends of a loop.                  *)

(* The points of a complete figure are its nodes.                          *)
PointsAreNodes == Complete => nodePoints # NULL /\ nodePoints = nodesActors

LEMMA CompleteFigurePoints == IInv => PointsAreNodes
<1> SUFFICES ASSUME IInv, Complete PROVE nodePoints # NULL /\ nodePoints = nodesActors
  BY DEF PointsAreNodes
<1>1. NumberOfNodes >= 1 /\ WidgetState # "Define"
  BY SequenceFacts, ConstantFacts DEF Complete, IInv, CompleteWhenFinished, ClosedLoopIsPolygon
<1>2. /\ nodePoints # NULL /\ nodePoints \in Seq(Positions)
      /\ nodesActors \in Seq(Positions)
      /\ Len(nodePoints) = Len(nodesActors)
      /\ \A k \in 1 .. Len(nodesActors) : nodePoints[k] = nodesActors[k]
  BY <1>1, SequenceFacts DEF IInv, TypeOK, PointsFollowNodes, NumberOfNodes
<1>3. nodePoints = nodesActors
  BY <1>2, SeqEqual
<1>4. QED
  BY <1>2, <1>3

LEMMA NewFigurePoints == IInv' => PointsAreNodes'
BY CompleteFigurePoints, PTL

(* Three handlers invoke EndInteractionEvent, and they all finish.         *)
LEMMA EndFinishes ==
  ASSUME Next, invoked' = "EndInteractionEvent"
  PROVE  WidgetState' = "Finished"
<1>1. CASE SelectFirstNode
  BY <1>1 DEF SelectFirstNode
<1>2. ASSUME NEW p \in Picks, SelectFinalNode(p) \/ EndSelectAction(p)
      PROVE  WidgetState' = "Finished"
  BY <1>2 DEF SelectFinalNode, EndSelectAction
<1>3. \A c \in Cursors :
        /\ ~SelectComplete(c) /\ ~CtrlKeyPress(c)
        /\ \A p \in Picks : ~SelectNewNode(c, p) /\ ~MoveAction(c, p)
  BY DEF SelectComplete, CtrlKeyPress, SelectNewNode, MoveAction, MoveDrag, MoveLine, MoveHover
<1>4. ~SetEnabled
  BY DEF SetEnabled
<1>5. QED
  BY <1>1, <1>2, <1>3, <1>4 DEF Next, HandleEvent

(* The three outcomes of a delete in a closed loop.  Its two ends are one  *)
(* vertex, so deleting either only opens the loop.                         *)
LEMMA DeleteInLoop ==
  ASSUME IInv, WidgetState = "Finished", loopClosed, NEW c \in 0 .. NumberOfNodes - 1,
         deleteNode(c)
  PROVE  \/ /\ nodesActors' = Front(nodesActors)
            /\ loopClosed' = FALSE
         \/ /\ c \in 1 .. NumberOfNodes - 2
            /\ NumberOfNodes = 4
            /\ nodesActors' = Front(RemoveAt(nodesActors, c + 1))
            /\ loopClosed' = FALSE
         \/ /\ c \in 1 .. NumberOfNodes - 2
            /\ NumberOfNodes >= 5
            /\ nodesActors' = RemoveAt(nodesActors, c + 1)
            /\ loopClosed' = loopClosed
<1>1. NumberOfNodes \in Nat /\ NumberOfNodes >= 4
  BY SequenceFacts, ConstantFacts DEF IInv, ClosedLoopIsPolygon
<1>2. /\ NumberOfNodes # 0 /\ NumberOfNodes # 1 /\ NumberOfNodes > 1
      /\ ~(NumberOfNodes < Len(nodePoints)) /\ NumberOfNodes >= Len(nodePoints)
  BY <1>1, SequenceFacts
<1>3. Len(RemoveAt(nodesActors, c + 1)) = NumberOfNodes - 1
  BY <1>1, RemoveAtProperties DEF NumberOfNodes, IInv, TypeOK
<1> DEFINE n == NumberOfNodes
           l == Len(RemoveAt(nodesActors, c + 1))
<1>4. ASSUME c \notin {0, n - 1}
      PROVE  c \in 1 .. n - 2 /\ (n = 4 \/ n >= 5) /\ (n = 4 <=> l = 3)
  <2>1. n \in Nat /\ c \in 0 .. n - 1 /\ l = n - 1 /\ n >= 4
    BY <1>1, <1>3
  <2> HIDE DEF n, l
  <2>2. QED
    BY <1>4, <2>1
<1>5. CASE c \in {0, NumberOfNodes - 1}
  <2>1. PopNode(nodesActors, nodePoints) /\ loopClosed' = FALSE
    BY <1>2, <1>5 DEF deleteNode
  <2>2. QED
    BY <2>1 DEF PopNode
<1>6. CASE c \notin {0, NumberOfNodes - 1} /\ Len(RemoveAt(nodesActors, c + 1)) = 3
  <2>1. /\ nodesActors' = Front(RemoveAt(nodesActors, c + 1))
        /\ loopClosed' = FALSE
    <3>1. /\ PopNode(RemoveAt(nodesActors, c + 1), RemoveAt(nodePoints, c + 1))
          /\ loopClosed' = FALSE
      BY <1>2, <1>6 DEF deleteNode
    <3>2. QED
      BY <3>1 DEF PopNode
  <2>2. c \in 1 .. NumberOfNodes - 2 /\ NumberOfNodes = 4
    BY <1>4, <1>6
  <2>3. QED
    BY <2>1, <2>2, Zenon
<1>7. CASE c \notin {0, NumberOfNodes - 1} /\ Len(RemoveAt(nodesActors, c + 1)) # 3
  <2>1. /\ nodesActors' = RemoveAt(nodesActors, c + 1)
        /\ loopClosed' = loopClosed
    BY <1>2, <1>7 DEF deleteNode
  <2>2. c \in 1 .. NumberOfNodes - 2 /\ NumberOfNodes >= 5
    BY <1>4, <1>7
  <2>3. QED
    BY <2>1, <2>2, Zenon
<1>8. QED
  BY <1>5, <1>6, <1>7

(* A delete in a complete line opens it.                                   *)
LEMMA DeleteInLine ==
  ASSUME IInv, WidgetState = "Finished", ~loopClosed, NEW c \in 0 .. NumberOfNodes - 1,
         deleteNode(c)
  PROVE  /\ NumberOfNodes = MaxNumberOfNodes
         /\ nodesActors' = RemoveAt(nodesActors, c + 1)
         /\ loopClosed' = FALSE
<1>1. NumberOfNodes = MaxNumberOfNodes /\ NumberOfNodes > 1
  BY ConstantFacts DEF IInv, CompleteWhenFinished
<1>2. ~(NumberOfNodes < Len(nodePoints)) /\ NumberOfNodes # 1 /\ NumberOfNodes # 0
  BY <1>1, SequenceFacts
<1>3. nodesActors' = RemoveAt(nodesActors, c + 1) /\ loopClosed' = loopClosed
  BY <1>1, <1>2 DEF deleteNode
<1>4. loopClosed' = FALSE
  BY <1>3, Zenon DEF IInv, TypeOK
<1>5. QED
  BY <1>1, <1>3, <1>4

(* A delete in a growing line takes its last node.                         *)
LEMMA DeleteInGrowing ==
  ASSUME IInv, WidgetState \in {"Start", "Define"}, deleteNode(-1)
  PROVE  /\ NumberOfNodes <= 1 => nodesActors' = <<>>
         /\ NumberOfNodes > 1 => nodesActors' = Front(nodesActors)
         /\ loopClosed' = FALSE
<1>1. ~loopClosed /\ loopClosed \in BOOLEAN /\ NumberOfNodes \in Nat
  BY SequenceFacts DEF IInv, CompleteWhenFinished, TypeOK
<1>2. /\ NumberOfNodes = 0 => nodesActors' = nodesActors /\ loopClosed' = loopClosed
      /\ NumberOfNodes = 1 => nodesActors' = <<>> /\ loopClosed' = loopClosed
  BY DEF deleteNode, figure
<1>3. ASSUME NumberOfNodes > 1
      PROVE  nodesActors' = Front(nodesActors) /\ loopClosed' = loopClosed
  <2>1. WidgetState = "Define" /\ Len(nodePoints) = NumberOfNodes + 1
    BY <1>1, <1>3, SequenceFacts DEF IInv, StartIsEmpty
  <2>2. QED
    BY <1>1, <1>3, <2>1 DEF deleteNode
<1>4. NumberOfNodes <= 1 => NumberOfNodes = 0 \/ NumberOfNodes = 1
  BY <1>1
<1>5. loopClosed' = loopClosed
  BY <1>1, <1>2, <1>3, <1>4
<1>6. loopClosed' = FALSE
  BY <1>1, <1>5, Zenon
<1>7. QED
  BY <1>1, <1>2, <1>3, <1>4, <1>6, SequenceFacts

(* Ctrl+Z keeps the two ends of a loop together: a loop that stays closed  *)
(* loses neither of them.                                                  *)
LEMMA CtrlKeyPressKeepsEnds ==
  ASSUME IInv, EndsMeet, NEW c \in Cursors, CtrlKeyPress(c)
  PROVE  EndsMeet'
<1> SUFFICES ASSUME loopClosed' PROVE EndsMeet'
  BY DEF EndsMeet
<1>1. nodesActors \in Seq(Positions) /\ NumberOfNodes \in Nat
  BY SequenceFacts DEF IInv, TypeOK
<1>2. CASE WidgetState = "Finished" /\ c >= 0 /\ deleteNode(c)
  <2>1. c \in 0 .. NumberOfNodes - 1
    BY <1>1, <1>2 DEF Cursors, PickableNodes, Edge
  <2>2. CASE loopClosed
    <3>1. /\ c + 1 \in 2 .. NumberOfNodes - 1
          /\ NumberOfNodes >= 5
          /\ nodesActors' = RemoveAt(nodesActors, c + 1)
      <4>1. /\ c \in 1 .. NumberOfNodes - 2 /\ NumberOfNodes >= 5
            /\ nodesActors' = RemoveAt(nodesActors, c + 1)
        BY <1>2, <2>1, <2>2, DeleteInLoop
      <4>2. QED
        BY <1>1, <4>1
    <3>2. /\ Len(nodesActors') = Len(nodesActors) - 1
          /\ nodesActors'[1] = nodesActors[1]
          /\ nodesActors'[Len(nodesActors) - 1] = nodesActors[Len(nodesActors)]
      <4> DEFINE n == Len(nodesActors)
                 i == c + 1
      <4>1. n \in Nat /\ i \in 2 .. n - 1 /\ n >= 5 /\ i \in 1 .. n
        BY <1>1, <3>1 DEF NumberOfNodes
      <4>2. /\ Len(RemoveAt(nodesActors, i)) = n - 1
            /\ \A k \in 1 .. n - 1 :
                 RemoveAt(nodesActors, i)[k] =
                   IF k < i THEN nodesActors[k] ELSE nodesActors[k + 1]
        BY <1>1, <4>1, RemoveAtProperties
      <4>3. nodesActors' = RemoveAt(nodesActors, i)
        BY <3>1
      <4> HIDE DEF n, i
      <4>4. (n - 1) + 1 = n /\ ~(n - 1 < i) /\ 1 < i /\ 1 \in 1 .. n - 1 /\ n - 1 \in 1 .. n - 1
        BY <4>1
      <4>5. /\ Len(nodesActors') = n - 1
            /\ nodesActors'[1] = nodesActors[1]
            /\ nodesActors'[n - 1] = nodesActors[n]
        BY <4>2, <4>3, <4>4
      <4>6. QED
        BY <4>5 DEF n
    <3>3. QED
      BY <2>2, <3>2 DEF EndsMeet, NumberOfNodes
  <2>3. QED
    BY <1>2, <2>1, <2>2, DeleteInLine
<1>3. CASE reset
  BY <1>3 DEF reset
<1>4. CASE WidgetState \in {"Start", "Define"} /\ deleteNode(-1)
  BY <1>4, DeleteInGrowing
<1>5. CASE UNCHANGED figure
  BY <1>5 DEF figure, EndsMeet, NumberOfNodes
<1>6. QED
  BY <1>2, <1>3, <1>4, <1>5 DEF CtrlKeyPress

(* A drag moves both ends or neither.                                      *)
LEMMA MoveDragKeepsEnds ==
  ASSUME IInv, EndsMeet, NEW p \in Picks, MoveDrag(p)
  PROVE  EndsMeet'
<1>1. CASE UNCHANGED figure
  BY <1>1 DEF figure, EndsMeet, NumberOfNodes
<1>2. CASE ~UNCHANGED figure
  <2>1. /\ WidgetState = "Manipulate"
        /\ p # NoPick
        /\ nodesActors' = MoveTo(nodesActors, DraggedNodes, p)
        /\ loopClosed' = loopClosed
    BY <1>2 DEF MoveDrag, updateActiveNode
  <2>2. p \in Positions /\ nodesActors \in Seq(Positions) /\ NumberOfNodes \in Nat
    BY <2>1, SequenceFacts DEF Picks, IInv, TypeOK
  <2>3. /\ Len(nodesActors') = Len(nodesActors)
        /\ \A k \in 1 .. Len(nodesActors) :
             nodesActors'[k] = IF k - 1 \in DraggedNodes THEN p ELSE nodesActors[k]
    BY <2>1, <2>2, MoveToProperties
  <2>4. ASSUME loopClosed PROVE nodesActors'[1] = nodesActors'[Len(nodesActors')]
    <3>1. /\ NumberOfNodes >= 4
          /\ nodesActors[1] = nodesActors[NumberOfNodes]
      BY <2>2, <2>4, ConstantFacts DEF IInv, ClosedLoopIsPolygon, EndsMeet
    <3>2. (1 - 1 \in DraggedNodes) <=> (NumberOfNodes - 1 \in DraggedNodes)
      BY <2>2, <2>4, <3>1 DEF DraggedNodes
    <3>3. /\ nodesActors'[1] = IF 1 - 1 \in DraggedNodes THEN p ELSE nodesActors[1]
          /\ nodesActors'[NumberOfNodes] =
               IF NumberOfNodes - 1 \in DraggedNodes THEN p ELSE nodesActors[NumberOfNodes]
          /\ Len(nodesActors') = NumberOfNodes
      BY <2>2, <2>3, <3>1 DEF NumberOfNodes
    <3>4. QED
      BY <3>1, <3>2, <3>3
  <2>5. QED
    BY <2>1, <2>4 DEF EndsMeet, NumberOfNodes
<1>3. QED
  BY <1>1, <1>2

(* The copy that closes the loop is the first node, not the rubber band.   *)
LEMMA SelectFirstNodeKeepsEnds ==
  ASSUME IInv, SelectFirstNode
  PROVE  EndsMeet'
<1>1. /\ nodesActors' = Append(nodesActors, nodePoints[1])
      /\ NumberOfNodes \in Nat /\ NumberOfNodes >= 3
  BY SequenceFacts DEF SelectFirstNode, closeLoop, CanCloseLoop
<1>2. nodePoints[1] = nodesActors[1] /\ nodesActors[1] \in Positions
  <2>1. Figure(nodesActors, nodePoints, WidgetState)
    BY <1>1, FigureHolds
  <2>2. 1 \in 1 .. Len(nodesActors) /\ nodesActors \in Seq(Positions)
    BY <1>1, <2>1 DEF NumberOfNodes, Figure
  <2>3. QED
    BY <2>1, <2>2, ElementOfSeq DEF Figure
<1>3. /\ Len(nodesActors') = NumberOfNodes + 1
      /\ nodesActors'[1] = nodesActors[1]
      /\ nodesActors'[NumberOfNodes + 1] = nodesActors[1]
  BY <1>1, <1>2, AppendProperties DEF IInv, TypeOK, NumberOfNodes
<1>4. QED
  BY <1>3 DEF EndsMeet, NumberOfNodes

-----------------------------------------------------------------------------
(* The refinement.  More of the sequence operators, each by comparing the  *)
(* two sequences place by place.                                           *)

LEMMA FrontOfAppend ==
  ASSUME NEW S, NEW s \in Seq(S), NEW e \in S
  PROVE  Front(Append(s, e)) = s
<1> DEFINE t == Append(s, e)
<1>1. /\ t \in Seq(S) /\ Len(t) = Len(s) + 1 /\ Len(s) \in Nat
      /\ \A k \in 1 .. Len(s) : t[k] = s[k]
  BY AppendProperties, LenProperties
<1> HIDE DEF t
<1>2. /\ Front(t) \in Seq(S) /\ Len(Front(t)) = Len(s)
      /\ \A k \in 1 .. Len(s) : Front(t)[k] = s[k]
  BY <1>1, FrontProperties
<1>3. Front(t) = s
  BY <1>2, SeqEqual
<1>4. QED
  BY <1>3 DEF t

LEMMA FrontOfRemoveAt ==
  ASSUME NEW S, NEW s \in Seq(S), NEW i \in 1 .. Len(s) - 1
  PROVE  Front(RemoveAt(s, i)) = RemoveAt(Front(s), i)
<1> DEFINE n == Len(s)
           a == RemoveAt(s, i)
           b == Front(s)
<1>1. n \in Nat /\ i \in 1 .. n /\ n >= 2
  BY LenProperties
<1>2. /\ a \in Seq(S) /\ Len(a) = n - 1
      /\ \A k \in 1 .. n - 1 : a[k] = IF k < i THEN s[k] ELSE s[k + 1]
  BY <1>1, RemoveAtProperties
<1>3. /\ b \in Seq(S) /\ Len(b) = n - 1
      /\ \A k \in 1 .. n - 1 : b[k] = s[k]
  BY <1>1, FrontProperties
<1> HIDE DEF a, b
<1>4. /\ Front(a) \in Seq(S) /\ Len(Front(a)) = n - 2
      /\ \A k \in 1 .. n - 2 : Front(a)[k] = IF k < i THEN s[k] ELSE s[k + 1]
  <2>1. /\ Front(a) \in Seq(S) /\ Len(Front(a)) = Len(a) - 1
        /\ \A k \in 1 .. Len(a) - 1 : Front(a)[k] = a[k]
    BY <1>1, <1>2, FrontProperties
  <2>2. Len(Front(a)) = n - 2
    BY <1>1, <1>2, <2>1
  <2>3. ASSUME NEW k \in 1 .. n - 2
        PROVE  Front(a)[k] = IF k < i THEN s[k] ELSE s[k + 1]
    <3>1. k \in 1 .. n - 1 /\ k \in 1 .. Len(a) - 1
      BY <1>1, <1>2
    <3>2. Front(a)[k] = a[k]
      BY <2>1, <3>1
    <3>3. a[k] = IF k < i THEN s[k] ELSE s[k + 1]
      BY <1>2, <3>1
    <3>4. QED
      BY <3>2, <3>3
  <2>4. QED
    BY <2>1, <2>2, <2>3
<1>5. /\ RemoveAt(b, i) \in Seq(S) /\ Len(RemoveAt(b, i)) = n - 2
      /\ \A k \in 1 .. n - 2 : RemoveAt(b, i)[k] = IF k < i THEN s[k] ELSE s[k + 1]
  <2>1. i \in 1 .. Len(b)
    BY <1>3
  <2>2. /\ RemoveAt(b, i) \in Seq(S) /\ Len(RemoveAt(b, i)) = Len(b) - 1
        /\ \A k \in 1 .. Len(b) - 1 : RemoveAt(b, i)[k] = IF k < i THEN b[k] ELSE b[k + 1]
    BY <1>3, <2>1, RemoveAtProperties
  <2>3. Len(RemoveAt(b, i)) = n - 2
    BY <1>1, <1>3, <2>2
  <2>4. ASSUME NEW k \in 1 .. n - 2
        PROVE  RemoveAt(b, i)[k] = IF k < i THEN s[k] ELSE s[k + 1]
    <3>1. k \in 1 .. n - 1 /\ k + 1 \in 1 .. n - 1 /\ k \in 1 .. Len(b) - 1
      BY <1>1, <1>3
    <3>2. RemoveAt(b, i)[k] = IF k < i THEN b[k] ELSE b[k + 1]
      BY <2>2, <3>1
    <3>3. b[k] = s[k] /\ b[k + 1] = s[k + 1]
      BY <1>3, <3>1
    <3>4. QED
      BY <3>2, <3>3
  <2>5. QED
    BY <2>2, <2>3, <2>4
<1>6. Front(a) = RemoveAt(b, i)
  BY <1>4, <1>5, SeqEqual
<1>7. QED
  BY <1>6 DEF a, b

LEMMA FrontOfMoveTo ==
  ASSUME NEW s \in Seq(Positions), Len(s) >= 1, NEW moved, NEW p \in Positions
  PROVE  Front(MoveTo(s, moved, p)) = MoveTo(Front(s), moved, p)
<1> DEFINE n == Len(s)
           a == MoveTo(s, moved, p)
           b == Front(s)
<1>1. n \in Nat
  BY LenProperties
<1>2. /\ a \in Seq(Positions) /\ Len(a) = n
      /\ \A k \in 1 .. n : a[k] = IF k - 1 \in moved THEN p ELSE s[k]
  BY MoveToProperties
<1>3. /\ b \in Seq(Positions) /\ Len(b) = n - 1
      /\ \A k \in 1 .. n - 1 : b[k] = s[k]
  BY FrontProperties
<1> HIDE DEF a, b
<1>4. /\ Front(a) \in Seq(Positions) /\ Len(Front(a)) = n - 1
      /\ \A k \in 1 .. n - 1 : Front(a)[k] = IF k - 1 \in moved THEN p ELSE s[k]
  BY <1>1, <1>2, FrontProperties
<1>5. /\ MoveTo(b, moved, p) \in Seq(Positions) /\ Len(MoveTo(b, moved, p)) = n - 1
      /\ \A k \in 1 .. n - 1 : MoveTo(b, moved, p)[k] = IF k - 1 \in moved THEN p ELSE s[k]
  BY <1>3, MoveToProperties
<1>6. Front(a) = MoveTo(b, moved, p)
  BY <1>4, <1>5, SeqEqual
<1>7. QED
  BY <1>6 DEF a, b

(* What MoveTo does depends only on the places the sequence has.           *)
LEMMA MoveToWithin ==
  ASSUME NEW s \in Seq(Positions), NEW moved, NEW others, NEW p \in Positions,
         \A i \in 0 .. Len(s) - 1 : i \in moved <=> i \in others
  PROVE  MoveTo(s, moved, p) = MoveTo(s, others, p)
<1>1. Len(s) \in Nat
  BY LenProperties
<1>2. \A k \in 1 .. Len(s) : k - 1 \in moved <=> k - 1 \in others
  BY <1>1
<1>3. QED
  BY <1>2 DEF MoveTo

LEMMA MoveToNothing ==
  ASSUME NEW s \in Seq(Positions), NEW p \in Positions
  PROVE  MoveTo(s, {}, p) = s
<1>1. /\ MoveTo(s, {}, p) \in Seq(Positions) /\ Len(MoveTo(s, {}, p)) = Len(s)
      /\ \A k \in 1 .. Len(s) : MoveTo(s, {}, p)[k] = s[k]
  BY MoveToProperties
<1>2. QED
  BY <1>1, SeqEqual

(* The step of the editor that a handler is.                               *)
EditorStep == [Editor!Next]_Editor!vars

LEMMA StepStutters ==
  ASSUME Vertices' = Vertices, Complete' <=> Complete
  PROVE  EditorStep
BY DEF EditorStep, Editor!vars

LEMMA StepPlaces ==
  ASSUME NEW p \in Positions, ~Complete, Len(Vertices) < MaxNumberOfNodes,
         Vertices' = Append(Vertices, p),
         Complete' <=> Len(Vertices') = MaxNumberOfNodes
  PROVE  EditorStep
<1>1. Complete' = (Len(Vertices') = MaxNumberOfNodes)
  BY DEF Complete
<1>2. Editor!Place(p)
  BY <1>1 DEF Editor!Place
<1>3. QED
  BY <1>2 DEF EditorStep, Editor!Next

LEMMA StepMoves ==
  ASSUME NEW i \in DOMAIN Vertices, NEW p \in Positions, Complete, Complete',
         Vertices' = ReplaceAt(Vertices, i, p)
  PROVE  EditorStep
<1>1. Vertices' = Editor!ReplaceAt(Vertices, i, p)
  BY DEF ReplaceAt, Editor!ReplaceAt
<1>2. Complete' = Complete
  BY DEF Complete
<1>3. Editor!Move(i, p)
  BY <1>1, <1>2 DEF Editor!Move
<1>4. QED
  BY <1>3 DEF EditorStep, Editor!Next

LEMMA StepTakesOut ==
  ASSUME NEW i \in DOMAIN Vertices, Complete,
         Vertices' = RemoveAt(Vertices, i),
         Complete' <=> /\ CloseLoopOnFirstNode
                       /\ Len(Vertices) < MaxNumberOfNodes
                       /\ Len(Vertices') >= 3
  PROVE  EditorStep
<1>1. Complete' = (/\ CloseLoopOnFirstNode
                   /\ Len(Vertices) < MaxNumberOfNodes
                   /\ Len(Vertices') >= 3)
  <2>1. Complete' \in BOOLEAN
    BY DEF Complete
  <2>2. QED
    BY <2>1, Zenon
<1>2. Vertices' = Editor!RemoveAt(Vertices, i)
  BY DEF RemoveAt, Editor!RemoveAt
<1>3. Editor!TakeOut(i)
  BY <1>1, <1>2 DEF Editor!TakeOut
<1>4. QED
  BY <1>3 DEF EditorStep, Editor!Next

LEMMA StepClears ==
  ASSUME Vertices' = <<>>, ~Complete'
  PROVE  EditorStep
<1>1. Complete' = FALSE
  BY DEF Complete
<1>2. QED
  BY <1>1 DEF EditorStep, Editor!Next, Editor!Clear

(* The vertices of a figure that is open and of one that is closed.        *)
LEMMA VerticesFacts ==
  ASSUME IInv
  PROVE  /\ nodesActors \in Seq(Positions) /\ Vertices \in Seq(Positions)
         /\ Len(nodesActors) \in Nat
         /\ ~loopClosed => Vertices = nodesActors
         /\ loopClosed =>
              /\ CloseLoopOnFirstNode
              /\ Len(nodesActors) \in 4 .. MaxNumberOfNodes - 1
              /\ Vertices = Front(nodesActors)
              /\ Len(Vertices) = Len(nodesActors) - 1
         /\ Complete /\ ~loopClosed => Len(nodesActors) = MaxNumberOfNodes
         /\ ~Complete => ~loopClosed /\ Len(nodesActors) < MaxNumberOfNodes
<1>1. /\ nodesActors \in Seq(Positions) /\ Len(nodesActors) \in Nat
      /\ loopClosed => CloseLoopOnFirstNode /\ Len(nodesActors) \in 4 .. MaxNumberOfNodes - 1
      /\ Complete /\ ~loopClosed => Len(nodesActors) = MaxNumberOfNodes
      /\ ~Complete => ~loopClosed /\ Len(nodesActors) < MaxNumberOfNodes
  BY SequenceFacts
  DEF IInv, TypeOK, ClosedLoopIsPolygon, CompleteWhenFinished, Complete, NumberOfNodes
<1>2. CASE loopClosed
  <2>1. Len(nodesActors) >= 1
    BY <1>1, <1>2, ConstantFacts
  <2>2. /\ Front(nodesActors) \in Seq(Positions)
        /\ Len(Front(nodesActors)) = Len(nodesActors) - 1
    BY <1>1, <2>1, FrontProperties
  <2>3. QED
    BY <1>1, <1>2, <2>2 DEF Vertices
<1>3. CASE ~loopClosed
  BY <1>1, <1>3 DEF Vertices
<1>4. QED
  BY <1>2, <1>3

(* An event that leaves the figure alone, and the figure complete or not.  *)
LEMMA SilentStutters ==
  ASSUME UNCHANGED <<nodesActors, loopClosed>>, Complete' <=> Complete
  PROVE  EditorStep
<1>1. Vertices' = Vertices
  BY DEF Vertices
<1>2. QED
  BY <1>1, StepStutters

LEMMA SelectFinalNodeStep ==
  ASSUME IInv, NEW p \in Picks, SelectFinalNode(p)
  PROVE  EditorStep
<1>1. CASE p = NoPick
  BY <1>1, SilentStutters DEF SelectFinalNode, figure, Complete
<1>2. CASE p # NoPick
  <2>1. /\ p \in Positions
        /\ nodesActors' = Append(nodesActors, p) /\ loopClosed' = loopClosed
        /\ WidgetState = "Define" /\ WidgetState' = "Finished"
        /\ Len(nodesActors) + 1 >= MaxNumberOfNodes
    BY <1>2 DEF SelectFinalNode, addFinalNode, Picks, IsLastMissingNode, NumberOfNodes
  <2>2. ~Complete /\ Complete'
    BY <2>1 DEF Complete
  <2>3. ~loopClosed /\ Vertices = nodesActors /\ Len(nodesActors) < MaxNumberOfNodes
    BY <2>2, VerticesFacts
  <2>4. Vertices' = Append(Vertices, p)
    BY <2>1, <2>3 DEF Vertices
  <2>5. Len(Vertices') = MaxNumberOfNodes
    BY <2>1, <2>3, <2>4, VerticesFacts, AppendProperties, ConstantFacts
  <2>6. QED
    BY <2>1, <2>2, <2>3, <2>4, <2>5, StepPlaces
<1>3. QED
  BY <1>1, <1>2

LEMMA SelectFirstNodeStep ==
  ASSUME IInv, SelectFirstNode
  PROVE  EditorStep
<1>1. /\ WidgetState = "Define" /\ WidgetState' = "Finished"
      /\ loopClosed' = TRUE
      /\ nodesActors' = Append(nodesActors, nodePoints[1])
      /\ CloseLoopOnFirstNode /\ NumberOfNodes >= 3
  BY DEF SelectFirstNode, closeLoop, CanCloseLoop
<1>2. ~Complete /\ Complete' = TRUE
  BY <1>1 DEF Complete
<1>3. Vertices = nodesActors /\ nodesActors \in Seq(Positions) /\ Len(Vertices) >= 3
  BY <1>1, <1>2, VerticesFacts DEF NumberOfNodes
<1>4. nodePoints[1] \in Positions
  <2>1. nodePoints \in Seq(Positions) /\ 1 \in 1 .. Len(nodePoints)
    BY <1>1, SequenceFacts
  <2>2. QED
    BY <2>1, ElementOfSeq
<1>5. Vertices' = Vertices
  BY <1>1, <1>3, <1>4, FrontOfAppend DEF Vertices
<1>6. QED
  BY <1>1, <1>2, <1>3, <1>5 DEF EditorStep, Editor!Next, Editor!Close

LEMMA SelectNewNodeStep ==
  ASSUME IInv, NEW c \in Cursors, NEW p \in Picks, SelectNewNode(c, p)
  PROVE  EditorStep
<1>1. /\ WidgetState \in {"Start", "Define"} /\ WidgetState' = "Define"
      /\ WidgetState = "Define" => ~IsLastMissingNode
      /\ addNode(p)
  BY DEF SelectNewNode
<1>2. ~Complete /\ ~Complete'
  BY <1>1 DEF Complete
<1>3. CASE p = NoPick
  BY <1>1, <1>2, <1>3, SilentStutters DEF addNode, figure
<1>4. CASE p # NoPick
  <2>1. /\ p \in Positions
        /\ nodesActors' = Append(nodesActors, p) /\ loopClosed' = loopClosed
    BY <1>1, <1>4 DEF addNode, Picks
  <2>2. ~loopClosed /\ Vertices = nodesActors /\ Len(nodesActors) < MaxNumberOfNodes
    BY <1>2, VerticesFacts
  <2>3. Vertices' = Append(Vertices, p)
    BY <2>1, <2>2 DEF Vertices
  <2>4. Len(nodesActors) + 1 < MaxNumberOfNodes
    <3>1. CASE WidgetState = "Start"
      <4>1. Len(nodesActors) = 0
        BY <3>1, SequenceFacts DEF IInv, StartIsEmpty, NumberOfNodes
      <4>2. QED
        BY <4>1, ConstantFacts
    <3>2. CASE WidgetState = "Define"
      BY <1>1, <3>2, VerticesFacts, ConstantFacts DEF IsLastMissingNode, NumberOfNodes
    <3>3. QED
      BY <1>1, <3>1, <3>2
  <2>5. Len(Vertices') # MaxNumberOfNodes
    BY <2>1, <2>2, <2>3, <2>4, VerticesFacts, AppendProperties, ConstantFacts
  <2>6. QED
    BY <1>2, <2>1, <2>2, <2>3, <2>5, StepPlaces
<1>5. QED
  BY <1>3, <1>4

(* A vertex that moves, where the nodes of a set move: the copy that closes*)
(* a loop counts for nothing.                                              *)
LEMMA MoveStep ==
  ASSUME IInv, Complete, Complete', NEW p \in Positions, NEW moved,
         nodesActors' = MoveTo(nodesActors, moved, p), loopClosed' = loopClosed,
         NEW i \in 0 .. NumberOfNodes - 1,
         \/ moved = {i}
         \/ loopClosed /\ i = 0 /\ moved = {0, NumberOfNodes - 1}
  PROVE  EditorStep
<1>1. /\ nodesActors \in Seq(Positions) /\ Vertices \in Seq(Positions)
      /\ NumberOfNodes \in Nat
      /\ ~loopClosed => Vertices = nodesActors /\ Len(Vertices) = NumberOfNodes
      /\ loopClosed => /\ NumberOfNodes >= 4
                       /\ Vertices = Front(nodesActors)
                       /\ Len(Vertices) = NumberOfNodes - 1
  BY VerticesFacts, ConstantFacts DEF NumberOfNodes
<1>2. Vertices' = MoveTo(Vertices, moved, p)
  <2>1. CASE loopClosed
    <3>1. Len(nodesActors) >= 1
      BY <1>1, <2>1 DEF NumberOfNodes
    <3>2. Front(MoveTo(nodesActors, moved, p)) = MoveTo(Front(nodesActors), moved, p)
      BY <1>1, <3>1, FrontOfMoveTo
    <3>3. QED
      BY <1>1, <2>1, <3>2 DEF Vertices
  <2>2. CASE ~loopClosed
    BY <1>1, <2>2 DEF Vertices
  <2>3. QED
    BY <2>1, <2>2
<1>3. CASE i <= Len(Vertices) - 1
  <2>1. i + 1 \in 1 .. Len(Vertices) /\ (i + 1) - 1 = i
    BY <1>1, <1>3
  <2>2. MoveTo(Vertices, moved, p) = MoveTo(Vertices, {i}, p)
    <3>1. \A j \in 0 .. Len(Vertices) - 1 : j \in moved <=> j \in {i}
      BY <1>1
    <3>2. QED
      BY <1>1, <3>1, MoveToWithin
  <2>3. Vertices' = ReplaceAt(Vertices, i + 1, p)
    BY <1>1, <1>2, <2>1, <2>2, ReplaceIsMove
  <2>4. i + 1 \in DOMAIN Vertices
    BY <1>1, <2>1, LenProperties
  <2>5. QED
    BY <2>3, <2>4, StepMoves
<1>4. CASE ~(i <= Len(Vertices) - 1)
  <2>1. \A j \in 0 .. Len(Vertices) - 1 : j \in moved <=> j \in {}
    BY <1>1, <1>4
  <2>2. MoveTo(Vertices, moved, p) = Vertices
    BY <1>1, <2>1, MoveToWithin, MoveToNothing
  <2>3. QED
    BY <1>2, <2>2, StepStutters
<1>5. QED
  BY <1>3, <1>4

LEMMA MoveDragStep ==
  ASSUME IInv, NEW p \in Picks, MoveDrag(p)
  PROVE  EditorStep
<1>1. WidgetState = "Manipulate" /\ WidgetState' = "Manipulate"
  BY DEF MoveDrag
<1>2. Complete /\ Complete'
  BY <1>1 DEF Complete
<1>3. CASE UNCHANGED figure
  BY <1>2, <1>3, SilentStutters DEF figure
<1>4. CASE ~UNCHANGED figure
  <2>1. /\ p # NoPick
        /\ nodesActors' = MoveTo(nodesActors, DraggedNodes, p)
        /\ loopClosed' = loopClosed
    BY <1>4 DEF MoveDrag, updateActiveNode
  <2>2. p \in Positions /\ indexActiveNode \in 0 .. NumberOfNodes - 1
    <3>1. indexActiveNode + 1 \in 1 .. NumberOfNodes /\ NumberOfNodes \in Nat
      BY <1>1, DragFacts, SequenceFacts DEF NumberOfNodes
    <3>2. indexActiveNode \in Int
      BY DEF IInv, TypeOK
    <3>3. QED
      BY <2>1, <3>1, <3>2 DEF Picks
  <2>3. CASE loopClosed /\ indexActiveNode \in {0, NumberOfNodes - 1}
    <3>1. DraggedNodes = {0, NumberOfNodes - 1}
      BY <2>3 DEF DraggedNodes
    <3>2. 0 \in 0 .. NumberOfNodes - 1
      BY <2>2, SequenceFacts
    <3>3. QED
      BY <1>2, <2>1, <2>2, <2>3, <3>1, <3>2, MoveStep
  <2>4. CASE ~(loopClosed /\ indexActiveNode \in {0, NumberOfNodes - 1})
    <3>1. DraggedNodes = {indexActiveNode}
      BY <2>4 DEF DraggedNodes
    <3>2. QED
      BY <1>2, <2>1, <2>2, <3>1, MoveStep
  <2>5. QED
    BY <2>3, <2>4
<1>5. QED
  BY <1>3, <1>4

LEMMA EndSelectActionStep ==
  ASSUME IInv, NEW p \in Picks, EndSelectAction(p)
  PROVE  EditorStep
<1>1. WidgetState = "Manipulate" /\ WidgetState' = "Finished"
  BY DEF EndSelectAction
<1>2. Complete /\ Complete'
  BY <1>1 DEF Complete
<1>3. CASE UNCHANGED figure
  BY <1>2, <1>3, SilentStutters DEF figure
<1>4. CASE ~UNCHANGED figure
  <2>1. /\ p # NoPick
        /\ nodesActors' = ReplaceAt(nodesActors, indexActiveNode + 1, p)
        /\ loopClosed' = loopClosed
    BY <1>4 DEF EndSelectAction, finishUpdateActiveNode
  <2>2. /\ indexActiveNode + 1 \in 1 .. Len(nodesActors)
        /\ nodesActors \in Seq(Positions) /\ p \in Positions
    BY <1>1, <2>1, DragFacts DEF Picks, Figure
  <2>3. indexActiveNode \in 0 .. NumberOfNodes - 1 /\ (indexActiveNode + 1) - 1 = indexActiveNode
    BY <2>2, SequenceFacts DEF IInv, TypeOK, NumberOfNodes
  <2>4. nodesActors' = MoveTo(nodesActors, {indexActiveNode}, p)
    BY <2>1, <2>2, <2>3, ReplaceIsMove
  <2>5. QED
    BY <1>2, <2>1, <2>2, <2>3, <2>4, MoveStep
<1>5. QED
  BY <1>3, <1>4

(* A delete takes a vertex out, opens the loop, or takes the last back.    *)
LEMMA DeleteStep ==
  ASSUME IInv, WidgetState = "Finished", NEW c \in 0 .. NumberOfNodes - 1,
         deleteNode(c), WidgetState' = StateAfterDelete
  PROVE  EditorStep
<1>1. Complete
  BY DEF Complete
<1>2. /\ nodesActors \in Seq(Positions) /\ NumberOfNodes \in Nat
      /\ NumberOfNodes = Len(nodesActors) /\ c + 1 \in Int
  BY VerticesFacts DEF NumberOfNodes
<1>3. ASSUME loopClosed' = FALSE, Len(nodesActors') < MaxNumberOfNodes
      PROVE  ~Complete'
  BY <1>3 DEF Complete, StateAfterDelete
<1>4. CASE loopClosed
  <2>1. /\ CloseLoopOnFirstNode /\ NumberOfNodes \in 4 .. MaxNumberOfNodes - 1
        /\ Vertices = Front(nodesActors) /\ Len(Vertices) = NumberOfNodes - 1
        /\ Vertices \in Seq(Positions)
    BY <1>2, <1>4, VerticesFacts
  <2>2. CASE nodesActors' = Front(nodesActors) /\ loopClosed' = FALSE
    <3>1. Vertices' = Vertices
      BY <2>1, <2>2 DEF Vertices
    <3>2. Len(nodesActors') < MaxNumberOfNodes
      BY <1>2, <2>1, <2>2, ConstantFacts
    <3>3. ~Complete'
      BY <1>3, <2>2, <3>2, Zenon
    <3>4. Complete' = FALSE
      BY <3>3 DEF Complete
    <3>5. QED
      BY <1>1, <2>1, <3>1, <3>4 DEF EditorStep, Editor!Next, Editor!Open
  <2>3. ASSUME c \in 1 .. NumberOfNodes - 2
        PROVE  /\ c + 1 \in 1 .. Len(nodesActors) - 1
               /\ c + 1 \in DOMAIN Vertices
               /\ Front(RemoveAt(nodesActors, c + 1)) = RemoveAt(Vertices, c + 1)
               /\ Len(RemoveAt(Vertices, c + 1)) = NumberOfNodes - 2
    <3>1. c + 1 \in 1 .. Len(nodesActors) - 1 /\ c + 1 \in 1 .. Len(Vertices)
      BY <1>2, <2>1, <2>3
    <3>2. Front(RemoveAt(nodesActors, c + 1)) = RemoveAt(Vertices, c + 1)
      BY <1>2, <2>1, <3>1, FrontOfRemoveAt
    <3>3. Len(RemoveAt(Vertices, c + 1)) = Len(Vertices) - 1 /\ c + 1 \in DOMAIN Vertices
      BY <2>1, <3>1, RemoveAtProperties, LenProperties
    <3>4. QED
      BY <1>2, <2>1, <3>1, <3>2, <3>3
  <2>4. CASE /\ c \in 1 .. NumberOfNodes - 2 /\ NumberOfNodes = 4
             /\ nodesActors' = Front(RemoveAt(nodesActors, c + 1))
             /\ loopClosed' = FALSE
    <3>1. Vertices' = RemoveAt(Vertices, c + 1) /\ Len(Vertices') = 2
      BY <2>3, <2>4 DEF Vertices
    <3>2. ~Complete'
      <4>1. Len(nodesActors') = 2
        BY <2>4, <3>1 DEF Vertices
      <4>2. Len(nodesActors') < MaxNumberOfNodes
        BY <4>1, <2>1, ConstantFacts
      <4>3. QED
        BY <1>3, <2>4, <4>2, Zenon
    <3>3. c + 1 \in DOMAIN Vertices
      BY <2>3, <2>4, Zenon
    <3>4. ~(Len(Vertices') >= 3)
      <4>1. Len(Vertices') = 2
        BY <3>1
      <4>2. QED
        BY ONLY <4>1
    <3>5. QED
      BY <1>1, <3>1, <3>2, <3>3, <3>4, StepTakesOut
  <2>5. CASE /\ c \in 1 .. NumberOfNodes - 2 /\ NumberOfNodes >= 5
             /\ nodesActors' = RemoveAt(nodesActors, c + 1)
             /\ loopClosed' = loopClosed
    <3>1. Vertices' = RemoveAt(Vertices, c + 1) /\ Len(Vertices') = NumberOfNodes - 2
      BY <1>4, <2>3, <2>5 DEF Vertices
    <3>2. Complete'
      <4>1. Len(nodesActors') # 0
        BY <1>2, <2>1, <2>3, <2>5, RemoveAtProperties
      <4>2. QED
        BY <1>4, <2>5, <4>1 DEF Complete, StateAfterDelete
    <3>3. Len(Vertices') >= 3 /\ Len(Vertices) < MaxNumberOfNodes
      BY <1>2, <2>1, <2>5, <3>1, ConstantFacts
    <3>4. QED
      BY <1>1, <2>1, <2>3, <2>5, <3>1, <3>2, <3>3, StepTakesOut
  <2>6. QED
    BY <1>4, <2>2, <2>4, <2>5, DeleteInLoop
<1>5. CASE ~loopClosed
  <2>1. /\ NumberOfNodes = MaxNumberOfNodes
        /\ nodesActors' = RemoveAt(nodesActors, c + 1) /\ loopClosed' = FALSE
    BY <1>5, DeleteInLine
  <2>2. Vertices = nodesActors /\ Vertices' = RemoveAt(Vertices, c + 1)
    BY <1>5, <2>1 DEF Vertices
  <2>3. c + 1 \in 1 .. Len(nodesActors)
    BY <1>2
  <2>4. Len(nodesActors') < MaxNumberOfNodes
    <3>1. Len(RemoveAt(nodesActors, c + 1)) = Len(nodesActors) - 1
      BY <1>2, <2>3, RemoveAtProperties
    <3>2. QED
      BY <1>2, <2>1, <3>1, ConstantFacts
  <2>5. ~Complete' /\ ~(Len(Vertices) < MaxNumberOfNodes)
    <3>1. ~Complete'
      BY <1>3, <2>1, <2>4, Zenon
    <3>2. ~(Len(Vertices) < MaxNumberOfNodes)
      <4>1. Len(Vertices) = MaxNumberOfNodes
        BY <1>2, <2>1, <2>2
      <4>2. QED
        BY <4>1, ConstantFacts
    <3>3. QED
      BY <3>1, <3>2
  <2>6. c + 1 \in DOMAIN Vertices
    BY <1>2, <2>2, <2>3, LenProperties
  <2>7. QED
    BY <1>1, <2>2, <2>5, <2>6, StepTakesOut
<1>6. QED
  BY <1>4, <1>5

LEMMA UndoStep ==
  ASSUME IInv, WidgetState \in {"Start", "Define"}, deleteNode(-1),
         WidgetState' = StateAfterDelete
  PROVE  EditorStep
<1>1. ~Complete
  BY DEF Complete
<1>2. /\ nodesActors \in Seq(Positions) /\ NumberOfNodes \in Nat
      /\ NumberOfNodes = Len(nodesActors) /\ NumberOfNodes < MaxNumberOfNodes
      /\ Vertices = nodesActors
  BY <1>1, VerticesFacts DEF NumberOfNodes
<1>3. Vertices' = nodesActors'
  BY DeleteInGrowing DEF Vertices
<1>4. ASSUME Len(nodesActors') < MaxNumberOfNodes PROVE ~Complete'
  BY <1>4, DeleteInGrowing DEF Complete, StateAfterDelete
<1>5. CASE NumberOfNodes <= 1
  <2>1. nodesActors' = <<>>
    BY <1>5, DeleteInGrowing
  <2>2. ~Complete'
    BY <1>4, <2>1, EmptySeq, ConstantFacts
  <2>3. QED
    BY <1>3, <2>1, <2>2, StepClears
<1>6. CASE NumberOfNodes > 1
  <2>1. nodesActors' = Front(nodesActors) /\ nodesActors # <<>>
    <3>1. NumberOfNodes # 0
      BY <1>2, <1>6
    <3>2. QED
      BY <1>6, <3>1, DeleteInGrowing, SequenceFacts
  <2>2. Len(nodesActors') = Len(nodesActors) - 1
    BY <1>2, <1>6, <2>1, FrontProperties
  <2>3. Complete' = FALSE
    <3>1. Len(nodesActors') < MaxNumberOfNodes
      BY <1>2, <2>2, ConstantFacts
    <3>2. QED
      BY <1>4, <3>1 DEF Complete
  <2>4. Vertices' = Editor!Front(Vertices)
    BY <1>2, <1>3, <2>1 DEF Front, Editor!Front
  <2>5. Complete' = Complete
    BY <1>1, <2>3 DEF Complete
  <2>6. QED
    BY <1>1, <1>2, <2>1, <2>4, <2>5 DEF EditorStep, Editor!Next, Editor!TakeBack
<1>7. QED
  BY <1>2, <1>5, <1>6

LEMMA ResetStep ==
  ASSUME reset, WidgetState' \notin {"Manipulate", "Finished"}
  PROVE  EditorStep
<1>1. Vertices' = <<>> /\ ~Complete'
  BY DEF reset, Vertices, Complete
<1>2. QED
  BY <1>1, StepClears

LEMMA CtrlKeyPressStep ==
  ASSUME IInv, NEW c \in Cursors, CtrlKeyPress(c)
  PROVE  EditorStep
<1>1. WidgetState' = StateAfterDelete
  BY DEF CtrlKeyPress
<1>2. CASE WidgetState = "Finished" /\ c >= 0 /\ deleteNode(c)
  <2>1. c \in 0 .. NumberOfNodes - 1
    BY <1>2, SequenceFacts DEF Cursors, PickableNodes, Edge
  <2>2. QED
    BY <1>1, <1>2, <2>1, DeleteStep
<1>3. CASE reset
  <2>1. Len(nodesActors') = 0 /\ ~loopClosed'
    BY <1>3, EmptySeq DEF reset
  <2>2. WidgetState' = "Define"
    BY <1>1, <2>1, ConstantFacts DEF StateAfterDelete
  <2>3. QED
    BY <1>3, <2>2, ResetStep
<1>4. CASE WidgetState \in {"Start", "Define"} /\ deleteNode(-1)
  BY <1>1, <1>4, UndoStep
<1>5. CASE WidgetState = "Manipulate" /\ UNCHANGED <<figure, indexActiveNode, InteractionState>>
  <2>1. IInv' /\ Complete
    BY <1>5, CtrlKeyPressPreserves DEF Complete
  <2>2. Complete'
    <3>1. loopClosed' = loopClosed /\ Len(nodesActors') = Len(nodesActors)
      BY <1>5 DEF figure
    <3>2. loopClosed \/ Len(nodesActors) = MaxNumberOfNodes
      BY <2>1, VerticesFacts
    <3>3. loopClosed' \/ ~(Len(nodesActors') < MaxNumberOfNodes)
      BY <3>1, <3>2, ConstantFacts
    <3>4. QED
      BY <2>1, <3>3 DEF Complete, IInv, CompleteWhenFinished, NumberOfNodes
  <2>3. QED
    BY <1>5, <2>1, <2>2, SilentStutters DEF figure
<1>6. QED
  BY <1>2, <1>3, <1>4, <1>5 DEF CtrlKeyPress

(* Every event of the user is a step of the editor, or none.               *)
LEMMA NextIsEditorStep == IInv /\ [Next]_vars => [Editor!Next]_Editor!vars
<1> SUFFICES ASSUME IInv, [Next]_vars PROVE EditorStep
  BY DEF EditorStep
<1>1. CASE SetEnabled
  BY <1>1, ResetStep DEF SetEnabled
<1>2. ASSUME NEW c \in Cursors, SelectComplete(c) PROVE EditorStep
  <2>1. Complete' <=> Complete
    BY <1>2 DEF SelectComplete, Complete
  <2>2. QED
    BY <1>2, <2>1, SilentStutters DEF SelectComplete, figure
<1>3. ASSUME NEW c \in Cursors, NEW p \in Picks, MoveAction(c, p) PROVE EditorStep
  <2>1. CASE MoveDrag(p)
    BY <2>1, MoveDragStep
  <2>2. CASE MoveLine(p) \/ MoveHover(c)
    <3>1. Complete' <=> Complete
      BY <2>2 DEF MoveLine, MoveHover, Complete
    <3>2. QED
      BY <2>2, <3>1, SilentStutters DEF MoveLine, MoveHover, updateLine, figure
  <2>3. QED
    BY <1>3, <2>1, <2>2 DEF MoveAction
<1>4. CASE UNCHANGED vars
  BY <1>4, SilentStutters DEF vars, Complete
<1>5. QED
  BY <1>1, <1>2, <1>3, <1>4, SelectFirstNodeStep, SelectFinalNodeStep, EndSelectActionStep,
     CtrlKeyPressStep, SelectNewNodeStep DEF Next, HandleEvent

LEMMA InitIsEditorInit == Init => Editor!Init
BY DEF Init, Editor!Init, Vertices, Complete

-----------------------------------------------------------------------------
(* The variables keep their types.                                         *)
THEOREM TypeCorrect == Spec => []TypeOK
<1>1. IInv => TypeOK
  BY DEF IInv
<1>2. QED
  BY <1>1, InitEstablishes, NextPreserves, PTL DEF Spec

(* The points a tool reads are the nodes the user sees, at every step of   *)
(* every editing session.                                                  *)
THEOREM LineFollowsNodes == Spec => []PointsFollowNodes
<1>1. IInv => PointsFollowNodes
  BY DEF IInv
<1>2. QED
  BY <1>1, InitEstablishes, NextPreserves, PTL DEF Spec

(* hasFinished() is true of complete figures and of no others.             *)
THEOREM FinishedIsComplete == Spec => []CompleteWhenFinished
<1>1. IInv => CompleteWhenFinished
  BY DEF IInv
<1>2. QED
  BY <1>1, InitEstablishes, NextPreserves, PTL DEF Spec

(* A closed loop always bounds a polygon.                                  *)
THEOREM LoopIsPolygon == Spec => []ClosedLoopIsPolygon
<1>1. IInv => ClosedLoopIsPolygon
  BY DEF IInv
<1>2. QED
  BY <1>1, InitEstablishes, NextPreserves, PTL DEF Spec

(* nodesActors.at(indexActiveNode) is in range whenever a drag uses it.    *)
THEOREM DragIsSafe == Spec => []DragHasNode
<1>1. IInv => DragHasNode
  BY DEF IInv
<1>2. QED
  BY <1>1, InitEstablishes, NextPreserves, PTL DEF Spec

(* A tool that computes on EndInteractionEvent computes from a complete    *)
(* figure, and from the points of its nodes.                               *)
THEOREM EndIsOfCompleteFigure == Spec => EndMeansComplete
<1> DEFINE Means == invoked' = "EndInteractionEvent" =>
             /\ WidgetState' = "Finished"
             /\ loopClosed' \/ Len(nodesActors') = MaxNumberOfNodes
             /\ nodePoints' = nodesActors'
<1>1. IInv /\ [Next]_vars => [Means]_vars
  <2> SUFFICES ASSUME IInv, Next, invoked' = "EndInteractionEvent" PROVE Means
    OBVIOUS
  <2>1. IInv' /\ WidgetState' = "Finished"
    BY NextPreserves, EndFinishes
  <2>2. nodePoints' = nodesActors'
    BY <2>1, NewFigurePoints DEF PointsAreNodes, Complete
  <2>3. loopClosed' \/ Len(nodesActors') = MaxNumberOfNodes
    BY <2>1 DEF IInv, CompleteWhenFinished, NumberOfNodes
  <2>4. QED
    BY <2>1, <2>2, <2>3
<1>2. EndMeansComplete <=> [][Means]_vars
  BY DEF EndMeansComplete
<1>3. QED
  BY <1>1, <1>2, InitEstablishes, NextPreserves, PTL DEF Spec

(* Only the release of a drag parts the ends of a loop.                    *)
THEOREM OnlyReleaseParts == Spec => EndsPartOnlyOnRelease
<1> DEFINE Parts == EndsMeet /\ ~EndsMeet' => invoked' = "EndInteractionEvent" /\ loopClosed
<1>1. IInv /\ [Next]_vars => [Parts]_vars
  <2> SUFFICES ASSUME IInv, Next, EndsMeet, ~EndsMeet'
               PROVE  invoked' = "EndInteractionEvent" /\ loopClosed
    OBVIOUS
  <2>1. ~SelectFirstNode
    BY SelectFirstNodeKeepsEnds
  <2>2. ~SetEnabled
    BY DEF SetEnabled, reset, EndsMeet
  <2>3. ASSUME NEW p \in Picks, SelectFinalNode(p) PROVE FALSE
    <3>1. ~loopClosed /\ loopClosed' = loopClosed
      BY <2>3 DEF SelectFinalNode, addFinalNode, figure, IInv, CompleteWhenFinished
    <3>2. QED
      BY <3>1 DEF EndsMeet
  <2>4. ASSUME NEW p \in Picks, EndSelectAction(p)
        PROVE  invoked' = "EndInteractionEvent" /\ loopClosed
    <3>1. invoked' = "EndInteractionEvent" /\ loopClosed' = loopClosed
      BY <2>4 DEF EndSelectAction, finishUpdateActiveNode, figure
    <3>2. QED
      BY <3>1 DEF EndsMeet
  <2>5. ASSUME NEW c \in Cursors, SelectComplete(c) \/ CtrlKeyPress(c) PROVE FALSE
    <3>1. UNCHANGED figure => EndsMeet'
      BY DEF figure, EndsMeet, NumberOfNodes
    <3>2. QED
      BY <2>5, <3>1, CtrlKeyPressKeepsEnds DEF SelectComplete
  <2>6. ASSUME NEW c \in Cursors, NEW p \in Picks, SelectNewNode(c, p) PROVE FALSE
    <3>1. ~loopClosed /\ loopClosed' = loopClosed
      BY <2>6 DEF SelectNewNode, addNode, figure, IInv, CompleteWhenFinished
    <3>2. QED
      BY <3>1 DEF EndsMeet
  <2>7. ASSUME NEW c \in Cursors, NEW p \in Picks, MoveAction(c, p) PROVE FALSE
    <3>1. CASE MoveDrag(p)
      BY <3>1, MoveDragKeepsEnds
    <3>2. CASE MoveLine(p) \/ MoveHover(c)
      BY <3>2 DEF MoveLine, MoveHover, updateLine, figure, EndsMeet, NumberOfNodes
    <3>3. QED
      BY <2>7, <3>1, <3>2 DEF MoveAction
  <2>8. QED
    BY <2>1, <2>2, <2>3, <2>4, <2>5, <2>6, <2>7 DEF Next, HandleEvent
<1>2. EndsPartOnlyOnRelease <=> [][Parts]_vars
  BY DEF EndsPartOnlyOnRelease
<1>3. QED
  BY <1>1, <1>2, InitEstablishes, NextPreserves, PTL DEF Spec

(* The widget implements the abstract editor of a list of vertices, for any*)
(* number of nodes, any positions and with or without a closing loop.      *)
THEOREM WidgetImplementsEditor == Spec => ImplementsEditor
<1>1. QED
  BY InitEstablishes, NextPreserves, InitIsEditorInit, NextIsEditorStep, PTL
  DEF Spec, ImplementsEditor, Editor!Spec
=============================================================================
