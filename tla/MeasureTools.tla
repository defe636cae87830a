---------------------------- MODULE MeasureTools ----------------------------
(***************************************************************************)
(* The tools of the main frame that disableMeasureTools switches, and what *)
(* a call of it amounts to.  FrmPrincipal::disableMeasureTools and the     *)
(* tools' handlers call each other; DisableMeasureTools translates that    *)
(* recursion, and has the two operators below as its result: they are the  *)
(* ones FrmPrincipal uses.                                                 *)
(***************************************************************************)
EXTENDS Naturals

(* In the order, and under the numbers, of FrmPrincipal.h.                 *)
Tools == {"Distance", "Angle", "Elevation", "CheckCam", "Volume", "Delete",
          "UpdateCamera", "Align"}

(* The tools whose own handler starts by disabling all the others.         *)
(* OnToolCheckCamVisibility is the one that does not.                      *)
Exclusive == Tools \ {"CheckCam"}

(* The argument -1: no tool is spared.                                     *)
NoTool == "NoTool"

(* Two exclusive tools switch each other off for ever: each handler, before*)
(* it reaches its own SetEnabled(false), disables "the others".            *)
RunsAway(enabled) ==
  \E t, u \in Exclusive : t # u /\ t \in enabled /\ u \in enabled

(* The tools that disableMeasureTools(toolToAvoid) switches off, when it   *)
(* returns at all.                                                         *)
SwitchedOff(enabled, toolToAvoid) == enabled \ {toolToAvoid}

=============================================================================
