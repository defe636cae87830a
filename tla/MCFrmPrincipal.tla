--------------------------- MODULE MCFrmPrincipal ---------------------------
(***************************************************************************)
(* The frame and the recursion of disableMeasureTools for TLC, side by     *)
(* side: what each has to satisfy speaks of its own variables only, so one *)
(* of the two runs and the other one rests where it started.               *)
(***************************************************************************)
EXTENDS FrmPrincipal, DisableMeasureTools

VARIABLE machine    \* "Frame" or "Call", the one that runs

MCInit ==
  /\ Init
  /\ CallInit
  /\ \/ machine = "Frame" /\ toolsOn = {} /\ toolToAvoid = NoTool
     \/ machine = "Call"

FrameStep == machine = "Frame" /\ Next /\ UNCHANGED <<callVars, machine>>
CallStep == machine = "Call" /\ CallNext /\ UNCHANGED <<vars, machine>>

MCNext == FrameStep \/ CallStep

MCSpec == MCInit /\ [][MCNext]_<<vars, callVars, machine>>
=============================================================================
