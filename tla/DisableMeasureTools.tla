------------------------ MODULE DisableMeasureTools ------------------------
(***************************************************************************)
(* FrmPrincipal::disableMeasureTools as it is written: it looks at the     *)
(* tools in turn and calls the handler of every enabled one but one, and   *)
(* those handlers begin by calling it back.  One action is one test of the *)
(* code, one call or one return; the stack can be exhausted.               *)
(***************************************************************************)
EXTENDS MeasureTools, SequencesExt

CONSTANT StackBound    \* calls of disableMeasureTools that can be nested

(* There is room for a call and for the one its handler makes.             *)
ASSUME StackAssumption == StackBound \in Nat /\ StackBound >= 2

VARIABLES
  toolsOn,             \* the tools that are enabled
  toolToAvoid,         \* the argument of the call that runs
  nextTool,            \* the tool it looks at next, in ToolOrder
  callers,             \* the calls it was called from, the outermost first
  callStatus,          \* "running", "returned" or "overflow"
  begun                \* history: tools and argument of the outermost call

callVars == <<toolsOn, toolToAvoid, nextTool, callers, callStatus, begun>>

(* The order in which the code looks at the tools.                         *)
ToolOrder == <<"Distance", "Angle", "Elevation", "CheckCam", "Volume",
               "Delete", "UpdateCamera", "Align">>

LastTool == 8

Arguments == Exclusive \cup {NoTool}

CallInit ==
  /\ toolsOn \in SUBSET Tools
  /\ toolToAvoid \in Arguments
  /\ nextTool = 1
  /\ callers = <<>>
  /\ callStatus = "running"
  /\ begun = [toolsOn |-> toolsOn, toolToAvoid |-> toolToAvoid]

(* The call looks at the i-th tool.                                        *)
LooksAt(i) == callStatus = "running" /\ nextTool = i

(* The test before the call of the tool's handler.                         *)
MustSwitch(tool) == tool \in toolsOn /\ tool # toolToAvoid

(* The handler of a tool toggles it.                                       *)
Toggled(tool) == IF tool \in toolsOn THEN toolsOn \ {tool} ELSE toolsOn \cup {tool}

(* The tool is off, or the one to avoid.                                   *)
PassTool(i) ==
  /\ LooksAt(i)
  /\ ~MustSwitch(ToolOrder[i])
  /\ nextTool' = i + 1
  /\ UNCHANGED <<toolsOn, toolToAvoid, callers, callStatus, begun>>

(* Fault: OnToolCheckCamVisibility calls back like the others.             *)
CheckCamCallsBack(i) ==
  /\ LooksAt(i)
  /\ ToolOrder[i] = "CheckCam"
  /\ MustSwitch("CheckCam")
  /\ Len(callers) + 1 < StackBound
  /\ callers' = Append(callers, [toolToAvoid |-> toolToAvoid, nextTool |-> i])
  /\ toolToAvoid' = "CheckCam"
  /\ nextTool' = 1
  /\ UNCHANGED <<toolsOn, callStatus, begun>>

(* OnToolCheckCamVisibility, the handler that does not call back.          *)
ToggleCheckCam(i) ==
  /\ LooksAt(i)
  /\ ToolOrder[i] = "CheckCam"
  /\ MustSwitch("CheckCam")
  /\ toolsOn' = Toggled("CheckCam")
  /\ nextTool' = i + 1
  /\ UNCHANGED <<toolToAvoid, callers, callStatus, begun>>

(* Any other handler, which first disables all tools but its own.          *)
CallHandler(i) ==
  /\ LooksAt(i)
  /\ ToolOrder[i] \in Exclusive
  /\ MustSwitch(ToolOrder[i])
  /\ Len(callers) + 1 < StackBound
  /\ callers' = Append(callers, [toolToAvoid |-> toolToAvoid, nextTool |-> i])
  /\ toolToAvoid' = ToolOrder[i]
  /\ nextTool' = 1
  /\ UNCHANGED <<toolsOn, callStatus, begun>>

Overflow(i) ==
  /\ LooksAt(i)
  /\ ToolOrder[i] \in Exclusive
  /\ MustSwitch(ToolOrder[i])
  /\ Len(callers) + 1 = StackBound
  /\ callStatus' = "overflow"
  /\ UNCHANGED <<toolsOn, toolToAvoid, nextTool, callers, begun>>

(* Fault: the handler leaves its tool as it was.                           *)
ReturnToHandlerOnly ==
  /\ LooksAt(LastTool + 1)
  /\ callers # <<>>
  /\ toolToAvoid' = Last(callers).toolToAvoid
  /\ nextTool' = Last(callers).nextTool + 1
  /\ callers' = Front(callers)
  /\ UNCHANGED <<toolsOn, callStatus, begun>>

(* The handler goes on with its own tool, which is the one its call was    *)
(* told to avoid, and returns to the call it was called from.              *)
ReturnToHandler ==
  /\ LooksAt(LastTool + 1)
  /\ callers # <<>>
  /\ toolsOn' = Toggled(toolToAvoid)
  /\ toolToAvoid' = Last(callers).toolToAvoid
  /\ nextTool' = Last(callers).nextTool + 1
  /\ callers' = Front(callers)
  /\ UNCHANGED <<callStatus, begun>>

Return ==
  /\ LooksAt(LastTool + 1)
  /\ callers = <<>>
  /\ callStatus' = "returned"
  /\ UNCHANGED <<toolsOn, toolToAvoid, nextTool, callers, begun>>

CallNext ==
  \/ ReturnToHandler \/ Return
  \/ \E i \in 1 .. LastTool :
       PassTool(i) \/ ToggleCheckCam(i) \/ CallHandler(i) \/ Overflow(i)

CallSpec == CallInit /\ [][CallNext]_callVars

-----------------------------------------------------------------------------

CallTypeOK ==
  /\ toolsOn \in SUBSET Tools
  /\ toolToAvoid \in Arguments
  /\ nextTool \in 1 .. LastTool + 1
  /\ callers \in Seq([toolToAvoid : Arguments, nextTool : 1 .. LastTool])
  /\ callStatus \in {"running", "returned", "overflow"}
  /\ begun \in [toolsOn : SUBSET Tools, toolToAvoid : Arguments]

(* The mutual recursion of disableMeasureTools and the handlers exhausts   *)
(* the stack for exactly those sets of enabled tools that hold two of the  *)
(* tools that exclude each other, whatever else is enabled, whichever tool *)
(* is spared and however large the stack is.                               *)
EndsUnlessRunsAway ==
  /\ callStatus = "returned" => ~RunsAway(begun.toolsOn)
  /\ callStatus = "overflow" => RunsAway(begun.toolsOn)

(* When the call returns, it has switched off every tool but the one in the*)
(* parameter, and has switched nothing on on its way ("Disable all tools   *)
(* but the tool in the parameter", FrmPrincipal.h).                        *)
DisablesAllButOne ==
  callStatus = "returned" =>
    toolsOn = begun.toolsOn \ SwitchedOff(begun.toolsOn, begun.toolToAvoid)

=============================================================================
