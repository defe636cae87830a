--------------------------- MODULE VRDialogProofs ---------------------------
(***************************************************************************)
(* The safety of the VR dialog and its thread, proved for any set of       *)
(* points.  The pointer m_pThread says whether there is a thread, because  *)
(* the destructor clears it inside the critical section; so a stop that    *)
(* comes back has outlived the thread, a second OnClose finds no timer     *)
(* only if no thread has ever run, and the dialog is deleted by its timer  *)
(* or without any thread at all.                                           *)
(***************************************************************************)
EXTENDS VRDialog, TLAPS

(* Who is inside the critical section is where the code takes it.          *)
LockHasOwner ==
  /\ m_pThreadCS = "GUI" <=> gui = "Exiting"
  /\ m_pThreadCS = "Worker" <=> worker = "Dying"

PointerMeansThread == m_pThread <=> worker \notin NoThread

(* The worker has made the timer once it is past the loop.                 *)
TimerMeansCompletion ==
  timer = "NULL" <=> worker \in BeforeLoop \cup {"Looping", "None"}

(* A close waits like a stop, and gives up only where there is no thread.  *)
CloseWaits ==
  /\ gui = "Constructing" => worker = "None"
  /\ gui \in {"Constructing", "Constructed"} => ~qtdClosePressed /\ ~ended
  /\ qtdClosePressed => \/ gui \in {"Stopping", "Exiting", "Waiting"}
                        \/ worker \in NoThread
  /\ ended => worker = "None"

DialogEndsLast ==
  /\ gui = "Asking" => timer = "Fired"
  /\ gui = "Deleted" => timer = "Fired" \/ worker = "None"

Inv ==
  /\ TypeOK
  /\ LockHasOwner
  /\ PointerMeansThread
  /\ ThreadPointerIsLive
  /\ TimerMeansCompletion
  /\ CloseWaits
  /\ DialogEndsLast

USE DEF LockHasOwner, PointerMeansThread, TimerMeansCompletion, CloseWaits,
        DialogEndsLast, ThreadPointerIsLive, BeforeLoop, AfterLoop, NoThread

LEMMA InitEstablishesInv == Init => Inv
  BY DEF Init, Inv, TypeOK

-----------------------------------------------------------------------------
(* The GUI thread's steps.                                                 *)
LEMMA HandlerKeepsInv ==
  ASSUME Inv,
         \/ Handler \/ OnTimerTimeout
         \/ PressStopVR \/ OnClose \/ AnswerKeep \/ AnswerDiscard
  PROVE  Inv'
  <1>1. CASE DoStartThread
    <2>1. CASE worker' = "Opening" /\ m_pThread' = TRUE
      BY <1>1, <2>1 DEF DoStartThread, Inv, TypeOK, dialog, results, closing, meshes, widget
    <2>2. CASE UNCHANGED <<worker, m_pThread>>
      BY <1>1, <2>2 DEF DoStartThread, Inv, TypeOK, dialog, results, closing, meshes, widget
    <2> QED
      BY <1>1, <2>1, <2>2 DEF DoStartThread
  <1>2. CASE SetCamera
    BY <1>2 DEF SetCamera, Inv, TypeOK, results, closing, meshes, widget
  <1>3. CASE EnterStop
    BY <1>3 DEF EnterStop, Inv, TypeOK, dialog, results, closing, meshes, widget
  <1>4. CASE StopVR
    BY <1>4 DEF StopVR, Inv, TypeOK, dialog, results, closing, meshes, widget
  <1>5. CASE WaitOver
    BY <1>5 DEF WaitOver, Inv, TypeOK, dialog, results, closing, meshes, widget
  <1>6. CASE OnTimerTimeout
    BY <1>6 DEF OnTimerTimeout, Inv, TypeOK, closing, meshes, widget
  <1>7. CASE PressStopVR
    BY <1>7 DEF PressStopVR, Inv, TypeOK, dialog, results, closing, meshes, widget
  <1>8. CASE OnClose
    BY <1>8 DEF OnClose, Inv, TypeOK, results, meshes, widget
  <1>9. CASE AnswerKeep
    BY <1>9 DEF AnswerKeep, Inv, TypeOK, results, closing, widget
  <1>10. CASE AnswerDiscard
    BY <1>10 DEF AnswerDiscard, Inv, TypeOK, dialog, results, closing, meshes, widget
  <1> QED
    BY <1>1, <1>2, <1>3, <1>4, <1>5, <1>6, <1>7, <1>8, <1>9, <1>10 DEF Handler

(* The worker's steps, from Entry to the end of the destructor.            *)
LEMMA EntryKeepsInv ==
  ASSUME Inv, Entry \/ DismissMessage \/ ExitInVR
  PROVE  Inv'
  <1>1. CASE OpenWindow
    BY <1>1 DEF OpenWindow, Inv, TypeOK, dialog, results, closing, meshes, widget
  <1>2. CASE PrepareView
    BY <1>2 DEF PrepareView, Inv, TypeOK, dialog, results, closing, meshes, widget
  <1>3. CASE Start
    BY <1>3 DEF Start, Inv, TypeOK, dialog, results, closing, meshes, widget
  <1>4. CASE LeaveLoop
    BY <1>4 DEF LeaveLoop, OnThreadCompletion, Inv, TypeOK, closing, meshes, widget
  <1>5. CASE ReturnFromEntry
    BY <1>5 DEF ReturnFromEntry, Inv, TypeOK, dialog, results, closing, meshes, widget
  <1>6. CASE EnterDestructor
    BY <1>6 DEF EnterDestructor, Inv, TypeOK, dialog, results, closing, meshes, widget
  <1>7. CASE LeaveDestructor
    BY <1>7 DEF LeaveDestructor, Inv, TypeOK, dialog, results, closing, meshes, widget
  <1>8. CASE DismissMessage
    BY <1>8 DEF DismissMessage, OnThreadCompletion, Inv, TypeOK, closing, meshes, widget
  <1>9. CASE ExitInVR
    BY <1>9 DEF ExitInVR, Inv, TypeOK, threads, dialog, results, closing, meshes, widget
  <1> QED
    BY <1>1, <1>2, <1>3, <1>4, <1>5, <1>6, <1>7, <1>8, <1>9 DEF Entry

(* The delete points widget, which the interactor's loop runs.             *)
LEMMA WidgetKeepsInv ==
  ASSUME Inv,
         \/ OnWidgetDeletePoints \/ deletePoints
         \/ \E idList \in SUBSET meshCopy : computePointsToDelete(idList)
  PROVE  Inv'
  <1>1. CASE OnWidgetDeletePoints
    BY <1>1 DEF OnWidgetDeletePoints, Inv, TypeOK, threads, results, closing, meshes
  <1>2. CASE deletePoints
    BY <1>2 DEF deletePoints, updatePoints, CopyIsPointCloud, Inv, TypeOK,
                threads, results, closing
  <1>3. ASSUME NEW idList \in SUBSET meshCopy, computePointsToDelete(idList)
        PROVE  Inv'
    BY <1>3 DEF computePointsToDelete, Inv, TypeOK, threads, results, closing, meshes
  <1> QED
    BY <1>1, <1>2, <1>3

LEMMA NextKeepsInv ==
  ASSUME Inv, [Next]_vars
  PROVE  Inv'
  <1>1. CASE Next
    BY <1>1, HandlerKeepsInv, EntryKeepsInv, WidgetKeepsInv DEF Next, User
  <1>2. CASE UNCHANGED vars
    BY <1>2 DEF Inv, TypeOK, vars, threads, dialog, results, closing, meshes, widget
  <1> QED
    BY <1>1, <1>2

(* The protocol of the two threads around the pointer, the critical        *)
(* section and the timer, in every order of their steps.                   *)
THEOREM DialogInvariant == Spec => []Inv
  <1>1. Init => Inv
    BY InitEstablishesInv
  <1>2. Inv /\ [Next]_vars => Inv'
    BY NextKeepsInv
  <1> QED
    BY <1>1, <1>2, PTL DEF Spec

-----------------------------------------------------------------------------
(* The state of the dialog and its thread keeps its type; the points the   *)
(* widget has selected are points of the copy.                             *)
THEOREM DialogTypeCorrect == Spec => []TypeOK
  <1>1. Inv => TypeOK
    BY DEF Inv
  <1> QED
    BY <1>1, DialogInvariant, PTL

(* While OnBtStopVR uses m_pThread, the detached thread has not deleted    *)
(* itself.                                                                 *)
THEOREM StopFindsThread == Spec => []ThreadPointerIsLive
  <1>1. Inv => ThreadPointerIsLive
    BY DEF Inv
  <1> QED
    BY <1>1, DialogInvariant, PTL

(* OnToolVR never deletes a dialog whose timer is still to fire.           *)
THEOREM TimerDiesWithDialog == Spec => []NoTimerWithoutDialog
  <1>1. Inv => NoTimerWithoutDialog
    BY DEF Inv, NoTimerWithoutDialog
  <1> QED
    BY <1>1, DialogInvariant, PTL

(* VR makes no change after the user has been asked for the changes.       *)
THEOREM QuestionComesLast == Spec => []ChangesEndBeforeQuestion
  <1>1. Inv => ChangesEndBeforeQuestion
    BY DEF Inv, TypeOK, ChangesEndBeforeQuestion
  <1> QED
    BY <1>1, DialogInvariant, PTL

(* OnBtStopVR returns only when there is no thread left.                   *)
THEOREM StopJoinsThread == Spec => StopLeavesNoThread
  <1>1. ASSUME Inv, Next
        PROVE  gui = "Waiting" /\ gui' # "Waiting" => worker' \in NoThread
    <2>1. CASE WaitOver
      BY <1>1, <2>1 DEF WaitOver, Inv
    <2>2. CASE gui' = gui
      BY <2>2
    <2>3. Handler /\ gui = "Waiting" => WaitOver
      BY DEF Handler, DoStartThread, SetCamera, EnterStop, StopVR
    <2>4. Entry => gui' = gui
      BY DEF Entry, OpenWindow, PrepareView, Start, LeaveLoop, ReturnFromEntry,
             EnterDestructor, LeaveDestructor
    <2>5. User \/ OnTimerTimeout => gui # "Waiting" \/ gui' = gui
      BY DEF User, PressStopVR, OnClose, AnswerKeep, AnswerDiscard, DismissMessage,
             ExitInVR, OnWidgetDeletePoints, deletePoints, computePointsToDelete,
             OnTimerTimeout, threads
    <2> QED
      BY <1>1, <2>1, <2>2, <2>3, <2>4, <2>5 DEF Next
  <1>2. UNCHANGED vars => gui' = gui
    BY DEF vars, threads
  <1>3. Inv /\ [Next]_vars
        => [gui = "Waiting" /\ gui' # "Waiting" => worker' \in NoThread]_vars
    BY <1>1, <1>2
  <1> QED
    BY <1>3, DialogInvariant, PTL DEF Spec, StopLeavesNoThread

(* A worker that finds its dialog freed has been overtaken by the timer:   *)
(* the other way to delete a dialog, a second close, waits for it.         *)
FreedByTimer == fault = "DialogFreed" => timer = "Fired"

(* A dialog that is closed by hand is never deleted under its thread.      *)
THEOREM OnlyTimerFreesEarly == Spec => []FreedByTimer
  <1>1. Init => FreedByTimer
    BY DEF Init, FreedByTimer
  <1>2. Inv /\ FreedByTimer /\ [Next]_vars => FreedByTimer'
    <2> SUFFICES ASSUME Inv, FreedByTimer, [Next]_vars
                 PROVE  FreedByTimer'
      OBVIOUS
    <2>1. CASE EnterDestructor \/ LeaveDestructor
      <3>1. timer' = timer
        BY <2>1 DEF EnterDestructor, LeaveDestructor, dialog, results
      <3>2. fault' # fault => gui = "Deleted" /\ worker # "None"
        BY <2>1 DEF EnterDestructor, LeaveDestructor
      <3> QED
        BY <3>1, <3>2 DEF FreedByTimer, Inv
    <2>2. CASE UNCHANGED vars
      BY <2>2 DEF vars, dialog, results, FreedByTimer
    <2>3. Handler \/ User \/ OnTimerTimeout \/ OpenWindow \/ PrepareView \/ Start
            \/ LeaveLoop \/ ReturnFromEntry
          => fault' = fault \/ fault' \in {"NullInteractor", "NullCamera"}
      BY DEF Handler, DoStartThread, SetCamera, EnterStop, StopVR, WaitOver,
             User, PressStopVR, OnClose, AnswerKeep, AnswerDiscard, DismissMessage,
             ExitInVR, OnWidgetDeletePoints, deletePoints, computePointsToDelete,
             OnTimerTimeout, OpenWindow, PrepareView, Start, LeaveLoop, ReturnFromEntry
    <2>4. CASE Next /\ ~(EnterDestructor \/ LeaveDestructor)
      <3>1. fault = "None"
        BY <2>4 DEF Next
      <3>2. fault' # "DialogFreed"
        BY <2>3, <2>4, <3>1 DEF Next, Entry
      <3> QED
        BY <3>2 DEF FreedByTimer
    <2> QED
      BY <2>1, <2>2, <2>4
  <1> QED
    BY <1>1, <1>2, DialogInvariant, PTL DEF Spec

(* When the thread is gone, nothing the user does with the dialog can go   *)
(* wrong any more.                                                         *)
NoFaultAfterThread == [][worker = "Gone" => fault' = fault]_vars

(* All three faults of the VR dialog need the thread: none comes after it. *)
THEOREM FaultsNeedThread == Spec => NoFaultAfterThread
  <1>1. ASSUME Inv, Next, worker = "Gone"
        PROVE  fault' = fault
    <2>1. ~StopVR
      BY <1>1 DEF Inv, StopVR
    <2>2. ~Entry
      BY <1>1 DEF Entry, OpenWindow, PrepareView, Start, LeaveLoop, ReturnFromEntry,
                  EnterDestructor, LeaveDestructor
    <2> QED
      BY <1>1, <2>1, <2>2
      DEF Next, Handler, DoStartThread, SetCamera, EnterStop, WaitOver,
          User, PressStopVR, OnClose, AnswerKeep, AnswerDiscard, DismissMessage,
          ExitInVR, OnWidgetDeletePoints, deletePoints, computePointsToDelete,
          OnTimerTimeout
  <1>2. Inv /\ [Next]_vars => [worker = "Gone" => fault' = fault]_vars
    BY <1>1
  <1> QED
    BY <1>2, DialogInvariant, PTL DEF Spec, NoFaultAfterThread

=============================================================================
