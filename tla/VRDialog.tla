------------------------------ MODULE VRDialog ------------------------------
(* The dialog that sends a mesh to the VR headset, and its worker thread:   *)
(* VRDialog.cpp.  The GUI thread and the worker share the dialog; only the  *)
(* pointer m_pThread is guarded, by the critical section m_pThreadCS.       *)
(* wxThread::Delete is external: as OnBtStopVR uses it, it asks the thread  *)
(* to end and returns; Entry never tests whether it has been asked.         *)
(* The interactor's Start and ExitCallback are external: Start clears Done  *)
(* and serves events until Done is set, ExitCallback sets it.               *)
CONSTANT Points   \* of the mesh, which is a point cloud: VR changes no other

VARIABLES
  gui,             \* where the GUI thread is
  worker,          \* where the worker thread is, "None" if it could not run
  m_pThread,       \* TRUE while the pointer is not NULL
  m_pThreadCS,     \* who is inside the critical section
  Done,            \* the interactor's flag
  timer,           \* "NULL" until the worker's completion makes it
  errorVR,
  camera2D,        \* TRUE once the dialog has its camera
  qtdClosePressed, \* TRUE when it is positive, which is all the code reads
  ended,           \* EndModal has been called by the running OnClose
  meshCopy,        \* the points of the copy, which the worker uses
  meshOriginal,    \* the points of the mesh in the main window
  deleting,        \* TRUE while the delete points widget is enabled
  selection,       \* the points it has selected, {} for NULL
  pointLocator,    \* TRUE while the widget has one
  fault            \* what undefined behaviour the program has run into

threads == <<gui, worker, m_pThread, m_pThreadCS>>
results == <<timer, errorVR>>
closing == <<qtdClosePressed, ended>>
widget == <<deleting, selection, pointLocator>>
meshes == <<meshCopy, meshOriginal>>
dialog == <<results, camera2D, closing, meshes, widget>>
vars == <<threads, Done, dialog, fault>>

BeforeLoop == {"Opening", "NoHeadset", "Styled", "Prepared"}
AfterLoop == {"Completed", "Failed", "Closing", "Dying"}
NoThread == {"None", "Gone"}

TypeOK ==
  /\ gui \in {"Constructing", "Constructed", "Modal", "Stopping", "Exiting",
              "Waiting", "Asking", "Deleted"}
  /\ worker \in BeforeLoop \cup {"Looping"} \cup AfterLoop \cup NoThread
  /\ m_pThreadCS \in {"Free", "GUI", "Worker"}
  /\ timer \in {"NULL", "Running", "Fired"}
  /\ {m_pThread, Done, errorVR, camera2D, qtdClosePressed, ended,
      deleting, pointLocator} \subseteq BOOLEAN
  /\ {meshCopy, meshOriginal} \subseteq SUBSET Points
  /\ selection \subseteq meshCopy
  /\ fault \in {"None", "NullInteractor", "NullCamera", "DialogFreed"}

Init ==
  /\ gui = "Constructing" /\ worker = "None"
  /\ m_pThread = FALSE /\ m_pThreadCS = "Free"
  /\ Done = FALSE
  /\ timer = "NULL" /\ errorVR = FALSE
  /\ camera2D = FALSE
  /\ qtdClosePressed = FALSE /\ ended = FALSE
  /\ meshCopy = Points /\ meshOriginal = Points
  /\ deleting = FALSE /\ selection = {} /\ pointLocator = FALSE
  /\ fault = "None"

-----------------------------------------------------------------------------
(* The GUI thread: OnToolVR, and the dialog's handlers.                     *)

(* The last call of the constructor.  If Run fails the thread object is     *)
(* deleted again.                                                           *)
DoStartThread ==
  /\ gui = "Constructing"
  /\ gui' = "Constructed"
  /\ \/ worker' = "Opening" /\ m_pThread' = TRUE
     \/ UNCHANGED <<worker, m_pThread>>
  /\ UNCHANGED <<m_pThreadCS, Done, dialog, fault>>

(* OnToolVR gives the dialog its camera when the thread already runs.       *)
SetCamera ==
  /\ gui = "Constructed"
  /\ gui' = "Modal"
  /\ camera2D' = TRUE
  /\ UNCHANGED <<worker, m_pThread, m_pThreadCS, Done, results, closing, meshes, widget, fault>>

PressStopVR ==
  /\ gui = "Modal"
  /\ gui' = "Stopping"
  /\ UNCHANGED <<worker, m_pThread, m_pThreadCS, Done, dialog, fault>>

OnCloseAnyway ==   \* Fault: whether the timer is pending is not asked
  /\ gui = "Modal"
  /\ ended' = qtdClosePressed
  /\ qtdClosePressed' = TRUE
  /\ gui' = "Stopping"
  /\ UNCHANGED <<worker, m_pThread, m_pThreadCS, Done, results, camera2D, meshes, widget, fault>>

OnClose ==
  /\ gui = "Modal"
  /\ ended' = (qtdClosePressed /\ timer = "NULL")
  /\ qtdClosePressed' = TRUE
  /\ gui' = "Stopping"
  /\ UNCHANGED <<worker, m_pThread, m_pThreadCS, Done, results, camera2D, meshes, widget, fault>>

(* OnBtStopVR enters the critical section and finds a thread, or leaves it. *)
EnterStop ==
  /\ gui = "Stopping"
  /\ m_pThreadCS = "Free"
  /\ gui' = IF m_pThread THEN "Exiting" ELSE "Waiting"
  /\ m_pThreadCS' = IF m_pThread THEN "GUI" ELSE "Free"
  /\ UNCHANGED <<worker, m_pThread, Done, dialog, fault>>

(* The style knows its interactor from SetInteractorStyle until Entry       *)
(* returns and the interactor with it.                                      *)
HasInteractor == worker \in {"Styled", "Prepared", "Looping", "Completed"}

StopVRInLock ==   \* Fault: the wait is inside the critical section too
  /\ gui = "Exiting"
  /\ HasInteractor
  /\ Done' = TRUE
  /\ gui' = "Waiting"
  /\ UNCHANGED <<worker, m_pThread, m_pThreadCS, dialog, fault>>

(* Inside the critical section: ThreadVR::stopVR and wxThread::Delete.      *)
StopVR ==
  /\ gui = "Exiting"
  /\ IF HasInteractor
     THEN /\ Done' = TRUE
          /\ gui' = "Waiting"
          /\ m_pThreadCS' = "Free"
          /\ UNCHANGED fault
     ELSE /\ fault' = "NullInteractor"
          /\ UNCHANGED <<gui, m_pThreadCS, Done>>
  /\ UNCHANGED <<worker, m_pThread, dialog>>

WaitOverAtOnce ==   \* Fault: no loop, Delete is trusted to have waited
  /\ gui = "Waiting"
  /\ m_pThreadCS = "Free"
  /\ gui' = IF ended THEN "Deleted" ELSE "Modal"
  /\ UNCHANGED <<worker, m_pThread, m_pThreadCS, Done, dialog, fault>>

(* The loop of OnBtStopVR ends, and with it the handler that called it; the *)
(* modal loop ends after a handler that has called EndModal.                *)
WaitOver ==
  /\ gui = "Waiting"
  /\ m_pThreadCS = "Free"
  /\ ~m_pThread
  /\ gui' = IF ended THEN "Deleted" ELSE "Modal"
  /\ UNCHANGED <<worker, m_pThread, m_pThreadCS, Done, dialog, fault>>

(* One second after the worker's completion.  OnToolVR deletes the dialog   *)
(* as soon as it has ended.                                                 *)
OnTimerTimeout ==
  /\ gui = "Modal"
  /\ timer = "Running"
  /\ timer' = "Fired"
  /\ gui' = IF errorVR THEN "Deleted" ELSE "Asking"
  /\ UNCHANGED <<worker, m_pThread, m_pThreadCS, Done, errorVR, camera2D, closing, meshes, widget, fault>>

(* Mesh::updateActors gives the original the copy's polydata; no actor of   *)
(* the copy has been moved, and there are as many as in the original.       *)
AnswerKeep ==
  /\ gui = "Asking"
  /\ meshOriginal' = meshCopy
  /\ gui' = "Deleted"
  /\ UNCHANGED <<worker, m_pThread, m_pThreadCS, Done, results, camera2D, closing, meshCopy, widget, fault>>

AnswerDiscard ==
  /\ gui = "Asking"
  /\ gui' = "Deleted"
  /\ UNCHANGED <<worker, m_pThread, m_pThreadCS, Done, dialog, fault>>

-----------------------------------------------------------------------------
(* The worker: ThreadVR::Entry, and the destructor wxWidgets calls after it.*)
(* The guard mesh == NULL of Entry is never met: setMesh precedes Run.      *)

(* GetHMD tells whether there is a headset; without one the worker shows a  *)
(* message box.                                                             *)
OpenWindow ==
  /\ worker = "Opening"
  /\ worker' \in {"Styled", "NoHeadset"}
  /\ UNCHANGED <<gui, m_pThread, m_pThreadCS, Done, dialog, fault>>

OnThreadCompletionUntimed(error) ==   \* Fault: the timer is made, not started
  /\ errorVR' = error
  /\ UNCHANGED timer

(* VRDialog::OnThreadCompletion, called by the worker.                      *)
OnThreadCompletion(error) ==
  /\ errorVR' = error
  /\ timer' = "Running"

DismissMessage ==
  /\ worker = "NoHeadset"
  /\ worker' = "Failed"
  /\ OnThreadCompletion(TRUE)
  /\ UNCHANGED <<gui, m_pThread, m_pThreadCS, Done, camera2D, closing, meshes, widget, fault>>

PrepareView ==
  /\ worker = "Styled"
  /\ IF camera2D
     THEN worker' = "Prepared" /\ UNCHANGED fault
     ELSE fault' = "NullCamera" /\ UNCHANGED worker
  /\ UNCHANGED <<gui, m_pThread, m_pThreadCS, Done, dialog>>

StartAfterCompletion ==   \* Fault: OnThreadCompletion before iren->Start()
  /\ worker = "Prepared"
  /\ worker' = "Looping"
  /\ Done' = FALSE
  /\ OnThreadCompletion(FALSE)
  /\ UNCHANGED <<gui, m_pThread, m_pThreadCS, camera2D, closing, meshes, widget, fault>>

Start ==
  /\ worker = "Prepared"
  /\ worker' = "Looping"
  /\ Done' = FALSE
  /\ UNCHANGED <<gui, m_pThread, m_pThreadCS, dialog, fault>>

(* The delete points widget in the loop of events: enabled and disabled from*)
(* the menu.  disable() hides the red points and keeps the selection.       *)
OnWidgetDeletePoints ==
  /\ worker = "Looping" /\ ~Done
  /\ deleting' = ~deleting
  /\ pointLocator' = (deleting => pointLocator)
  /\ UNCHANGED <<threads, Done, results, camera2D, closing, meshes, selection, fault>>

(* The trigger: the points inside the sphere join the selection, a sphere   *)
(* with none drops it.                                                      *)
computePointsToDelete(idList) ==
  /\ worker = "Looping" /\ ~Done
  /\ deleting /\ pointLocator
  /\ selection' = IF idList = {} THEN {} ELSE selection \cup idList
  /\ UNCHANGED <<threads, Done, results, camera2D, closing, meshes, deleting, pointLocator, fault>>

(* Mesh() leaves isPointCloud at its default and setMesh does not copy it.  *)
CopyIsPointCloud == FALSE

(* Mesh::updatePoints gives the mesh new points if it takes itself for a    *)
(* point cloud.                                                             *)
updatePoints(points) == IF CopyIsPointCloud THEN points ELSE meshCopy

deletePointsButSelection ==   \* Fault: the copy changes, the selection stays
  /\ worker = "Looping" /\ ~Done
  /\ deleting /\ selection # {}
  /\ meshCopy' = meshCopy \ selection
  /\ pointLocator' = (selection # meshCopy)
  /\ UNCHANGED <<threads, Done, results, camera2D, closing, meshOriginal, selection, deleting, fault>>

(* The grip button.  The widget builds a new locator unless all points are  *)
(* selected.                                                                *)
deletePoints ==
  /\ worker = "Looping" /\ ~Done
  /\ deleting /\ selection # {}
  /\ meshCopy' = updatePoints(meshCopy \ selection)
  /\ selection' = {}
  /\ pointLocator' = (selection # meshCopy)
  /\ UNCHANGED <<threads, Done, results, camera2D, closing, meshOriginal, deleting, fault>>

(* InteractorStyleVR: "Exit" in the headset's menu, or its button.          *)
ExitInVR ==
  /\ worker = "Looping"
  /\ Done' = TRUE
  /\ UNCHANGED <<threads, dialog, fault>>

LeaveLoop ==
  /\ worker = "Looping"
  /\ Done
  /\ worker' = "Completed"
  /\ OnThreadCompletion(FALSE)
  /\ UNCHANGED <<gui, m_pThread, m_pThreadCS, Done, camera2D, closing, meshes, widget, fault>>

(* Entry returns: window and interactor are destroyed.                      *)
ReturnFromEntry ==
  /\ worker \in {"Completed", "Failed"}
  /\ worker' = "Closing"
  /\ UNCHANGED <<gui, m_pThread, m_pThreadCS, Done, dialog, fault>>

EnterDestructorUnlocked ==   \* Fault: no locker in the destructor
  /\ worker = "Closing"
  /\ worker' = "Dying"
  /\ UNCHANGED <<gui, m_pThread, m_pThreadCS, Done, dialog, fault>>

(* ~ThreadVR reads the dialog, which may be gone by then.                   *)
EnterDestructor ==
  /\ worker = "Closing"
  /\ IF gui = "Deleted"
     THEN fault' = "DialogFreed" /\ UNCHANGED <<worker, m_pThreadCS>>
     ELSE /\ m_pThreadCS = "Free"
          /\ m_pThreadCS' = "Worker"
          /\ worker' = "Dying"
          /\ UNCHANGED fault
  /\ UNCHANGED <<gui, m_pThread, Done, dialog>>

LeaveDestructor ==
  /\ worker = "Dying"
  /\ IF gui = "Deleted"
     THEN fault' = "DialogFreed" /\ UNCHANGED <<worker, m_pThread, m_pThreadCS>>
     ELSE /\ m_pThread' = FALSE
          /\ m_pThreadCS' = "Free"
          /\ worker' = "Gone"
          /\ UNCHANGED fault
  /\ UNCHANGED <<gui, Done, dialog>>

-----------------------------------------------------------------------------
User == PressStopVR \/ OnClose \/ AnswerKeep \/ AnswerDiscard
        \/ DismissMessage \/ ExitInVR \/ OnWidgetDeletePoints \/ deletePoints
        \/ \E idList \in SUBSET meshCopy : computePointsToDelete(idList)

Handler == DoStartThread \/ SetCamera \/ EnterStop \/ StopVR \/ WaitOver

Entry == OpenWindow \/ PrepareView \/ Start \/ LeaveLoop
         \/ ReturnFromEntry \/ EnterDestructor \/ LeaveDestructor

(* Nothing is claimed of the program after undefined behaviour.             *)
Next == fault = "None" /\ (User \/ Handler \/ OnTimerTimeout \/ Entry)

(* The two threads run on.  The timer's message waits for the dialog to be  *)
(* idle, which repeated presses of the button can put off but not for ever. *)
(* The user owes nothing.                                                   *)
Fairness ==
  /\ WF_vars(fault = "None" /\ Handler)
  /\ WF_vars(fault = "None" /\ Entry)
  /\ SF_vars(fault = "None" /\ OnTimerTimeout)

Spec == Init /\ [][Next]_vars /\ Fairness

-----------------------------------------------------------------------------
(* Once OnBtStopVR has found m_pThread inside the critical section, the     *)
(* thread object lives until it has called stopVR and Delete on it: the     *)
(* detached thread cannot finish its destructor in between.                 *)
ThreadPointerIsLive == gui = "Exiting" => m_pThread /\ worker \notin NoThread

(* A press of "Stop VR" that comes back leaves no thread that could touch   *)
(* the dialog, which may be deleted from then on.                           *)
StopLeavesNoThread == [][gui = "Waiting" /\ gui' # "Waiting" => worker' \in NoThread]_vars

(* The dialog is never deleted with its timer pending: OnClose gives up     *)
(* only when no thread will ever complete.                                  *)
NoTimerWithoutDialog == gui = "Deleted" => timer # "Running"

(* When the user is asked whether to keep the changes, and when the         *)
(* original takes them, VR can make no further ones.                        *)
ChangesEndBeforeQuestion ==
  gui \in {"Asking", "Deleted"} => worker \in AfterLoop \cup NoThread

(* A stop the running interactor has seen brings the dialog back.           *)
StopInVREnds ==
  (gui = "Waiting" /\ worker = "Looping" /\ Done) ~> gui = "Modal"

(* When the thread is gone, whatever it ended of, the user is asked or the  *)
(* dialog closes.                                                           *)
DialogIsTold == worker = "Gone" ~> gui \in {"Asking", "Deleted"}

(* The help: 'If you want to exit the VR press the "Stop VR" button.'  A    *)
(* press that does not crash comes back.  Refuted: Start clears the flag of *)
(* a stop that came before it, and the GUI waits for ever.                  *)
StopVRExits == gui = "Waiting" ~> gui # "Waiting"
=============================================================================
