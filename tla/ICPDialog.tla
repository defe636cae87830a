------------------------------ MODULE ICPDialog ------------------------------
(***************************************************************************)
(* Filters > ICP: the modal dialog of OnMenuICP, the std::thread it starts *)
(* to run ICP::executeICP, and the abort that kills this thread.           *)
(*                                                                         *)
(* Windows is external: TerminateThread stops the thread wherever it is,   *)
(* and a label set by the thread is written by the GUI's message loop, so  *)
(* only while no handler of the dialog runs.  Whether the progress window  *)
(* keeps the dialog's buttons from being pressed is not relied on.         *)
(***************************************************************************)
EXTENDS Naturals

CONSTANTS
  Params,         \* values of the parameters, all controls as one
  Matching,       \* those with "Start matching centroids"
  Default,        \* the one ICP.cpp initialises its statics with
  MaxIterations,  \* maxNumberOfIterations, at least 1 by its spin control
  MaxRuns,        \* bound of the model: threads started
  NULL,           \* no vtkTransform
  Identity        \* a new vtkTransform

ASSUME ICPAssumption ==
  /\ NULL \notin Nat /\ Identity \notin Nat /\ NULL # Identity
  /\ Default \in Params /\ Matching \subseteq Params
  /\ MaxIterations \in Nat \ {0}
  /\ MaxRuns \in Nat

VARIABLES
  gui,           \* where the GUI thread is
  closing,       \* what the running handler will give to EndModal
  worker,        \* where the thread is, "None" when it runs no longer
  threadICP,     \* TRUE while the pointer is not NULL
  iteration,     \* numberOfIterations
  run,           \* the threads started so far
  icpTransform,  \* ICP::T of the running executeICP: its run once anything
                 \* has gone into it, Identity before
  T,             \* the dialog's transform: the run that computed it,
                 \* Identity for one nothing has gone into, or NULL
  statusThread,  \* the label
  controls,      \* what the spin controls show
  parameters,    \* the statics of ICP
  killed,        \* where aborts have met the threads of this dialog
  refused,       \* Windows has refused the last call about the thread
  applied,       \* the transform OnMenuICP gave to the source mesh, or NULL
  stored,        \* history: the last run that stored its transform in this
                 \* dialog, 0 for none
  noPoints,      \* history: the runs that found no point to begin with
  fault          \* what undefined behaviour the program has run into

values == <<controls, parameters>>
computation == <<iteration, run, icpTransform>>
thread == <<worker, threadICP, computation, killed, refused>>
history == <<stored, noPoints>>
vars == <<gui, closing, thread, T, statusThread, values, applied, history, fault>>

(* From the creation of the thread to its last change of the dialog.       *)
Running == {"Reading", "Iterating", "Computed", "Allocated", "Stored"}

Init ==
  /\ gui = "Frame" /\ closing = "No"
  /\ worker = "None" /\ threadICP = FALSE
  /\ iteration = 0 /\ run = 0
  /\ icpTransform = Identity /\ T = NULL /\ statusThread = "stopped"
  /\ controls = Default /\ parameters = Default
  /\ killed = {} /\ refused = FALSE /\ applied = NULL
  /\ stored = 0 /\ noPoints = {}
  /\ fault = "None"

-----------------------------------------------------------------------------
(* The GUI thread                                                          *)

(* OnMenuICP: a new dialog shows the statics.                              *)
OpenDialog ==
  /\ gui = "Frame"
  /\ gui' = "Modal"
  /\ T' = NULL /\ applied' = NULL
  /\ statusThread' = "stopped"
  /\ controls' = parameters
  /\ killed' = {} /\ stored' = 0
  /\ UNCHANGED <<closing, worker, threadICP, computation, refused,
                 parameters, noPoints, fault>>

SetControls(p) ==
  /\ gui = "Modal"
  /\ controls' = p
  /\ UNCHANGED <<gui, closing, thread, T, statusThread, parameters, applied, history, fault>>

(* The statics are what executeICP stored there in the last run: Default   *)
(* brings those back, not the values they were initialised with.           *)
OnBtDefault ==
  /\ gui = "Modal"
  /\ controls' = parameters
  /\ UNCHANGED <<gui, closing, thread, T, statusThread, parameters, applied, history, fault>>

(* A thread that has ended keeps the next one from starting until it is    *)
(* aborted; the label says running all the same.                           *)
OnBtStartThread ==
  /\ gui = "Modal"
  /\ statusThread' = "running"
  /\ IF threadICP
     THEN UNCHANGED thread
     ELSE /\ run < MaxRuns
          /\ run' = run + 1
          /\ worker' = "Reading" /\ threadICP' = TRUE /\ iteration' = 0
          /\ UNCHANGED <<icpTransform, killed, refused>>
  /\ UNCHANGED <<gui, closing, T, values, applied, history, fault>>

OnBtAbortThread ==
  /\ gui = "Modal"
  /\ gui' = "Aborting" /\ closing' = "No"
  /\ UNCHANGED <<thread, T, statusThread, values, applied, history, fault>>

OnOK ==
  /\ gui = "Modal"
  /\ T # NULL
  /\ gui' = "Aborting" /\ closing' = "OK"
  /\ UNCHANGED <<thread, T, statusThread, values, applied, history, fault>>

(* Fault: a dialog given up leaves its thread alone.                       *)
OnCancelOnly ==
  /\ gui = "Modal"
  /\ gui' = "Returning" /\ closing' = "CANCEL"
  /\ UNCHANGED <<thread, T, statusThread, values, applied, history, fault>>

OnCancel ==
  /\ gui = "Modal"
  /\ gui' = "Aborting" /\ closing' = "CANCEL"
  /\ UNCHANGED <<thread, T, statusThread, values, applied, history, fault>>

(* OnBtAbortThread asks GetExitCodeThread whether the thread is active.  A *)
(* failure ends OnBtAbortThread with the thread as it was.                 *)
GetExitCode ==
  /\ gui = "Aborting"
  /\ \/ /\ threadICP
        /\ gui' = IF worker = "Ended" THEN "Terminating" ELSE "Suspending"
        /\ refused' = FALSE
     \/ threadICP /\ gui' = "Returning" /\ refused' = TRUE
     \/ ~threadICP /\ gui' = "Returning" /\ UNCHANGED refused
  /\ UNCHANGED <<closing, worker, threadICP, computation, killed, T, statusThread,
                 values, applied, history, fault>>

(* A thread that could not be suspended runs until it is terminated.       *)
SuspendFails ==
  /\ gui = "Suspending"
  /\ gui' = "Terminating"
  /\ UNCHANGED <<closing, thread, T, statusThread, values, applied, history, fault>>

(* Fault: the thread is joined, not terminated.                            *)
TerminateByJoin ==
  /\ gui \in {"Suspending", "Terminating"}
  /\ worker = "Ended"
  /\ worker' = "None" /\ threadICP' = FALSE
  /\ statusThread' = "stopped"
  /\ gui' = "Returning"
  /\ UNCHANGED <<closing, computation, killed, refused, T, values, applied, history, fault>>

(* The thread is suspended, or could not be, and terminated; its object is *)
(* detached and deleted.  One that could not be terminated runs on, or     *)
(* stays suspended, with nobody to wait for it.                            *)
Terminate ==
  /\ gui \in {"Suspending", "Terminating"}
  /\ \/ /\ worker' = "None"
        /\ killed' = killed \cup {worker}
        /\ UNCHANGED <<refused, fault>>
     \/ /\ worker # "Ended"
        /\ refused' = TRUE
        /\ fault' = "ThreadAtLarge"
        /\ UNCHANGED <<worker, killed>>
  /\ threadICP' = FALSE
  /\ statusThread' = "stopped"
  /\ gui' = "Returning"
  /\ UNCHANGED <<closing, computation, T, values, applied, history>>

(* The handler returns.  One that has called EndModal ends the dialog:     *)
(* OnMenuICP applies the transform and deletes the dialog, whose           *)
(* destructor deletes a thread object nobody has joined.                   *)
ReturnToModal ==
  /\ gui = "Returning" /\ closing = "No"
  /\ gui' = "Modal"
  /\ UNCHANGED <<closing, thread, T, statusThread, values, applied, history, fault>>

EndModal ==
  /\ gui = "Returning" /\ closing # "No"
  /\ gui' = "Frame"
  /\ applied' = IF closing = "OK" THEN T ELSE NULL
  /\ fault' = IF threadICP THEN "UnjoinedThreadDeleted" ELSE "None"
  /\ UNCHANGED <<closing, thread, T, statusThread, values, history>>

-----------------------------------------------------------------------------
(* The thread: ICPDialog::executeICP                                       *)

(* The parameters go to the statics, one by one.  ICP::executeICP begins   *)
(* with a new transform, into which goes the way from one centroid to the  *)
(* other, if this is asked for.                                            *)
ReadControls ==
  /\ worker = "Reading"
  /\ worker' = "Iterating"
  /\ parameters' = controls
  /\ icpTransform' = IF controls \in Matching THEN run ELSE Identity
  /\ UNCHANGED <<gui, closing, threadICP, iteration, run, killed, refused, T, statusThread,
                 controls, applied, history, fault>>

(* ICP::executeICP: an iteration concatenates its transform and is near    *)
(* enough, or the last one, or is followed by another.                     *)
Iterate ==
  /\ worker = "Iterating"
  /\ iteration' = iteration + 1
  /\ icpTransform' = run
  /\ \/ worker' = "Computed"
     \/ iteration' < MaxIterations /\ worker' = "Iterating"
  /\ UNCHANGED <<gui, closing, threadICP, run, killed, refused, T, statusThread, values,
                 applied, history, fault>>

(* An iteration finds no point near enough, and the thread goes on with    *)
(* the transform as it is; executeICP does not tell its caller.            *)
NoPointsLeft ==
  /\ worker = "Iterating"
  /\ worker' = "Computed"
  /\ noPoints' = IF iteration = 0 /\ parameters \notin Matching
                 THEN noPoints \cup {run}
                 ELSE noPoints
  /\ UNCHANGED <<gui, closing, threadICP, computation, killed, refused, T, statusThread, values,
                 applied, stored, fault>>

(* Fault: every run begins with a new transform of the dialog.             *)
AllocateTransformAnew ==
  /\ worker = "Computed"
  /\ worker' = "Allocated"
  /\ T' = Identity
  /\ UNCHANGED <<gui, closing, threadICP, computation, killed, refused, statusThread,
                 values, applied, history, fault>>

(* if (!T) T = vtkSmartPointer<vtkTransform>::New();                       *)
AllocateTransform ==
  /\ worker = "Computed"
  /\ worker' = "Allocated"
  /\ T' = IF T = NULL THEN Identity ELSE T
  /\ UNCHANGED <<gui, closing, threadICP, computation, killed, refused, statusThread,
                 values, applied, history, fault>>

(* T = icp.getTransform();                                                 *)
StoreTransform ==
  /\ worker = "Allocated"
  /\ worker' = "Stored"
  /\ T' = icpTransform
  /\ stored' = run
  /\ UNCHANGED <<gui, closing, threadICP, computation, killed, refused, statusThread,
                 values, applied, noPoints, fault>>

(* Fault: the label is set before the transform.                           *)
SetLabelEarly ==
  /\ worker = "Allocated" /\ gui = "Modal"
  /\ statusThread' = "stopped"
  /\ UNCHANGED <<gui, closing, thread, T, values, applied, history, fault>>

SetLabelStopped ==
  /\ worker = "Stored" /\ gui = "Modal"
  /\ worker' = "Telling"
  /\ statusThread' = "stopped"
  /\ UNCHANGED <<gui, closing, threadICP, computation, killed, refused, T, values, applied,
                 history, fault>>

(* The user dismisses the message boxes, and executeICP returns.           *)
DismissMessages ==
  /\ worker = "Telling"
  /\ worker' = "Ended"
  /\ UNCHANGED <<gui, closing, threadICP, computation, killed, refused, T, statusThread,
                 values, applied, history, fault>>

-----------------------------------------------------------------------------
User ==
  \/ OpenDialog \/ OnBtDefault \/ OnBtStartThread \/ OnBtAbortThread
  \/ OnOK \/ OnCancel \/ DismissMessages
  \/ \E p \in Params : SetControls(p)

Handler ==
  GetExitCode \/ SuspendFails \/ Terminate \/ ReturnToModal \/ EndModal

ExecuteICP ==
  \/ ReadControls \/ Iterate \/ NoPointsLeft
  \/ AllocateTransform \/ StoreTransform \/ SetLabelStopped

(* Nothing is claimed of the program after undefined behaviour.            *)
Next == fault = "None" /\ (User \/ Handler \/ ExecuteICP)

(* Both threads run on.  The label waits for the GUI to be idle, which     *)
(* presses of the buttons can put off but not for ever.                    *)
Fairness ==
  /\ WF_vars(fault = "None" /\ Handler)
  /\ WF_vars(fault = "None" /\ ExecuteICP)
  /\ SF_vars(fault = "None" /\ SetLabelStopped)

Spec == Init /\ [][Next]_vars /\ Fairness

-----------------------------------------------------------------------------
Transforms == 1 .. MaxRuns

TypeOK ==
  /\ gui \in {"Frame", "Modal", "Aborting", "Suspending", "Terminating", "Returning"}
  /\ closing \in {"No", "OK", "CANCEL"}
  /\ worker \in Running \cup {"None", "Telling", "Ended"}
  /\ threadICP \in BOOLEAN
  /\ iteration \in 0 .. MaxIterations
  /\ run \in 0 .. MaxRuns
  /\ icpTransform \in Transforms \cup {Identity}
  /\ T \in Transforms \cup {NULL, Identity}
  /\ statusThread \in {"stopped", "running"}
  /\ controls \in Params /\ parameters \in Params
  /\ killed \subseteq Running \cup {"Telling", "Ended"}
  /\ applied \in Transforms \cup {NULL, Identity}
  /\ refused \in BOOLEAN
  /\ stored \in 0 .. MaxRuns /\ noPoints \subseteq Transforms
  /\ fault \in {"None", "ThreadAtLarge", "UnjoinedThreadDeleted"}

(* The dialog is gone only when its thread is: whichever button closed it, *)
(* and whatever the thread was doing, nothing is left that could write to  *)
(* the dialog or read the meshes, unless Windows has refused the abort.    *)
NoThreadWithoutDialog == gui = "Frame" /\ ~refused => worker = "None" /\ ~threadICP

(* What a run that goes on to its end computes: nothing goes into its      *)
(* transform if the first iteration finds no point, unless the centroids   *)
(* have been matched before.                                               *)
Result(r) == IF r \in noPoints THEN Identity ELSE r

(* "wait the thread to stop", says the help: when the label says stopped   *)
(* and no abort made it so, T is the result of the last thread started,    *)
(* and no thread computes.                                                 *)
StoppedMeansResult ==
  statusThread = "stopped" /\ worker # "None" /\ fault = "None" =>
    worker \in {"Telling", "Ended"} /\ T = Result(run)

(* What "Apply transform" hands on is the result of the last run of this   *)
(* dialog that got as far as storing one, however many were aborted or     *)
(* have found nothing before and after it.  That may be the identity: of a *)
(* run that found no point to begin with, about which the code only logs   *)
(* an error, or, when no run has stored anything, of one that the abort OK *)
(* begins with has killed right between the new transform and its value.   *)
AppliesLastResult ==
  /\ T = IF stored # 0 THEN Result(stored)
         ELSE IF worker = "Allocated" \/ "Allocated" \in killed THEN Identity
         ELSE NULL
  /\ gui = "Frame" /\ fault = "None" => applied \in {NULL, T}

(* A thread that runs comes to an end, or is ended, however often the user *)
(* presses which button.                                                   *)
RunEnds ==
  worker \in Running ~> worker \notin Running \/ fault # "None"
=============================================================================
