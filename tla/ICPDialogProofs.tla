--------------------------- MODULE ICPDialogProofs ---------------------------
(***************************************************************************)
(* The safety of the ICP dialog, proved for any parameters, number of      *)
(* iterations and number of runs.  The argument is that the pointer to the *)
(* thread and the thread go together until Windows refuses a call, that    *)
(* the label is the last thing a thread writes, and that the transform it  *)
(* hands over is known, at each of its steps, from what it has found.      *)
(***************************************************************************)
EXTENDS ICPDialog, TLAPS

(* The pointer is there exactly while there is a thread, which is one that *)
(* has been counted and has iterations left.                               *)
PointerIsThread ==
  /\ fault = "None" => (threadICP <=> worker # "None")
  /\ worker # "None" => run >= 1
  /\ worker \in {"Reading", "Iterating"} => iteration < MaxIterations

(* An abort comes back without the thread, or refused; the frame never     *)
(* sees a thread, but in a program that has gone wrong.                    *)
AbortEndsThread ==
  /\ gui \in {"Suspending", "Terminating"} => threadICP
  /\ gui = "Returning" /\ threadICP => refused
  /\ gui = "Frame" /\ fault = "None" => ~threadICP
  /\ fault # "None" => refused

(* A thread that has stored its transform has not been followed by another,*)
(* and the label says stopped only of a thread that is past computing.     *)
LabelFollowsThread ==
  /\ worker \in {"Stored", "Telling", "Ended"} => T = Result(run) /\ stored = run
  /\ statusThread = "stopped" /\ fault = "None" => worker \in {"None", "Telling", "Ended"}

(* The transform of the registration: nothing is in it before the first    *)
(* iteration, but for the centroids, and at the end it is the run's result.*)
TransformFollowsRun ==
  /\ worker = "Iterating" =>
       icpTransform = IF iteration = 0 /\ parameters \notin Matching THEN Identity ELSE run
  /\ worker \in {"Computed", "Allocated"} => icpTransform = Result(run)
  /\ worker \in {"Reading", "Iterating"} => run \notin noPoints
  /\ worker = "Reading" => iteration = 0

(* Runs are numbered, and what has been found and stored is of one begun.  *)
(* A thread that computes has stored nothing yet.                          *)
HistoryIsPast ==
  /\ stored <= run /\ noPoints \subseteq 1 .. run
  /\ worker \in {"Reading", "Iterating", "Computed", "Allocated"} => stored < run

ControlInv == TypeOK /\ PointerIsThread /\ AbortEndsThread
ResultInv == LabelFollowsThread /\ TransformFollowsRun /\ HistoryIsPast /\ AppliesLastResult
Inv == ControlInv /\ ResultInv

USE DEF values, computation, thread, history

LEMMA InitEstablishesInv == Init => Inv
  <1> SUFFICES ASSUME Init PROVE Inv
    OBVIOUS
  <1> 0 \in 0 .. MaxIterations /\ 0 \in 0 .. MaxRuns /\ Default \in Params
    BY ICPAssumption
  <1>1. ControlInv
    BY DEF Init, ControlInv, TypeOK, PointerIsThread, AbortEndsThread
  <1>2. LabelFollowsThread /\ TransformFollowsRun /\ HistoryIsPast
    BY DEF Init, LabelFollowsThread, TransformFollowsRun, HistoryIsPast
  <1>3. AppliesLastResult
    BY DEF Init, AppliesLastResult
  <1> QED
    BY <1>1, <1>2, <1>3 DEF Inv, ResultInv

(* A step that moves neither the thread nor what it has handed over, and   *)
(* does not end the dialog.                                                *)
LEMMA ResultsUntouched ==
  ASSUME ResultInv, fault' = fault,
         UNCHANGED <<worker, computation, parameters, T, killed, applied, history>>,
         gui' = "Frame" => gui = "Frame",
         statusThread' \in {statusThread, "running"}
  PROVE  ResultInv'
  <1>1. LabelFollowsThread'
    BY DEF ResultInv, LabelFollowsThread, Result
  <1>2. TransformFollowsRun'
    BY DEF ResultInv, TransformFollowsRun, Result
  <1>3. HistoryIsPast'
    BY DEF ResultInv, HistoryIsPast
  <1>4. AppliesLastResult'
    BY DEF ResultInv, AppliesLastResult, Result
  <1> QED
    BY <1>1, <1>2, <1>3, <1>4 DEF ResultInv

-----------------------------------------------------------------------------
(* The buttons: nothing of the thread moves, but for its start.            *)
LEMMA OpenKeepsInv == ASSUME Inv, fault = "None", OpenDialog PROVE Inv'
  <1>1. worker = "None" /\ fault' = "None"
    BY DEF OpenDialog, Inv, ControlInv, PointerIsThread, AbortEndsThread
  <1>2. ControlInv'
    BY ICPAssumption
    DEF OpenDialog, Inv, ControlInv, TypeOK, PointerIsThread, AbortEndsThread
  <1>3. LabelFollowsThread' /\ TransformFollowsRun'
    BY <1>1 DEF OpenDialog, LabelFollowsThread, TransformFollowsRun
  <1>4. HistoryIsPast'
    BY DEF OpenDialog, Inv, ControlInv, TypeOK, ResultInv, HistoryIsPast
  <1>5. AppliesLastResult'
    BY <1>1 DEF OpenDialog, AppliesLastResult
  <1> QED
    BY <1>2, <1>3, <1>4, <1>5 DEF Inv, ResultInv

LEMMA StartKeepsInv == ASSUME Inv, fault = "None", OnBtStartThread PROVE Inv'
  <1>1. CASE threadICP
    <2>1. ControlInv'
      BY <1>1
      DEF OnBtStartThread, Inv, ControlInv, TypeOK, PointerIsThread, AbortEndsThread
    <2>2. ResultInv'
      BY <1>1, ResultsUntouched DEF OnBtStartThread, Inv
    <2> QED
      BY <2>1, <2>2 DEF Inv
  <1>2. CASE ~threadICP
    <2>1. worker = "None"
      BY <1>2 DEF Inv, ControlInv, PointerIsThread
    <2>2. /\ run' = run + 1 /\ run \in Nat /\ run' \in 0 .. MaxRuns
          /\ iteration' = 0 /\ 0 < MaxIterations /\ 0 \in 0 .. MaxIterations
      BY <1>2, ICPAssumption DEF OnBtStartThread, Inv, ControlInv, TypeOK
    <2>3. TypeOK'
      BY <1>2, <2>2 DEF OnBtStartThread, Inv, ControlInv, TypeOK, Running
    <2>4. PointerIsThread' /\ AbortEndsThread'
      BY <1>2, <2>2
      DEF OnBtStartThread, Inv, ControlInv, PointerIsThread, AbortEndsThread
    <2>5. HistoryIsPast' /\ run' \notin noPoints
      BY <1>2, <2>2
      DEF OnBtStartThread, Inv, ControlInv, TypeOK, Transforms, ResultInv, HistoryIsPast
    <2>6. LabelFollowsThread' /\ TransformFollowsRun'
      BY <1>2, <2>5 DEF OnBtStartThread, LabelFollowsThread, TransformFollowsRun
    <2>7. AppliesLastResult'
      BY <1>2, <2>1 DEF OnBtStartThread, Inv, ResultInv, AppliesLastResult, Result
    <2> QED
      BY <2>3, <2>4, <2>5, <2>6, <2>7 DEF Inv, ControlInv, ResultInv
  <1> QED
    BY <1>1, <1>2

LEMMA UserKeepsInv == ASSUME Inv, fault = "None", User PROVE Inv'
  <1>1. CASE OpenDialog \/ OnBtStartThread
    BY <1>1, OpenKeepsInv, StartKeepsInv
  <1>2. ASSUME OnBtDefault \/ \E p \in Params : SetControls(p)
        PROVE  Inv'
    <2>1. controls' \in Params /\ gui' = gui /\ gui = "Modal"
      BY <1>2 DEF OnBtDefault, SetControls, Inv, ControlInv, TypeOK
    <2>2. UNCHANGED <<closing, thread, T, statusThread, parameters, applied, history, fault>>
      BY <1>2 DEF OnBtDefault, SetControls
    <2>3. ControlInv'
      BY <2>1, <2>2 DEF Inv, ControlInv, TypeOK, PointerIsThread, AbortEndsThread
    <2>4. ResultInv'
      BY <2>1, <2>2, ResultsUntouched DEF Inv
    <2> QED
      BY <2>3, <2>4 DEF Inv
  <1>3. CASE OnOK \/ OnCancel \/ OnBtAbortThread
    <2>1. /\ gui = "Modal" /\ gui' = "Aborting" /\ closing' \in {"No", "OK", "CANCEL"}
          /\ UNCHANGED <<thread, T, statusThread, values, applied, history, fault>>
      BY <1>3 DEF OnOK, OnCancel, OnBtAbortThread
    <2>2. ControlInv'
      BY <2>1 DEF Inv, ControlInv, TypeOK, PointerIsThread, AbortEndsThread
    <2>3. ResultInv'
      BY <2>1, ResultsUntouched DEF Inv
    <2> QED
      BY <2>2, <2>3 DEF Inv
  <1>4. CASE DismissMessages
    <2>1. ControlInv'
      BY <1>4
      DEF DismissMessages, Inv, ControlInv, TypeOK, PointerIsThread, AbortEndsThread
    <2>2. LabelFollowsThread' /\ TransformFollowsRun' /\ HistoryIsPast'
      BY <1>4
      DEF DismissMessages, Inv, ResultInv, LabelFollowsThread, TransformFollowsRun,
          HistoryIsPast, Result
    <2>3. AppliesLastResult'
      BY <1>4 DEF DismissMessages, Inv, ResultInv, AppliesLastResult, Result
    <2> QED
      BY <2>1, <2>2, <2>3 DEF Inv, ResultInv
  <1> QED
    BY <1>1, <1>2, <1>3, <1>4 DEF User

-----------------------------------------------------------------------------
(* The abort.                                                              *)
LEMMA TerminateKeepsInv == ASSUME Inv, fault = "None", Terminate PROVE Inv'
  <1>1. worker \in Running \cup {"Telling", "Ended"}
    BY DEF Terminate, Inv, ControlInv, TypeOK, PointerIsThread, AbortEndsThread
  <1>2. CASE worker' = "None" /\ killed' = killed \cup {worker} /\ UNCHANGED <<refused, fault>>
    <2>1. ControlInv'
      BY <1>1, <1>2
      DEF Terminate, Inv, ControlInv, TypeOK, PointerIsThread, AbortEndsThread
    <2>2. LabelFollowsThread' /\ TransformFollowsRun' /\ HistoryIsPast'
      BY <1>2
      DEF Terminate, Inv, ResultInv, LabelFollowsThread, TransformFollowsRun, HistoryIsPast
    <2>3. "Allocated" \in killed' <=> worker = "Allocated" \/ "Allocated" \in killed
      BY <1>2
    <2>4. AppliesLastResult'
      BY <1>2, <2>3 DEF Terminate, Inv, ResultInv, AppliesLastResult, Result
    <2> QED
      BY <2>1, <2>2, <2>4 DEF Inv, ResultInv
  <1>3. CASE refused' = TRUE /\ fault' = "ThreadAtLarge" /\ UNCHANGED <<worker, killed>>
    <2>1. ControlInv'
      BY <1>1, <1>3
      DEF Terminate, Inv, ControlInv, TypeOK, PointerIsThread, AbortEndsThread
    <2>2. LabelFollowsThread' /\ TransformFollowsRun' /\ HistoryIsPast'
      BY <1>3
      DEF Terminate, Inv, ResultInv, LabelFollowsThread, TransformFollowsRun, HistoryIsPast, Result
    <2>3. AppliesLastResult'
      BY <1>3 DEF Terminate, Inv, ResultInv, AppliesLastResult, Result
    <2> QED
      BY <2>1, <2>2, <2>3 DEF Inv, ResultInv
  <1> QED
    BY <1>2, <1>3 DEF Terminate

LEMMA HandlerKeepsInv == ASSUME Inv, fault = "None", Handler PROVE Inv'
  <1>1. CASE GetExitCode
    <2>1. ControlInv'
      BY <1>1
      DEF GetExitCode, Inv, ControlInv, TypeOK, PointerIsThread, AbortEndsThread
    <2>2. gui' # "Frame"
      BY <1>1 DEF GetExitCode
    <2>3. ResultInv'
      BY <1>1, <2>2, ResultsUntouched DEF GetExitCode, Inv
    <2> QED
      BY <2>1, <2>3 DEF Inv
  <1>2. CASE SuspendFails \/ ReturnToModal
    <2>1. ControlInv'
      BY <1>2
      DEF SuspendFails, ReturnToModal, Inv, ControlInv, TypeOK, PointerIsThread, AbortEndsThread
    <2>2. ResultInv'
      BY <1>2, ResultsUntouched DEF SuspendFails, ReturnToModal, Inv
    <2> QED
      BY <2>1, <2>2 DEF Inv
  <1>3. CASE Terminate
    BY <1>3, TerminateKeepsInv
  <1>4. CASE EndModal
    <2>1. ControlInv'
      BY <1>4
      DEF EndModal, Inv, ControlInv, TypeOK, PointerIsThread, AbortEndsThread
    <2>2. LabelFollowsThread' /\ TransformFollowsRun' /\ HistoryIsPast'
      BY <1>4
      DEF EndModal, Inv, ResultInv, LabelFollowsThread, TransformFollowsRun, HistoryIsPast, Result
    <2>3. AppliesLastResult'
      BY <1>4 DEF EndModal, Inv, ResultInv, AppliesLastResult, Result
    <2> QED
      BY <2>1, <2>2, <2>3 DEF Inv, ResultInv
  <1> QED
    BY <1>1, <1>2, <1>3, <1>4 DEF Handler

-----------------------------------------------------------------------------
(* The thread, from its parameters to its label.  While it runs it is the  *)
(* last one begun, and the frame waits in the dialog.                      *)
LEMMA RunIsTransform ==
  ASSUME Inv, worker # "None"
  PROVE  run \in Transforms /\ run # 0
  BY ICPAssumption DEF Inv, ControlInv, TypeOK, PointerIsThread, Transforms

LEMMA ReadControlsKeepsInv == ASSUME Inv, fault = "None", ReadControls PROVE Inv'
  <1>1. run \in Transforms
    BY RunIsTransform DEF ReadControls
  <1>2. ControlInv'
    BY <1>1
    DEF ReadControls, Inv, ControlInv, TypeOK, Running, PointerIsThread, AbortEndsThread
  <1>3. TransformFollowsRun'
    <2>1. run \notin noPoints
      BY DEF ReadControls, Inv, ResultInv, TransformFollowsRun
    <2>2. iteration = 0
      BY DEF ReadControls, Inv, ResultInv, TransformFollowsRun
    <2> QED
      BY <2>1, <2>2 DEF ReadControls, TransformFollowsRun
  <1>4. LabelFollowsThread' /\ HistoryIsPast'
    BY DEF ReadControls, Inv, ResultInv, LabelFollowsThread, HistoryIsPast
  <1>5. AppliesLastResult'
    BY DEF ReadControls, Inv, ResultInv, AppliesLastResult, Result
  <1> QED
    BY <1>2, <1>3, <1>4, <1>5 DEF Inv, ResultInv

LEMMA IterateKeepsInv == ASSUME Inv, fault = "None", Iterate PROVE Inv'
  <1>1. run \in Transforms
    BY RunIsTransform DEF Iterate
  <1>2. iteration \in Nat /\ iteration' = iteration + 1 /\ iteration' \in 0 .. MaxIterations
    BY ICPAssumption DEF Iterate, Inv, ControlInv, TypeOK, PointerIsThread
  <1>3. ControlInv'
    BY <1>1, <1>2
    DEF Iterate, Inv, ControlInv, TypeOK, Running, PointerIsThread, AbortEndsThread
  <1>4. TransformFollowsRun'
    <2>1. run \notin noPoints /\ iteration' # 0
      BY <1>2 DEF Iterate, Inv, ResultInv, TransformFollowsRun
    <2> QED
      BY <2>1 DEF Iterate, TransformFollowsRun, Result
  <1>5. LabelFollowsThread' /\ HistoryIsPast'
    BY DEF Iterate, Inv, ResultInv, LabelFollowsThread, HistoryIsPast
  <1>6. AppliesLastResult'
    BY DEF Iterate, Inv, ResultInv, AppliesLastResult, Result
  <1> QED
    BY <1>3, <1>4, <1>5, <1>6 DEF Inv, ResultInv

(* What is found changes the result of no run that has stored one: the     *)
(* thread that runs has not.                                               *)
LEMMA NoPointsKeepsInv == ASSUME Inv, fault = "None", NoPointsLeft PROVE Inv'
  <1>1. run \in Transforms
    BY RunIsTransform DEF NoPointsLeft
  <1>2. noPoints' \in {noPoints, noPoints \cup {run}}
    BY DEF NoPointsLeft
  <1>3. ControlInv'
    BY <1>1, <1>2
    DEF NoPointsLeft, Inv, ControlInv, TypeOK, Running, PointerIsThread, AbortEndsThread
  <1>4. TransformFollowsRun'
    BY DEF NoPointsLeft, Inv, ResultInv, TransformFollowsRun, Result
  <1>5. LabelFollowsThread'
    BY DEF NoPointsLeft, Inv, ResultInv, LabelFollowsThread
  <1>6. HistoryIsPast'
    BY <1>1, <1>2 DEF NoPointsLeft, Transforms, Inv, ResultInv, HistoryIsPast
  <1>7. Result(stored)' = Result(stored)
    <2>1. stored # run /\ stored' = stored
      BY DEF NoPointsLeft, Inv, ControlInv, TypeOK, ResultInv, HistoryIsPast
    <2> QED
      BY <1>2, <2>1 DEF Result
  <1>8. AppliesLastResult'
    BY <1>7 DEF NoPointsLeft, Inv, ResultInv, AppliesLastResult
  <1> QED
    BY <1>3, <1>4, <1>5, <1>6, <1>8 DEF Inv, ResultInv

LEMMA AllocateKeepsInv == ASSUME Inv, fault = "None", AllocateTransform PROVE Inv'
  <1>1. ControlInv'
    BY DEF AllocateTransform, Inv, ControlInv, TypeOK, Running, PointerIsThread, AbortEndsThread
  <1>2. LabelFollowsThread' /\ TransformFollowsRun' /\ HistoryIsPast'
    BY DEF AllocateTransform, Inv, ResultInv, LabelFollowsThread, TransformFollowsRun,
           HistoryIsPast, Result
  <1>3. gui' # "Frame"
    BY DEF AllocateTransform, Inv, ControlInv, PointerIsThread, AbortEndsThread
  <1>4. Identity # NULL /\ (stored # 0 => Result(stored) # NULL)
    BY ICPAssumption DEF Inv, ControlInv, TypeOK, Result
  <1>5. AppliesLastResult'
    BY <1>3, <1>4 DEF AllocateTransform, Inv, ResultInv, AppliesLastResult, Result
  <1> QED
    BY <1>1, <1>2, <1>5 DEF Inv, ResultInv

LEMMA StoreKeepsInv == ASSUME Inv, fault = "None", StoreTransform PROVE Inv'
  <1>1. run \in Transforms /\ run # 0 /\ run \in 0 .. MaxRuns
    BY RunIsTransform DEF StoreTransform, Inv, ControlInv, TypeOK
  <1>2. ControlInv'
    BY <1>1
    DEF StoreTransform, Inv, ControlInv, TypeOK, Running, PointerIsThread, AbortEndsThread
  <1>3. T' = Result(run) /\ stored' = run
    BY DEF StoreTransform, Inv, ResultInv, TransformFollowsRun
  <1>4. LabelFollowsThread' /\ TransformFollowsRun' /\ HistoryIsPast'
    BY <1>1, <1>3
    DEF StoreTransform, Inv, ResultInv, LabelFollowsThread, TransformFollowsRun,
        HistoryIsPast, Result
  <1>5. gui' # "Frame"
    BY DEF StoreTransform, Inv, ControlInv, PointerIsThread, AbortEndsThread
  <1>6. AppliesLastResult'
    BY <1>1, <1>3, <1>5 DEF StoreTransform, AppliesLastResult, Result
  <1> QED
    BY <1>2, <1>4, <1>6 DEF Inv, ResultInv

LEMMA LabelKeepsInv == ASSUME Inv, fault = "None", SetLabelStopped PROVE Inv'
  <1>1. ControlInv'
    BY DEF SetLabelStopped, Inv, ControlInv, TypeOK, Running, PointerIsThread, AbortEndsThread
  <1>2. LabelFollowsThread' /\ TransformFollowsRun' /\ HistoryIsPast'
    BY DEF SetLabelStopped, Inv, ResultInv, LabelFollowsThread, TransformFollowsRun,
           HistoryIsPast, Result
  <1>3. AppliesLastResult'
    BY DEF SetLabelStopped, Inv, ResultInv, AppliesLastResult, Result
  <1> QED
    BY <1>1, <1>2, <1>3 DEF Inv, ResultInv

LEMMA NextKeepsInv == Inv /\ [Next]_vars => Inv'
  <1> SUFFICES ASSUME Inv, [Next]_vars PROVE Inv'
    OBVIOUS
  <1>1. CASE fault = "None" /\ (User \/ Handler)
    BY <1>1, UserKeepsInv, HandlerKeepsInv
  <1>2. CASE fault = "None" /\ ExecuteICP
    BY <1>2, ReadControlsKeepsInv, IterateKeepsInv, NoPointsKeepsInv, AllocateKeepsInv,
       StoreKeepsInv, LabelKeepsInv
    DEF ExecuteICP
  <1>3. CASE UNCHANGED vars
    <2>1. ControlInv'
      BY <1>3 DEF vars, Inv, ControlInv, TypeOK, PointerIsThread, AbortEndsThread
    <2>2. ResultInv'
      BY <1>3, ResultsUntouched DEF vars, Inv
    <2> QED
      BY <2>1, <2>2 DEF Inv
  <1> QED
    BY <1>1, <1>2, <1>3 DEF Next

LEMMA InvImpliesSafety == Inv => TypeOK /\ NoThreadWithoutDialog /\ StoppedMeansResult
  BY DEF Inv, ControlInv, ResultInv, PointerIsThread, AbortEndsThread, LabelFollowsThread,
         NoThreadWithoutDialog, StoppedMeansResult

-----------------------------------------------------------------------------
(* The inductive invariant of the dialog and its thread.                   *)
THEOREM ICPInvariant == Spec => []Inv
  BY InitEstablishesInv, NextKeepsInv, PTL DEF Spec

(* The dialog and its thread keep their types: no run has more iterations  *)
(* than the spin control allows.                                           *)
THEOREM ICPTypeCorrect == Spec => []TypeOK
  BY ICPInvariant, PTL DEF Inv, ControlInv, ResultInv

(* No closed dialog leaves a thread behind that Windows let it end.        *)
THEOREM DialogTakesThread == Spec => []NoThreadWithoutDialog
  BY ICPInvariant, InvImpliesSafety, PTL

(* A label that says stopped, and was not made to by an abort, tells of a  *)
(* result.                                                                 *)
THEOREM LabelTellsResult == Spec => []StoppedMeansResult
  BY ICPInvariant, InvImpliesSafety, PTL

(* What is applied is the result of the last run that stored one: the      *)
(* identity only of a run without points, or of a first thread killed      *)
(* between the two assignments of the transform.                           *)
THEOREM LastResultApplied == Spec => []AppliesLastResult
  BY ICPInvariant, PTL DEF Inv, ControlInv, ResultInv

(* Undefined behaviour begins with a refusal: as long as Windows suspends  *)
(* and terminates the threads it is asked to, no thread is at large and    *)
(* none is deleted that could still be joined.                             *)
FaultNeedsRefusal == fault # "None" => refused

(* The program goes wrong only after Windows has refused a call about the  *)
(* thread, whichever buttons are pressed when.                             *)
THEOREM FaultsComeFromRefusals == Spec => []FaultNeedsRefusal
  <1>1. Inv => FaultNeedsRefusal
    BY DEF Inv, ControlInv, AbortEndsThread, FaultNeedsRefusal
  <1> QED
    BY <1>1, ICPInvariant, PTL

=============================================================================
