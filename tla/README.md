# SMART3D in TLA+

SMART3D is a Windows desktop program (wxWidgets for the frame, VTK for the 3D
view) to look at, measure, cut, align and reconstruct 3D meshes and point
clouds. This directory holds its specifications: the modules, the TLC
configurations that check them on small instances, and the TLAPS proofs. The
code is in `src/SMART3D/src` (27,000 lines); the help in
`src/HelpBlocksProject` is the only statement of what the program should do,
and there are no tests.

Run in this directory:

    tlc -config FrmPrincipalTools.cfg MCFrmPrincipal
    tlapm FrmPrincipalProofs.tla

## The system

Everything below runs on the GUI thread unless it says otherwise: an event
handler runs to its end before the next begins, except where it opens a modal
dialog. So the hard part is seldom two threads; it is the order in which the
user calls handlers that share state: the same tool switched from a menu, a
button, a key and by itself, objects deleted while another object points to
them, counts and indices kept in step by hand.

| Part | State | Operations | Talks to | What makes it correct |
|---|---|---|---|---|
| `FrmPrincipal` (main frame) | `meshVector`, the tools, menu marks, button bitmaps, the mesh tree | one handler per menu entry, button, key; drag and drop; close | every other part | one tool at a time; no tool keeps a deleted object; menu, button and tree show what is |
| `LineWidget` + `LineWidgetRepresentation` | widget state, nodes, points, closed loop, active node | right press, move, release, Ctrl+Z | VTK pickers; invokes events its tool observes | line and nodes agree; complete when finished; a drag has a node |
| Measuring and cutting tools: `DistanceTool`, `AngleTool`, `ElevationTool`, `VolumeTool`, `DeleteTool`, `AlignTool`, `AlignWithAxisTool`, `CheckCamTool` | enabled flag, a `Mesh*`, a line widget, what was computed from it | `SetEnabled`, `setMesh`, events of the widget, Enter, keys | line widget, mesh, frame | what is computed is computed from a complete figure on the mesh it is shown on; off leaves nothing |
| `UpdateCameraTool`, `ViewTool` | a `Camera*`, its image | keys move the camera | mesh, tree | never a deleted camera |
| `Mesh`, `Camera`, `Volume`, `Calibration` | actors, textures, cameras, volumes, cached polydata and locator | transform, calibrate, simplify, update, destroy | tools, tree, VR | caches follow the actors; what is destroyed leaves tree and renderer |
| `VRDialog` + `ThreadVR` | worker thread, critical section, timers, actors given to the VR renderer | start, stop, completion, timeouts, close | mesh, VR interactor style | the stop ends, no one waits for ever, the actors come back once |
| `ICPDialog` | worker thread | start, abort, completion, close | two meshes | as above |
| `ReconstructionDialog`, `ConfigurationDialog`, helpers | paths, settings, the log | runs external programs in order | file system | stops at the first failure, tells it |
| `InteractorStyle`, `InteractorStyleVR`, `wxVTKRenderWindowInteractor` | mouse and wand modes, capture, timers | mouse, wheel, keys, wands | tools, meshes | capture released; modes exit |
| `ImplicitPlaneWidget`, `AxisWidget`, captions, sliders | interaction state | mouse | volume tool | as the line widget |
| `MeshIO`, `ImageIO`, `exif`, `HelperCOLMAP`, `HelperOpenMVG` | none that lasts | read, write | mesh, frame | partial files are refused |
| `FastQuadricSimplification`; vendored solvers, AliceVision, ColDet | per call | numeric | mesh | out of this project's reach, or third party |

The behaviours that are hard to test, each at its line, are the hazards of
`PROJECT.json`, with the properties that cover them or the reason none does.

## The modules

| Module | Models | Kind |
|---|---|---|
| `LineWidget` | `LineWidget.cpp`, `LineWidgetRepresentation.cpp` | component |
| `PolylineEditor` | what a line widget promises to a tool | abstract specification |
| `LineWidgetRefinement` | the first implements the second | refinement |
| `LineWidgetProofs` | the invariants and action properties of `LineWidget`, the refinement | proofs |
| `DistanceTool` | `DistanceTool.cpp` on its line widget, `Calibration.h` | composition |
| `DistanceToolProofs` | its invariants, its action property, its line as an editor | proofs |
| `VolumeTool` | `VolumeTool.cpp` on its line widget, `Volume.cpp`, the volumes of `Mesh` | composition |
| `VolumeToolProofs` | its invariants, its line as an editor | proofs |
| `MeshEditing` | the caches of `Mesh`, `DeleteTool`, `AlignTool`, the locator of `CheckCamTool`, the frame's handlers that change a mesh | composition |
| `MeshEditingProofs` | its invariants and its action property | proofs |
| `MeasureTools` | the tools and what `disableMeasureTools` amounts to | shared definitions |
| `DisableMeasureTools` | the recursion of `disableMeasureTools` and the handlers | component |
| `FrmPrincipal` | the frame's tools, scene, menu, tool bar and tree | component |
| `MCFrmPrincipal` | the frame and the recursion side by side | model for TLC |
| `FrmPrincipalProofs` | the invariants of `FrmPrincipal`, the recursion of `DisableMeasureTools`, the cameras of the tools | proofs |
| `VRDialog` | `VRDialog.cpp`: dialog, worker thread and timer; the VR delete widget | component |
| `VRDialogProofs` | the safety of `VRDialog` | proofs |
| `ICPDialog` | `ICPDialog.cpp`, `ICP.cpp`: dialog, worker thread, the abort | component |
| `ICPDialogProofs` | the safety of `ICPDialog` | proofs |
| `Reconstruction` | `ReconstructionDialog.cpp`, the helpers it calls, its settings | component |
| `MCReconstruction` | the symmetry of its images | model for TLC |
| `ReconstructionProofs` | its invariants | proofs |

Operators whose comment begins with "Fault:" are not part of any
specification. Each is a definition as a plausible bug would have it; put in
place of the definition it stands before, it makes TLC refute the property it
is listed with under `mutants` in `PROJECT.json`.

### LineWidget

Every tool that takes points from the user owns a line widget. The four VTK
events it handles (`SelectAction`, `MoveAction`, `EndSelectAction`,
`CtrlKeyPress`) are the actions, one per branch of the code's `switch` on
`WidgetState`; the operations of the representation they call are operators
that say what changes. What the pickers find, the position under the cursor
or `NoPick`, and the node under it, is an input. VTK positions are model values. The
rubber band that follows the mouse is the last point of `nodePoints`, which
therefore holds one more point than there are nodes until the figure is
complete. `SetEnabled` is the restart that only the delete tool does
(`DeleteTool.cpp`, "must be convex" and "Nothing was selected").
`Next` is `HandleEvent`, which the compositions with a tool use, or
`SetEnabled`.

The widget asks for a fixed number of nodes (2 for distance, 3 for angle) or
for a loop (delete, volume, camera visibility, align), by the constants
`MaxNumberOfNodes` and `CloseLoopOnFirstNode`; `NodeBound` bounds the nodes a
run places.

`PolylineEditor` is what a tool may rely on: an ordered list of vertices that
grows at its end, closes, then moves vertex by vertex or opens again. The refinement
mapping drops the copy of the first node that closes a loop, and takes
`Finished` and `Manipulate` for complete.

### DistanceTool, VolumeTool

Both extend the line widget. VTK calls a tool's observers inside the
widget's handler, so one step is a handler of the widget together with what the
tool does on the event it invoked: `LineEvent` is `HandleEvent` and then
`UpdateRepresentation` on the new state of the line.

In `DistanceTool` a distance is the set of its two ends, and a calibration is the
number the user typed over such a set; the caption holds the points and the
calibration it was computed from. `distance` is kept when the tool is
switched off, as in the code, and *Calibrate* uses it. Two nodes on one
position measure zero, over which the code divides: they are among the states.

`VolumeTool` walks from the plane through the closed line and its height to the volume.
`updatePolygon` and `pointsPolygon` are the members of those names. A volume is
its number, the calibration whose unit its caption tells and the one its
value is scaled by; whether the clipping finds anything is an input.
`deleteVolume`, `destructVolumes` and `setCalibration` are operations of `Mesh`
that the frame runs with this tool off.

### MeshEditing

Everything that changes the elements or the place of a mesh, and everyone who
keeps data of one meanwhile. The polydata of an actor is its elements, a
number for its shape, and whether the points of a cloud are one cell, as
they are loaded. `Mesh::polyData` and `Mesh::meshCellLocator` are caches that
`transform`, `updateCells`, `updateActors` and the simplification drop and
`getPolyData` and `getCellLocator` fill. `DeleteTool` copies all polydata when it is enabled and
writes the copy back, reduced; `AlignTool` takes points on the source, then on the
target, each on a new line widget with the locator of its mesh; `CheckCamTool`
keeps a locator beside either. The handlers of the frame that transform switch
the tools off first; ICP, the simplification and keeping a VR session do not. The
history `bypassed` records those, so that `HeldDataIsCurrent` can say that
nothing else makes held data old.

The line a tool draws is here only its number of vertices; `LineWidget` shows
that a closed one has at least three.

### MeasureTools, DisableMeasureTools

`disableMeasureTools(n)` calls the handler of every enabled tool but the n-th,
and each handler begins with `disableMeasureTools` of its own number. With one
tool on, the inner call finds nothing to do; with two, each handler calls the
other before it has switched itself off, for ever. "Check camera visibility"
is the one handler that does not call back. `DisableMeasureTools` is that
recursion as a machine: a step is one test of the code, one call or one return,
`callers` is the stack of the calls that wait, and `toolToAvoid` and `nextTool`
are the argument and the place of the one that runs. What a handler does after
its call returns, `SetEnabled(false)`, is part of `ReturnToHandler`. It starts
in any of the 256 sets of enabled tools with any argument that the code passes, and a call
that does not fit into `StackBound` is an overflow. `MeasureTools` states the
result in two operators, `RunsAway` and `SwitchedOff`, and it is these that
`FrmPrincipal` uses in one step. `EndsUnlessRunsAway` and
`DisablesAllButOne` tie the two together, for every size of the stack
(`RecursionEndsUnlessTwoAreOn`, `CallDisablesAllButOne`).
`MCFrmPrincipal` puts the machine beside the frame for one run of TLC: `machine`
says which of the two runs, the other rests where it started.

### FrmPrincipal

The state is the meshes with the cameras each owns, the ticks and the
visibility of the tree, and for each of the eight tools whether it is enabled,
what it points to, whether its menu item is checked and whether its button is
on. A `Mesh` or `Camera` is the address it has: `toolMeshes` and `toolCameras`
are pointers, so a pointer outside the live objects is a dangling one. Reading
through a dangling pointer may go on or die (`AfterReading`): `status` holds
what the program died of. Every handler that changes this state is an action:
the toggles of the eight tools with their refusals, *Transform*, loading
meshes, replacing cameras, deletion from the tree, the ticks, the keys ESC,
Delete and Enter, the close. What is selected on the tree, and the success of a
load or a reconstruction, are inputs.

Left out of this module: what a tool does on its mesh, the visibility of
cameras, textures and volumes, exports, and the busy cursor.

### VRDialog

`OnToolVR` opens a modal dialog whose constructor copies the mesh and starts a
detached thread that runs the headset's event loop. `gui` and `worker` say
where each thread is. The two meet in the pointer `m_pThread`, guarded by the critical
section `m_pThreadCS`; in the interactor's flag `Done`, not guarded; in
`camera2D`, `errorVR` and `timer`, not guarded. A step of the model is what one
thread does between two places where the other can interfere: `EnterStop`,
`StopVR` and `WaitOver` are the three parts of `OnBtStopVR`; `OpenWindow`,
`PrepareView`, `Start`, the events, `LeaveLoop` and `ReturnFromEntry` are those of
`ThreadVR::Entry`; `EnterDestructor` and `LeaveDestructor` hold the critical section in
between. Undefined behaviour sets `fault` and ends the behaviour.

Taken from how the code uses libraries it links: `wxThread::Delete` on the
detached thread asks and returns (the comment at `VRDialog.cpp:174` and the loop after it
take it so; wxMSW may wait inside `Delete`, and a stop that is lost then hangs one
call earlier, so the finding about *Stop VR* does not depend on it, while
`StopInVREnds` is about a `Delete` that does not wait), a
detached thread deletes itself after `Entry`, the style has an
interactor from `SetInteractorStyle` until the interactor dies, `Start` clears
`Done` and loops until it is set, `ExitCallback` sets it. The wx timer fires
once started, when the dialog is idle.

In VR only the delete points widget could change the copy, and
`Mesh::updatePoints` refuses (see below). The mesh is modelled as a point
cloud, because the widget refuses any other. `VTKIS_POSITION_PROP`, which would
move actors, is bound to no input.

### ICPDialog

`OnMenuICP` opens a modal dialog whose Start button runs `ICP::executeICP` on a
`std::thread`. Abort, OK and Cancel all run `OnBtAbortThread`, which asks Windows whether the
thread is active, suspends it, terminates it, detaches the object and deletes
it. A step of the model is one call to Windows on one side, and what the thread
does between two writes the GUI can see on the other: `ReadControls`, each `Iterate`
or `NoPointsLeft`, `AllocateTransform` (`T` is new and the identity), `StoreTransform`,
`SetLabelStopped`, `DismissMessages`. `Terminate` may meet it at any of them. Each of the
three calls to Windows may be refused, with the effect the code gives that; what is
undefined sets `fault` and ends the behaviour.

The registration is a bounded number of iterations. `icpTransform`, the `T` of
`ICP`, is the identity until the centroids are matched or an iteration
concatenates something, and is the number of its run from then on. Any iteration
may find no point near enough (`NoPointsLeft`); `ICP::executeICP` then
stops, and its caller goes on as after any other end. So a run that finds no point to
begin with, and has not matched the centroids, hands over the identity. The histories
`noPoints` and `stored` record such runs and the last run that stored a
transform in the dialog, so that `Result` and `AppliesLastResult` can say which transform
`T` has to be.

### Reconstruction

`OnOK` runs external programs in a fixed order; `OnBtBatchStart` fills the fields
from each item of the queue and calls `OnOK`. `stage` is the call about to be made.
The programs (COLMAP, MeshRecon, TexRecon, AVTexturing, the converters) are external: one cannot be started,
or writes its file, or ends without writing, and the code tells these apart
only by looking whether there is a file (`Utils.cpp:408`: exit codes are not read). A file is the
images its data come from, and outlives dialogs and runs. The memory check is
`MemoryCheck`; what the graphics card allows is an input. `success`, `silent` and `check` are
histories of one call of `OnOK`.

## Checks

| Run | Bounds | What it shows |
|---|---|---|
| `LineWidgetLoop` | 3 positions, limit of 6 nodes, closing loop | the widget implements `PolylineEditor`; its four invariants; `EndInteractionEvent` means a complete figure (`EndMeansComplete`); only a release parts the ends of a loop (`EndsPartOnlyOnRelease`) |
| `DistanceTool` | 3 positions, 2 nodes, the numbers 0, 1, 2 typed | the caption is of the line on the screen and of the present calibration; what calibrates is a placed line |
| `VolumeTool` | 2 positions, 3 placed nodes, 2 heights, 3 volumes, 1 calibration | the polygon that cuts is the loop on the screen; numbers name volumes; volumes tell the present unit |
| `VolumeToolCalibration` | 1 position, 2 volumes, 1 calibration | *violated*: the help says further measures use the calibration |
| `MeshEditing` | a mesh and a cloud, 3 elements, 5 vertices, 2 changes of shape | caches and held data follow the mesh; the alignment pairs its points; Enter deletes all that is highlighted, and nothing else where the counts of the code agree |
| `MeshEditingDeletesOnlyShown` | the same | *violated*: the help says the highlighted points and faces are deleted |
| `FrmPrincipalTools` | 2 meshes, 2 cameras; all sets of 8 tools, stack of 6 | one tool at a time, no dangling mesh, and menu, buttons and visibility that tell the truth; when the recursion of `disableMeasureTools` ends and what it leaves |
| `FrmPrincipalEscapeDisablesTools` | 2 meshes, 2 cameras | *violated*: the help says ESC disables all tools |
| `VRDialog` | 2 points | no thread outlives a stop, no timer the dialog, no change the question whether to keep it; the waiting ends (two liveness properties) |
| `VRDialogStopVRExits` | 2 points | *violated*: the help says "Stop VR" exits VR |
| `ICPDialog` | 2 values of the parameters (one matches centroids), 2 iterations, 2 runs | no thread outlives the dialog; the label tells of a result; what OK applies is the last result; a run ends (liveness) |
| `Reconstruction` | 2 folders of images (symmetric), 1 output, queue of 2 | a success shows the images asked for; the level is allowed; the check measures its own images; only a single success ends the dialog |

Why the bounds are enough. `deleteNode` distinguishes loops that still have a
polygon after a node is taken out from those that open: 3 nodes and their copy
against 4 and more, so 5 placed nodes reach every branch, repeatedly. The limit
of 6 lets one run end its figure in both ways, by closing a loop and by the
last node: in the code the tools that draw loops have a limit of `VTK_INT_MAX`,
and the others one of 2 or 3. Two
positions already make nodes coincide and differ; the third tells "moved" from
"swapped". `NodeBound` bounds only the nodes that get placed: picking nothing,
dragging and deleting are never bounded. In the frame two meshes tell "the
only mesh" (taken without asking) from "one of several", are what *Align
meshs* needs, and leave one mesh when the other goes; two cameras can belong to
one mesh or to both. A call of
`disableMeasureTools` that ends nests two deep, which `StackAssumption` asks
for. One that does not end alternates
between the handlers of the first two exclusive tools that are on, and can
lose only "Check camera visibility" on its way; a stack of 6 goes round that
circle twice.

The distance tool needs its two nodes and a third position to drag one to;
of the numbers typed, 0 is refused and two others differ. The volume tool's
loop needs three nodes to close; three volumes, one of them deleted in between,
are what it takes to repeat a number. In
`MeshEditing` a mesh and a cloud are what the code tells apart, and are source
and target; three elements tell one, some and all, and an inverted selection
from its complement; five vertices tell "too few", "as many" and "more" at the
test for four; a second change of shape tells data that is old from data that
is older. Two runs of ICP tell the last thread's result from an earlier one's,
two iterations the first from the last; of two values of the
parameters one matches the centroids, so that a run without points is one that
hands over the identity and one that does not. Two folders of images are what an old file
needs to be wrong; with one output every job meets the files of every
other; two items in the queue tell the one that runs from the one picked last.
`MaxVolumes`, `MaxCalibrations`, `MaxVertices`, `MaxChanges`, `MaxRuns`,
`MaxQueue` and `NodeBound` bound the models only; the proofs hold for any value
of them. Two points tell some of the points from all of them, which the VR
delete widget does; `VRDialog` has no other bound: one dialog, one thread, and
any number of presses, closes and events.

Deadlock is checked in the runs of the line widget and the tools on it,
of `MeshEditing` and of `Reconstruction`. It is not in `FrmPrincipal`, which
ends when the frame is closed or the program has died, and whose recursion
ends with the call, nor in `VRDialog` and
`ICPDialog`, which end with a fault (and `VRDialog` with the deletion of the dialog);
there `StopInVREnds`, `DialogIsTold` and `RunEnds` say that the threads do not wait for
each other.

Fairness is assumed in the two modules with threads. In `VRDialog`: weak for
each of the two threads, which the operating system runs, strong for the timer,
whose message waits for the dialog to be idle and gets its turn between presses
of the button. In `ICPDialog`: weak for the thread, whose iterations are
bounded by the code, and for a handler once it has begun, strong for the label that the thread
has the GUI write, which again waits for the GUI between presses. The
user is under no fairness: no one has to press, answer, or leave VR. The other
parts only react to the user, so no liveness is claimed of them.

## What the violated runs found

* *Open cameras...* and dropping a `.sfm` or `.nvm` delete the cameras of a
  mesh while `CheckCamTool` and `UpdateCameraTool` may point to them; switching
  the tool off reads them. Deleting cameras from the tree is safe, because
  `OnToolDelete` disables the tools first (`DeletionFindsToolsOff`, proved).
* *Stop VR* is lost when it comes between `SetInteractorStyle` and the
  interactor's `Start`, while the worker builds the scene: `Start` clears the
  flag, and `OnBtStopVR` spins on the GUI thread waiting for a thread that
  does not know. Only leaving VR by its own menu frees the program. Once the
  loop runs, a stop works (`StopInVREnds`).
* A volume measured after a calibration shows the unit of the calibration and
  an uncalibrated number (`VolumeTool.cpp:454`); the ones measured before it are scaled.
* Enter in the delete tool may delete a mesh of which nothing is highlighted.
  `DeleteTool.cpp:386` takes all for selected when the list of the selection is
  as long as the polydata has cells. It counts the list, not its inverse, so all
  faces selected and inverted by "I" are deleted too; and in a cloud that was never
  cut all points are one cell, so one selected point is taken for all of them. The
  help (`helpMart-0060.htm:63,74,93`) says that what is highlighted is deleted.
  `DeletesWhatIsShown` shows that apart from these two cases, which
  `CountedAsWhole` names, exactly that is deleted.

## Seen while modelling

The models contain these, and the properties state them as exceptions or leave
them to the reader. No run is made of them, because no document promises
otherwise or because the run would only repeat the line of code.

The line and the tools on it:

* The two ends of a closed loop are two nodes. While one is dragged,
  `updateActiveNode` moves both; on release `finishUpdateActiveNode`
  (`LineWidgetRepresentation.cpp:342`) moves only the active one, to a position
  found by another picker. `EndsPartOnlyOnRelease` shows that nothing else
  parts them. The tools then build their polygon from all points but the last.
* *Align Z with tool*: `AlignWithAxisTool::SetEnabled` (line 61) tests
  `if (lineWidget)` where `if (!lineWidget)` is meant, and dereferences the null pointer.
* The Delete key with the delete tool enabled switches its button off but
  leaves its menu item checked (`FrmPrincipal.cpp:2249`); `MenuShowsTools` leaves that one item out.
* After an alignment the tool stays enabled, with no line to draw on.
* ICP, the simplification and keeping a VR session leave the tools on. The
  deletion that follows writes back the copy from before.

Threads:

* `VRDialog` reaches three faults: a stop while the style has no interactor (before
  the headset is found, behind the message that there is none, or after
  `Entry` has returned) calls through a null pointer; the worker may read
  `camera2D` before it is set; and the dialog may be deleted, a second after
  the completion, while the worker still destroys its window and has its
  destructor to run.
* Deleting points in VR deletes none. The copy is made by `Mesh()`, whose
  `isPointCloud` is false (`VRDialog.cpp:82`); only the constructor that reads a file sets it.
* OK in the ICP dialog may apply the identity, in two ways, which
  `AppliesLastResult` names. A registration whose first iteration finds no point
  only logs an error (`ICP.cpp:130`), and its caller stores the transform and tells
  of the end as of any other. And OK begins with the abort, so a thread
  killed between the new transform and its value leaves the identity.
  `TerminateThread` may also leave a lock of the runtime taken; the model does
  not follow that.
* The Default button of the ICP dialog shows the values of the last run, because
  the thread stores its parameters in the statics the button reads; the help
  (`helpMart-0081.htm:30`) speaks of defaults.
* Which of two meshes ICP moves depends on their addresses
  (`FrmPrincipal.cpp:1801`, a `std::set` of pointers).

Reconstruction:

* `std::atoi` of "High", "Medium" or "Low" is 0 (`ReconstructionDialog.cpp:280`): the
  check takes every level for high, raises low to medium, and never finds that
  no level fits, which is when the code means to switch to COLMAP. `LevelFits`
  speaks of the levels the check allows, and of neither of the other two. `widthDefault * heightDefault * numberOfcameras` (line 262) overflows an `int`.
* In a batch the memory check measures the images picked last, not the item's.
* The queue is not emptied, so Start runs finished items again; with COLMAP the second
  time ends at `MoveFile`, which does not replace the mesh that is there.
* An external program that ends without its file goes unnoticed when an older file is
  there, and TexRecon after a reconstruction even when there is none (line 370).

## Proofs

`LineWidgetProofs` proves the type and the four other invariants of `LineWidget` for every set of
positions, every limit of nodes (at least two) and any bound. None
is inductive alone; the inductive invariant `IInv` is their conjunction: the
length of `nodePoints` in `PointsFollowNodes` is known only from the state
that `CompleteWhenFinished` ties to the figure, deleting in a loop keeps a
polygon only because `ClosedLoopIsPolygon` counts its nodes, and a drag writes
inside both sequences only because `DragHasNode` bounds the index. Lemmas
about `Front`, `ReplaceAt`, `RemoveAt` and `Append` come first, then one lemma
per operation of the representation, then one per handler.

On that invariant rest the three theorems about steps. An
`EndInteractionEvent` leaves the widget finished (`EndFinishes`), and a
finished widget has points that are its nodes (`EndIsOfCompleteFigure`). A
deletion in a loop either takes the copy of the first node along or opens the loop, and a drag
moves both ends, so only the release parts them (`OnlyReleaseParts`).
`WidgetImplementsEditor` is the refinement: lemmas say what `Front` does to
an appended, removed or moved node (`FrontOfAppend`, `FrontOfRemoveAt`,
`FrontOfMoveTo`), since the mapping drops the last node of a loop; then each
handler is shown to be one step of `PolylineEditor` or a stutter. The
deletions are the long part: `deleteNode` acts by the number of nodes, by the
loop and by which node is active, and each of its cases has to come out as taking a vertex back, out, or
opening the figure.

`FrmPrincipalProofs` proves the seven invariants of `FrmPrincipal` and the action property
`DeletionFindsToolsOff` for any sets of meshes and cameras. The invariants
support each other: the handlers come back from `disableMeasureTools`
(`NeverRunsAway`) because at most one exclusive tool is on
(`OneToolAtATime`), and that holds because each handler has come back from it
before it enables its tool; the elevation tool hides no mesh while it is off
(`VisibleAsTicked`) because a tool that is off holds none
(`ToolsHoldLiveMeshes`). `SwitchingKeepsInv` is the argument common to all
handlers: what a handler owes is that the tools it leaves on exclude each other
no more than before, that the menu it leaves shows them, and that it hides no mesh but
the elevation tool's. Every handler's lemma discharges that.

The same module then has two parts that rest on those invariants. The first is about
`DisableMeasureTools`. Its inductive invariant `CallInv` has two cases. With at most one exclusive tool
on (`EndsInTwoCalls`), the only call that is nested is that of this tool's
handler, and what is on is known from the place the outermost call has come
to (`LeftAt`). With two (`NeverComesBack`), each call has spared every tool it has passed, so of the
exclusive tools it has passed at most one is on: no call comes to its end. From
this follow the type, `EndsUnlessRunsAway` and `DisablesAllButOne`, for every
stack of two calls or more. `EveryStepCounts` gives a number that every step but the
last makes smaller, so the machine cannot go round for ever; and
`FrameCallsReturn` is the link to the frame: in a state that satisfies its invariant, a
call with its enabled tools does not overflow.

The second part is about the cameras, of which the run
`FrmPrincipalEscapeDisablesTools` shows one read after its deletion.
`OnlyOpeningLosesThem`: no step but opening cameras leaves a tool with a
deleted one. `CamerasOpenedWithToolsOff`: in every behaviour in which cameras
are opened only with the tools off, no deleted camera is read. So
`disableTools()` at the head of `OnMenuOpenCameras` and of `OnDropFiles`, as in
`OnToolDelete`, would be enough.

`VRDialogProofs` proves the type and the three other invariants of `VRDialog` and the action
property `StopLeavesNoThread`. The inductive invariant says what each shared
variable tells of the two threads: who is where when the critical section is
held (`LockHasOwner`); `m_pThread` is set exactly while there is a thread
(`PointerMeansThread`); the timer exists exactly when the worker is past its loop
(`TimerMeansCompletion`); a dialog that has been closed once either waits or has no thread
(`CloseWaits`), so a second close that finds no timer is one for which no
thread ever ran. It also bounds the faults the module reaches: a dialog is freed under its
thread only by its timer (`OnlyTimerFreesEarly`), and after the thread
there are none (`FaultsNeedThread`).

`DistanceToolProofs` reuses the line widget's inductive invariant: a step of the
tool contains a step of the widget, so `IInv` is preserved as it stands, and
with the tool's types and `CaptionMeasuresLine` it is inductive. That what
calibrates is placed (`CalibratesPlacedLine`) then follows because *Calibrate*
wants a finished line, and a finished line of two nodes has no rubber band. The
editor's step is that of the widget within the tool's step
(`DistanceToolImplementsEditor`, and `VolumeToolImplementsEditor` below).

`VolumeToolProofs` has two arguments. `PolygonIsLoop` is inductive with the
fact that a closed loop has a line widget (`LoopHasWidget`), and of the
widget it needs only that a handler which invokes no event leaves the figure as
it was (`SilentEventsKeepFigure`). The numbers of the
volumes are below the counter `qtdVolumes`, which never goes down
(`VolumesInv`); so a new number is new, and a deletion, which only drops entries, keeps them apart. With
`ClosedLoopIsPolygon`, the polygon that cuts has three points or more
(`PolygonHasThreePoints`).

`MeshEditingProofs` adds to the properties that the align tool's line is on the target exactly after
the source points were taken (`LineFollowsPoints`) and that a selection is
inside the copy (`SelectionOfCopy`). `HeldDataIsCurrent`
then goes handler by handler: each either leaves a mesh alone, switches its
holders off, or records them as bypassed. `DeletesWhatIsShown` needs that a
list inside the copy and as long as it is the copy, and that a joined copy has one cell
(`WholeMeshIsFullList`): where `CountedAsWhole` does not hold, the test for the whole mesh
is true only of a selection of everything.

`ICPDialogProofs`: the pointer is set exactly while there is a thread
(`PointerIsThread`), an abort on its way past `GetExitCode` has a thread to end
(`AbortEndsThread`); these two, with the types, are `ControlInv`. The other half,
`ResultInv`, follows the transforms: that of the registration is known at
each step from what the run has found (`TransformFollowsRun`), what is recorded is
of runs that have begun, and a thread that computes has stored nothing yet
(`HistoryIsPast`), and the label and the dialog's transform follow the thread step by
step (`LabelFollowsThread`). The last implies `StoppedMeansResult`, and
`AppliesLastResult` is a part of the invariant itself. Every fault
of this module comes after a call that Windows has refused
(`FaultsComeFromRefusals`).

`ReconstructionProofs`: a call of `OnOK` has fields to read and is single or
in a batch, never both (`CallsAreOrdered`); a job on an existing mesh still has
it (`MeshesAreThere`, since files are replaced or moved, and never lost); each stage finds at its
path the images of the stage before, or a silent program has passed
(`FilesFollowStages`); the finding of the memory check is that of this call
(`CheckIsOfTheCall`). The last one is about single calls, and survives batches
because a batch ends with its fields cleared.

The assumptions are on constants and are evaluated by every run that uses them:
"no pick", "null" and the identity are none of the values they are told apart
from (`PickAssumption`, `NullAssumption`, `ICPAssumption`, `ReconstructionAssumption`); a figure has at
least two nodes (`NodeAssumption`), that of the distance tool exactly two
(`DistanceAssumption`), that of the volume tool is a loop
(`VolumeAssumption`); the pair to align is of two different meshes, and a mesh
has finitely many elements (`MeshAssumption`); the stack holds two calls of
`disableMeasureTools` (`StackAssumption`). All are true of the code.

Some theorems are about definitions no run lists, because the others that
the run checks already refute what they would, or because they bound
a fault that a run shows: `NeverRunsAway`,
`DeletionFindsToolsOff` and what is said of the cameras of the frame,
`CutsWithPolygon` of the volume tool, the faults of the two dialogs, the types
of the line widget, the distance tool, the ICP dialog and `DisableMeasureTools`.

Only model-checked: the liveness of `VRDialog` and `ICPDialog` (`StopInVREnds`,
`DialogIsTold`, `RunEnds`), which the prover does not handle because it
rests on fairness. The refutations are TLC's, too. All other properties of the runs are
theorems. Inductions over data are out of the prover's reach; nothing here needs one.

## Not modelled

The repository holds some 730,000 lines, of which 27,000 are the program.
The rest is AliceVision, AdaptativeSolvers, Claudette and what they bring
along: third-party code that the program links or starts, left alone here. Of
the program, most lines lay out windows, build VTK pipelines or compute
geometry, and have no state that outlives a call. By part:

* `Camera`: poses, projections and the points of a 360 degree image are
  numbers. Who owns a camera and who points to it is in `FrmPrincipal`.
* `ViewTool`: an image in a corner and its buttons; one index.
* `MeshIO`, `ImageIO`, `exif`, `HelperOpenMVG`: functions of a file. Whether one
  succeeds is an input.
* `InteractorStyle`, `wxVTKRenderWindowInteractor`: the window is VTK's wx
  interactor, adapted, and passes events on; the style turns drags into camera
  poses.
* `ImplicitPlaneWidget`: VTK's widget of that name, adapted. The volume tool
  sees it off, on or fixed.
* `AngleTool`: switched by `FrmPrincipal`; its caption follows a line of three
  nodes exactly as the distance tool's follows two, without a calibration, so
  a module of its own would repeat `DistanceTool`.
* `ElevationTool`, `UpdateCameraTool`, `CheckCamTool` beyond what they hold and
  hide: the profile, the pose and the frustum are computed anew at each event.
* `InteractorStyleVR` beyond exit and deleting points: poses of controllers made
  poses of the scene.
* The M3C2, snapshot and transform dialogs: forms over numbers.
* Of `Mesh` and the frame: textures, the cameras path, exports, the items of the
  tree below a mesh, the pairs of Begin- and EndBusyCursor, and `texturizeMesh` without a dialog.
* `FastQuadricSimplification` and the solvers: numeric. That a simplification
  may leave any of the faces is in `MeshEditing`.
