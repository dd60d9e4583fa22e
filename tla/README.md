# Verification of the LAD DIS simulation workflow

This directory models LAD_Simulation in TLA+. Its core is the event-simulation
pipeline: a sample of deep-inelastic (DIS) events is converted to a text file,
simulated by SimC (once per electron spectrometer, HMS and SHMS) and by Geant4
(the LAD detector), and the outputs are joined again, event by event. Around it
stand the detector that Geant4 is given, the other generators of the LAD
application, and CTP, the library SimC takes its parameters from.

What has to be right in such a pipeline is not a formula but a correspondence:
every row of a merged file must put together the electron and the recoil of
*the same* generated event of *the same* run, and a run that could not do that
must not look as if it had. No single program establishes this. The event id is
invented by the converter, carried as a line of text, as a real\*8, as a
real\*4, as an entry number of a ROOT tree and as an event number of the Geant4
run manager; files are found by their place or by their age; and the programs
run side by side. The models follow the id through all of that.

## 1. The system

Paths are relative to the repository; `LAD/` stands for `lad_Geant4/LAD/src/`,
`SimC/` for `simc_dis_lad/`.

| component | source | state it keeps | operations |
|---|---|---|---|
| workflow driver | `run_simulation.tcsh` | run directory and its name, event count, shared `LAD.ini`, `dis.mac`, two `.inp` files, exit status | copy, convert, count and cap (renaming the directory), configure, launch three jobs, wait, select, merge twice |
| jobs | `lad_g4.csh`, `hms_simc.csh`, `shms_simc.csh`, `SimC/run_simc_tree` | scratch files in `build_lad/` and `worksim/` | run a program, move its product to the run directory |
| conversion | `SimC/dis/DIS_root2dat.C` | one dat file | write a header and a line per entry |
| SimC event loop | `simc.f`, `generate_dis.f`, `results_write.f`, `Ntuple*.f` | position in the dat file, counters, n-tuple, normalisation | attempt, read a line, accept or refuse, write a row, end game |
| spectrometer transport | `simc.f` (`montecarlo`), `hms/mc_hms*.f`, `shms/mc_shms*.f` | `recon` and `main` (outliving the event), stop counters | take the recoil arm, then the electron arm, plane by plane |
| root-tree converter | `util/root_tree/make_root_tree.f`, `froot.c` | record stream, rows | read records, fill, write |
| LAD application, DIS mode | `LADPrimaryGeneratorAction.cc`, `LADEventAction.cc`, `HodoAnalysis.cc`, `HistoManager.cc` | static generator buffers, hit vectors per thread, three trees | run, event and step actions, DISgen |
| other generators | `LADPrimaryGeneratorAction.cc`, `LADLUNDReader.cc` | scan direction, open LUND stream, particles read | Scan, Raster, LUND, default |
| hodoscope, frames, GEMs | `LADDetectorConstruction*.cc`, `LADVariables.cc`, `LADGEMSD.cc` | settings of `LAD.ini`, placed volumes, copy numbers, sensitive detectors | read, place piece by piece, book the steps of a track |
| selection | `SimC/dis/select_accepted_DIS_dat.C` | id set, two selected dat files, histograms | read ids, filter lines, plot |
| merge | `merge_simc_g4.C` | id map, output trees | check, index, join, write or die |
| CTP parameters and tests | `SimC/CTP/th{Load,Group,Parm,Test,TestParse,TestExecute,Utils}.c` | blocks, groups, registered variables and their storage, booked code, scalers, the parser's static variables | load, book, set, evaluate, execute, count, clear |
| CTP variables and remote access | `SimC/CTP/daVar*.c`, `thClient.c` | hash table, storage, queue of test reads, lists of names, one pending answer | look up, read, write, list, import, test-read, call back |
| CTP histograms, trees, reports | `thHist.c`, `thGethit.c`, `thTree.c`, `thReport.c` | | not modelled, section 8 |
| physics models, data, vendored code | `radc.f`, `F1F2IN21.f`, `cteq5`, ... | | not modelled, section 8 |

How they interact: the driver writes configuration *files* that the programs
read when they start; the programs leave files in *shared* scratch directories;
the jobs move what they find there into the run directory; the driver learns
nothing from them but what is in that directory. The merge sees two files and
knows nothing of where they came from. Within Geant4, the run manager calls the
generator and the actions, on as many threads as it is told; the copy numbers
the construction gives out are taken apart again by the analysis. CTP is called
by SimC when it starts (`dbase.f`), and by an outside client through RPC.

What is hard about it:

* **partial failure**: `wait` reports nothing about the three jobs, the
  converter reports errors by returning normally, SimC stops in mid-file at the
  end of its input, a row may be cut in two, an import may be refused half-way;
* **stale state**: files of earlier runs in the scratch directories, `recon` of
  an earlier event, hit vectors and id sets that must be cleared, the last line
  of a LUND file, static variables of a parser;
* **ordering and interleaving**: three background jobs, worker threads that
  share static buffers, a run directory that is renamed after its name was
  written to several places, a server that scans while its events go on;
* **timeouts**: a reply that comes after its call was given up, a test read that
  is queued for an answer that may never come;
* **numeric edges**: ids beyond 2^24 in a real\*4, events with vanishing
  momentum, 0- and 1-based numbering, a count larger than the sample, some
  hundred plates placed by hand, integer and real operands.

`PROJECT.json` lists these hazards one by one with their lines and with the
properties that would notice them going wrong.

What makes each component correct:

| component | correct when |
|---|---|
| driver and jobs | programs are configured consistently and for files that exist; what is merged is from the run's own sample; the exit status is honest; nothing happens to a run after it ended |
| SimC | a row's id, electron and recoil come from one usable line; an attempt uses one event; the normalisation is of a complete sample |
| transport | every particle is accounted for once; a row holds the tracks of its own event, in the columns of the right spectrometer |
| root-tree | a row is whole and one event's; complete rows are all there |
| Geant4 | event *e* is made from entry *e*; the trees are aligned or visibly not |
| generators | the scan meets every bar; a LUND event is its record |
| detector | no two pieces share space, volumes lie in their mothers, the steel stands; a hit names the bar or chamber that was crossed |
| selection | exact, for each spectrometer on its own; the plots compare one sample with itself |
| merge | the join on the event id, or a failure with a reason |
| CTP parameters, tests | a line means what it says in C; a parameter holds what was written last; a scaler counts the events its test was true of |
| CTP remote access | a list that is read is of one moment, an import whole or a failure, a test read is queued and leaves the queue again, every call returns |

## 2. Modules

| module | models | checked by | proved in |
|---|---|---|---|
| `SimcDis` | SimC's event loop, `generate_dis`, n-tuple, end game | `MCSimcDis` | `SimcProofs` |
| `Montecarlo` (extends `SimcDis`) | the same loop with the way through the two spectrometers; implements `SimcDis` | `MCMontecarlo` | `SimcProofs` |
| `MakeRootTree` | `make_root_tree.f` with `froot.c` | `MCPipeline` | `MakeRootTreeProofs` |
| `LadG4` | the Geant4 application in DIS mode | `MCLadG4` | `LadProofs` |
| `SelectAccepted` | `select_accepted_DIS_dat.C` | `MCPipeline` | `SelectAcceptedProofs` |
| `EventJoin` | *abstract*: a join of two tables, or no result | | |
| `MergeSimcG4` | `merge_simc_g4.C`; implements `EventJoin` | `MCMergeSimcG4` | `MergeSimcG4Proofs` |
| `DisWorkflow` | the driver and its jobs | `MCDisWorkflow` | `DisWorkflowProofs` |
| `Pipeline` | `SimcDis`, `MakeRootTree`, `SelectAccepted` and `MergeSimcG4` composed on one sample | `MCPipeline` | `PipelineProofs` |
| `Solids` | boxes, rotations, subtractions, assemblies | | |
| `HodoFrames` (extends `Solids`) | the steel of panels and stands | | |
| `LadDetector` (extends `HodoFrames`) | `LAD.ini`, the construction, the booking of hits | `MCLadDetector` | `LadProofs` |
| `Generators` | Scan, Raster, default, LUND | `MCLadDetector` | `LadProofs` |
| `CtpExpr` | expressions: tokens, compiler, stack machine | | |
| `CtpLines` (extends `CtpExpr`) | lines written from trees, given to it in turn | `MCCtp` | |
| `Ctp` (extends `CtpExpr`) | files, blocks, groups, parameters, tests, scalers | `MCCtp` | |
| `DaVar` | the registry: look-up, reading and writing by name | | `DaVarRpcProofs` |
| `DaVarRpc` (extends `DaVar`) | server, client and connection | `MCDaVar` | `DaVarRpcProofs` |

An operator named `X_Mistake` just above an operator `X` is `X` with a
plausible mistake in it. No specification uses it; putting it in the place of
`X` makes a property fail, which `PROJECT.json` records under `mutants`: it
shows what that property is sensitive to.

`LadG4` and `LadDetector` are about one application and `LadProofs` extends both,
so what they have in common by name is told apart in `LadDetector`:
`DetectorInit`, `DetectorNext` and `DetectorSpec`; `BeginOfEventAction` for the
begin of an event as one track sees it; `paddles` for the vector `vPaddle`, which
`LadG4` has as one per worker.

### How state and actions correspond to the code

**SimcDis.** A line of the dat file is one of five kinds, by what
`generate_dis` does with it: blank or comment, unreadable, vanishing electron
momentum, vanishing recoil momentum, usable. `BeginAttempt` is the top of the
`do while` of `simc.f`; `ReadLine` is label 10 of `generate_dis`, including the
order in which the id, the electron and the recoil are stored before a line is
thrown away; `EndOfFile` is its `stop`; `Simulate` is everything after it up to
the counting of `nevent`, with the verdict of the spectrometers and of the
SPedge limits left open; `Finish` is the end game. Kinematic values are
abstracted to the number of the line they were computed from, so that a row put
together from two lines shows.

**Montecarlo** extends `SimcDis` and spells that verdict out. `LoopStep` is any
other step of the loop. Once `generate_dis` has its line, `CallMontecarlo` clears `success`, as
the subroutine does, and for the recoil arm and then the electron arm there is
either `CopyThrough` (CASE 2 of `montecarlo`) or `EnterSpectrometer`,
`PassPlane`/`StopAtPlane` along the cascade of planes in the order of
`mc_hms`/`mc_hms_hut` or `mc_shms`/`mc_shms_hut`, and `LeaveSpectrometer`; then
`Complete`, for `complete_recon_ev`, `complete_main`, the hard cuts and the n-tuple
row, is the `Simulate` of the loop with the verdict that came out. Each plane is named for the
stop counter it advances. Optics is real arithmetic, so whether a plane stops a
particle is left open. A track is abstracted to the line of the dat file it was
computed from, and a row is kept column by column, as each spectrometer fills its
own. `ytar` is kept apart: CASE 2 copies delta, yptar and xptar, but not z, so that the
columns ytar and focal plane of an arm that is switched off show what was there at
the start of the run. Everything up to `Complete` leaves the variables of `SimcDis` alone:
`TransportSpec` implements `Spec`, which is a theorem.

**MakeRootTree.** The stream of records may end anywhere, since SimC may have
stopped anywhere; values are events again, and pass through `Single`, the
rounding of a real\*8 integer to a real\*4 with ties to even. `Header`,
`ReadRecord`, `FillNTBranch` and `RootNTOutp` are the steps of the program.

**LadG4.** Every worker thread has its own program counter, hit vectors and
trees; the buffers of `DISgen` are one variable, because they are
function-static. `TakeEvent` is the run manager handing out event numbers
(modelled from its use), `ReadEntry`, `ElectronVertex` and `RecoilVertex` are
`DISgen` cut where another thread could come between, `EndOfEvent` and
`EndOfEventMissing` are the two ways through `EndOfEventAction`. `NoSample` and
`PastTheEnd` are the fatal exceptions of `DISgen`: no file named, none that
can be opened or no tree in it, and an event number beyond the tree. (The exception for an
unknown `e-` needs a physics list without electrons.) An exception of this kind aborts
the program where it stands. With `beamOn 0` Geant4 calls no action of the application: the
model books nothing and writes nothing then.

**SelectAccepted.** One macro, two spectrometers in turn, every early return of
`ProcessOneSpectrometer` included. A line is its kind and its id; a histogram is
the sequence of the events it was filled for.

**MergeSimcG4.** `Open` (with the comparison of the entry counts), `Index` (one
entry of `hodoenergy` a step), `CreateOutput`, `JoinRow`, `Write`, and `Die`
for `die_merge`. `hodoposition` and `gemana` have no ids: the model keeps their
lengths and the entry numbers used on them.

**EventJoin** promises what merging is for: from `left` and `right` to one
outcome, the join or failure, decided in one step. `MergeSimcG4!Join` maps the
program to it: the filled pairs are the outcome once the file is written, a dead
merge is a failure.

**DisWorkflow.** One action per part of the script between two things that can
fail or that others can see, and two steps per job (run, move). The contents of
a file are abstracted to the run its sample belongs to and to whether its
maker came to an end. Programs are described by what they may leave on disk:
nothing, a file that is not whole, a whole file. Run directories are named by
`[second, events]`, as `RUN_TAG` is.

**Pipeline** instantiates the four program modules with each other's outputs as
inputs, on one sample; the identity of an event is its line of the dat file.
`MCPipeline` runs it, or the tree converter or the selection alone, on inputs
that no healthy run of the pipeline makes.

**Solids, HodoFrames, LadDetector.** Geometry is done in integers: mils in the
hall, tenths of a mil inside a wall, half micrometres inside a chamber, sines
and cosines scaled by 5000. `HodoFrames` has one operator per function of
`LADDetectorConstructionFramesCreator.cc`, giving the parts it adds to its
assembly, in the same order; the cutters of `G4SubtractionSolid` are kept where
they trim a tube. `ReadLine`/`EndOfFile` are `LADVariables`, `BuildPanel` is one
turn of the loop over walls and layers in the hodoscope creator (with the steel
that turn adds), `BuildGEM` one chamber, `ConstructSDandField` the sensitive
detectors; `BeginOfEvent`, `UserSteppingAction` and `LeaveTheWorld` take a track
through the cells it crosses, `StepAnalysis` and `ProcessHits` book. Two parts
are `Clear` of each other when an axis of either, or the cross product of one of
each, separates them, or a cut of one takes the overlap away.

**Generators.** A step is an event; what is kept between events are the step
counters, the open stream with its last line and its eof and fail bits, the
vectors of the reader, and what the gun aims at. `GetLine` leaves the string as
it was when the stream has failed, as `std::getline` does. Where a direction of the
scan meets a layer is worked out in integers: sideways from the tangent of `theta`, upwards
from the distance to the point met (rounded up) and a table of the tangents of `phi`
(rounded up), so that a ray said to meet a bar does.

**CtpExpr, CtpLines, Ctp.** A line is a sequence of lexemes and a number an
exact fraction, so that the difference between `/` and `//` and the conversions between
types are exact; ints wrap at `INT_MAX`.
`CtpExpr` keeps the parser's operand and operator stacks, the types it computes
for results, and the code: `thGetToken`, `thEvalImed`, `thBookaTest`, `thExecuteCode` and their helpers keep their names.
`CtpLines` writes a line from a syntax tree with as few parentheses as C allows
and says by recursion on the tree, without any stack, what it means.
A store outside of the storage it is meant for ends the model's program
with a fault, as nothing can be said of what comes after.
`Ctp` reads files of lines into blocks (`Load`, with includes and
continuations), books them, and lets a program set parameters, execute, count
and clear in any order.

**DaVar, DaVarRpc.** A name is a sequence of words, the dots of the code being
their boundaries. `DaVar` is the registry as operators on its hash table and
storage, from `daVarRegister` to `daVarWriteVar` with attributes, indices and
conversions; what it does name by name or value by value is a recursive function
on the number done. In `DaVarRpc` every call of the client is a request and the wait
for its reply, which may be lost in a timeout while the request still stands;
`davarsvr_1` serves one request. That of a `thGetList_test` is acknowledged and
queued, or is the end of the server: `davar_readmultiple_test_1_svc` passes on a pointer that
it never sets (`daVarRpcProc.c:264`), and both that it happens to be right and that the server dies of it
are outcomes a build can have. `daVarCallBack` scans the queue once per event and answers by
a call of its own that stays in the client's socket until the client serves it; the client's
stub for it has such a pointer too, but its callee does not look at it
(`thClient.c:573`).

## 3. Runs

| run | question | properties |
|---|---|---|
| `simc_dis` | does the n-tuple agree with what was read, and does SimC end? | `RowsAreCoherent`, `OneEventPerAttempt`, `NormalisesCompleteSample`, `Terminates` |
| `montecarlo` | is every particle accounted for, is a row of one event? | `StopsAccountForTrials`, `RowsReconstructOwnEvent` |
| `merge` | is the macro a join? | `RowsMatchEvents`, `DiesForAReason`, `OldOutputKeptUntilIndexed`, `ImplementsJoin` |
| `pipeline` | one sample all the way; cut streams; any dat file and trees | `MergedRowsAreOneEvent`, `MergeFailsForSkippedEvents`, `AllAcceptedAreMerged`, `RowsAreWhole`, `SelectionIsExact` |
| `workflow` | two runs after each other, everything may fail | `ProgramsFindTheirInputs`, `ExitStatusTells`, `MergedFromOwnRun`, `EndedRunsStayAsTheyAre` |
| `lad_g4` | are events made from their entries, are the trees aligned? | `PrimariesFromOwnEntry`, `HodoEntriesHoldOwnHits`, `MisalignedGemShows`, `BreaksOffAfterTheSample`, `FilesAreWritten` |
| `lad_detector` | does the detector fit together, do hits name what was crossed, do the other generators shoot what they should? | `PiecesDoNotOverlap`, `VolumesNest`, `StandsHoldTogether`, `HitsNameTheirBar`, `GemHitsNameTheirPlane`, `DriftGapFacesTheTarget`, `ScanMeetsEveryBar`, `LundEventsAreTheirRecords` |
| `ctp` | do files, parameters, tests and expressions mean what they say? | `ScalersCountEvents`, `ParametersHoldWhatIsWritten`, `LinesMeanTheirTrees` |
| `davar` | are lists that are read of one moment, imports whole, and does everything waited for end? | `ListsKeepCounts`, `SnapshotOfOneMoment`, `ImportIsComplete`, `CallReturns`, `QueueDrains` |
| `workflow_stale`, `hodo_entrance`, `ctp_double` | disagreements, section 6 | `MergedFromOwnRun`, `EveryEntranceHasAPosition`, `DynamicParametersGrow` |

The type invariants of `SimcDis`, `MakeRootTree`, `LadG4`, `SelectAccepted`,
`MergeSimcG4` and `DisWorkflow` (`TypeOK`) and of `Montecarlo`
(`TransportTypeOK`) are proved and not run. Deadlock is checked wherever the program is one that ends: those modules
have an explicit step for having ended, so that a state without a successor is a
program that hangs. In `ctp` and `davar` the bound on the calls stops the
client, in `lad_detector` the program ends with its runs or at the end of the
LUND file; there deadlock is not checked, and `CallReturns` and `QueueDrains`
say what may not get stuck.

### Bounds and why they are enough

* `simc_dis`: every dat file of up to 4 lines over the 5 kinds, every `ngen`
  from -3 to 3 but 0. Two usable events with a skipped line of any kind before
  and between them, and a quota that is missed, met or left over, need four.
* `montecarlo`: every dat file of up to 2 lines over the 5 kinds, every `ngen` from
  -2 to 2 but 0, with and without hard cuts, all four `spect_mode`s, both assignments of the
  spectrometers, every plane (25 for HMS, 46 for SHMS with the arrivals at the
  hut). What one event can leave to the next are one record per arm and the
  counters, so a second event meets everything a later one could.
* `merge`: trees of up to 3 rows, 3 ids and a non-integer, entry counts that
  agree or not: duplicates, gaps, a missing partner for the first, a middle and
  the last row.
* `pipeline`: samples of up to 4 events, any of them with a vanishing momentum,
  every `ngen` from -1 to -4, `MaxExact` = 4 in the place of 2^24. The converter
  alone: rows of 3 variables, up to 3 rows, the stream cut at any record,
  `nevents` = 2 and ids up to 6, so that the limit on rows and the rounding are
  both met. The selection alone: two spectrometers, dat files of up to 2 lines
  of every kind over 2 ids, trees of up to 2 rows, anything missing or
  unreadable: repeated ids, ids of the other tree only and ids that are not in
  the dat file all occur.
* `workflow`: two runs, samples and requests of 0 to 2 events, so that capping
  renames the directory, onto the other run's name too, and a clash within one
  second is possible; every program may fail in every way. `workflow_stale`:
  one run, scratch directories with old files.
* `lad_g4`: one worker, as `LAD.ini` and `lad_g4.csh` configure it, up to 3
  events and any size of the DIS file up to 3, so asking for too many happens, or a
  file that is missing or has no tree;
  any subset of recoil PIDs unknown; any GEM collection missing. Misalignment
  needs an event with a gap, one after it to take up the stale hits, and one
  after that to show that it lasts.
* `lad_detector`: three `LAD.ini` (the settings the repository ships, an empty
  file, which leaves everything to the defaults, and one with lines that the
  reader does not know, refuses, or replaces later); all three walls with all
  their layers, every piece of steel, both chambers: nothing of the geometry is
  scaled down. Tracks are straight and go through the middle of an outermost and
  of the middle bar along each of its three axes, or through the chambers, either
  way, by a charged or a neutral particle. Runs of 3, 25 and 460 events, two
  of them in any order: 460 is more than one tour of the scan through both walls
  (2 x 220). LUND files of several records, cut after any line, with and without
  a final newline, missing, or miscounted.
* `ctp`: three loads of three files (and a fourth one that is included) that
  continue lines, redeclare, lengthen and repeat each other's parameters, of ints,
  floats and doubles, one
  setting, two events of either of two values, in any order of calls; ints of one byte (`INT_MAX` = 127) so that
  results wrap. Every binary operator with operands of every kind on either side,
  every pair of binary operators in both nestings (on a few operands), prefix operators, functions,
  elements, assignments to everything that can be assigned to; any of a few of
  these after any line, and scraps that are no expression.
* `davar`: two calls, one event between, lists of up to
  two names from two patterns, one import, one write: a late answer needs two
  calls, a torn snapshot one event. Types int, real and string, an array that is
  shorter at the client's end, names that differ in case.

### Assumptions

* Runs of the workflow follow one another in one checkout. Two at the same time
  edit the same `LAD.ini`, `dis.mac` and `.inp` files; nothing in the script
  guards against it or claims to support it.
* `workflow` starts from empty scratch directories (`CleanScratch`), and
  `workflow_stale` shows why that matters.
* Copying a sample takes a second, nothing else needs to take any time.
* What the code outside `src/` does (Geant4's run manager, ROOT, csh, the RPC
  library) is modelled from how `src/` uses it.
* A client of `davar` is one process with one call at a time, as `thClient.c`
  is written for.
* What the server and the client have registered (`RpcAssumption`): variables that
  share storage are registered alike; those of the client's that differ in name
  have storage of their own, since the client's is allocated by CTP name by name;
  the variables under a class of blocks are the ints its blocks are counted in
  (`thLoad.c:243`). No variable of the server's ends in the name of an attribute
  that can be written, `value` or `title` (`PlainNames`): a client would take it
  for that attribute of another variable (`daVarHandlers.c:73`).

### Fairness

* `SimcDis!FairSpec` is weak fairness of the whole next-state relation: a
  sequential program with no waiting takes its next step. `Terminates` follows
  since each attempt consumes lines.
* `LadG4!FairSpec` is weak fairness of every worker: each is a thread with its
  own event loop that nothing blocks for good. `FilesAreWritten` depends on it.
* `DaVarRpc!FairSpec` says that a client in a call goes on with it (each of its
  waits has a timeout of its own: `ReplyTimeout`, `WaitTimeout`) and that the
  server goes on scanning its queue, which it does once per event. It does not
  say that the server takes requests, or that answers arrive. `QueueDrains` is about
  each test read on its own: it leaves the queue whatever is queued after it.
* All other properties are safety. `DisWorkflow` is a loop-free script whose
  only waiting is `wait`; that it never gets stuck is what the deadlock check
  of its run shows.

## 4. Proofs

All theorems are proved with TLAPS for every value of the constants. Thirty-one of
the forty properties the passing runs check are theorems as well: TLC has tried each on a
small instance, the proof covers all. Section 5 has the other nine.

| theorem | module | says |
|---|---|---|
| `TypeCorrect`, `TransportTypeCorrect` | all but `PipelineProofs` and `DaVarRpcProofs` | type invariant |
| `TransportImplementsLoop` | `SimcProofs` | transport plane by plane implements the event loop: what is proved of `SimcDis` holds of `Montecarlo` |
| `EventIdIsKey` | `SimcProofs` | rows are coherent and in file order: `event_id` is a key |
| `AttemptsMatchEvents` | `SimcProofs` | an attempt uses one usable event, whatever it skips |
| `NormalisationIsComplete` | `SimcProofs` | only a complete sample is normalised |
| `RowsAreTheirOwn` | `SimcProofs` | no row holds a track left over from another event |
| `StopsAddUp` | `SimcProofs` | every particle is counted once among those a spectrometer stops or passes, and those past the hut likewise |
| `TreeRowsAreWhole` | `MakeRootTreeProofs` | the tree is the complete rows of the stream, up to `nevents` |
| `HodoTreesAreAligned` | `LadProofs` | the hodoscope trees of each worker are aligned and clean |
| `MisalignmentShows` | `LadProofs` | misaligned GEM entries imply a length that differs |
| `AbortsWithTheSampleDone` | `LadProofs` | when the application aborts, every event the sample has an entry for is recorded or in the hands of a worker; without a sample, nothing is recorded |
| `OneWorkerPrimaries` | `LadProofs` | with one worker event *e* is made from entry *e* |
| `LundEventsAreRecords` | `LadProofs` | the vertices of a LUND event are the known particles of its record, and the program stops where the records end |
| `ScanMeetsBars` | `LadProofs` | an event of the scan is in line with the bar whose turn it is in both layers, and meets it but for the last 2 (near wall) or 4 (far wall) of its 20 events |
| `StepsAreInTheirBars` | `LadProofs` | a step in a bar is booked under that bar, once; positions are of bars that were entered |
| `GemHitsAreOfTheirPlane` | `LadProofs` | a GEM hit has the number of its chamber, from the detector of that chamber, in the order of the chambers |
| `DriftGapComesFirst` | `LadProofs` | the drift gap of a chamber is met before its foils and its readout |
| `WallsAndChambersNest` | `LadProofs` | every volume of a wall or chamber lies in its mother and beside its sisters |
| `SelectedAreOwn` | `SelectAcceptedProofs` | a selected event is in the tree of the spectrometer it is selected for |
| `SelectionExact` | `SelectAcceptedProofs` | selected files and plots are exactly the events of the spectrometer's own tree |
| `MergedRowsMatch` | `MergeSimcG4Proofs` | merged rows pair equal ids, the four trees in step |
| `MergeIsComplete` | `MergeSimcG4Proofs` | a file that is written has every row |
| `OldOutputIsKept` | `MergeSimcG4Proofs` | an older output goes only when the index is complete |
| `DeathHasAReason` | `MergeSimcG4Proofs` | a merge dies only for unreadable or unequal trees, a repeated or missing id, or an output it cannot make |
| `MergeIsTheJoin` | `MergeSimcG4Proofs` | `MergeSimcG4` implements `EventJoin` |
| `EndedRunsAreLeftAlone` | `DisWorkflowProofs` | nothing changes a run that has ended |
| `InputsAreFound` | `DisWorkflowProofs` | programs start on files of their own run, with one event count |
| `MergedIsOwn` | `DisWorkflowProofs` | what is merged is from the run's own sample |
| `ExitStatusIsHonest` | `DisWorkflowProofs` | a run ends well exactly when both merges are its own |
| `MergedAreOneEvent` | `PipelineProofs` | electron, recoil and Geant4 entry of a merged row are one event of the sample |
| `MergeFailures` | `PipelineProofs` | a merge that has begun its output fails only for an event SimC skipped |
| `NothingIsLost` | `PipelineProofs` | every event SimC accepts is merged, selected and plotted |
| `StreamsConvertWhole`, `FilesSelectExactly` | `PipelineProofs` | `TreeRowsAreWhole` and `SelectionExact` for the programs that `MCPipeline` runs alone |
| `InductiveInvariant` | `DaVarRpcProofs` | a reply that stands is the one the call under way waits for, read of the server's storage at one moment |
| `CountsAreKept` | `DaVarRpcProofs` | a list has as many names as it counts, after any additions and removals |
| `ListsAreSnapshots` | `DaVarRpcProofs` | when a plain `thGetList` returns 0, the list has the values of one moment of the server |
| `ImportsAreComplete` | `DaVarRpcProofs` | an import that succeeds has every variable that matches, with its value at one moment |

Assumptions on constants are the named `ASSUME`s of the modules: bounds are
naturals, sets of workers are finite and not empty, ids are integers and
`NotInteger` is none, `"none"` and `"old"` are no names of runs. TLC evaluates
each of them in the runs. That the detector's settings have keys, that the angles have both a sine and a
cosine and that tracks aim at bars there are is `DetectorAssumption`; no angle and no
distance enters the four proofs about the detector. `RpcAssumption` and
`PlainNames` are those of section 3. `MakeRootTree` and `SelectAccepted`, which `Pipeline`
instantiates, have theirs as operators (`TreeAssumption`, `SelectAssumption`)
that the theorems take as hypotheses and `MCPipeline` assumes, and
`MCLadDetector` assumes that of `Generators`, that LUND files are made of records
(`GeneratorsAssumption`); `PipelineProofs`
proves them for the constants `Pipeline` gives its four programs
(`SimcAssumptions`, `TreeAssumptions`, `SelectAssumptions`, `MergeAssumptions`).
`PipelineAssumption` is what that needs: a sample is not empty and its largest id
is one that a real\*4 holds exactly, so there are at most 2^24 + 1 entries.
Larger samples are outside of what the programs can do, since
`make_root_tree.f` converts 10^7 rows at most (`:18`). Three theorems of
`DisWorkflowProofs` take `CleanScratch`, that there were no old files in the
scratch directories before the first run; `workflow_stale` shows what happens
without it.

Each proof goes the same way: an inductive invariant, one step per action, and
the property as a consequence.

* `SimcDis!IInv` adds `LoopInvariant` to the properties. None of these is
  inductive alone: that a new row is coherent needs to know that an event being
  simulated is the line just read, that it is later than any row, and that the
  id, the electron and the recoil were all stored from it; that the
  normalisation is complete needs `nevent` to be attempts or rows according to
  the sign of `ngen`. The counting of usable lines is a lemma on the
  cardinality of `EventLines` (`EventLinesStep`).
* `SimcProofs!StopIInv`. `Counted(counters, names)` is the sum of the
  counters as a set, which the n-th particle a counter counted is a member
  `<<name, n>>` of, and `Total` its size: a counter that goes up adds one member,
  so the proof is about one more element of a finite set and needs no
  induction over the names. The counters have to be counted apart for the magnets and
  for the hut, because a plane knows on which side of it it stands from its place
  in the cascade, and the names of the two sides are disjoint.
* `SimcProofs!TracksIInv`: until both arms are left a record may be stale, but
  `success` is not set, and it is only set in the step that leaves the second
  arm, when both records are of the current event. An arm that is not
  transported never has its ytar and focal plane filled. That electron and recoil are of one
  line, whose id the row gets, is the invariant of the event loop, which holds here by
  the refinement (`LoopIsKept`): `TransportStep` shows that a step of `montecarlo`
  leaves the loop's variables alone and that `Complete` is its `Simulate`.
* `MakeRootTreeProofs!IInv`: the rows written are whole, the fields of the row
  under way are those of its event, and the number of records read, a product of
  two variables of the program, is never beyond the stream. That a stream ends
  inside a row then follows from the uniqueness of quotients (`DivUnique`).
* `LadProofs!IInv` has per worker `HodoInv` (aligned, clean, ids below the
  event under way) and `GemInv` (GEM entries are at most as many as hodoscope
  entries; as long as they are as many, there are no left-over hits and every
  entry is its own event's). Once the lengths differ they differ for good,
  which is what makes the comparison of entry counts in `merge_simc_g4.C` a
  sufficient check. `BufferInv` says that between `ReadEntry` and `RecoilVertex`
  the static buffer holds the entry of the worker's event; it needs `OneWorker`,
  and that is not a weakness of the proof: with `Workers <- MCTwoWorkers` TLC
  finds `PrimariesFromOwnEntry` violated. For an abort, `Handled` says that every event
  handed out is recorded or in the hands of a worker, `Unread` that nothing is recorded
  when no sample can be opened, and `SavedAtTheEnd` that only workers whose run is over
  have written their file, which the one that meets the exception is not.
* `LadProofs!LundInv`: between two events the reader stands where a record ends.
  Which line that is, is said by a table of the places where the records start in
  the file (`Starts`), so that no sum over the records is needed; reading a
  record takes the stream, with its string and its fail and eof bits, from one
  place of the table to the next (`ReadOne`, `ReadParticlesIs`, `LundStep`).
* `LadProofs!ScanInv`: the direction of the gun is a function of the event's place
  in the tour of its wall. Each of the 11 directions meets its bar, in
  both walls and both layers, by computing the tangents that the model's integers
  give (`Tangents`, `Directions`); how far up a ray is there is bounded for each
  direction and step (`Reaches`, `StaysBelowTheEnd`).
* `LadProofs!HitsInv`. `InOrder` lists the faces that a line crosses; a member's rank
  tells its place in the list (`InOrderIs`), and the innermost volume between two faces
  that follow each other is the cell there (`InnermostIs`). Volumes
  that a line meets keep their distance from each of its bars, and a bar is within its
  wrappings (`MetAreApart`), so no bar follows a
  bar in the cells of a track (`NoBarAfterBar`): a step into a bar is an entrance, and a bar
  whose step is booked is one that was entered. The invariant says this of the
  bars, the energies and the positions booked so far.
* `LadProofs!GemsInv`: what an outward track has ahead of it is the end of
  `GemTrack`, and what it has left is a function of where that begins (`HitsBefore`). The 52
  cells of `GemTrack` come from the layers' depths, which rise
  (`ThicknessGrows`, `DepthRises`, `RisingInOrder`) through a sum that is a recursive
  function. `WallsAndChambersNest` is about the same tables, for volumes of every
  wall, layer and bar at once.
* `SelectAcceptedProofs`: `acceptedIDs` is the id set of the spectrometer under
  way from the moment its lines are read (`IdsAreOwn`), which is what clearing it
  between the spectrometers is for. For `SelectionExact`, `IInv` describes every
  file under way against the whole of its input: the contents of a selected file are stated by
  `Lists(list, lines, places)`: the list has as many members as there are places, and
  the line at each place is the member with the place's `Rank`, the number of places up
  to it. Reading one more line leaves the ranks of the others alone and gives the new one
  the next, so this is kept step by step, without recursion over the file.
* `MergeSimcG4Proofs!IInv`: the index is exact on the entries seen, the number
  of filled rows is the loop variable minus one, and after `Open` the three
  Geant4 trees have one length. For the refinement, `Write` maps to
  `EventJoin!Succeed` (`WriteSucceeds`: the index being exact makes the entry
  found the *only* partner, so the `CHOOSE` of the abstract join is that
  entry), `Die` to `Fail`, and everything else stutters.
* `DisWorkflowProofs` needs four layers. `RunInv`: runs do not overlap, jobs run
  only while their run waits, and a run under way has a later tag than any
  directory with another run's sample; so whatever it writes to is not another's
  directory, which is `EndedRunsAreLeftAlone`. `OwnInv`: a run under way has its
  directory under the name it goes by, with its own sample and nothing of others;
  its count is neither zero nor above the request; and once written, `LAD.ini`,
  `dis.mac` and the `.inp` files agree with both. This is where the renaming of
  the directory after the cap has to be right. `ScratchInv`: the scratch
  directories hold only what a job under way is about to move, so a job can find
  only its own product. `MergedInv`: a merged file belongs to a run that came as
  far as that merge.
* `PipelineProofs` puts the invariants of four programs together. Each program
  starts when the one before it is over, and its inputs do not change from then
  on; so `IInv` says of each that it has not started, or that the one before is
  over and its own invariant holds, and the step lemmas of the single proofs
  (`StepIInv` of each) carry over as they stand: a step is one program's, and leaves
  the variables of the others alone (`SimcKept`, `TreeKept`, `SelectKept`,
  `MergeKept`). The theorems then follow the id. SimC's rows are in file order and
  coherent, so the ids of the tree increase and single precision changes none
  of them (`RowsOfSimc`, `Converted`). An id in the merge's index is therefore the
  entry of Geant4 that has its number (`MergedEntry`), and a row that finds no partner was
  read beyond line N + 1, which `OneEventPerAttempt` allows only if a line was
  skipped (`NoneSkipped`): `MergeFailures`. For the selection, rank n among the accepted
  lines is row n of the tree (`RankInOrder`, `AcceptedInOrder`), so the number
  selected is the number accepted and the plots agree event by event. TLC has
  checked this `IInv` on samples of up to three entries.
* `DaVarRpcProofs!IInv` says of every request, every reply, the server's queue and the client's
  lists which call they belong to and what they hold (`ListsOK`, `QueuesOK`,
  `CallOK`, `RequestsOK`, `RepliesOK`, `ServerOK`, `ClientOK`): only the last request can be
  that of the call under way, and a reply that stands answers it from one of
  the server's moments, which are in `past`. Below it are the facts about the
  registry: names stay known (`KnownNames`), values that come under one name, in
  whatever case, agree (`Alike`), and a value once written stays when the next is
  written (`Hold`), which is where storage of one's own is needed. `PlainNames` is needed for imports. What a list comes to name by name is
  proved by induction on the number of names. The library's induction theorems are
  out of reach, but a set of numbers without its least member is not
  (`Least`): with the set of those numbers for which a statement fails,
  `Induct` and `InductTo` give induction for any set, and `Recursion` the values of a
  recursive function. `LadProofs` uses the same three.

## 5. What is only model-checked

* Liveness (`Terminates`, `FilesAreWritten`, `CallReturns`, `QueueDrains`) and
  everything under fairness: out of the prover's reach.
* `PiecesDoNotOverlap` and `StandsHoldTogether`. They depend on the settings: with
  walls too close to each other the steel does overlap. For those that ship it is
  comparing some hundred pieces of a finite table with each other, which is computing, and TLC does
  it for all of them.
* `CtpExpr`, `CtpLines`, `Ctp` (`ScalersCountEvents`, `ParametersHoldWhatIsWritten`,
  `LinesMeanTheirTrees`): the meaning of a syntax tree, the compiler, the reader of
  nested files and the stack machine are recursive operators, and the provers have
  no arithmetic backend in a module that has one. Nor would the first two be true of
  any files: what a scaler should count is given to the model with the files (`Holds`),
  and a line that continues a failed one, for instance, writes where it should not (section 6).

Induction over data is only half out of reach. The library's theorems on it
take an operator as a parameter, which none of the provers can instantiate. The
proofs above have three ways round it: count with a set that grows by one element
(`Total`), describe a result by ranks (`Lists`, `InOrderIs`) and let the program's
own steps do the induction, or state it as a fact about a set of numbers
(`InductTo`), which is a first-order statement.

## 6. Where the code and what is said of it differ

1. `workflow_stale`. The jobs' exit statuses are lost in `wait`, and
   `hms_simc.csh`/`shms_simc.csh` move `worksim/<infile>.root` whoever made it:
   after a failing SimC an old tree is merged and the script ends with 0. Two such
   trees are part of the repository.
2. `hodo_entrance`. `HodoAnalysis::StepAnalysis` means to book a position when a
   particle enters a bar, and looks for steps from `SciWall` straight into
   `Bar_phy`. On their long sides the bars are wrapped in lead, aluminium and
   Kapton, which are daughters of `SciWall` too, so only tracks through the ends
   of a bar get an entry.
3. `ctp_double`. "Automatically up size for dynamic pars" (`thParm.c:317`) has a case for
   ints and one for everything else, which is written for floats. A parameter declared
   `#double` that is given more values than it has goes there: the storage
   of the last float parameter is copied and freed for it, and its values are written past the end
   of what it had.

Also met, without a run:

* Workflow and SimC. With a negative `ngen`, "process exactly N input events"
  (`run_simulation.tcsh:205`, `README.md:103`), but `generate_dis` goes back to
  the file when an event has a vanishing momentum (`generate_dis.f:160`), so SimC
  reads further than event N while Geant4 simulates the first N. If one of the
  events beyond is accepted, the merge gives up; `MergeFailsForSkippedEvents`
  shows that this is the only reason it does. Ids beyond 2^24 are rounded in the
  real\*4 of `make_root_tree.f:50`. An older tree survives when the converter
  stops at the header, before it opens its output (`make_root_tree.f:32`). The SHMS part of the `.geni`
  report prints the counter of Q2 mid in the line of Q3 and no line prints
  `D1_men` (`simc.f:527`), so the printed stops do not add up to the trials,
  although the counters do (`StopsAccountForTrials`). `pass_cuts` compares the
  recoil with the upper momentum limit of the electron arm (`simc.f:244`).
* LAD application. The scan goes up to one angle for all bars, that of the longest and
  nearest (`LADPrimaryGeneratorAction.cc:199`), so its last events pass over the ends of shorter
  and farther ones. Two workers share the function-static buffers of `DISgen`.
  File names have a resolution of a second (`HistoManager.cc:296`). Raster and
  the default case never call `GeneratePrimaryVertex`, so their events are empty.
  `(150-123)/10` is an integer division
  (`LADPrimaryGeneratorAction.cc:144`). LUND vertices have no unit. A LUND file
  that is missing makes `stoi` throw; one cut without a final newline repeats its
  last particle up to the announced count (`LundEventsAreTheirRecords` leaves this
  case out); a record that announces too few takes a particle for the next
  header; the `exit(0)` at the end of the file (`LADLUNDReader.cc:60`) leaves the trees unsaved.
  `LAD.ini:12` offers "electron", which Geant4 knows as "e-".
* Detector. `LAD.ini:38` measures the distance of a wall to its front face, the
  construction takes it to the wall's centre. The corrections of `HodoAlign` are
  read, averaged, and then set to zero (`LADDetectorConstructionHodoCreator.cc:164`);
  applied they would put plates of neighbouring stands 0.39 in into each other,
  while the smallest clearance is 1.01 in now. `fCheckOverlaps` is off, so
  Geant4 would not say.
* Expressions. A minus after an unmatched `)` on an earlier line is read as a
  subtraction, since `thGetToken` keeps what the last token was between lines
  (`thTestParse.c:246`, `:284`); two prefix operators in a row run before their
  operand; a unary plus before `(` is an error; the space reserved for code is
  too small for 64-bit pointers (`:636`, `:740`); an integer `%` by zero stops the
  program; malformed lines in postfix order are accepted.
* Parameters and tests. A parameter that grows is reallocated (`thParm.c:328`)
  under code that was booked with its address. A test booked before a variable
  exists has the constant 0 in its place for ever (`thTestParse.c:797`); a result
  assigned in two blocks is counted twice per event; executing a block that was
  loaded but not booked follows a null pointer (`thTest.c:303`); a file that ends
  within a block, or an include that fails, hands `fgets` a null stream; a
  continuation line after a line that failed writes to the variable before it;
  `thLoadParameters` always returns success, so that the stops in
  `dbase.f:100` and `:116` are out of reach.
* Remote access. `davar_readmultiple_test_1_svc` passes a variable `clnt` that it never sets
  to `davar_readmultiple_test_1`, which looks up its caller through it
  (`daVarRpcProc.c:264`, `:216`) before it queues the request: a server that survives a
  test read owes it to what its stack holds. An import overwrites the storage of variables the client has
  registered, where a comment says it does nothing if they exist
  (`thClient.c:524`); a `thGetList_test` that fails leaves `pending_arg` set
  (`:472`), and an answer is matched by nothing but the number of its values, so one that
  comes late is stored as that of the next call (`:588`); a caller whose host has no name
  would be a null pointer for `daVarCallBack` (`daVarRpcProc.c:405`), which the model leaves out; the codes for too many values and for conversions are exchanged
  (`daVarHandlers.c:350`); a pattern with a prefix finds names in any case, one
  with wildcards only in its own (`daVarRegister.c:274`).

## 7. Plan

Done in this order: `SimcDis` and its proofs, `MergeSimcG4` with `EventJoin`,
`DisWorkflow`, `LadG4`, `MakeRootTree`, `SelectAccepted`, `Pipeline`,
`Montecarlo`; then the detector (`Solids`, `HodoFrames`, `LadDetector`) with
`Generators`, the expressions and parameters of CTP (`CtpExpr`, `CtpLines`,
`Ctp`), its variables and remote access (`DaVar`, `DaVarRpc`), and the proofs for
`MakeRootTree`, `SelectAccepted` and `DisWorkflow`; then those of the stop
counters, of the exact selection and of the whole pipeline; then those of the
remote access and its registry, of the generators and of the hits in the detector,
and of `Montecarlo` implementing `SimcDis`. What is left:

1. A driver killed between two steps, with its jobs left behind, and two runs of
   the workflow at once.
2. `Ctp` with its recursive operators written as functions, for proofs about groups,
   blocks and the storage of parameters.

## 8. What is not modelled

* Physics: cross sections, radiative corrections, optics, energy loss, the
  interaction of particles with the detectors. Real arithmetic is out of
  TLC's reach, and its outcomes are the nondeterministic choices of the models.
* SimC's other reactions and its generator (`event.f`, `radc.f`, ...), the
  spectrometers SOS, HRS and the calorimeter, pion collimators, sieves, target
  field: not used in DIS mode.
* Of the detector: materials, colours, the target chamber (commented out), the
  corrections of the angles of the walls (set to zero in the code), `LADHodoSD`
  (never attached), curved tracks, energies. A tube counts as filled and a ring
  as its members.
* Of CTP: reports; histograms and trees, which need HBOOK or ROOT, are not in
  the library `Makefile.Unix` builds and have their hooks commented out
  (`thGroup.c:91`); the old style of test lines; parameters that are strings; the
  code `rpcgen` generates; `cfortran.h`. Where the library's behaviour is undefined, the
  runs go as far as the first step of it: a store outside of its storage, a null stream or
  a missing counter is a fault after which `Ctp` makes no more steps, and the properties of
  `ctp` speak of programs without one; a test read has the two outcomes of section 2. Code
  booked with the address of storage that was freed since is not run.
* Two runs of the workflow at the same time, a killed driver, a damaged record in
  the middle of the n-tuple file.
* What histograms, plots and reports look like.
* Data files, copied library routines, build products.
