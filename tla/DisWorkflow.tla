----------------------------- MODULE DisWorkflow -----------------------------
(***************************************************************************)
(* run_simulation.tcsh with the three jobs it starts: lad_g4.csh,          *)
(* hms_simc.csh and shms_simc.csh (with run_simc_tree).                    *)
(*                                                                         *)
(* Several runs, one after the other, share one checkout: the converter's  *)
(* output file, the four configuration files and the scratch directories   *)
(* belong to nobody.  The contents of a data file are abstracted to the    *)
(* run whose sample it was made from and to whether the program that made  *)
(* it came to its end.  The programs themselves are described by what they *)
(* leave on disk, whether they succeed or not.  An operator X_Mistake is X *)
(* with a plausible mistake.                                               *)
(***************************************************************************)
EXTENDS Integers, Sequences, FiniteSets

CONSTANTS
    Runs,           \* executions of the script
    MaxEvents,      \* the largest DIS_EVENT_COUNT, and the largest sample
    CleanScratch    \* were the scratch directories emptied beforehand?

ASSUME WorkflowAssumption ==
    /\ IsFiniteSet(Runs)
    /\ MaxEvents \in Nat \ {0}
    /\ CleanScratch \in BOOLEAN
    /\ "none" \notin Runs /\ "old" \notin Runs

Spectrometers == {"hms", "shms"}
Jobs == {"g4"} \cup Spectrometers

NoSample  == "none"     \* of a file that does not exist
OldSample == "old"      \* of a file that was there before all runs

File(s, w) == [sample |-> s, whole |-> w]
NoFile     == File(NoSample, "none")
OldFile    == File(OldSample, "yes")
Exists(f)  == f # NoFile

With(f, k, v) == [x \in DOMAIN f \cup {k} |-> IF x = k THEN v ELSE f[x]]

VARIABLES
    now,            \* seconds, for date(1)
    requested,      \* DIS_EVENT_COUNT as set by the user of each run
    available,      \* events in the DIS_ROOT_FILE of each run
    pc,             \* where each run is
    second,         \* RUN_TIME_TAG
    count,          \* DIS_EVENT_COUNT, capped in the end
    path,           \* directory named by RUN_DIS_ROOT_FILE and DIS_DAT_FILE
    dirs,           \* the directories under Output/origin_output
    shared_dat,     \* simc_dis_lad/dis/<base>.dat
    lad_ini, dis_mac,   \* DISrootFile and /run/beamOn
    inp,            \* ngen and dis_datfile of both .inp files
    job,            \* progress of the jobs of each run
    hodo,           \* build_lad/HodoFile_*.root, oldest first
    root,           \* worksim/<infile>.root of each spectrometer
    merged          \* Output/hms/<tag> and Output/shms/<tag>

settings == <<requested, available>>
configs  == <<lad_ini, dis_mac, inp>>
scratch  == <<hodo, root>>
vars == <<now, settings, pc, second, count, path, dirs, shared_dat, configs,
          job, scratch, merged>>

(* A run directory is named by RUN_TAG: the second and the event count.      *)
Tag(s, n) == [second |-> s, events |-> n]
run_tag(r) == Tag(second[r], count[r])
NoTag == Tag(-1, 0)

EmptyDir == [input |-> NoFile, dat |-> NoFile, g4 |-> NoFile,
             hms |-> NoFile, shms |-> NoFile, selected |-> {}]
Here(r) == run_tag(r) \in DOMAIN dirs

(* The files in a directory a path names; none when it has been renamed.     *)
At(t) == IF t \in DOMAIN dirs THEN dirs[t] ELSE EmptyDir

Events(f) == IF f.sample \in Runs THEN available[f.sample] ELSE 0

Init ==
    /\ now = 0
    /\ requested \in [Runs -> 0 .. MaxEvents]
    /\ available \in [Runs -> 0 .. MaxEvents]
    /\ pc = [r \in Runs |-> "idle"]
    /\ second = [r \in Runs |-> -1]
    /\ count = requested
    /\ path = [r \in Runs |-> NoTag]
    /\ dirs = [t \in {} |-> EmptyDir]
    /\ shared_dat \in {NoFile, OldFile}
    /\ lad_ini = NoTag /\ dis_mac = 0
    /\ inp = [s \in Spectrometers |-> [ngen |-> 0, dat |-> NoTag]]
    /\ job = [r \in Runs |-> [j \in Jobs |-> "none"]]
    /\ hodo \in {<<>>} \cup (IF CleanScratch THEN {} ELSE {<<OldFile>>})
    /\ root \in {[s \in Spectrometers |-> NoFile]} \cup
                (IF CleanScratch THEN {} ELSE {[s \in Spectrometers |-> OldFile]})
    /\ merged = [k \in {} |-> [simc |-> NoFile, g4 |-> NoFile]]

------------------------------------------------------------------------------
(* The driver.  Goto(r, l) leaves all of its own settings alone.             *)
At_(r, l) == pc[r] = l
Goto(r, l) == pc' = [pc EXCEPT ![r] = l]

Ended(r) == pc[r] \in {"done", "failed"}

(* date, the run tag and mkdir -p, which does not mind that the directory    *)
(* exists; then the checks, which exit 1, among them that the count is       *)
(* positive.  Required files may be missing.                                 *)
Start(r) ==
    /\ At_(r, "idle")
    /\ \A q \in Runs : At_(q, "idle") \/ Ended(q)
    /\ second' = [second EXCEPT ![r] = now]
    /\ LET t == Tag(now, count[r])
       IN  /\ dirs' = IF t \in DOMAIN dirs THEN dirs ELSE With(dirs, t, EmptyDir)
           /\ path' = [path EXCEPT ![r] = t]
    /\ \/ Goto(r, "failed")
       \/ count[r] > 0 /\ Goto(r, "copy")
    /\ UNCHANGED <<now, settings, count, shared_dat, configs, job, scratch, merged>>

(* cp -f DIS_ROOT_FILE into the run directory.  Copying a sample takes a     *)
(* second at least; nothing else needs to take any time, and the longer      *)
(* things take the easier run directories are told apart.                    *)
CopyInput(r) ==
    /\ At_(r, "copy")
    /\ now' = now + 1
    /\ \/ /\ Goto(r, "failed")
          /\ UNCHANGED dirs
       \/ /\ Here(r)
          /\ dirs' = [dirs EXCEPT ![run_tag(r)].input = File(r, "yes")]
          /\ Goto(r, "clear")
    /\ UNCHANGED <<settings, second, count, path, shared_dat, configs, job,
                   scratch, merged>>

RemoveOldDat(r) == shared_dat' = NoFile

(* Prepare the macro, change to the dis directory and rm -f the dat file.    *)
ClearDat(r) ==
    /\ At_(r, "clear")
    /\ \/ Goto(r, "failed") /\ UNCHANGED shared_dat
       \/ Goto(r, "convert") /\ RemoveOldDat(r)
    /\ UNCHANGED <<now, settings, second, count, path, dirs, configs, job,
                   scratch, merged>>

(* root DIS_root2dat.C: writes the dat file, or says why not and returns     *)
(* normally, or fails as a program.                                          *)
Convert(r) ==
    /\ At_(r, "convert")
    /\ \/ Goto(r, "failed") /\ UNCHANGED shared_dat
       \/ Goto(r, "collect") /\ UNCHANGED shared_dat
       \/ /\ Exists(At(run_tag(r)).input)
          /\ shared_dat' = At(run_tag(r)).input
          /\ Goto(r, "collect")
    /\ UNCHANGED <<now, settings, second, count, path, dirs, configs, job, scratch,
                   merged>>

(* The dat file must exist; it is moved to the run directory.                *)
CollectDat(r) ==
    /\ At_(r, "collect")
    /\ IF Exists(shared_dat)
       THEN /\ Goto(r, "cap")
            /\ IF Here(r)
               THEN /\ dirs' = [dirs EXCEPT ![run_tag(r)].dat = shared_dat]
                    /\ shared_dat' = NoFile
               ELSE UNCHANGED <<dirs, shared_dat>>
       ELSE Goto(r, "failed") /\ UNCHANGED <<dirs, shared_dat>>
    /\ UNCHANGED <<now, settings, second, count, path, configs, job, scratch, merged>>

CappedCount(r, n) == IF count[r] > n THEN n ELSE count[r]

RenamedDirs(r, t) ==
    [x \in (DOMAIN dirs \ {run_tag(r)}) \cup {t} |->
        IF x = t THEN dirs[run_tag(r)] ELSE dirs[x]]

PathAfterCap_Stale(r, t) == path[r]
PathAfterCap(r, t) == t

(* Count the events in the dat file.  None is an error; when fewer than      *)
(* asked for, cap the count and rename the run directory accordingly.        *)
Cap(r) ==
    /\ At_(r, "cap")
    /\ LET n == Events(At(run_tag(r)).dat)
           c == CappedCount(r, n)
           t == Tag(second[r], c)
       IN  IF n <= 0 \/ (c # count[r] /\ t \in DOMAIN dirs)
           THEN Goto(r, "failed") /\ UNCHANGED <<count, path, dirs>>
           ELSE /\ Goto(r, "configure_g4")
                /\ count' = [count EXCEPT ![r] = c]
                /\ IF c = count[r]
                   THEN UNCHANGED <<path, dirs>>
                   ELSE /\ dirs' = RenamedDirs(r, t)
                        /\ path' = [path EXCEPT ![r] = PathAfterCap(r, t)]
    /\ UNCHANGED <<now, settings, second, shared_dat, configs, job, scratch, merged>>

(* The in-place edits of LAD.ini and dis.mac, then of both .inp files.       *)
ConfigureG4(r) ==
    /\ At_(r, "configure_g4")
    /\ lad_ini' = path[r]
    /\ dis_mac' = count[r]
    /\ Goto(r, "configure_simc")
    /\ UNCHANGED <<now, settings, second, count, path, dirs, shared_dat, inp, job,
                   scratch, merged>>

ConfiguredInp_BeforeRename(r) ==
    [s \in Spectrometers |-> [ngen |-> 0 - count[r], dat |-> Tag(second[r], requested[r])]]
ConfiguredInp(r) ==
    [s \in Spectrometers |-> [ngen |-> 0 - count[r], dat |-> path[r]]]

ConfigureSimc(r) ==
    /\ At_(r, "configure_simc")
    /\ inp' = ConfiguredInp(r)
    /\ Goto(r, "launch")
    /\ UNCHANGED <<now, settings, second, count, path, dirs, shared_dat, lad_ini,
                   dis_mac, job, scratch, merged>>

(* The three jobs go to the background.                                      *)
Launch(r) ==
    /\ At_(r, "launch")
    /\ job' = [job EXCEPT ![r] = [j \in Jobs |-> "run"]]
    /\ Goto(r, "wait")
    /\ UNCHANGED <<now, settings, second, count, path, dirs, shared_dat, configs,
                   scratch, merged>>

JobsOver_AnyOfThem(r) == \E j \in Jobs : job[r][j] = "over"
JobsOver(r) == \A j \in Jobs : job[r][j] = "over"

(* wait, which reports nothing of how the jobs fared.                        *)
Wait(r) ==
    /\ At_(r, "wait")
    /\ JobsOver(r)
    /\ Goto(r, "select")
    /\ UNCHANGED <<now, settings, second, count, path, dirs, shared_dat, configs,
                   job, scratch, merged>>

(* root select_accepted_DIS_dat.C in the run directory: one selected dat     *)
(* file for each spectrometer whose tree it can read.  Its status is not     *)
(* looked at.                                                                *)
Select(r) ==
    /\ At_(r, "select")
    /\ \E S \in SUBSET {s \in Spectrometers :
                            Exists(At(path[r])[s]) /\ Exists(At(path[r]).dat)} :
           dirs' = IF Here(r) THEN [dirs EXCEPT ![run_tag(r)].selected = @ \cup S]
                              ELSE dirs
    /\ Goto(r, "merge_hms")
    /\ UNCHANGED <<now, settings, second, count, path, shared_dat, configs, job,
                   scratch, merged>>

MergeFailed_Ignored(r, l) == Goto(r, l)
MergeFailed(r, l) == Goto(r, "failed")

(* root merge_simc_g4.C on the SimC tree of one spectrometer and the latest  *)
(* HodoFile of the run directory.  It needs both, and may find fault with    *)
(* them; it does not see whose they are.                                     *)
Merge(r, s, here, next) ==
    /\ At_(r, here)
    /\ LET simc == At(run_tag(r))[s]
           g4   == At(run_tag(r)).g4
       IN  \/ /\ Exists(simc) /\ g4.whole = "yes"
              /\ merged' = With(merged, [spec |-> s, tag |-> run_tag(r)],
                                [simc |-> simc, g4 |-> g4])
              /\ Goto(r, next)
           \/ MergeFailed(r, next) /\ UNCHANGED merged
    /\ UNCHANGED <<now, settings, second, count, path, dirs, shared_dat, configs,
                   job, scratch>>

MergeHms(r)  == Merge(r, "hms", "merge_hms", "merge_shms")
MergeShms(r) == Merge(r, "shms", "merge_shms", "done")

------------------------------------------------------------------------------
(* The jobs.                                                                 *)
JobAt(r, j, l) == job[r][j] = l
JobGoto(r, j, l) == job' = [job EXCEPT ![r][j] = l]

driver == <<settings, pc, second, count, path, merged>>

(* ./LAD -m dis.mac: reads LAD.ini and dis.mac and simulates the events of   *)
(* the file they name, giving up when asked for more than it has.  A crash   *)
(* leaves no HodoFile or one without its trees.                              *)
G4Run(r) ==
    /\ JobAt(r, "g4", "run")
    /\ JobGoto(r, "g4", "move")
    /\ LET input == At(lad_ini).input
       IN  \/ UNCHANGED hodo
           \/ hodo' = Append(hodo, File(input.sample, "no"))
           \/ /\ Exists(input)
              /\ dis_mac <= Events(input)
              /\ hodo' = Append(hodo, File(input.sample, "yes"))
    /\ UNCHANGED <<now, driver, dirs, shared_dat, configs, root>>

(* ls -t HodoFile_*.root | head -n 1, and mv.  In the run directory the      *)
(* latest file counts, whichever of the two that is.                         *)
G4Move(r) ==
    /\ JobAt(r, "g4", "move")
    /\ JobGoto(r, "g4", "over")
    /\ IF hodo # <<>> /\ Here(r)
       THEN /\ hodo' = SubSeq(hodo, 1, Len(hodo) - 1)
            /\ LET latest == hodo[Len(hodo)]
                   others == {f \in {dirs[run_tag(r)].g4} : Exists(f)}
               IN \E f \in {latest} \cup others :
                     dirs' = [dirs EXCEPT ![run_tag(r)].g4 = f]
       ELSE UNCHANGED <<hodo, dirs>>
    /\ UNCHANGED <<now, driver, shared_dat, configs, root>>

(* run_simc_tree: ./simc, make_root_tree and rm of the .bin file between     *)
(* them.  SimC opens the .bin file anew unless it fails earlier, and may stop *)
(* before its end; make_root_tree only opens its output once it has read     *)
(* from its input.                                                           *)
RunSimcTree(r, s) ==
    /\ JobAt(r, s, "run")
    /\ JobGoto(r, s, "move")
    /\ LET input == At(inp[s].dat).dat
       IN  \/ UNCHANGED root
           \/ root' = [root EXCEPT ![s] = File(input.sample, "no")]
           \/ /\ Exists(input)
              /\ root' = [root EXCEPT ![s] = File(input.sample, "yes")]
    /\ UNCHANGED <<now, driver, dirs, shared_dat, configs, hodo>>

(* mv worksim/<infile>.root into the run directory.                          *)
SimcMove(r, s) ==
    /\ JobAt(r, s, "move")
    /\ JobGoto(r, s, "over")
    /\ IF Exists(root[s]) /\ Here(r)
       THEN /\ dirs' = [dirs EXCEPT ![run_tag(r)][s] = root[s]]
            /\ root' = [root EXCEPT ![s] = NoFile]
       ELSE UNCHANGED <<dirs, root>>
    /\ UNCHANGED <<now, driver, shared_dat, configs, hodo>>

------------------------------------------------------------------------------
Driver(r) == \/ CopyInput(r) \/ ClearDat(r) \/ Convert(r) \/ CollectDat(r)
             \/ Cap(r) \/ ConfigureG4(r) \/ ConfigureSimc(r) \/ Launch(r)
             \/ Wait(r) \/ Select(r) \/ MergeHms(r) \/ MergeShms(r)

Job(r) == \/ G4Run(r) \/ G4Move(r)
          \/ \E s \in Spectrometers : RunSimcTree(r, s) \/ SimcMove(r, s)

Terminated == (\A r \in Runs : Ended(r)) /\ UNCHANGED vars

Next == (\E r \in Runs : Start(r) \/ Driver(r) \/ Job(r)) \/ Terminated

Spec == Init /\ [][Next]_vars

------------------------------------------------------------------------------
Samples == Runs \cup {NoSample, OldSample}
Files   == [sample : Samples, whole : {"yes", "no", "none"}]
Tags    == [second : Int, events : 0 .. MaxEvents]
Places  == {"idle", "copy", "clear", "convert", "collect", "cap", "configure_g4",
            "configure_simc", "launch", "wait", "select", "merge_hms",
            "merge_shms", "done", "failed"}
InpType == [ngen : (0 - MaxEvents) .. 0, dat : Tags]
DirType == [input : Files, dat : Files, g4 : Files, hms : Files, shms : Files,
            selected : SUBSET Spectrometers]

TypeOK ==
    /\ now \in Nat
    /\ requested \in [Runs -> 0 .. MaxEvents] /\ available \in [Runs -> 0 .. MaxEvents]
    /\ pc \in [Runs -> Places]
    /\ second \in [Runs -> Int] /\ count \in [Runs -> 0 .. MaxEvents]
    /\ path \in [Runs -> Tags]
    /\ DOMAIN dirs \subseteq Tags /\ \A t \in DOMAIN dirs : dirs[t] \in DirType
    /\ shared_dat \in Files
    /\ lad_ini \in Tags /\ dis_mac \in 0 .. MaxEvents
    /\ inp \in [Spectrometers -> InpType]
    /\ job \in [Runs -> [Jobs -> {"none", "run", "move", "over"}]]
    /\ hodo \in Seq(Files)
    /\ root \in [Spectrometers -> Files]
    /\ DOMAIN merged \subseteq [spec : Spectrometers, tag : Tags]
    /\ \A k \in DOMAIN merged : merged[k] \in [simc : Files, g4 : Files]

(* What is merged for a run was simulated from the sample of that run, by    *)
(* SimC and by Geant4 alike, however the programs of it or of other runs     *)
(* fared.                                                                    *)
MergedFromOwnRun ==
    \A k \in DOMAIN merged : \E r \in Runs :
        /\ k.tag = run_tag(r)
        /\ merged[k].simc.sample = r
        /\ merged[k].g4.sample = r

(* A program about to start finds the files its configuration names, in its  *)
(* run's directory under its final name, and all three are told to process   *)
(* the same number of events, which the sample has.                          *)
ProgramsFindTheirInputs ==
    \A r \in Runs :
        /\ count[r] <= requested[r]
        /\ JobAt(r, "g4", "run") =>
               /\ lad_ini = run_tag(r)
               /\ At(lad_ini).input = File(r, "yes")
               /\ dis_mac = count[r] /\ dis_mac \in 1 .. available[r]
        /\ \A s \in Spectrometers : JobAt(r, s, "run") =>
               /\ inp[s].dat = run_tag(r)
               /\ At(inp[s].dat).dat.sample = r
               /\ inp[s].ngen + count[r] = 0

(* A run that ends well has merged both spectrometers; one that fails has    *)
(* not merged SHMS, although HMS may be there.                               *)
ExitStatusTells ==
    \A r \in Runs :
        LET key(s) == [spec |-> s, tag |-> run_tag(r)]
            has(s) == key(s) \in DOMAIN merged /\ merged[key(s)].simc.sample = r
        IN  /\ has("shms") => has("hms") /\ pc[r] = "done"
            /\ pc[r] = "done" => has("shms")

(* When the script has returned, nothing of that run is still under way: its *)
(* directory and its merged files stay as they are.                          *)
EndedRunsStayAsTheyAre ==
    [][\A r \in Runs : Ended(r) /\ At(run_tag(r)).input = File(r, "yes") =>
           /\ run_tag(r)' = run_tag(r)
           /\ At(run_tag(r))' = At(run_tag(r))
           /\ \A k \in DOMAIN merged : k.tag = run_tag(r) => merged'[k] = merged[k]]_vars
==============================================================================
