-------------------------- MODULE DisWorkflowProofs --------------------------
(***************************************************************************)
(* Proofs about DisWorkflow, for any number of runs, samples of any size   *)
(* and any state of the scratch directories.                               *)
(***************************************************************************)
EXTENDS DisWorkflow, TLAPS

DirsOK(f) == DOMAIN f \subseteq Tags /\ \A t \in DOMAIN f : f[t] \in DirType

------------------------------------------------------------------------------
(* Types.                                                                    *)

LEMMA FileTypes ==
    /\ NoFile \in Files /\ OldFile \in Files /\ EmptyDir \in DirType
    /\ \A f \in Files, w \in {"yes", "no"} : File(f.sample, w) \in Files
    /\ \A r \in Runs : File(r, "yes") \in Files
    /\ NoTag \in Tags
BY WorkflowAssumption DEF NoFile, OldFile, EmptyDir, Files, Samples, File, DirType, NoSample,
   OldSample, NoTag, Tag, Tags

(* The directory a path names, there or not.                                 *)
LEMMA AtType ==
    ASSUME TypeOK, NEW t PROVE At(t) \in DirType
BY FileTypes DEF TypeOK, At

LEMMA RunTagType ==
    ASSUME TypeOK, NEW r \in Runs PROVE run_tag(r) \in Tags
BY DEF TypeOK, run_tag, Tag, Tags

LEMMA WithDirs ==
    ASSUME NEW f, DirsOK(f), NEW t \in Tags, NEW d \in DirType
    PROVE  DirsOK(With(f, t, d))
BY DEF DirsOK, With

(* Changing what is in one directory.                                        *)
LEMMA ChangedDirs ==
    ASSUME NEW f, DirsOK(f), NEW t, NEW d \in DirType
    PROVE  DirsOK([f EXCEPT ![t] = d])
BY DEF DirsOK

LEMMA RenamedType ==
    ASSUME DirsOK(dirs), NEW r \in Runs, Here(r), NEW t \in Tags
    PROVE  DirsOK(RenamedDirs(r, t))
<1> DEFINE g == RenamedDirs(r, t)
<1>1. DOMAIN g = (DOMAIN dirs \ {run_tag(r)}) \cup {t}  BY DEF RenamedDirs
<1>2. DOMAIN g \subseteq Tags  BY <1>1 DEF DirsOK
<1>3. dirs[run_tag(r)] \in DirType  BY DEF DirsOK, Here
<1>4. ASSUME NEW x \in DOMAIN g PROVE g[x] \in DirType
  <2>1. CASE x = t
    <3>1. g[x] = dirs[run_tag(r)]  BY <2>1 DEF RenamedDirs
    <3> QED  BY <1>3, <3>1
  <2>2. CASE x # t
    <3>1. g[x] = dirs[x] /\ x \in DOMAIN dirs  BY <1>1, <2>2 DEF RenamedDirs
    <3> QED  BY <3>1 DEF DirsOK
  <2> QED  BY <2>1, <2>2
<1> QED  BY <1>2, <1>4 DEF DirsOK

LEMMA EventsType ==
    ASSUME TypeOK, NEW f \in Files PROVE Events(f) \in 0 .. MaxEvents
BY WorkflowAssumption DEF TypeOK, Events, Files

LEMMA GotoType ==
    ASSUME TypeOK, NEW r \in Runs, NEW l \in Places, Goto(r, l)
    PROVE  pc' \in [Runs -> Places]
BY DEF TypeOK, Goto

LEMMA JobGotoType ==
    ASSUME TypeOK, NEW r \in Runs, NEW j \in Jobs, NEW l \in {"none", "run", "move", "over"},
           JobGoto(r, j, l)
    PROVE  job' \in [Runs -> [Jobs -> {"none", "run", "move", "over"}]]
BY DEF TypeOK, JobGoto

LEMMA InitType ==
    ASSUME Init PROVE TypeOK
<1>1. \A f \in {<<>>, <<OldFile>>} : f \in Seq(Files)
  <2>1. OldFile \in Files  BY FileTypes
  <2>2. <<>> \in Seq(Files) /\ <<OldFile>> \in Seq(Files)  BY <2>1
  <2> QED  BY <2>2
<1>2. hodo \in Seq(Files)  BY <1>1 DEF Init
<1>3. inp \in [Spectrometers -> InpType]
      BY FileTypes, WorkflowAssumption DEF Init, InpType
<1>4. root \in [Spectrometers -> Files]  BY FileTypes DEF Init
<1>5. path \in [Runs -> Tags] /\ lad_ini \in Tags  BY FileTypes DEF Init
<1>6. dis_mac \in 0 .. MaxEvents  BY WorkflowAssumption DEF Init
<1>7. shared_dat \in Files  BY FileTypes DEF Init
<1>8. pc \in [Runs -> Places] /\ second \in [Runs -> Int] /\ now \in Nat
      BY DEF Init, Places
<1>9. job \in [Runs -> [Jobs -> {"none", "run", "move", "over"}]]  BY DEF Init
<1>10. DOMAIN dirs = {} /\ DOMAIN merged = {}  BY DEF Init
<1>11. /\ requested \in [Runs -> 0 .. MaxEvents]
       /\ available \in [Runs -> 0 .. MaxEvents]
       /\ count \in [Runs -> 0 .. MaxEvents]
       BY DEF Init
<1> QED  BY <1>2, <1>3, <1>4, <1>5, <1>6, <1>7, <1>8, <1>9, <1>10, <1>11 DEF TypeOK

LEMMA StartType ==
    ASSUME TypeOK, NEW r \in Runs, Start(r) PROVE TypeOK'
<1> DEFINE t == Tag(now, count[r])
<1>1. t \in Tags  BY DEF TypeOK, Tag, Tags
<1>2. DirsOK(dirs')
      BY <1>1, FileTypes, WithDirs DEF Start, TypeOK, DirsOK
<1>3. pc' \in [Runs -> Places]
  <2>1. Goto(r, "failed") \/ Goto(r, "copy")  BY DEF Start
  <2> QED  BY <2>1, GotoType DEF Places
<1>4. path' \in [Runs -> Tags] /\ second' \in [Runs -> Int]  BY <1>1 DEF Start, TypeOK
<1> QED  BY <1>2, <1>3, <1>4 DEF Start, TypeOK, DirsOK, settings, configs, scratch

LEMMA DriverType ==
    ASSUME TypeOK, NEW r \in Runs, Driver(r) PROVE TypeOK'
<1> USE DEF settings, configs, scratch
<1>0. DirsOK(dirs)  BY DEF TypeOK, DirsOK
<1>1. CASE CopyInput(r)
  <2>1. pc' \in [Runs -> Places]  BY <1>1, GotoType DEF CopyInput, Places
  <2>2. ASSUME Here(r)
        PROVE  DirsOK([dirs EXCEPT ![run_tag(r)].input = File(r, "yes")])
    <3>1. [dirs[run_tag(r)] EXCEPT !.input = File(r, "yes")] \in DirType
          BY <1>0, <2>2, FileTypes DEF DirsOK, Here, DirType
    <3> QED  BY <1>0, <3>1, ChangedDirs
  <2>3. DirsOK(dirs')  BY <1>0, <1>1, <2>2 DEF CopyInput
  <2> QED  BY <1>1, <2>1, <2>3 DEF CopyInput, TypeOK, DirsOK
<1>2. CASE ClearDat(r)
  <2>1. pc' \in [Runs -> Places]  BY <1>2, GotoType DEF ClearDat, Places
  <2>2. shared_dat' \in Files  BY <1>2, FileTypes DEF ClearDat, RemoveOldDat, TypeOK
  <2> QED  BY <1>2, <2>1, <2>2 DEF ClearDat, TypeOK
<1>3. CASE Convert(r)
  <2>1. pc' \in [Runs -> Places]  BY <1>3, GotoType DEF Convert, Places
  <2>2. shared_dat' \in Files  BY <1>3, AtType DEF Convert, DirType, TypeOK
  <2> QED  BY <1>3, <2>1, <2>2 DEF Convert, TypeOK
<1>4. CASE CollectDat(r)
  <2>1. pc' \in [Runs -> Places]  BY <1>4, GotoType DEF CollectDat, Places
  <2>2. ASSUME Here(r)
        PROVE  DirsOK([dirs EXCEPT ![run_tag(r)].dat = shared_dat])
    <3>1. [dirs[run_tag(r)] EXCEPT !.dat = shared_dat] \in DirType
          BY <1>0, <2>2 DEF DirsOK, Here, DirType, TypeOK
    <3> QED  BY <1>0, <3>1, ChangedDirs
  <2>3. DirsOK(dirs')  BY <1>0, <1>4, <2>2 DEF CollectDat
  <2>4. shared_dat' \in Files  BY <1>4, FileTypes DEF CollectDat, TypeOK
  <2> QED  BY <1>4, <2>1, <2>3, <2>4 DEF CollectDat, TypeOK, DirsOK
<1>5. CASE Cap(r)
  <2>1. pc' \in [Runs -> Places]  BY <1>5, GotoType DEF Cap, Places
  <2> DEFINE n == Events(At(run_tag(r)).dat)
             c == CappedCount(r, n)
             t == Tag(second[r], c)
  <2>2. n \in 0 .. MaxEvents
    <3>1. At(run_tag(r)).dat \in Files  BY AtType DEF DirType
    <3> QED  BY <3>1, EventsType
  <2>3. c \in 0 .. MaxEvents  BY <2>2 DEF CappedCount, TypeOK
  <2>4. t \in Tags  BY <2>3 DEF Tag, Tags, TypeOK
  <2>5. count' \in [Runs -> 0 .. MaxEvents] /\ path' \in [Runs -> Tags]
        BY <1>5, <2>3, <2>4 DEF Cap, PathAfterCap, TypeOK
  <2>6. n > 0 => Here(r)
        BY WorkflowAssumption
        DEF At, Here, Events, EmptyDir, NoFile, File, NoSample
  <2>7. ASSUME dirs' = dirs PROVE DirsOK(dirs')  BY <1>0, <2>7
  <2>8. ASSUME dirs' # dirs PROVE DirsOK(dirs')
    <3>1. Here(r) /\ dirs' = RenamedDirs(r, t)  BY <1>5, <2>2, <2>6, <2>8 DEF Cap
    <3> HIDE DEF t
    <3> QED  BY <1>0, <2>4, <3>1, RenamedType
  <2>9. DirsOK(dirs')  BY <2>7, <2>8
  <2> QED  BY <1>5, <2>1, <2>5, <2>9 DEF Cap, TypeOK, DirsOK
<1>6. CASE ConfigureG4(r)
  <2>1. pc' \in [Runs -> Places]  BY <1>6, GotoType DEF ConfigureG4, Places
  <2> QED  BY <1>6, <2>1 DEF ConfigureG4, TypeOK
<1>7. CASE ConfigureSimc(r)
  <2>1. pc' \in [Runs -> Places]  BY <1>7, GotoType DEF ConfigureSimc, Places
  <2>2. count[r] \in 0 .. MaxEvents /\ path[r] \in Tags  BY DEF TypeOK
  <2>3. [ngen |-> 0 - count[r], dat |-> path[r]] \in InpType
        BY <2>2, WorkflowAssumption DEF InpType
  <2>4. inp' \in [Spectrometers -> InpType]
        BY <1>7, <2>3 DEF ConfigureSimc, ConfiguredInp
  <2> QED  BY <1>7, <2>1, <2>4 DEF ConfigureSimc, TypeOK
<1>8. CASE Launch(r)
  <2>1. pc' \in [Runs -> Places]  BY <1>8, GotoType DEF Launch, Places
  <2>2. job' \in [Runs -> [Jobs -> {"none", "run", "move", "over"}]]
        BY <1>8 DEF Launch, TypeOK
  <2> QED  BY <1>8, <2>1, <2>2 DEF Launch, TypeOK
<1>9. CASE Wait(r)
  <2>1. pc' \in [Runs -> Places]  BY <1>9, GotoType DEF Wait, Places
  <2> QED  BY <1>9, <2>1 DEF Wait, TypeOK
<1>10. CASE Select(r)
  <2>1. pc' \in [Runs -> Places]  BY <1>10, GotoType DEF Select, Places
  <2>2. PICK S \in SUBSET Spectrometers :
            dirs' = IF Here(r) THEN [dirs EXCEPT ![run_tag(r)].selected = @ \cup S]
                               ELSE dirs
        BY <1>10 DEF Select
  <2>3. CASE Here(r)
    <3>1. [dirs[run_tag(r)] EXCEPT !.selected = @ \cup S] \in DirType
          BY <1>0, <2>3 DEF DirsOK, Here, DirType
    <3>2. DirsOK(dirs')  BY <1>0, <2>2, <2>3, <3>1, ChangedDirs
    <3> QED  BY <1>10, <2>1, <3>2 DEF Select, TypeOK, DirsOK
  <2>4. CASE ~Here(r)  BY <1>10, <2>1, <2>2, <2>4 DEF Select, TypeOK
  <2> QED  BY <2>3, <2>4
<1>11. ASSUME NEW s \in Spectrometers, NEW here, NEW next \in Places, Merge(r, s, here, next)
       PROVE  TypeOK'
  <2>1. pc' \in [Runs -> Places]  BY <1>11, GotoType DEF Merge, MergeFailed, Places
  <2> DEFINE key == [spec |-> s, tag |-> run_tag(r)]
             pair == [simc |-> At(run_tag(r))[s], g4 |-> At(run_tag(r)).g4]
  <2>2. key \in [spec : Spectrometers, tag : Tags]  BY RunTagType
  <2>3. pair \in [simc : Files, g4 : Files]
        BY AtType DEF DirType, Spectrometers
  <2>4. merged' = With(merged, key, pair) \/ merged' = merged  BY <1>11 DEF Merge
  <2>5. DOMAIN merged' \subseteq [spec : Spectrometers, tag : Tags]
        BY <2>2, <2>4 DEF With, TypeOK
  <2>6. \A x \in DOMAIN merged' : merged'[x] \in [simc : Files, g4 : Files]
        BY <2>3, <2>4 DEF With, TypeOK
  <2> QED  BY <1>11, <2>1, <2>5, <2>6 DEF Merge, TypeOK
<1>12. CASE MergeHms(r)  BY <1>11, <1>12 DEF MergeHms, Spectrometers, Places
<1>13. CASE MergeShms(r)  BY <1>11, <1>13 DEF MergeShms, Spectrometers, Places
<1> QED  BY <1>1, <1>2, <1>3, <1>4, <1>5, <1>6, <1>7, <1>8, <1>9, <1>10, <1>12, <1>13
         DEF Driver

LEMMA JobType ==
    ASSUME TypeOK, NEW r \in Runs, Job(r) PROVE TypeOK'
<1> USE DEF settings, configs, scratch, driver
<1>0. DirsOK(dirs)  BY DEF TypeOK, DirsOK
<1>1. CASE G4Run(r)
  <2>1. job' \in [Runs -> [Jobs -> {"none", "run", "move", "over"}]]
        BY <1>1, JobGotoType DEF G4Run, Jobs
  <2>2. At(lad_ini).input \in Files  BY AtType DEF DirType
  <2>3. hodo \in Seq(Files)  BY DEF TypeOK
  <2>4. hodo' \in Seq(Files)
    <3>1. \A w \in {"yes", "no"} : File(At(lad_ini).input.sample, w) \in Files
          BY <2>2, FileTypes
    <3>2. \A f \in Files : Append(hodo, f) \in Seq(Files)  BY <2>3
    <3> QED  BY <1>1, <2>3, <3>1, <3>2 DEF G4Run
  <2> QED  BY <1>1, <2>1, <2>4 DEF G4Run, TypeOK
<1>2. CASE G4Move(r)
  <2>1. job' \in [Runs -> [Jobs -> {"none", "run", "move", "over"}]]
        BY <1>2, JobGotoType DEF G4Move, Jobs
  <2>2. hodo \in Seq(Files)  BY DEF TypeOK
  <2>3. CASE hodo # <<>> /\ Here(r)
    <3>1. Len(hodo) \in Nat \ {0}  BY <2>2, <2>3
    <3>2. hodo[Len(hodo)] \in Files  BY <2>2, <3>1
    <3>3. hodo' \in Seq(Files)
      <4>1. hodo' = SubSeq(hodo, 1, Len(hodo) - 1)  BY <1>2, <2>3 DEF G4Move
      <4> QED  BY <2>2, <3>1, <4>1
    <3>4. dirs[run_tag(r)] \in DirType  BY <1>0, <2>3 DEF DirsOK, Here
    <3>5. PICK f \in Files : dirs' = [dirs EXCEPT ![run_tag(r)].g4 = f]
          BY <1>2, <2>3, <3>2, <3>4 DEF G4Move, DirType
    <3>6. [dirs[run_tag(r)] EXCEPT !.g4 = f] \in DirType  BY <3>4 DEF DirType
    <3>7. DirsOK(dirs')  BY <1>0, <3>5, <3>6, ChangedDirs
    <3> QED  BY <1>2, <2>1, <3>3, <3>7 DEF G4Move, TypeOK, DirsOK
  <2>4. CASE ~(hodo # <<>> /\ Here(r))  BY <1>2, <2>1, <2>4 DEF G4Move, TypeOK
  <2> QED  BY <2>3, <2>4
<1>3. ASSUME NEW s \in Spectrometers, RunSimcTree(r, s) PROVE TypeOK'
  <2>1. job' \in [Runs -> [Jobs -> {"none", "run", "move", "over"}]]
        BY <1>3, JobGotoType DEF RunSimcTree, Jobs
  <2>2. At(inp[s].dat).dat \in Files  BY AtType DEF DirType
  <2>3. root' \in [Spectrometers -> Files]
        BY <1>3, <2>2, FileTypes DEF RunSimcTree, TypeOK
  <2> QED  BY <1>3, <2>1, <2>3 DEF RunSimcTree, TypeOK
<1>4. ASSUME NEW s \in Spectrometers, SimcMove(r, s) PROVE TypeOK'
  <2>1. job' \in [Runs -> [Jobs -> {"none", "run", "move", "over"}]]
        BY <1>4, JobGotoType DEF SimcMove, Jobs
  <2>2. CASE Exists(root[s]) /\ Here(r)
    <3>1. dirs[run_tag(r)] \in DirType /\ root[s] \in Files
          BY <1>0, <2>2 DEF DirsOK, Here, TypeOK
    <3>2. [dirs[run_tag(r)] EXCEPT ![s] = root[s]] \in DirType
          BY <3>1 DEF DirType, Spectrometers
    <3>3. DirsOK(dirs')
      <4>1. dirs' = [dirs EXCEPT ![run_tag(r)] = [dirs[run_tag(r)] EXCEPT ![s] = root[s]]]
            BY <1>4, <2>2 DEF SimcMove
      <4> HIDE DEF DirsOK
      <4> QED  BY <1>0, <3>2, <4>1, ChangedDirs
    <3>4. root' \in [Spectrometers -> Files]
          BY <1>4, <2>2, FileTypes DEF SimcMove, TypeOK
    <3> QED  BY <1>4, <2>1, <3>3, <3>4 DEF SimcMove, TypeOK, DirsOK
  <2>3. CASE ~(Exists(root[s]) /\ Here(r))  BY <1>4, <2>1, <2>3 DEF SimcMove, TypeOK
  <2> QED  BY <2>2, <2>3
<1> QED  BY <1>1, <1>2, <1>3, <1>4 DEF Job

LEMMA NextType ==
    ASSUME TypeOK, [Next]_vars PROVE TypeOK'
<1>1. CASE UNCHANGED vars  BY <1>1 DEF vars, settings, configs, scratch, TypeOK
<1> QED  BY <1>1, StartType, DriverType, JobType DEF Next, Terminated

(* The variables of the workflow have their types.                           *)
THEOREM TypeCorrect == Spec => []TypeOK
<1>1. Init => TypeOK  BY InitType
<1>2. TypeOK /\ [Next]_vars => TypeOK'  BY NextType
<1> QED  BY <1>1, <1>2, PTL DEF Spec

------------------------------------------------------------------------------
(* Runs do not disturb those that ended before them.                         *)

Active(r) == pc[r] # "idle" /\ ~Ended(r)

OneAtATime ==
    \A q, r \in Runs : Active(q) /\ Active(r) => q = r

(* Jobs are under way only while their run waits for them.                   *)
JobsAreAwaited ==
    \A r \in Runs, j \in Jobs : job[r][j] \in {"run", "move"} => pc[r] = "wait"

(* A directory has the sample of a run that copied it there, in a second     *)
(* that is over.                                                             *)
InputsAreCopied ==
    /\ \A r \in Runs : second[r] <= now
    /\ \A t \in DOMAIN dirs, r \in Runs :
           dirs[t].input.sample = r => pc[r] \notin {"idle", "copy"} /\ t.second < now

(* A run under way started later than any that left its sample.              *)
LaterRunsLaterTags ==
    \A q \in Runs, t \in DOMAIN dirs :
        Active(q) /\ dirs[t].input.sample \in Runs \ {q} => t.second < second[q]

RunInv == OneAtATime /\ JobsAreAwaited /\ InputsAreCopied /\ LaterRunsLaterTags

(* Driver and jobs work for a run that is under way.                         *)
LEMMA WorkingIsActive ==
    ASSUME TypeOK, JobsAreAwaited, NEW q \in Runs, Driver(q) \/ Job(q)
    PROVE  Active(q)
<1>1. CASE Driver(q)
      BY <1>1 DEF Driver, CopyInput, ClearDat, Convert, CollectDat, Cap, ConfigureG4,
                  ConfigureSimc, Launch, Wait, Select, MergeHms, MergeShms, Merge, At_,
                  Active, Ended
<1>2. CASE Job(q)
  <2>1. PICK j \in Jobs : job[q][j] \in {"run", "move"}
        BY <1>2 DEF Job, G4Run, G4Move, RunSimcTree, SimcMove, JobAt, Jobs
  <2> QED  BY <2>1 DEF JobsAreAwaited, Active, Ended
<1> QED  BY <1>1, <1>2

(* Of the runs, a step changes its own; run_tag of the others stays.         *)
LEMMA OthersStay ==
    ASSUME TypeOK, NEW q \in Runs, Driver(q) \/ Job(q)
    PROVE  /\ second' = second
           /\ \A r \in Runs \ {q} : pc'[r] = pc[r] /\ count'[r] = count[r] /\ job'[r] = job[r]
<1> USE DEF settings, configs, scratch, driver, TypeOK
<1>1. CASE Driver(q)
  <2>1. second' = second
        BY <1>1 DEF Driver, CopyInput, ClearDat, Convert, CollectDat, Cap, ConfigureG4,
                    ConfigureSimc, Launch, Wait, Select, MergeHms, MergeShms, Merge
  <2>2. ASSUME NEW r \in Runs \ {q} PROVE pc'[r] = pc[r]
        BY <1>1 DEF Driver, CopyInput, ClearDat, Convert, CollectDat, Cap, ConfigureG4,
                    ConfigureSimc, Launch, Wait, Select, MergeHms, MergeShms, Merge,
                    MergeFailed, Goto
  <2>3. ASSUME NEW r \in Runs \ {q} PROVE count'[r] = count[r]
        BY <1>1 DEF Driver, CopyInput, ClearDat, Convert, CollectDat, Cap, ConfigureG4,
                    ConfigureSimc, Launch, Wait, Select, MergeHms, MergeShms, Merge
  <2>4. ASSUME NEW r \in Runs \ {q} PROVE job'[r] = job[r]
        BY <1>1 DEF Driver, CopyInput, ClearDat, Convert, CollectDat, Cap, ConfigureG4,
                    ConfigureSimc, Launch, Wait, Select, MergeHms, MergeShms, Merge
  <2> QED  BY <2>1, <2>2, <2>3, <2>4
<1>2. CASE Job(q)
      BY <1>2 DEF Job, G4Run, G4Move, RunSimcTree, SimcMove, JobGoto
<1> QED  BY <1>1, <1>2

(* A step for a run changes no directory and no merged file of another       *)
(* second.                                                                   *)
LEMMA OtherDirsStay ==
    ASSUME TypeOK, NEW q \in Runs, Driver(q) \/ Job(q),
           NEW t \in DOMAIN dirs, t.second # second[q]
    PROVE  /\ t \in DOMAIN dirs' /\ dirs'[t] = dirs[t]
           /\ \A k \in DOMAIN merged : k.tag = t => merged'[k] = merged[k]
<1> USE DEF settings, configs, scratch, driver
<1>0. t # run_tag(q) /\ \A c : t # Tag(second[q], c)  BY DEF run_tag, Tag
<1>1. t \in DOMAIN dirs' /\ dirs'[t] = dirs[t]
  <2>1. CASE Driver(q)
    <3>1. CASE CopyInput(q)  BY <1>0, <3>1 DEF CopyInput
    <3>2. CASE CollectDat(q)  BY <1>0, <3>2 DEF CollectDat
    <3>3. CASE Cap(q)  BY <1>0, <3>3 DEF Cap, RenamedDirs
    <3>4. CASE Select(q)  BY <1>0, <3>4 DEF Select
    <3>5. CASE \/ ClearDat(q) \/ Convert(q) \/ ConfigureG4(q) \/ ConfigureSimc(q)
               \/ Launch(q) \/ Wait(q) \/ MergeHms(q) \/ MergeShms(q)
          BY <3>5 DEF ClearDat, Convert, ConfigureG4, ConfigureSimc, Launch, Wait,
                      MergeHms, MergeShms, Merge
    <3> QED  BY <2>1, <3>1, <3>2, <3>3, <3>4, <3>5 DEF Driver
  <2>2. CASE Job(q)
    <3>1. CASE G4Move(q)  BY <1>0, <3>1 DEF G4Move
    <3>2. ASSUME NEW s \in Spectrometers, SimcMove(q, s)
          PROVE  t \in DOMAIN dirs' /\ dirs'[t] = dirs[t]
          BY <1>0, <3>2 DEF SimcMove
    <3>3. CASE G4Run(q) \/ \E s \in Spectrometers : RunSimcTree(q, s)
          BY <3>3 DEF G4Run, RunSimcTree
    <3> QED  BY <2>2, <3>1, <3>2, <3>3 DEF Job
  <2> QED  BY <2>1, <2>2
<1>2. ASSUME NEW k \in DOMAIN merged, k.tag = t PROVE merged'[k] = merged[k]
  <2>1. ASSUME NEW s, NEW here, NEW next, Merge(q, s, here, next)
        PROVE  merged'[k] = merged[k]
    <3>1. k # [spec |-> s, tag |-> run_tag(q)]  BY <1>0, <1>2
    <3> QED  BY <2>1, <3>1 DEF Merge, With
  <2>2. CASE MergeHms(q) \/ MergeShms(q)  BY <2>1, <2>2 DEF MergeHms, MergeShms
  <2>3. CASE UNCHANGED merged  BY <2>3
  <2> QED  BY <2>2, <2>3
           DEF Driver, CopyInput, ClearDat, Convert, CollectDat, Cap, ConfigureG4,
               ConfigureSimc, Launch, Wait, Select, Job, G4Run, G4Move, RunSimcTree, SimcMove
<1> QED  BY <1>1, <1>2

(* Where the sample of a directory comes from: it was there, or its run just *)
(* copied it, or the directory was renamed within its second.                *)
LEMMA InputsFrom ==
    ASSUME TypeOK, NEW q \in Runs, Driver(q) \/ Job(q), NEW t \in DOMAIN dirs'
    PROVE  \/ t \in DOMAIN dirs /\ dirs'[t].input = dirs[t].input
           \/ CopyInput(q) /\ t = run_tag(q) /\ dirs'[t].input = File(q, "yes") /\ pc'[q] = "clear"
           \/ t.second = second[q] /\ Here(q) /\ dirs'[t].input = dirs[run_tag(q)].input
<1> USE DEF settings, configs, scratch, driver
<1>0. \A x \in DOMAIN dirs : dirs[x] \in DirType  BY DEF TypeOK
<1>1. CASE Driver(q)
  <2>1. CASE CopyInput(q)
    <3>1. CASE UNCHANGED dirs  BY <3>1
    <3>2. CASE dirs' = [dirs EXCEPT ![run_tag(q)].input = File(q, "yes")] /\ Goto(q, "clear")
      <4>1. pc'[q] = "clear"  BY <3>2 DEF Goto, TypeOK
      <4> QED  BY <1>0, <2>1, <3>2, <4>1 DEF DirType
    <3> QED  BY <2>1, <3>1, <3>2 DEF CopyInput
  <2>2. CASE CollectDat(q)  BY <1>0, <2>2 DEF CollectDat, DirType
  <2>3. CASE Cap(q)
    <3>1. CASE UNCHANGED dirs  BY <3>1
    <3>2. CASE dirs' # dirs
      <4> DEFINE n == Events(At(run_tag(q)).dat)
                 c == CappedCount(q, n)
      <4>1. n > 0 => Here(q)
            BY WorkflowAssumption
            DEF At, Here, Events, EmptyDir, NoFile, File, NoSample
      <4>2. n \in 0 .. MaxEvents
        <5>1. At(run_tag(q)).dat \in Files  BY AtType DEF DirType
        <5> QED  BY <5>1, EventsType
      <4>3. Here(q) /\ dirs' = RenamedDirs(q, Tag(second[q], c))
            BY <2>3, <3>2, <4>1, <4>2 DEF Cap
      <4>4. Tag(second[q], c).second = second[q]  BY DEF Tag
      <4> HIDE DEF c
      <4> QED  BY <4>3, <4>4 DEF RenamedDirs
    <3> QED  BY <3>1, <3>2
  <2>4. CASE Select(q)  BY <1>0, <2>4 DEF Select, DirType
  <2>5. CASE \/ ClearDat(q) \/ Convert(q) \/ ConfigureG4(q) \/ ConfigureSimc(q)
             \/ Launch(q) \/ Wait(q) \/ MergeHms(q) \/ MergeShms(q)
        BY <2>5 DEF ClearDat, Convert, ConfigureG4, ConfigureSimc, Launch, Wait,
                    MergeHms, MergeShms, Merge
  <2> QED  BY <1>1, <2>1, <2>2, <2>3, <2>4, <2>5 DEF Driver
<1>2. CASE Job(q)
  <2>1. CASE G4Move(q)  BY <1>0, <2>1 DEF G4Move, DirType
  <2>2. ASSUME NEW s \in Spectrometers, SimcMove(q, s)
        PROVE  t \in DOMAIN dirs /\ dirs'[t].input = dirs[t].input
        BY <1>0, <2>2 DEF SimcMove, DirType, Spectrometers
  <2>3. CASE G4Run(q) \/ \E s \in Spectrometers : RunSimcTree(q, s)
        BY <2>3 DEF G4Run, RunSimcTree
  <2> QED  BY <1>2, <2>1, <2>2, <2>3 DEF Job
<1> QED  BY <1>1, <1>2

LEMMA InitRunInv == Init => RunInv
BY DEF Init, RunInv, OneAtATime, JobsAreAwaited, InputsAreCopied, LaterRunsLaterTags, Active,
       Ended, Jobs, Spectrometers

LEMMA StartRunInv ==
    ASSUME TypeOK, RunInv, NEW q \in Runs, Start(q) PROVE RunInv'
<1> USE DEF settings, configs, scratch
<1>1. pc[q] = "idle" /\ \A r \in Runs : ~Active(r)  BY DEF Start, At_, Active
<1>2. \A r \in Runs \ {q} : pc'[r] = pc[r]  BY DEF Start, Goto, TypeOK
<1>3. pc'[q] \in {"failed", "copy"}  BY DEF Start, Goto, TypeOK
<1>4. second' = [second EXCEPT ![q] = now] /\ now' = now /\ job' = job  BY DEF Start
<1>5. \A t \in DOMAIN dirs' :
          \/ t \in DOMAIN dirs /\ dirs'[t] = dirs[t]
          \/ dirs'[t].input.sample \notin Runs
      BY WorkflowAssumption DEF Start, With, EmptyDir, NoFile, File, NoSample
<1>6. \A r \in Runs : second[r] \in Int /\ second[r] <= now /\ now \in Nat
      BY DEF TypeOK, RunInv, InputsAreCopied
<1>7. \A t \in DOMAIN dirs : dirs[t].input.sample # q
      BY <1>1 DEF RunInv, InputsAreCopied
<1>8. OneAtATime'  BY <1>1, <1>2 DEF OneAtATime, Active, Ended
<1>9. JobsAreAwaited'
      BY <1>1, <1>2, <1>4 DEF RunInv, JobsAreAwaited
<1>10. InputsAreCopied'
  <2>1. \A r \in Runs : second'[r] <= now'  BY <1>4, <1>6 DEF TypeOK
  <2>2. ASSUME NEW t \in DOMAIN dirs', NEW r \in Runs, dirs'[t].input.sample = r
        PROVE  pc'[r] \notin {"idle", "copy"} /\ t.second < now'
    <3>1. t \in DOMAIN dirs /\ dirs[t].input.sample = r  BY <1>5, <2>2
    <3>2. r # q  BY <1>7, <3>1
    <3> QED  BY <1>2, <1>4, <3>1, <3>2 DEF RunInv, InputsAreCopied
  <2> QED  BY <2>1, <2>2 DEF InputsAreCopied
<1>11. LaterRunsLaterTags'
  <2>1. ASSUME NEW p \in Runs, NEW t \in DOMAIN dirs', Active(p)',
               dirs'[t].input.sample \in Runs \ {p}
        PROVE  t.second < second'[p]
    <3>1. p = q  BY <1>1, <1>2, <2>1 DEF Active, Ended
    <3>2. t \in DOMAIN dirs /\ dirs[t].input.sample \in Runs  BY <1>5, <2>1
    <3>3. t.second < now  BY <3>2 DEF RunInv, InputsAreCopied
    <3>4. second'[p] = now  BY <1>4, <3>1 DEF TypeOK
    <3> QED  BY <3>3, <3>4
  <2> QED  BY <2>1 DEF LaterRunsLaterTags
<1> QED  BY <1>8, <1>9, <1>10, <1>11 DEF RunInv

LEMMA WorkRunInv ==
    ASSUME TypeOK, RunInv, NEW q \in Runs, Driver(q) \/ Job(q) PROVE RunInv'
<1> USE DEF settings, configs, scratch, driver
<1>1. Active(q)  BY WorkingIsActive DEF RunInv
<1>2. /\ second' = second
      /\ \A r \in Runs \ {q} : pc'[r] = pc[r] /\ count'[r] = count[r] /\ job'[r] = job[r]
      BY OthersStay
<1>3. now \in Nat /\ now' \in {now, now + 1} /\ (CopyInput(q) => now' = now + 1)
  <2>1. now \in Nat  BY DEF TypeOK
  <2>2. CopyInput(q) => now' = now + 1  BY DEF CopyInput
  <2>3. CopyInput(q) \/ now' = now
        BY DEF Driver, ClearDat, Convert, CollectDat, Cap, ConfigureG4, ConfigureSimc, Launch,
               Wait, Select, MergeHms, MergeShms, Merge, Job, G4Run, G4Move, RunSimcTree,
               SimcMove
  <2> QED  BY <2>1, <2>2, <2>3
<1>4. pc'[q] # "idle"
  <2>1. CASE Driver(q)
        BY <2>1 DEF Driver, CopyInput, ClearDat, Convert, CollectDat, Cap, ConfigureG4,
                    ConfigureSimc, Launch, Wait, Select, MergeHms, MergeShms, Merge,
                    MergeFailed, Goto, TypeOK
  <2>2. CASE Job(q)
        BY <1>1, <2>2 DEF Job, G4Run, G4Move, RunSimcTree, SimcMove, Active
  <2> QED  BY <2>1, <2>2
<1>5. pc'[q] = "copy" => FALSE
  <2>1. CASE Driver(q)
        BY <2>1 DEF Driver, CopyInput, ClearDat, Convert, CollectDat, Cap, ConfigureG4,
                    ConfigureSimc, Launch, Wait, Select, MergeHms, MergeShms, Merge,
                    MergeFailed, Goto, TypeOK
  <2>2. CASE Job(q)
    <3>1. pc' = pc  BY <2>2 DEF Job, G4Run, G4Move, RunSimcTree, SimcMove
    <3>2. pc[q] = "wait"
          BY <2>2 DEF Job, G4Run, G4Move, RunSimcTree, SimcMove, JobAt, Jobs, RunInv,
                      JobsAreAwaited
    <3> QED  BY <3>1, <3>2
  <2> QED  BY <2>1, <2>2
<1>6. \A t \in DOMAIN dirs, r \in Runs :
          dirs[t].input.sample = r => pc[r] \notin {"idle", "copy"} /\ t.second < now
      BY DEF RunInv, InputsAreCopied
<1>7. run_tag(q).second = second[q]  BY DEF run_tag, Tag
<1>8. OneAtATime'
      BY <1>1, <1>2 DEF RunInv, OneAtATime, Active, Ended
<1>9. JobsAreAwaited'
  <2>1. ASSUME NEW r \in Runs \ {q}, NEW j \in Jobs, job'[r][j] \in {"run", "move"}
        PROVE  pc'[r] = "wait"
        BY <1>2, <2>1 DEF RunInv, JobsAreAwaited
  <2>2. ASSUME NEW j \in Jobs, job'[q][j] \in {"run", "move"}
        PROVE  pc'[q] = "wait"
    <3>1. CASE Launch(q)  BY <3>1 DEF Launch, Goto, TypeOK
    <3>2. CASE Wait(q)
      <4>1. job'[q][j] = "over"  BY <3>2 DEF Wait, JobsOver
      <4> QED  BY <2>2, <4>1
    <3>3. CASE Job(q)
      <4>1. pc' = pc  BY <3>3 DEF Job, G4Run, G4Move, RunSimcTree, SimcMove
      <4>2. pc[q] = "wait"
            BY <3>3 DEF Job, G4Run, G4Move, RunSimcTree, SimcMove, JobAt, Jobs, RunInv,
                        JobsAreAwaited
      <4> QED  BY <4>1, <4>2
    <3>4. CASE Driver(q) /\ ~Launch(q) /\ ~Wait(q)
      <4>1. job' = job /\ pc[q] # "wait"
            BY <3>4 DEF Driver, CopyInput, ClearDat, Convert, CollectDat, Cap, ConfigureG4,
                        ConfigureSimc, Select, MergeHms, MergeShms, Merge, At_
      <4> QED  BY <2>2, <4>1 DEF RunInv, JobsAreAwaited
    <3> QED  BY <3>1, <3>2, <3>3, <3>4
  <2> QED  BY <2>1, <2>2 DEF JobsAreAwaited
<1>10. InputsAreCopied'
  <2>1. ASSUME NEW r \in Runs PROVE second'[r] <= now'
    <3>1. second[r] <= now /\ second[r] \in Int  BY DEF RunInv, InputsAreCopied, TypeOK
    <3> QED  BY <1>2, <1>3, <3>1
  <2>2. ASSUME NEW t \in DOMAIN dirs', NEW r \in Runs, dirs'[t].input.sample = r
        PROVE  pc'[r] \notin {"idle", "copy"} /\ t.second < now'
    <3>0. second[q] \in Int /\ second[q] <= now  BY DEF RunInv, InputsAreCopied, TypeOK
    <3>1. CASE t \in DOMAIN dirs /\ dirs'[t].input = dirs[t].input
      <4>1. pc[r] \notin {"idle", "copy"} /\ t.second < now  BY <1>6, <2>2, <3>1
      <4>2. t.second \in Int  BY <3>1 DEF TypeOK, Tags
      <4> QED  BY <1>2, <1>3, <1>4, <1>5, <4>1, <4>2
    <3>2. CASE CopyInput(q) /\ t = run_tag(q) /\ dirs'[t].input = File(q, "yes")
      <4>1. r = q  BY <2>2, <3>2 DEF File
      <4> QED  BY <1>3, <1>4, <1>5, <1>7, <3>0, <3>2, <4>1
    <3>3. CASE t.second = second[q] /\ Here(q) /\ dirs'[t].input = dirs[run_tag(q)].input
      <4>1. pc[r] \notin {"idle", "copy"} /\ second[q] < now  BY <1>6, <1>7, <2>2, <3>3 DEF Here
      <4> QED  BY <1>2, <1>3, <1>4, <1>5, <3>0, <3>3, <4>1
    <3> QED  BY <3>1, <3>2, <3>3, InputsFrom
  <2> QED  BY <2>1, <2>2 DEF InputsAreCopied
<1>11. LaterRunsLaterTags'
  <2>1. ASSUME NEW p \in Runs, NEW t \in DOMAIN dirs', Active(p)',
               dirs'[t].input.sample \in Runs \ {p}
        PROVE  t.second < second'[p]
    <3>1. p = q  BY <1>1, <1>2, <2>1 DEF Active, Ended, RunInv, OneAtATime
    <3>2. \A x \in DOMAIN dirs : dirs[x].input.sample \in Runs \ {q} => x.second < second[q]
          BY <1>1 DEF RunInv, LaterRunsLaterTags
    <3>3. CASE t \in DOMAIN dirs /\ dirs'[t].input = dirs[t].input
          BY <1>2, <2>1, <3>1, <3>2, <3>3
    <3>4. CASE CopyInput(q) /\ t = run_tag(q) /\ dirs'[t].input = File(q, "yes")
          BY <2>1, <3>1, <3>4 DEF File
    <3>5. CASE t.second = second[q] /\ Here(q) /\ dirs'[t].input = dirs[run_tag(q)].input
      <4>1. run_tag(q) \in DOMAIN dirs /\ dirs[run_tag(q)].input.sample \in Runs \ {q}
            BY <2>1, <3>1, <3>5 DEF Here
      <4> QED  BY <1>2, <1>7, <3>1, <3>2, <3>5, <4>1
    <3> QED  BY <3>3, <3>4, <3>5, InputsFrom
  <2> QED  BY <2>1 DEF LaterRunsLaterTags
<1> QED  BY <1>8, <1>9, <1>10, <1>11 DEF RunInv

LEMMA NextRunInv ==
    ASSUME TypeOK, RunInv, [Next]_vars PROVE RunInv'
<1>1. CASE UNCHANGED vars
      BY <1>1 DEF vars, settings, configs, scratch, RunInv, OneAtATime, JobsAreAwaited,
                  InputsAreCopied, LaterRunsLaterTags, Active, Ended
<1> QED  BY <1>1, StartRunInv, WorkRunInv DEF Next, Terminated

(* What a run that ended left behind, no later step touches.                 *)
LEMMA EndedStays ==
    ASSUME TypeOK, RunInv, [Next]_vars, NEW r \in Runs,
           Ended(r), At(run_tag(r)).input = File(r, "yes")
    PROVE  /\ run_tag(r)' = run_tag(r)
           /\ At(run_tag(r))' = At(run_tag(r))
           /\ \A k \in DOMAIN merged : k.tag = run_tag(r) => merged'[k] = merged[k]
<1> USE DEF settings, configs, scratch
<1>1. run_tag(r) \in DOMAIN dirs
      BY WorkflowAssumption DEF At, EmptyDir, NoFile, File, NoSample
<1>2. dirs[run_tag(r)].input.sample = r  BY <1>1 DEF At, File
<1>3. ASSUME NEW q \in Runs, Start(q)
      PROVE  /\ run_tag(r)' = run_tag(r)
             /\ At(run_tag(r))' = At(run_tag(r))
             /\ \A k \in DOMAIN merged : k.tag = run_tag(r) => merged'[k] = merged[k]
  <2>1. q # r  BY <1>3 DEF Start, At_, Ended
  <2>2. run_tag(r)' = run_tag(r)  BY <1>3, <2>1 DEF Start, run_tag, TypeOK
  <2>3. run_tag(r) \in DOMAIN dirs' /\ dirs'[run_tag(r)] = dirs[run_tag(r)]
        BY <1>1, <1>3 DEF Start, With
  <2>4. merged' = merged  BY <1>3 DEF Start
  <2> QED  BY <1>1, <2>2, <2>3, <2>4 DEF At
<1>4. ASSUME NEW q \in Runs, Driver(q) \/ Job(q)
      PROVE  /\ run_tag(r)' = run_tag(r)
             /\ At(run_tag(r))' = At(run_tag(r))
             /\ \A k \in DOMAIN merged : k.tag = run_tag(r) => merged'[k] = merged[k]
  <2>1. Active(q)  BY <1>4, WorkingIsActive DEF RunInv
  <2>2. q # r  BY <2>1 DEF Active
  <2>3. run_tag(r).second < second[q]
        BY <1>1, <1>2, <2>1, <2>2 DEF RunInv, LaterRunsLaterTags
  <2>4. run_tag(r).second # second[q]
    <3>1. second[q] \in Int  BY DEF TypeOK
    <3> QED  BY <2>3, <3>1
  <2>5. run_tag(r)' = run_tag(r)  BY <1>4, <2>2, OthersStay DEF run_tag
  <2>6. /\ run_tag(r) \in DOMAIN dirs' /\ dirs'[run_tag(r)] = dirs[run_tag(r)]
        /\ \A k \in DOMAIN merged : k.tag = run_tag(r) => merged'[k] = merged[k]
        BY <1>1, <1>4, <2>4, OtherDirsStay
  <2> QED  BY <1>1, <2>5, <2>6 DEF At
<1>5. CASE UNCHANGED vars  BY <1>5 DEF vars, run_tag, At
<1> QED  BY <1>3, <1>4, <1>5 DEF Next, Terminated

(* When the script has returned, its directory and its merged files stay as  *)
(* they are, whatever later runs do: the jobs were waited for, one run       *)
(* follows another, and copying the sample takes the time that makes the     *)
(* name of the next run's directory another.                                 *)
THEOREM EndedRunsAreLeftAlone == Spec => EndedRunsStayAsTheyAre
<1>1. Init => TypeOK /\ RunInv  BY InitType, InitRunInv
<1>2. TypeOK /\ RunInv /\ [Next]_vars => (TypeOK /\ RunInv)'  BY NextType, NextRunInv
<1>3. TypeOK /\ RunInv /\ [Next]_vars =>
          [\A r \in Runs : Ended(r) /\ At(run_tag(r)).input = File(r, "yes") =>
               /\ run_tag(r)' = run_tag(r)
               /\ At(run_tag(r))' = At(run_tag(r))
               /\ \A k \in DOMAIN merged : k.tag = run_tag(r) => merged'[k] = merged[k]]_vars
      BY EndedStays
<1> QED  BY <1>1, <1>2, <1>3, PTL DEF Spec, EndedRunsStayAsTheyAre

------------------------------------------------------------------------------
(* What a run finds is its own, when the scratch directories were empty      *)
(* before the first one.                                                     *)

Own(f, r) == f = NoFile \/ f.sample = r

OwnDir(r) ==
    LET d == dirs[run_tag(r)]
    IN  /\ d.input = File(r, "yes")
        /\ Own(d.dat, r) /\ Own(d.g4, r) /\ Own(d.hms, r) /\ Own(d.shms, r)

Capped == {"configure_g4", "configure_simc", "launch", "wait"}

(* A run under way has its directory under its final name as soon as any     *)
(* configuration names it, and the configuration is of its making.           *)
RunOwns(r) ==
    /\ Here(r) /\ path[r] = run_tag(r)
    /\ count[r] \in 1 .. requested[r]
    /\ pc[r] = "copy" => dirs[run_tag(r)] = EmptyDir
    /\ pc[r] # "copy" => OwnDir(r)
    /\ pc[r] \in {"convert", "collect"} => Own(shared_dat, r)
    /\ pc[r] \in Capped => /\ count[r] <= available[r]
                           /\ dirs[run_tag(r)].dat.sample = r
    /\ pc[r] \in Capped \ {"configure_g4"} => lad_ini = run_tag(r) /\ dis_mac = count[r]
    /\ pc[r] \in {"launch", "wait"} =>
           \A s \in Spectrometers : inp[s] = [ngen |-> 0 - count[r], dat |-> run_tag(r)]

OwnInv ==
    /\ \A r \in Runs : count[r] <= requested[r]
    /\ \A r \in Runs : Active(r) => RunOwns(r)
    /\ \A t \in DOMAIN dirs : dirs[t] = EmptyDir \/ dirs[t].input.sample \in Runs

(* The scratch directories hold what a job is about to move, nothing else.   *)
ScratchInv ==
    /\ \A s \in Spectrometers :
           root[s] = NoFile \/ \E r \in Runs : job[r][s] = "move" /\ root[s].sample = r
    /\ \/ hodo = <<>>
       \/ /\ Len(hodo) = 1
          /\ \E r \in Runs : job[r]["g4"] = "move" /\ hodo[1].sample = r

LEMMA InitOwn ==
    ASSUME CleanScratch, Init PROVE OwnInv /\ ScratchInv
<1>1. ScratchInv  BY DEF Init, ScratchInv
<1>2. \A r \in Runs : ~Active(r)  BY DEF Init, Active
<1>3. \A r \in Runs : count[r] <= requested[r]
  <2>1. \A r \in Runs : requested[r] \in 0 .. MaxEvents /\ count[r] = requested[r]
        BY DEF Init
  <2> QED  BY <2>1, WorkflowAssumption
<1>4. DOMAIN dirs = {}  BY DEF Init
<1> QED  BY <1>1, <1>2, <1>3, <1>4 DEF OwnInv

LEMMA StartOwn ==
    ASSUME TypeOK, RunInv, OwnInv, ScratchInv, NEW q \in Runs, Start(q)
    PROVE  OwnInv' /\ ScratchInv'
<1> USE DEF settings, configs, scratch
<1>1. ScratchInv'  BY DEF Start, ScratchInv
<1> DEFINE t == Tag(now, count[q])
<1>2. run_tag(q)' = t /\ path'[q] = t  BY DEF Start, run_tag, TypeOK
<1>3. t \in DOMAIN dirs => dirs[t] = EmptyDir
  <2>1. ASSUME t \in DOMAIN dirs, dirs[t].input.sample \in Runs PROVE FALSE
    <3>1. t.second < now  BY <2>1 DEF RunInv, InputsAreCopied
    <3>2. t.second = now /\ now \in Nat  BY DEF Tag, TypeOK
    <3> QED  BY <3>1, <3>2
  <2> QED  BY <2>1 DEF OwnInv
<1>4. t \in DOMAIN dirs' /\ dirs'[t] = EmptyDir  BY <1>3 DEF Start, With
<1>5. \A x \in DOMAIN dirs' : dirs'[x] = EmptyDir \/ dirs'[x].input.sample \in Runs
      BY DEF Start, With, OwnInv
<1>6. \A r \in Runs \ {q} : ~Active(r)'
      BY DEF Start, At_, Goto, Active, Ended, TypeOK
<1>7. count' = count /\ requested' = requested  BY DEF Start
<1>8. Active(q)' => pc'[q] = "copy" /\ count[q] > 0
      BY DEF Start, Goto, Active, Ended, TypeOK
<1>9. ASSUME Active(q)' PROVE RunOwns(q)'
  <2>1. pc'[q] = "copy" /\ count[q] \in 1 .. requested[q]
    <3>1. count[q] \in Int /\ requested[q] \in Int /\ count[q] <= requested[q]
          BY DEF TypeOK, OwnInv
    <3> QED  BY <1>8, <1>9, <3>1
  <2>2. Here(q)'  BY <1>2, <1>4 DEF Here
  <2> QED  BY <1>2, <1>4, <1>7, <2>1, <2>2 DEF RunOwns, Capped
<1>10. \A r \in Runs : count'[r] <= requested'[r]  BY <1>7 DEF OwnInv
<1> QED  BY <1>1, <1>5, <1>6, <1>9, <1>10 DEF OwnInv

(* The steps of the driver before the jobs are launched.                     *)
LEMMA DriverOwn ==
    ASSUME TypeOK, RunInv, RunInv', OwnInv, NEW q \in Runs, Driver(q)
    PROVE  OwnInv'
<1> USE DEF settings, configs, scratch
<1>1. Active(q) /\ RunOwns(q)  BY WorkingIsActive DEF RunInv, OwnInv
<1>2. \A r \in Runs \ {q} : ~Active(r)'
  <2>1. \A r \in Runs \ {q} : ~Active(r)  BY <1>1 DEF RunInv, OneAtATime
  <2>2. \A r \in Runs \ {q} : pc'[r] = pc[r]  BY OthersStay
  <2> QED  BY <2>1, <2>2 DEF Active, Ended
<1>3. second' = second  BY OthersStay
<1> DEFINE d == dirs[run_tag(q)]
<1>4. run_tag(q) \in DOMAIN dirs /\ d \in DirType  BY <1>1 DEF RunOwns, Here, TypeOK
<1>5. count[q] \in Int /\ requested[q] \in Int /\ available[q] \in Int  BY DEF TypeOK
<1> DEFINE DirsFine == \A t \in DOMAIN dirs' :
                           dirs'[t] = EmptyDir \/ dirs'[t].input.sample \in Runs
           CountsFine == \A r \in Runs : count'[r] <= requested'[r]
<1>6. dirs' = dirs => DirsFine  BY DEF OwnInv
<1>7. count' = count /\ requested' = requested => CountsFine  BY DEF OwnInv
<1> SUFFICES DirsFine /\ CountsFine /\ (Active(q)' => RunOwns(q)')
    BY <1>2 DEF OwnInv
<1> HIDE DEF DirsFine, CountsFine
<1>8. CASE CopyInput(q)
  <2>1. run_tag(q)' = run_tag(q)  BY <1>8 DEF CopyInput, run_tag
  <2>2. CASE UNCHANGED dirs /\ Goto(q, "failed")
    <3>1. ~Active(q)'  BY <2>2 DEF Goto, Active, Ended, TypeOK
    <3> QED  BY <1>6, <1>7, <1>8, <2>2, <3>1 DEF CopyInput
  <2>3. CASE dirs' = [dirs EXCEPT ![run_tag(q)].input = File(q, "yes")] /\ Goto(q, "clear")
    <3>1. pc[q] = "copy" /\ pc'[q] = "clear"  BY <1>8, <2>3 DEF CopyInput, At_, Goto, TypeOK
    <3>2. d = EmptyDir  BY <1>1, <3>1 DEF RunOwns
    <3>3. dirs'[run_tag(q)] = [EmptyDir EXCEPT !.input = File(q, "yes")]
          BY <1>4, <2>3, <3>2
    <3>4. OwnDir(q)'  BY <2>1, <3>3 DEF OwnDir, EmptyDir, Own
    <3>5. DOMAIN dirs' = DOMAIN dirs  BY <2>3
    <3>6. RunOwns(q)'
      <4>1. Here(q)'  BY <1>4, <2>1, <3>5 DEF Here
      <4>2. path' = path /\ count' = count /\ requested' = requested  BY <1>8 DEF CopyInput
      <4> QED  BY <1>1, <2>1, <3>1, <3>4, <4>1, <4>2 DEF RunOwns, Capped
    <3>7. DirsFine
      <4>1. ASSUME NEW t \in DOMAIN dirs'
            PROVE  dirs'[t] = EmptyDir \/ dirs'[t].input.sample \in Runs
        <5>1. CASE t = run_tag(q)  BY <3>3, <5>1 DEF EmptyDir, File
        <5>2. CASE t # run_tag(q)  BY <2>3, <3>5, <5>2 DEF OwnInv
        <5> QED  BY <5>1, <5>2
      <4> QED  BY <4>1 DEF DirsFine
    <3> QED  BY <1>7, <1>8, <3>6, <3>7 DEF CopyInput
  <2> QED  BY <1>8, <2>2, <2>3 DEF CopyInput
<1>9. CASE ClearDat(q)
  <2>1. Active(q)' => pc'[q] = "convert" /\ shared_dat' = NoFile
        BY <1>9 DEF ClearDat, RemoveOldDat, Goto, Active, Ended, TypeOK
  <2>2. pc[q] # "copy" /\ run_tag(q)' = run_tag(q) /\ UNCHANGED <<dirs, path, count, requested>>
        BY <1>9 DEF ClearDat, At_, run_tag
  <2>3. Active(q)' => RunOwns(q)'
        BY <1>1, <2>1, <2>2 DEF RunOwns, OwnDir, Own, Here, Capped
  <2> QED  BY <1>6, <1>7, <2>2, <2>3
<1>10. CASE Convert(q)
  <2>1. Active(q)' => pc'[q] = "collect"
        BY <1>10 DEF Convert, Goto, Active, Ended, TypeOK
  <2>2. pc[q] = "convert" /\ run_tag(q)' = run_tag(q) /\ UNCHANGED <<dirs, path, count, requested>>
        BY <1>10 DEF Convert, At_, run_tag
  <2>3. OwnDir(q) /\ Own(shared_dat, q)  BY <1>1, <2>2 DEF RunOwns
  <2>4. Own(shared_dat', q)
        BY <1>4, <1>10, <2>3 DEF Convert, At, OwnDir, Own, File
  <2>5. Active(q)' => RunOwns(q)'
        BY <1>1, <2>1, <2>2, <2>3, <2>4 DEF RunOwns, OwnDir, Own, Here, Capped
  <2> QED  BY <1>6, <1>7, <2>2, <2>5
<1>11. CASE CollectDat(q)
  <2>1. Active(q)' => pc'[q] = "cap"
        BY <1>11 DEF CollectDat, Goto, Active, Ended, TypeOK
  <2>2. pc[q] = "collect" /\ run_tag(q)' = run_tag(q) /\ UNCHANGED <<path, count, requested>>
        BY <1>11 DEF CollectDat, At_, run_tag
  <2>3. OwnDir(q) /\ Own(shared_dat, q)  BY <1>1, <2>2 DEF RunOwns
  <2>4. CASE dirs' = dirs
    <3>1. Active(q)' => RunOwns(q)'
          BY <1>1, <2>1, <2>2, <2>3, <2>4 DEF RunOwns, OwnDir, Own, Here, Capped
    <3> QED  BY <1>6, <1>7, <2>2, <2>4, <3>1
  <2>5. CASE dirs' = [dirs EXCEPT ![run_tag(q)].dat = shared_dat]
    <3>1. DOMAIN dirs' = DOMAIN dirs /\ dirs'[run_tag(q)] = [d EXCEPT !.dat = shared_dat]
          BY <1>4, <2>5
    <3>2. OwnDir(q)'  BY <1>4, <2>2, <2>3, <3>1 DEF OwnDir, Own, DirType
    <3>3. Here(q)'  BY <1>4, <2>2, <3>1 DEF Here
    <3>4. Active(q)' => RunOwns(q)'
          BY <1>1, <2>1, <2>2, <3>2, <3>3 DEF RunOwns, Capped
    <3>5. DirsFine
      <4>1. ASSUME NEW t \in DOMAIN dirs'
            PROVE  dirs'[t] = EmptyDir \/ dirs'[t].input.sample \in Runs
        <5>1. CASE t = run_tag(q)
          <6>1. dirs'[t].input = File(q, "yes")  BY <1>4, <2>3, <3>1, <5>1 DEF OwnDir, DirType
          <6> QED  BY <6>1 DEF File
        <5>2. CASE t # run_tag(q)  BY <2>5, <3>1, <5>2 DEF OwnInv
        <5> QED  BY <5>1, <5>2
      <4> QED  BY <4>1 DEF DirsFine
    <3> QED  BY <1>7, <2>2, <3>4, <3>5
  <2> QED  BY <1>11, <2>4, <2>5 DEF CollectDat
<1>12. CASE Cap(q)
  <2> DEFINE n == Events(d.dat)
             c == CappedCount(q, n)
             t == Tag(second[q], c)
  <2>0. At(run_tag(q)) = d  BY <1>4 DEF At
  <2>1. n \in 0 .. MaxEvents
    <3>1. d.dat \in Files  BY <1>4 DEF DirType
    <3> QED  BY <3>1, EventsType
  <2>2. pc[q] = "cap" /\ UNCHANGED requested  BY <1>12 DEF Cap, At_
  <2>3. OwnDir(q)  BY <1>1, <2>2 DEF RunOwns
  <2>4. CASE n <= 0 \/ (c # count[q] /\ t \in DOMAIN dirs)
    <3>1. pc'[q] = "failed" /\ UNCHANGED <<count, path, dirs>>
          BY <1>12, <2>0, <2>4 DEF Cap, Goto, TypeOK
    <3>2. ~Active(q)'  BY <3>1 DEF Active, Ended
    <3> QED  BY <1>6, <1>7, <2>2, <3>1, <3>2
  <2>5. CASE ~(n <= 0 \/ (c # count[q] /\ t \in DOMAIN dirs))
    <3>1. pc'[q] = "configure_g4" /\ count' = [count EXCEPT ![q] = c]
          BY <1>12, <2>0, <2>5 DEF Cap, Goto, TypeOK
    <3>2. d.dat.sample = q /\ n = available[q] /\ available' = available
      <4>1. d.dat.sample \in Runs  BY <2>5 DEF Events
      <4>2. d.dat # NoFile  BY <4>1, WorkflowAssumption DEF NoFile, File, NoSample
      <4>3. d.dat.sample = q  BY <2>3, <4>2 DEF OwnDir, Own
      <4> QED  BY <1>12, <4>3 DEF Events, Cap
    <3>3. c \in 1 .. requested[q] /\ c <= available[q]
      <4>1. count[q] \in 1 .. requested[q]  BY <1>1 DEF RunOwns
      <4> QED  BY <1>5, <2>1, <2>5, <3>2, <4>1 DEF CappedCount
    <3>4. count'[q] = c /\ run_tag(q)' = t
          BY <1>3, <3>1 DEF run_tag, TypeOK
    <3>5. CountsFine
      <4>1. ASSUME NEW r \in Runs PROVE count'[r] <= requested'[r]
        <5>1. CASE r = q  BY <2>2, <3>3, <3>4, <5>1
        <5>2. CASE r # q  BY <2>2, <3>1, <5>2 DEF OwnInv, TypeOK
        <5> QED  BY <5>1, <5>2
      <4> QED  BY <4>1 DEF CountsFine
    <3>6. CASE c = count[q]
      <4>1. UNCHANGED <<path, dirs>>  BY <1>12, <2>0, <2>5, <3>6 DEF Cap
      <4>2. run_tag(q)' = run_tag(q)  BY <3>4, <3>6 DEF run_tag
      <4>3. OwnDir(q)' /\ Here(q)'  BY <1>4, <2>3, <4>1, <4>2 DEF OwnDir, Here
      <4>4. RunOwns(q)'
        <5> HIDE DEF c, t
        <5> QED  BY <1>1, <2>2, <3>1, <3>2, <3>3, <3>4, <4>1, <4>2, <4>3 DEF RunOwns, Capped
      <4> QED  BY <1>6, <3>5, <4>1, <4>4
    <3>7. CASE c # count[q]
      <4>1. dirs' = RenamedDirs(q, t) /\ path' = [path EXCEPT ![q] = t]
            BY <1>12, <2>0, <2>5, <3>7 DEF Cap, PathAfterCap
      <4>2. t \in DOMAIN dirs' /\ dirs'[t] = d  BY <4>1 DEF RenamedDirs
      <4>3. path'[q] = t  BY <4>1 DEF TypeOK
      <4>4. OwnDir(q)' /\ Here(q)'  BY <2>3, <3>4, <4>2 DEF OwnDir, Here
      <4>5. DirsFine
        <5>1. ASSUME NEW x \in DOMAIN dirs'
              PROVE  dirs'[x] = d \/ (x \in DOMAIN dirs /\ dirs'[x] = dirs[x])
              BY <4>1 DEF RenamedDirs
        <5> QED  BY <1>4, <5>1 DEF DirsFine, OwnInv
      <4>6. RunOwns(q)'
        <5> HIDE DEF c, t
        <5> QED  BY <2>2, <3>1, <3>2, <3>3, <3>4, <4>2, <4>3, <4>4 DEF RunOwns, Capped
      <4> QED  BY <3>5, <4>5, <4>6
    <3> QED  BY <3>6, <3>7
  <2> QED  BY <2>4, <2>5
<1>13. CASE ConfigureG4(q)
  <2>1. /\ pc[q] = "configure_g4" /\ pc'[q] = "configure_simc"
        /\ run_tag(q)' = run_tag(q)
        /\ UNCHANGED <<dirs, path, count, requested, available>>
        /\ lad_ini' = path[q] /\ dis_mac' = count[q]
        BY <1>13 DEF ConfigureG4, At_, Goto, run_tag, TypeOK
  <2>2. RunOwns(q)'  BY <1>1, <2>1 DEF RunOwns, OwnDir, Here, Capped
  <2> QED  BY <1>6, <1>7, <2>1, <2>2
<1>14. CASE ConfigureSimc(q)
  <2>1. /\ pc[q] = "configure_simc" /\ pc'[q] = "launch"
        /\ run_tag(q)' = run_tag(q)
        /\ UNCHANGED <<dirs, path, count, requested, available, lad_ini, dis_mac>>
        BY <1>14 DEF ConfigureSimc, At_, Goto, run_tag, TypeOK
  <2>2. \A s \in Spectrometers : inp'[s] = [ngen |-> 0 - count[q], dat |-> path[q]]
        BY <1>14 DEF ConfigureSimc, ConfiguredInp
  <2>3. RunOwns(q)'  BY <1>1, <2>1, <2>2 DEF RunOwns, OwnDir, Here, Capped
  <2> QED  BY <1>6, <1>7, <2>1, <2>3
<1>15. CASE Launch(q)
  <2>1. /\ pc[q] = "launch" /\ pc'[q] = "wait"
        /\ run_tag(q)' = run_tag(q)
        /\ UNCHANGED <<dirs, path, count, requested, available, lad_ini, dis_mac, inp>>
        BY <1>15 DEF Launch, At_, Goto, run_tag, TypeOK
  <2>2. RunOwns(q)'  BY <1>1, <2>1 DEF RunOwns, OwnDir, Here, Capped
  <2> QED  BY <1>6, <1>7, <2>1, <2>2
<1>16. CASE Wait(q)
  <2>1. /\ pc[q] = "wait" /\ pc'[q] = "select"
        /\ run_tag(q)' = run_tag(q)
        /\ UNCHANGED <<dirs, path, count, requested>>
        BY <1>16 DEF Wait, At_, Goto, run_tag, TypeOK
  <2>2. RunOwns(q)'  BY <1>1, <2>1 DEF RunOwns, OwnDir, Here, Capped
  <2> QED  BY <1>6, <1>7, <2>1, <2>2
<1>17. CASE Select(q)
  <2>1. /\ pc[q] = "select" /\ pc'[q] = "merge_hms"
        /\ run_tag(q)' = run_tag(q)
        /\ UNCHANGED <<path, count, requested>>
        BY <1>17 DEF Select, At_, Goto, run_tag, TypeOK
  <2>2. OwnDir(q) /\ Here(q)  BY <1>1, <2>1 DEF RunOwns
  <2>3. PICK S \in SUBSET Spectrometers :
            dirs' = [dirs EXCEPT ![run_tag(q)].selected = @ \cup S]
        BY <1>17, <2>2 DEF Select
  <2>4. DOMAIN dirs' = DOMAIN dirs /\ dirs'[run_tag(q)] = [d EXCEPT !.selected = @ \cup S]
        BY <1>4, <2>3
  <2>5. OwnDir(q)'  BY <1>4, <2>1, <2>2, <2>4 DEF OwnDir, DirType
  <2>6. Here(q)'  BY <1>4, <2>1, <2>4 DEF Here
  <2>7. RunOwns(q)'  BY <1>1, <2>1, <2>5, <2>6 DEF RunOwns, Capped
  <2>8. DirsFine
    <3>1. ASSUME NEW t \in DOMAIN dirs'
          PROVE  dirs'[t] = EmptyDir \/ dirs'[t].input.sample \in Runs
      <4>1. CASE t = run_tag(q)
        <5>1. dirs'[t].input = File(q, "yes")  BY <1>4, <2>2, <2>4, <4>1 DEF OwnDir, DirType
        <5> QED  BY <5>1 DEF File
      <4>2. CASE t # run_tag(q)  BY <2>3, <2>4, <4>2 DEF OwnInv
      <4> QED  BY <4>1, <4>2
    <3> QED  BY <3>1 DEF DirsFine
  <2> QED  BY <1>7, <2>1, <2>7, <2>8
<1>18. CASE MergeHms(q) \/ MergeShms(q)
  <2>1. /\ pc[q] \in {"merge_hms", "merge_shms"}
        /\ pc'[q] \in {"merge_shms", "done", "failed"}
        /\ run_tag(q)' = run_tag(q)
        /\ UNCHANGED <<dirs, path, count, requested>>
        BY <1>18 DEF MergeHms, MergeShms, Merge, MergeFailed, At_, Goto, run_tag, TypeOK
  <2>2. RunOwns(q)'  BY <1>1, <2>1 DEF RunOwns, OwnDir, Here, Capped
  <2> QED  BY <1>6, <1>7, <2>1, <2>2
<1> QED  BY <1>8, <1>9, <1>10, <1>11, <1>12, <1>13, <1>14, <1>15, <1>16, <1>17, <1>18
         DEF Driver

(* The driver leaves the scratch directories alone, and jobs are launched    *)
(* when none is under way.                                                   *)
LEMMA DriverScratch ==
    ASSUME TypeOK, RunInv, ScratchInv, NEW q \in Runs, Driver(q)
    PROVE  ScratchInv'
<1> USE DEF settings, configs, scratch
<1>1. root' = root /\ hodo' = hodo
      BY DEF Driver, CopyInput, ClearDat, Convert, CollectDat, Cap, ConfigureG4, ConfigureSimc,
             Launch, Wait, Select, MergeHms, MergeShms, Merge
<1>2. \A r \in Runs, j \in Jobs : job[r][j] = "move" => job'[r][j] = "move"
  <2>1. CASE Launch(q)
    <3>1. Active(q) /\ pc[q] = "launch"  BY <2>1 DEF Launch, At_, Active, Ended
    <3>2. \A r \in Runs, j \in Jobs : job[r][j] # "move"
          BY <3>1 DEF RunInv, JobsAreAwaited, OneAtATime, Active, Ended
    <3> QED  BY <3>2
  <2>2. CASE ~Launch(q)
    <3>1. job' = job
          BY <2>2 DEF Driver, CopyInput, ClearDat, Convert, CollectDat, Cap, ConfigureG4,
                      ConfigureSimc, Wait, Select, MergeHms, MergeShms, Merge
    <3> QED  BY <3>1
  <2> QED  BY <2>1, <2>2
<1>3. "g4" \in Jobs /\ Spectrometers \subseteq Jobs  BY DEF Jobs
<1> QED  BY <1>1, <1>2, <1>3 DEF ScratchInv

(* A job puts files made from its own run's sample into the run's directory. *)
LEMMA JobOwn ==
    ASSUME TypeOK, RunInv, OwnInv, ScratchInv, NEW q \in Runs, Job(q)
    PROVE  OwnInv' /\ ScratchInv'
<1> USE DEF settings, configs, scratch, driver
<1>1. pc[q] = "wait" /\ RunOwns(q)
  <2>1. pc[q] = "wait"
        BY DEF Job, G4Run, G4Move, RunSimcTree, SimcMove, JobAt, Jobs, RunInv, JobsAreAwaited
  <2>2. Active(q)  BY <2>1 DEF Active, Ended
  <2> QED  BY <2>1, <2>2 DEF OwnInv
<1>2. \A r \in Runs \ {q}, j \in Jobs : job[r][j] # "move"
  <2>1. \A r \in Runs \ {q} : pc[r] # "wait"
        BY <1>1 DEF RunInv, OneAtATime, Active, Ended
  <2> QED  BY <2>1 DEF RunInv, JobsAreAwaited
<1>3. /\ run_tag(q)' = run_tag(q)
      /\ UNCHANGED <<pc, path, count, requested, available, lad_ini, dis_mac, inp>>
      BY DEF Job, G4Run, G4Move, RunSimcTree, SimcMove, run_tag
<1> DEFINE d == dirs[run_tag(q)]
<1>4. run_tag(q) \in DOMAIN dirs /\ d \in DirType /\ At(run_tag(q)) = d
      BY <1>1 DEF RunOwns, Here, TypeOK, At
<1>5. OwnDir(q) /\ d.dat.sample = q  BY <1>1 DEF RunOwns, Capped
<1>6. lad_ini = run_tag(q) /\ \A s \in Spectrometers : inp[s].dat = run_tag(q)
      BY <1>1 DEF RunOwns, Capped
<1>7. ASSUME NEW e \in DirType, dirs' = [dirs EXCEPT ![run_tag(q)] = e],
             e.input = d.input, e.dat = d.dat, Own(e.g4, q), Own(e.hms, q), Own(e.shms, q)
      PROVE  OwnInv'
  <2>1. DOMAIN dirs' = DOMAIN dirs /\ dirs'[run_tag(q)] = e  BY <1>4, <1>7
  <2>2. OwnDir(q)'  BY <1>3, <1>5, <1>7, <2>1 DEF OwnDir
  <2>3. Here(q)'  BY <1>3, <1>4, <2>1 DEF Here
  <2>4. RunOwns(q)'  BY <1>1, <1>3, <1>5, <1>7, <2>1, <2>2, <2>3 DEF RunOwns, Capped
  <2>5. \A r \in Runs : Active(r)' => r = q
        BY <1>1, <1>3 DEF RunInv, OneAtATime, Active, Ended
  <2>6. ASSUME NEW t \in DOMAIN dirs'
        PROVE  dirs'[t] = EmptyDir \/ dirs'[t].input.sample \in Runs
    <3>1. CASE t = run_tag(q)  BY <1>5, <1>7, <2>1, <3>1 DEF OwnDir, File
    <3>2. CASE t # run_tag(q)  BY <1>7, <2>1, <3>2 DEF OwnInv
    <3> QED  BY <3>1, <3>2
  <2> QED  BY <1>3, <2>4, <2>5, <2>6 DEF OwnInv
<1>8. ASSUME dirs' = dirs PROVE OwnInv'
  <2>1. OwnDir(q)' /\ Here(q)'  BY <1>3, <1>4, <1>5, <1>8 DEF OwnDir, Here
  <2>2. RunOwns(q)'  BY <1>1, <1>3, <1>5, <1>8, <2>1 DEF RunOwns, Capped
  <2>3. \A r \in Runs : Active(r)' => r = q
        BY <1>1, <1>3 DEF RunInv, OneAtATime, Active, Ended
  <2> QED  BY <1>3, <1>8, <2>2, <2>3 DEF OwnInv
<1>9. ASSUME NEW j \in Jobs, NEW l, JobGoto(q, j, l)
      PROVE  /\ job'[q][j] = l
             /\ \A i \in Jobs \ {j} : job'[q][i] = job[q][i]
             /\ \A r \in Runs \ {q} : job'[r] = job[r]
      BY <1>9 DEF JobGoto, TypeOK
<1>10. ASSUME NEW s \in Spectrometers, root'[s] = root[s], job'[q][s] = job[q][s]
       PROVE  root'[s] = NoFile \/ \E r \in Runs : job'[r][s] = "move" /\ root'[s].sample = r
  <2>1. s \in Jobs  BY DEF Jobs
  <2> QED  BY <1>2, <1>10, <2>1 DEF ScratchInv
<1>11. ASSUME hodo' = hodo, job'[q]["g4"] = job[q]["g4"]
       PROVE  \/ hodo' = <<>>
              \/ Len(hodo') = 1 /\ \E r \in Runs : job'[r]["g4"] = "move" /\ hodo'[1].sample = r
  <2>1. "g4" \in Jobs  BY DEF Jobs
  <2> QED  BY <1>2, <1>11, <2>1 DEF ScratchInv
<1>12. CASE G4Run(q)
  <2>1. OwnInv'  BY <1>8, <1>12 DEF G4Run
  <2>2. job'[q]["g4"] = "move" /\ \A s \in Spectrometers : job'[q][s] = job[q][s]
        BY <1>9, <1>12 DEF G4Run, Jobs, Spectrometers
  <2>3. hodo = <<>>
    <3>1. \A r \in Runs : job[r]["g4"] # "move"  BY <1>2, <1>12 DEF G4Run, JobAt, Jobs
    <3> QED  BY <3>1 DEF ScratchInv
  <2>4. At(lad_ini).input.sample = q  BY <1>4, <1>5, <1>6 DEF OwnDir, File
  <2>5. hodo' = <<>> \/ \E w : hodo' = <<File(q, w)>>
        BY <1>12, <2>3, <2>4 DEF G4Run
  <2>6. hodo' = <<>> \/ (Len(hodo') = 1 /\ hodo'[1].sample = q)  BY <2>5 DEF File
  <2>7. root' = root  BY <1>12 DEF G4Run
  <2>8. ScratchInv'  BY <1>10, <2>2, <2>6, <2>7 DEF ScratchInv
  <2> QED  BY <2>1, <2>8
<1>13. CASE G4Move(q)
  <2>1. \A s \in Spectrometers : job'[q][s] = job[q][s]
        BY <1>9, <1>13 DEF G4Move, Jobs, Spectrometers
  <2>2. root' = root /\ Here(q)  BY <1>4, <1>13 DEF G4Move, Here
  <2>3. CASE hodo = <<>>
    <3>1. hodo' = <<>> /\ dirs' = dirs  BY <1>13, <2>3 DEF G4Move
    <3> QED  BY <1>8, <1>10, <2>1, <2>2, <3>1 DEF ScratchInv
  <2>4. CASE hodo # <<>>
    <3>1. Len(hodo) = 1 /\ hodo[1].sample = q
          BY <1>2, <2>4 DEF ScratchInv, Jobs
    <3>2. hodo \in Seq(Files)  BY DEF TypeOK
    <3>3. hodo' = <<>>
      <4>1. hodo' = SubSeq(hodo, 1, Len(hodo) - 1)  BY <1>13, <2>2, <2>4 DEF G4Move
      <4> QED  BY <3>1, <3>2, <4>1
    <3>4. hodo[1] \in Files
      <4>1. \A x \in 1 .. Len(hodo) : hodo[x] \in Files  BY <3>2
      <4>2. 1 \in 1 .. Len(hodo)  BY <3>1
      <4> QED  BY <4>1, <4>2
    <3>5. PICK f \in {hodo[1], d.g4} : dirs' = [dirs EXCEPT ![run_tag(q)].g4 = f]
          BY <1>13, <2>2, <2>4, <3>1 DEF G4Move
    <3> DEFINE e == [d EXCEPT !.g4 = f]
    <3>6. e \in DirType /\ Own(e.g4, q) /\ e.input = d.input /\ e.dat = d.dat
          /\ e.hms = d.hms /\ e.shms = d.shms
          BY <1>4, <1>5, <3>1, <3>4, <3>5 DEF DirType, OwnDir, Own
    <3>7. dirs' = [dirs EXCEPT ![run_tag(q)] = e]  BY <3>5
    <3> HIDE DEF e
    <3>8. OwnInv'  BY <1>5, <1>7, <3>6, <3>7 DEF OwnDir
    <3>9. ScratchInv'  BY <1>10, <2>1, <2>2, <3>3 DEF ScratchInv
    <3> QED  BY <3>8, <3>9
  <2> QED  BY <2>3, <2>4
<1>14. ASSUME NEW s \in Spectrometers, RunSimcTree(q, s) PROVE OwnInv' /\ ScratchInv'
  <2>1. OwnInv'  BY <1>8, <1>14 DEF RunSimcTree
  <2>2. s \in Jobs /\ "g4" \in Jobs /\ s # "g4" /\ Spectrometers \subseteq Jobs
        BY DEF Jobs, Spectrometers
  <2>3. /\ job'[q][s] = "move" /\ job'[q]["g4"] = job[q]["g4"]
        /\ \A x \in Spectrometers \ {s} : job'[q][x] = job[q][x]
        BY <1>9, <1>14, <2>2 DEF RunSimcTree
  <2>4. root[s] = NoFile
    <3>1. \A r \in Runs : job[r][s] # "move"  BY <1>2, <1>14, <2>2 DEF RunSimcTree, JobAt
    <3> QED  BY <3>1 DEF ScratchInv
  <2>5. At(inp[s].dat).dat.sample = q  BY <1>4, <1>5, <1>6
  <2>6. root'[s] = NoFile \/ root'[s].sample = q
        BY <1>14, <2>4, <2>5 DEF RunSimcTree, TypeOK, File
  <2>7. hodo' = hodo /\ \A x \in Spectrometers \ {s} : root'[x] = root[x]
        BY <1>14 DEF RunSimcTree, TypeOK
  <2>8. ScratchInv'  BY <1>10, <1>11, <2>3, <2>6, <2>7 DEF ScratchInv
  <2> QED  BY <2>1, <2>8
<1>15. ASSUME NEW s \in Spectrometers, SimcMove(q, s) PROVE OwnInv' /\ ScratchInv'
  <2>1. s \in Jobs /\ "g4" \in Jobs /\ s # "g4" /\ Spectrometers \subseteq Jobs
        BY DEF Jobs, Spectrometers
  <2>2. /\ job'[q]["g4"] = job[q]["g4"]
        /\ \A x \in Spectrometers \ {s} : job'[q][x] = job[q][x]
        BY <1>9, <1>15, <2>1 DEF SimcMove
  <2>3. hodo' = hodo /\ Here(q)  BY <1>4, <1>15 DEF SimcMove, Here
  <2>4. CASE root[s] = NoFile
    <3>1. dirs' = dirs /\ root' = root  BY <1>15, <2>4 DEF SimcMove, Exists
    <3>2. ScratchInv'  BY <1>10, <1>11, <2>2, <2>3, <2>4, <3>1 DEF ScratchInv
    <3> QED  BY <1>8, <3>1, <3>2
  <2>5. CASE root[s] # NoFile
    <3>1. root[s].sample = q /\ root[s] \in Files
          BY <1>2, <2>1, <2>5 DEF ScratchInv, TypeOK
    <3>2. /\ dirs' = [dirs EXCEPT ![run_tag(q)][s] = root[s]]
          /\ root'[s] = NoFile /\ \A x \in Spectrometers \ {s} : root'[x] = root[x]
          BY <1>15, <2>3, <2>5 DEF SimcMove, Exists, TypeOK
    <3> DEFINE e == [d EXCEPT ![s] = root[s]]
    <3>3. /\ e \in DirType /\ Own(e.hms, q) /\ Own(e.shms, q)
          /\ e.input = d.input /\ e.dat = d.dat /\ e.g4 = d.g4
          BY <1>4, <1>5, <3>1 DEF DirType, OwnDir, Own, Spectrometers
    <3>4. dirs' = [dirs EXCEPT ![run_tag(q)] = e]  BY <3>2
    <3> HIDE DEF e
    <3>5. OwnInv'  BY <1>5, <1>7, <3>3, <3>4 DEF OwnDir
    <3>6. ScratchInv'  BY <1>10, <1>11, <2>2, <2>3, <3>2 DEF ScratchInv
    <3> QED  BY <3>5, <3>6
  <2> QED  BY <2>4, <2>5
<1> QED  BY <1>12, <1>13, <1>14, <1>15 DEF Job

LEMMA NextOwn ==
    ASSUME TypeOK, RunInv, OwnInv, ScratchInv, [Next]_vars
    PROVE  OwnInv' /\ ScratchInv'
<1>1. RunInv'  BY NextRunInv
<1>2. CASE UNCHANGED vars
  <2>1. ScratchInv'  BY <1>2 DEF vars, scratch, ScratchInv
  <2>2. OwnInv'
        BY <1>2 DEF vars, settings, configs, scratch, OwnInv, RunOwns, Active, Ended, Here,
                    OwnDir, run_tag
  <2> QED  BY <2>1, <2>2
<1> QED  BY <1>1, <1>2, StartOwn, DriverOwn, DriverScratch, JobOwn DEF Next, Terminated

(* A program about to start finds the files its configuration names, in its  *)
(* run's directory under its final name, and all three are told to process   *)
(* the same number of events, which the sample has - in any number of runs,  *)
(* each of which may have failed at any point.                               *)
THEOREM InputsAreFound ==
    ASSUME CleanScratch PROVE Spec => []ProgramsFindTheirInputs
<1> DEFINE IInv == TypeOK /\ RunInv /\ OwnInv /\ ScratchInv
<1>1. Init => IInv  BY InitType, InitRunInv, InitOwn
<1>2. IInv /\ [Next]_vars => IInv'  BY NextType, NextRunInv, NextOwn
<1>3. IInv => ProgramsFindTheirInputs
  <2> SUFFICES ASSUME IInv, NEW r \in Runs
               PROVE  /\ count[r] <= requested[r]
                      /\ JobAt(r, "g4", "run") =>
                             /\ lad_ini = run_tag(r)
                             /\ At(lad_ini).input = File(r, "yes")
                             /\ dis_mac = count[r] /\ dis_mac \in 1 .. available[r]
                      /\ \A s \in Spectrometers : JobAt(r, s, "run") =>
                             /\ inp[s].dat = run_tag(r)
                             /\ At(inp[s].dat).dat.sample = r
                             /\ inp[s].ngen + count[r] = 0
      BY DEF ProgramsFindTheirInputs
  <2>1. count[r] <= requested[r]  BY DEF OwnInv
  <2>2. ASSUME NEW j \in Jobs, JobAt(r, j, "run")
        PROVE  RunOwns(r) /\ pc[r] = "wait"
    <3>1. pc[r] = "wait"  BY <2>2 DEF JobAt, RunInv, JobsAreAwaited
    <3>2. Active(r)  BY <3>1 DEF Active, Ended
    <3> QED  BY <3>1, <3>2 DEF OwnInv
  <2>3. count[r] \in Int /\ available[r] \in Int /\ requested[r] \in Int  BY DEF TypeOK
  <2>4. ASSUME JobAt(r, "g4", "run")
        PROVE  /\ lad_ini = run_tag(r) /\ At(lad_ini).input = File(r, "yes")
               /\ dis_mac = count[r] /\ dis_mac \in 1 .. available[r]
    <3>1. RunOwns(r) /\ pc[r] = "wait"  BY <2>2, <2>4 DEF Jobs
    <3>2. lad_ini = run_tag(r) /\ dis_mac = count[r]  BY <3>1 DEF RunOwns, Capped
    <3>3. At(lad_ini).input = File(r, "yes")  BY <3>1, <3>2 DEF RunOwns, OwnDir, Here, At
    <3>4. count[r] \in 1 .. available[r]  BY <2>3, <3>1 DEF RunOwns, Capped
    <3> QED  BY <3>2, <3>3, <3>4
  <2>5. ASSUME NEW s \in Spectrometers, JobAt(r, s, "run")
        PROVE  /\ inp[s].dat = run_tag(r) /\ At(inp[s].dat).dat.sample = r
               /\ inp[s].ngen + count[r] = 0
    <3>1. RunOwns(r) /\ pc[r] = "wait"  BY <2>2, <2>5 DEF Jobs
    <3>2. inp[s] = [ngen |-> 0 - count[r], dat |-> run_tag(r)]  BY <3>1 DEF RunOwns
    <3>3. At(inp[s].dat).dat.sample = r  BY <3>1, <3>2 DEF RunOwns, Capped, Here, At
    <3> QED  BY <2>3, <3>2, <3>3
  <2> QED  BY <2>1, <2>4, <2>5
<1> QED  BY <1>1, <1>2, <1>3, PTL DEF Spec

------------------------------------------------------------------------------
(* What is merged, and what the exit status says of it.                      *)

HasOwn(r, s) ==
    LET key == [spec |-> s, tag |-> run_tag(r)]
    IN  key \in DOMAIN merged /\ merged[key].simc.sample = r

MergedOwn ==
    \A k \in DOMAIN merged : \E r \in Runs :
        /\ k.tag = run_tag(r)
        /\ merged[k].simc.sample = r /\ merged[k].g4.sample = r
        /\ pc[r] \in {"merge_shms", "done", "failed"}
        /\ k.spec = "shms" => pc[r] = "done"

MergedThere ==
    \A r \in Runs :
        /\ pc[r] \in {"merge_shms", "done"} => HasOwn(r, "hms")
        /\ pc[r] = "done" => HasOwn(r, "shms") /\ At(run_tag(r)).input = File(r, "yes")

MergedInv == MergedOwn /\ MergedThere

(* The steps that merge nothing and end nothing well.                        *)
LEMMA MergedKept ==
    ASSUME MergedInv, merged' = merged,
           \A r \in Runs : pc[r] \in {"merge_shms", "done", "failed"} =>
               /\ pc'[r] = pc[r] \/ (pc[r] = "merge_shms" /\ pc'[r] = "failed")
               /\ run_tag(r)' = run_tag(r),
           \A r \in Runs : pc'[r] \in {"merge_shms", "done"} => pc[r] = pc'[r],
           \A r \in Runs : pc[r] = "done" => At(run_tag(r))' = At(run_tag(r))
    PROVE  MergedInv'
<1>1. MergedOwn'
  <2>1. ASSUME NEW k \in DOMAIN merged'
        PROVE  \E r \in Runs : /\ k.tag = run_tag(r)'
                               /\ merged'[k].simc.sample = r /\ merged'[k].g4.sample = r
                               /\ pc'[r] \in {"merge_shms", "done", "failed"}
                               /\ k.spec = "shms" => pc'[r] = "done"
    <3>1. PICK r \in Runs : /\ k.tag = run_tag(r)
                            /\ merged[k].simc.sample = r /\ merged[k].g4.sample = r
                            /\ pc[r] \in {"merge_shms", "done", "failed"}
                            /\ k.spec = "shms" => pc[r] = "done"
          BY <2>1 DEF MergedInv, MergedOwn
    <3> QED  BY <3>1
  <2> QED  BY <2>1 DEF MergedOwn
<1>2. MergedThere'
  <2>1. ASSUME NEW r \in Runs, pc'[r] \in {"merge_shms", "done"}
        PROVE  HasOwn(r, "hms")' /\ (pc'[r] = "done" => HasOwn(r, "shms")')
    <3>1. pc[r] = pc'[r] /\ run_tag(r)' = run_tag(r)  BY <2>1
    <3> QED  BY <2>1, <3>1 DEF MergedInv, MergedThere, HasOwn
  <2>2. ASSUME NEW r \in Runs, pc'[r] = "done"
        PROVE  At(run_tag(r))'.input = File(r, "yes")
    <3>1. pc[r] = "done"  BY <2>2
    <3> QED  BY <3>1 DEF MergedInv, MergedThere
  <2> QED  BY <2>1, <2>2 DEF MergedThere
<1> QED  BY <1>1, <1>2 DEF MergedInv

(* One of the two merges.                                                    *)
LEMMA MergeMerged ==
    ASSUME TypeOK, RunInv, OwnInv, MergedInv, NEW q \in Runs,
           MergeHms(q) \/ MergeShms(q)
    PROVE  MergedInv'
<1> USE DEF settings, configs, scratch
<1>1. PICK s \in Spectrometers, here \in Places, next \in Places :
          /\ Merge(q, s, here, next)
          /\ \/ s = "hms" /\ here = "merge_hms" /\ next = "merge_shms"
             \/ s = "shms" /\ here = "merge_shms" /\ next = "done"
      BY DEF MergeHms, MergeShms, Spectrometers, Places
<1>2. pc[q] = here /\ Active(q) /\ RunOwns(q)
  <2>1. pc[q] = here  BY <1>1 DEF Merge, At_
  <2>2. Active(q)  BY <1>1, <2>1 DEF Active, Ended
  <2> QED  BY <2>1, <2>2 DEF OwnInv
<1>3. second' = second /\ count' = count /\ dirs' = dirs  BY <1>1 DEF Merge
<1>4. \A r : run_tag(r)' = run_tag(r) /\ At(run_tag(r))' = At(run_tag(r))
      BY <1>3 DEF run_tag, At
<1>5. \A r \in Runs \ {q} : pc'[r] = pc[r]
      BY <1>1 DEF Merge, MergeFailed, Goto, TypeOK
<1> DEFINE dir == dirs[run_tag(q)]
           key == [spec |-> s, tag |-> run_tag(q)]
           pair == [simc |-> dir[s], g4 |-> dir.g4]
<1>6. run_tag(q) \in DOMAIN dirs /\ At(run_tag(q)) = dir /\ OwnDir(q)
      BY <1>1, <1>2 DEF RunOwns, Here, At
<1>7. CASE pc'[q] = "failed" /\ merged' = merged
  <2>1. \A r \in Runs : pc[r] \in {"merge_shms", "done", "failed"} =>
            pc'[r] = pc[r] \/ (pc[r] = "merge_shms" /\ pc'[r] = "failed")
        BY <1>1, <1>2, <1>5, <1>7
  <2>2. \A r \in Runs : pc'[r] \in {"merge_shms", "done"} => pc[r] = pc'[r]
        BY <1>5, <1>7
  <2> QED  BY <1>4, <1>7, <2>1, <2>2, MergedKept
<1>8. CASE /\ Exists(dir[s]) /\ dir.g4.whole = "yes"
           /\ merged' = With(merged, key, pair) /\ pc'[q] = next
  <2>1. dir[s].sample = q /\ dir.g4.sample = q
    <3>1. Own(dir[s], q) /\ Own(dir.g4, q)  BY <1>1, <1>6 DEF OwnDir, Spectrometers
    <3>2. dir.g4 # NoFile  BY <1>8 DEF NoFile, File
    <3> QED  BY <1>8, <3>1, <3>2 DEF Own, Exists
  <2>2. /\ DOMAIN merged' = DOMAIN merged \cup {key}
        /\ merged'[key] = pair
        /\ \A k \in DOMAIN merged \ {key} : merged'[k] = merged[k]
        BY <1>8 DEF With
  <2>3. MergedOwn'
    <3>1. ASSUME NEW k \in DOMAIN merged'
          PROVE  \E r \in Runs : /\ k.tag = run_tag(r)'
                                 /\ merged'[k].simc.sample = r /\ merged'[k].g4.sample = r
                                 /\ pc'[r] \in {"merge_shms", "done", "failed"}
                                 /\ k.spec = "shms" => pc'[r] = "done"
      <4>1. CASE k = key
            BY <1>1, <1>4, <1>8, <2>1, <2>2, <4>1
      <4>2. CASE k # key
        <5>1. k \in DOMAIN merged /\ merged'[k] = merged[k]  BY <2>2, <4>2
        <5>2. PICK r \in Runs : /\ k.tag = run_tag(r)
                                /\ merged[k].simc.sample = r /\ merged[k].g4.sample = r
                                /\ pc[r] \in {"merge_shms", "done", "failed"}
                                /\ k.spec = "shms" => pc[r] = "done"
              BY <5>1 DEF MergedInv, MergedOwn
        <5>3. CASE r = q
          <6>1. here = "merge_shms" /\ next = "done"  BY <1>1, <1>2, <5>2, <5>3
          <6> QED  BY <1>4, <1>8, <5>1, <5>2, <5>3, <6>1
        <5>4. CASE r # q  BY <1>4, <1>5, <5>1, <5>2, <5>4
        <5> QED  BY <5>3, <5>4
      <4> QED  BY <4>1, <4>2
    <3> QED  BY <3>1 DEF MergedOwn
  <2>4. ASSUME NEW r \in Runs \ {q}, NEW x, HasOwn(r, x), Ended(r),
               At(run_tag(r)).input = File(r, "yes")
        PROVE  HasOwn(r, x)'
    <3>1. run_tag(r) # run_tag(q)
      <4>1. run_tag(r) \in DOMAIN dirs
            BY <2>4, WorkflowAssumption DEF At, EmptyDir, NoFile, File, NoSample
      <4>2. dirs[run_tag(r)].input = File(r, "yes")  BY <2>4, <4>1 DEF At
      <4>3. dir.input = File(q, "yes")  BY <1>6 DEF OwnDir
      <4> QED  BY <4>2, <4>3 DEF File
    <3>2. [spec |-> x, tag |-> run_tag(r)] # key  BY <3>1
    <3> QED  BY <1>4, <2>2, <2>4, <3>2 DEF HasOwn
  <2>5. ASSUME NEW r \in Runs \ {q} PROVE pc[r] # "merge_shms"
        BY <1>2 DEF RunInv, OneAtATime, Active, Ended
  <2>6. HasOwn(q, s)'  BY <1>4, <2>1, <2>2 DEF HasOwn
  <2>7. s = "shms" => HasOwn(q, "hms")'
    <3>1. ASSUME s = "shms" PROVE HasOwn(q, "hms")'
      <4>1. HasOwn(q, "hms")  BY <1>1, <1>2, <3>1 DEF MergedInv, MergedThere
      <4>2. [spec |-> "hms", tag |-> run_tag(q)] # key  BY <3>1
      <4> QED  BY <1>4, <2>2, <4>1, <4>2 DEF HasOwn
    <3> QED  BY <3>1
  <2>8. MergedThere'
    <3>1. ASSUME NEW r \in Runs \ {q}, pc'[r] \in {"merge_shms", "done"}
          PROVE  /\ pc'[r] = "done" /\ HasOwn(r, "hms")' /\ HasOwn(r, "shms")'
                 /\ At(run_tag(r))'.input = File(r, "yes")
      <4>1. pc[r] = "done" /\ pc'[r] = pc[r]  BY <1>5, <2>5, <3>1
      <4>2. HasOwn(r, "hms") /\ HasOwn(r, "shms") /\ At(run_tag(r)).input = File(r, "yes")
            BY <4>1 DEF MergedInv, MergedThere
      <4>3. Ended(r)  BY <4>1 DEF Ended
      <4> QED  BY <1>4, <2>4, <4>1, <4>2, <4>3
    <3>2. pc'[q] \in {"merge_shms", "done"} => HasOwn(q, "hms")'
          BY <1>1, <2>6, <2>7
    <3>3. pc'[q] = "done" => HasOwn(q, "shms")' /\ At(run_tag(q))'.input = File(q, "yes")
          BY <1>1, <1>4, <1>6, <1>8, <2>6 DEF OwnDir
    <3> QED  BY <3>1, <3>2, <3>3 DEF MergedThere
  <2> QED  BY <2>3, <2>8 DEF MergedInv
<1>9. \/ pc'[q] = "failed" /\ merged' = merged
      \/ /\ Exists(dir[s]) /\ dir.g4.whole = "yes"
         /\ merged' = With(merged, key, pair) /\ pc'[q] = next
      BY <1>1, <1>6 DEF Merge, MergeFailed, Goto, TypeOK
<1> QED  BY <1>7, <1>8, <1>9

LEMMA NextMerged ==
    ASSUME TypeOK, RunInv, OwnInv, MergedInv, [Next]_vars PROVE MergedInv'
<1> USE DEF settings, configs, scratch, driver
<1>0. ASSUME NEW r \in Runs, pc[r] = "done" PROVE At(run_tag(r))' = At(run_tag(r))
  <2>1. Ended(r) /\ At(run_tag(r)).input = File(r, "yes")
        BY <1>0 DEF MergedInv, MergedThere, Ended
  <2> QED  BY <2>1, EndedStays
<1>1. ASSUME NEW q \in Runs, Start(q) PROVE MergedInv'
  <2>1. pc[q] = "idle" /\ pc'[q] \in {"failed", "copy"} /\ merged' = merged
        BY <1>1 DEF Start, At_, Goto, TypeOK
  <2>2. \A r \in Runs \ {q} : pc'[r] = pc[r] /\ run_tag(r)' = run_tag(r)
        BY <1>1 DEF Start, Goto, TypeOK, run_tag
  <2> QED  BY <1>0, <2>1, <2>2, MergedKept
<1>2. ASSUME NEW q \in Runs, Driver(q) \/ Job(q), ~(MergeHms(q) \/ MergeShms(q))
      PROVE  MergedInv'
  <2>1. merged' = merged
        BY <1>2 DEF Driver, CopyInput, ClearDat, Convert, CollectDat, Cap, ConfigureG4,
                    ConfigureSimc, Launch, Wait, Select, Job, G4Run, G4Move, RunSimcTree,
                    SimcMove
  <2>2. \A r \in Runs \ {q} : pc'[r] = pc[r] /\ run_tag(r)' = run_tag(r)
        BY <1>2, OthersStay DEF run_tag
  <2>3. pc[q] \notin {"merge_shms", "done", "failed"}
    <3>1. CASE Driver(q)
          BY <1>2, <3>1 DEF Driver, CopyInput, ClearDat, Convert, CollectDat, Cap,
                            ConfigureG4, ConfigureSimc, Launch, Wait, Select, At_
    <3>2. CASE Job(q)
          BY <3>2 DEF Job, G4Run, G4Move, RunSimcTree, SimcMove, JobAt, Jobs, RunInv,
                      JobsAreAwaited
    <3> QED  BY <1>2, <3>1, <3>2
  <2>4. pc'[q] \notin {"merge_shms", "done"}
    <3>1. CASE Driver(q)
          BY <1>2, <3>1 DEF Driver, CopyInput, ClearDat, Convert, CollectDat, Cap,
                            ConfigureG4, ConfigureSimc, Launch, Wait, Select, Goto, TypeOK
    <3>2. CASE Job(q)
      <4>1. pc' = pc  BY <3>2 DEF Job, G4Run, G4Move, RunSimcTree, SimcMove
      <4> QED  BY <2>3, <4>1
    <3> QED  BY <1>2, <3>1, <3>2
  <2> QED  BY <1>0, <2>1, <2>2, <2>3, <2>4, MergedKept
<1>3. CASE UNCHANGED vars
  <2>1. merged' = merged /\ pc' = pc /\ \A r \in Runs : run_tag(r)' = run_tag(r)
        BY <1>3 DEF vars, run_tag
  <2> QED  BY <1>0, <2>1, MergedKept
<1> QED  BY <1>1, <1>2, <1>3, MergeMerged DEF Next, Terminated

(* All of the above is inductive.                                            *)
WorkInv == TypeOK /\ RunInv /\ OwnInv /\ ScratchInv /\ MergedInv

LEMMA WorkInvHolds ==
    ASSUME CleanScratch PROVE Spec => []WorkInv
<1>1. Init => WorkInv
  <2> SUFFICES ASSUME Init PROVE WorkInv  OBVIOUS
  <2>1. MergedInv  BY DEF Init, MergedInv, MergedOwn, MergedThere
  <2> QED  BY <2>1, InitType, InitRunInv, InitOwn DEF WorkInv
<1>2. WorkInv /\ [Next]_vars => WorkInv'
      BY NextType, NextRunInv, NextOwn, NextMerged DEF WorkInv
<1> QED  BY <1>1, <1>2, PTL DEF Spec

(* What is merged for a run was simulated from the sample of that run, by    *)
(* SimC and by Geant4 alike, however the programs of it or of other runs     *)
(* fared, if no file of an earlier time lay in the scratch directories.      *)
THEOREM MergedIsOwn ==
    ASSUME CleanScratch PROVE Spec => []MergedFromOwnRun
<1>1. WorkInv => MergedFromOwnRun
      BY DEF WorkInv, MergedInv, MergedOwn, MergedFromOwnRun
<1> QED  BY <1>1, WorkInvHolds, PTL

(* A run ends well if and only if it has merged SHMS, and then it has merged *)
(* HMS too.                                                                  *)
THEOREM ExitStatusIsHonest ==
    ASSUME CleanScratch PROVE Spec => []ExitStatusTells
<1>1. WorkInv => ExitStatusTells
  <2> SUFFICES ASSUME WorkInv, NEW r \in Runs
               PROVE  /\ HasOwn(r, "shms") => HasOwn(r, "hms") /\ pc[r] = "done"
                      /\ pc[r] = "done" => HasOwn(r, "shms")
      BY DEF ExitStatusTells, HasOwn
  <2>1. pc[r] = "done" => HasOwn(r, "shms") /\ HasOwn(r, "hms")
        BY DEF WorkInv, MergedInv, MergedThere
  <2>2. HasOwn(r, "shms") => pc[r] = "done"
        BY DEF WorkInv, MergedInv, MergedOwn, HasOwn
  <2> QED  BY <2>1, <2>2
<1> QED  BY <1>1, WorkInvHolds, PTL
==============================================================================
