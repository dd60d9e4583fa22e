---------------------------- MODULE PipelineProofs ----------------------------
(***************************************************************************)
(* Proofs about Pipeline, for samples of any size with skipped events      *)
(* anywhere: what is merged is one event, what stops a merge, and that no  *)
(* accepted event is lost.  The invariant puts those of the four programs  *)
(* together; a program keeps its own over the inputs the one before left.  *)
(* At the end, converter and selection on the inputs MCPipeline gives them *)
(* when they run alone.                                                    *)
(***************************************************************************)
EXTENDS MCPipeline, FiniteSetTheorems, TLAPS

(* The spectrometers are left out of Pipeline: an accepted event is one the  *)
(* event loop accepts, and where Montecarlo is in it does not matter here.   *)
SimcP == INSTANCE SimcProofs WITH
            MaxLines <- MaxEntries + 1, MaxGen <- MaxEntries, pc <- s_pc,
            spect_mode <- "0", electron_arm <- "SHMS", stage <- "main", side <- "p",
            success <- FALSE, plane <- 0, STOP <- <<>>, recon <- <<>>, ytar <- <<>>,
            FP <- <<>>, columns <- <<>>

TreeP == INSTANCE MakeRootTreeProofs WITH
            NtupleSize <- 2, nev <- MaxEntries, MaxRows <- MaxEntries,
            MaxId <- MaxEntries - 1, pc <- t_pc, j <- t_j, i <- t_i,
            header <- "whole",
            events <- [k \in DOMAIN ntuple |-> EvtID(ntuple[k].event_id)],
            n_records <- 2 * Len(ntuple)

SelectP == INSTANCE SelectAcceptedProofs WITH
            Specs <- <<spectrometer>>, Ids <- 0 .. 2 * MaxEntries,
            MaxLines <- MaxEntries + 1, MaxRows <- MaxEntries,
            k <- x_k, pc <- x_pc, i <- x_i, output <- x_output,
            dat <- [n \in DOMAIN dat |->
                       IF dat[n] = Simc!Blank THEN [kind |-> "comment", id |-> -1]
                       ELSE [kind |-> "event", id |-> EvtID(n)]],
            h10 <- [s \in {spectrometer} |-> h10],
            dat_access <- "readable",
            tree_access <- [s \in {spectrometer} |-> "full"],
            writable <- [s \in {spectrometer} |-> "yes"]

MergeP == INSTANCE MergeSimcG4Proofs WITH
            Ids <- 0 .. MaxEntries, MaxRows <- MaxEntries, pc <- m_pc, i <- m_i,
            files <- "readable",
            hodoenergy <- [k \in 1 .. N |-> k - 1],
            n_pos <- N, n_gem <- N

------------------------------------------------------------------------------
(* The assumptions of the components hold for a sample of any size.          *)
LEMMA SimcAssumptions == SimcP!SimcAssumption
  BY PipelineAssumption DEF SimcP!SimcAssumption

LEMMA TreeAssumptions == TreeP!TreeAssumption
  BY PipelineAssumption DEF TreeP!TreeAssumption

LEMMA SelectAssumptions == SelectP!SelectAssumption
  BY PipelineAssumption DEF SelectP!SelectAssumption, SelectP!Spectrometers, spectrometer

LEMMA MergeAssumptions == MergeP!MergeAssumption
  BY PipelineAssumption DEF MergeP!MergeAssumption

(* Sizes are the same in each of the modules.                                *)
LEMMA SameCardinality ==
    \A S : /\ SimcP!Cardinality(S) = Cardinality(S)
           /\ SelectP!Cardinality(S) = Cardinality(S)
           /\ SelectP!IsFiniteSet(S) <=> IsFiniteSet(S)
  BY DEF SimcP!Cardinality, SelectP!Cardinality, Cardinality,
         SelectP!IsFiniteSet, IsFiniteSet

(* Pipeline and the modules with the proofs speak of the same components.    *)
LEMMA SameSimc ==
    /\ Simc!Init => SimcP!Init
    /\ Simc!Next => SimcP!Next
    /\ Simc!Quota = SimcP!Quota
  BY DEF Simc!Init, SimcP!Init, Simc!Next, SimcP!Next,
         Simc!LineKind, SimcP!LineKind, Simc!Quota, SimcP!Quota,
         Simc!BeginAttempt, SimcP!BeginAttempt, Simc!ReadLine, SimcP!ReadLine,
         Simc!EndOfFile, SimcP!EndOfFile, Simc!Simulate, SimcP!Simulate,
         Simc!Finish, SimcP!Finish, Simc!Terminated, SimcP!Terminated,
         Simc!inputs, SimcP!inputs, Simc!counters, SimcP!counters,
         Simc!vars, SimcP!vars, Simc!BelowQuota, SimcP!BelowQuota,
         Simc!LineAfter, SimcP!LineAfter, Simc!IdAfter, SimcP!IdAfter,
         Simc!Returns, SimcP!Returns, Simc!NtuWrite, SimcP!NtuWrite,
         Simc!PassCuts, SimcP!PassCuts,
         Simc!Blank, SimcP!Blank, Simc!Bad, SimcP!Bad, Simc!ZeroE, SimcP!ZeroE,
         Simc!ZeroP, SimcP!ZeroP, Simc!Event, SimcP!Event

LEMMA SameTree ==
    /\ Tree!Init => TreeP!Init
    /\ Tree!Next => TreeP!Next
  BY DEF Tree!Init, TreeP!Init, Tree!Next, TreeP!Next, Tree!Header, TreeP!Header,
         Tree!ReadRecord, TreeP!ReadRecord, Tree!FillNTBranch, TreeP!FillNTBranch,
         Tree!RootNTOutp, TreeP!RootNTOutp, Tree!Terminated, TreeP!Terminated,
         Tree!stream, TreeP!stream, Tree!vars, TreeP!vars, Tree!Single, TreeP!Single,
         Tree!Position, TreeP!Position, Tree!Record, TreeP!Record, Tree!AtEnd, TreeP!AtEnd,
         Tree!OpensTree, TreeP!OpensTree, Tree!RowsAtEnd, TreeP!RowsAtEnd

LEMMA SameSelect ==
    /\ Select!Start => SelectP!Start
    /\ Select!Next => SelectP!Next
    /\ Select!Over <=> SelectP!Over
  BY DEF Select!Start, SelectP!Start, Select!Next, SelectP!Next, Select!Over, SelectP!Over,
         Select!ReadAcceptedIDs, SelectP!ReadAcceptedIDs, Select!OpenFiles, SelectP!OpenFiles,
         Select!FillRootKinematicsHistograms, SelectP!FillRootKinematicsHistograms,
         Select!ReadLine, SelectP!ReadLine, Select!EndOfDat, SelectP!EndOfDat,
         Select!Terminated, SelectP!Terminated, Select!vars, SelectP!vars,
         Select!inputs, SelectP!inputs, Select!spec, SelectP!spec, Select!Return, SelectP!Return,
         Select!IdsOf, SelectP!IdsOf, Select!NoId, SelectP!NoId, Select!NoPlots, SelectP!NoPlots,
         Select!IsCopied, SelectP!IsCopied, Select!IsSelected, SelectP!IsSelected,
         Select!Filled, SelectP!Filled, Select!Spectrometers, SelectP!Spectrometers

LEMMA SameMerge ==
    /\ Merge!Init => MergeP!Init
    /\ Merge!Next => MergeP!Next
  BY DEF Merge!Init, MergeP!Init, Merge!Next, MergeP!Next, Merge!Open, MergeP!Open,
         Merge!Index, MergeP!Index, Merge!CreateOutput, MergeP!CreateOutput,
         Merge!JoinRow, MergeP!JoinRow, Merge!Write, MergeP!Write,
         Merge!Terminated, MergeP!Terminated, Merge!vars, MergeP!vars,
         Merge!inputs, MergeP!inputs, Merge!outputs, MergeP!outputs,
         Merge!SeqUpTo, MergeP!SeqUpTo, Merge!Die, MergeP!Die,
         Merge!SameEntryCounts, MergeP!SameEntryCounts, Merge!Duplicate, MergeP!Duplicate,
         Merge!IndexWith, MergeP!IndexWith, Merge!Indexed, MergeP!Indexed,
         Merge!EntryOf, MergeP!EntryOf, Merge!HasEntry, MergeP!HasEntry,
         Merge!Unmatched, MergeP!Unmatched

------------------------------------------------------------------------------
(* The sample never changes: a header line, then up to MaxEntries entries of *)
(* which the first N are simulated by Geant4.                                *)
SampleOK ==
    /\ dat \in Seq({Simc!Blank, Simc!ZeroE, Simc!ZeroP, Simc!Event})
    /\ Len(dat) \in 2 .. MaxEntries + 1
    /\ \A k \in 1 .. Len(dat) : dat[k] = Simc!Blank <=> k = 1
    /\ ngen < 0
    /\ N \in 1 .. Len(dat) - 1

(* A program that has not begun.                                             *)
TreeStart ==
    /\ t_pc = "header" /\ t_j = 1 /\ t_i = 1
    /\ ntup_out = [f \in 1 .. 2 |-> 0] /\ tree = <<>>
    /\ root \in {"absent", "old"}

MergeStart ==
    /\ m_pc = "open" /\ m_i = 1
    /\ g4_entry_by_event_id = [id \in {} |-> 0]
    /\ out \in {"absent", "old"}
    /\ simc_out = <<>> /\ pos_out = <<>> /\ ene_out = <<>> /\ gem_out = <<>>

(* A program starts when the one before it is over, and its own invariant    *)
(* holds from then on, over inputs that no longer change.                    *)
IInv ==
    /\ SampleOK
    /\ SimcP!IInv
    /\ TreeStart \/ (SimcOver /\ TreeP!IInv)
    /\ SelectP!Start \/ (t_pc = "done" /\ SelectP!IInv)
    /\ MergeStart \/ /\ t_pc = "done" /\ SelectP!Over
                     /\ MergeP!IInv /\ MergeP!OutputStage /\ MergeP!DiesForAReason

(* What the invariant of SimC says of the rows of its n-tuple.               *)
LEMMA RowsOfSimc ==
    ASSUME SampleOK, SimcP!IInv
    PROVE  /\ ntuple \in Seq(SimcP!Row) /\ Len(ntuple) \in Nat
           /\ Len(ntuple) = ncontribute /\ Len(ntuple) <= ngeni /\ ngeni <= N
           /\ ngeni \in Nat /\ lineno \in 0 .. Len(dat)
           /\ \A n \in 1 .. Len(ntuple) :
                  /\ ntuple[n].event_id \in 2 .. lineno
                  /\ dat[ntuple[n].event_id] = Simc!Event
                  /\ ntuple[n].e = ntuple[n].event_id /\ ntuple[n].p = ntuple[n].event_id
           /\ \A m, n \in 1 .. Len(ntuple) :
                  m < n => ntuple[m].event_id < ntuple[n].event_id
<1>1. SimcP!TypeOK /\ SimcP!RowsAreCoherent /\ SimcP!RowsInFileOrder
      /\ SimcP!CountersMatchNtuple /\ SimcP!LoopInvariant
  BY DEF SimcP!IInv
<1>2. ntuple \in Seq(SimcP!Row) /\ ngeni \in Nat /\ lineno \in 0 .. Len(dat)
  BY <1>1 DEF SimcP!TypeOK
<1>3. Len(ntuple) \in Nat
  BY <1>2
<1>4. Len(ntuple) = ncontribute /\ Len(ntuple) <= ngeni
  BY <1>1 DEF SimcP!CountersMatchNtuple
<1>5. ngeni <= N
  <2>1. nevent <= SimcP!Quota /\ nevent = ngeni
    <3>1. ngen < 0 /\ ngen \in Int
      BY <1>1 DEF SampleOK, SimcP!TypeOK
    <3> QED
      BY <1>1, <3>1 DEF SimcP!LoopInvariant
  <2> QED
    BY <2>1, SameSimc DEF N
<1>6. ASSUME NEW n \in 1 .. Len(ntuple)
      PROVE  /\ ntuple[n].event_id \in 2 .. lineno
             /\ dat[ntuple[n].event_id] = Simc!Event
             /\ ntuple[n].e = ntuple[n].event_id /\ ntuple[n].p = ntuple[n].event_id
  <2>1. /\ ntuple[n].event_id \in 1 .. lineno /\ dat[ntuple[n].event_id] = "event"
        /\ ntuple[n].e = ntuple[n].event_id /\ ntuple[n].p = ntuple[n].event_id
    BY <1>1 DEF SimcP!RowsAreCoherent, SimcP!Event
  <2>2. Len(dat) \in Nat /\ dat[1] = "blank"
    BY PipelineAssumption DEF SampleOK, Simc!Blank
  <2> QED
    BY <1>2, <2>1, <2>2 DEF Simc!Event
<1>7. \A m, n \in 1 .. Len(ntuple) :
          m < n => ntuple[m].event_id < ntuple[n].event_id
  BY <1>1 DEF SimcP!RowsInFileOrder
<1> QED
  BY <1>2, <1>3, <1>4, <1>5, <1>6, <1>7

(* The converter may start on what SimC wrote.                               *)
LEMMA TreeReady ==
    ASSUME SampleOK, SimcP!IInv, TreeStart PROVE TreeP!Init
<1> DEFINE ids == [k \in DOMAIN ntuple |-> EvtID(ntuple[k].event_id)]
           L == Len(ntuple)
<1>1. L \in 0 .. MaxEntries /\ DOMAIN ntuple = 1 .. L
  BY RowsOfSimc, PipelineAssumption DEF SampleOK
<1>2. ids \in [1 .. L -> 0 .. MaxEntries - 1]
  <2>1. Len(dat) <= MaxEntries + 1 /\ Len(dat) \in Nat
    BY PipelineAssumption DEF SampleOK
  <2>2. \A n \in 1 .. L : EvtID(ntuple[n].event_id) \in 0 .. MaxEntries - 1
    BY <2>1, RowsOfSimc, PipelineAssumption DEF EvtID
  <2> QED
    BY <1>1, <2>2
<1>3. Len(ids) = L
  BY <1>1, <1>2
<1>4. ids \in UNION {[1 .. n -> 0 .. MaxEntries - 1] : n \in 0 .. MaxEntries}
  BY <1>1, <1>2
<1>5. 2 * L \in 0 .. MaxEntries * 2 /\ 2 * L <= Len(ids) * 2
      /\ (Len(ids) > 0 => 2 * L > (Len(ids) - 1) * 2)
  BY <1>1, <1>3, PipelineAssumption
<1> QED
  BY <1>4, <1>5 DEF TreeP!Init, TreeStart

(* The tree has the rows of the n-tuple, and their ids are exact in it.      *)
LEMMA Converted ==
    ASSUME SampleOK, SimcP!IInv, TreeP!IInv, t_pc = "done"
    PROVE  /\ Len(tree) = Len(ntuple) /\ DOMAIN tree = 1 .. Len(ntuple)
           /\ DOMAIN h10 = 1 .. Len(ntuple) /\ Len(h10) = Len(ntuple)
           /\ \A n \in 1 .. Len(ntuple) : h10[n] = EvtID(ntuple[n].event_id)
           /\ h10 \in [1 .. Len(ntuple) -> 0 .. MaxEntries - 1]
<1> DEFINE L == Len(ntuple)
           ids == [k \in DOMAIN ntuple |-> EvtID(ntuple[k].event_id)]
<1>1. L \in 0 .. MaxEntries /\ DOMAIN ntuple = 1 .. L
  BY RowsOfSimc, PipelineAssumption DEF SampleOK
<1>2. \A n \in 1 .. L : EvtID(ntuple[n].event_id) \in 0 .. MaxEntries - 1
  <2>1. Len(dat) <= MaxEntries + 1 /\ Len(dat) \in Nat
    BY PipelineAssumption DEF SampleOK
  <2> QED
    BY <2>1, RowsOfSimc, PipelineAssumption DEF EvtID
<1>3. TreeP!RowsAreWhole /\ root = "written" /\ TreeP!TypeOK
  <2>1. TreeP!RowsAreWhole
    BY TreeAssumptions, TreeP!InvariantIsWhole
  <2> QED
    BY <2>1 DEF TreeP!IInv
<1>4. Len(tree) = L
  <2>1. (2 * L) \div 2 = L
    <3> HIDE DEF L
    <3> QED
      BY <1>1
  <2>2. Len(tree) = IF (2 * L) \div 2 <= MaxEntries THEN (2 * L) \div 2 ELSE MaxEntries
    BY <1>3 DEF TreeP!RowsAreWhole
  <2> HIDE DEF L
  <2> QED
    BY <1>1, <2>1, <2>2
<1>5. tree \in Seq([1 .. 2 -> Nat])
  BY <1>3 DEF TreeP!TypeOK
<1>6. DOMAIN tree = 1 .. L
  BY <1>4, <1>5
<1>7. ASSUME NEW n \in 1 .. L PROVE h10[n] = EvtID(ntuple[n].event_id)
  <2>1. tree[n] = [f \in 1 .. 2 |-> TreeP!Single(ids[n])]
    BY <1>3, <1>4 DEF TreeP!RowsAreWhole
  <2>2. ids[n] = EvtID(ntuple[n].event_id) /\ ids[n] \in 0 .. MaxEntries - 1
    BY <1>1, <1>2
  <2>3. TreeP!Single(ids[n]) = ids[n]
    <3> HIDE DEF ids
    <3>1. ids[n] <= MaxExact
      BY <2>2, PipelineAssumption
    <3> QED
      BY <3>1 DEF TreeP!Single
  <2>4. tree[n][2] = ids[n]
    BY <2>1, <2>3
  <2> QED
    BY <1>6, <2>2, <2>4 DEF h10, h10_event_id
<1>8. DOMAIN h10 = 1 .. L
  BY <1>6 DEF h10
<1>9. h10 = [n \in 1 .. L |-> EvtID(ntuple[n].event_id)]
  BY <1>6, <1>7 DEF h10
<1>10. h10 \in [1 .. L -> 0 .. MaxEntries - 1]
  BY <1>2, <1>9
<1>11. Len(h10) = L
  BY <1>1, <1>10
<1> QED
  BY <1>4, <1>6, <1>7, <1>8, <1>10, <1>11

(* The selection may start on the dat file and the tree ...                  *)
LEMMA SelectReady ==
    ASSUME SampleOK, SimcP!IInv, TreeP!IInv, t_pc = "done", SelectP!Start
    PROVE  SelectP!Init
<1> DEFINE x_lines == [n \in DOMAIN dat |->
                          IF dat[n] = Simc!Blank THEN [kind |-> "comment", id |-> -1]
                          ELSE [kind |-> "event", id |-> EvtID(n)]]
<1>1. Len(dat) \in 0 .. MaxEntries + 1 /\ DOMAIN dat = 1 .. Len(dat)
  BY PipelineAssumption DEF SampleOK
<1>2. x_lines \in [1 .. Len(dat) -> SelectP!Lines]
  <2>1. ASSUME NEW n \in 1 .. Len(dat) PROVE x_lines[n] \in SelectP!Lines
    <3>1. CASE dat[n] = Simc!Blank
      BY <1>1, <3>1 DEF SelectP!Lines, SelectP!Line, SelectP!NoId
    <3>2. CASE dat[n] # Simc!Blank
      <4>1. EvtID(n) \in 0 .. 2 * MaxEntries
        BY <1>1, <3>2, PipelineAssumption DEF SampleOK, EvtID
      <4> QED
        BY <1>1, <3>2, <4>1 DEF SelectP!Lines, SelectP!Line
    <3> QED
      BY <3>1, <3>2
  <2> QED
    BY <1>1, <2>1
<1>3. h10 \in UNION {[1 .. n -> 0 .. 2 * MaxEntries] : n \in 0 .. MaxEntries}
  <2>1. Len(ntuple) \in 0 .. MaxEntries
    BY RowsOfSimc, PipelineAssumption DEF SampleOK
  <2>2. h10 \in [1 .. Len(ntuple) -> 0 .. 2 * MaxEntries]
    BY Converted, PipelineAssumption
  <2> QED
    BY <2>1, <2>2
<1>4. SelectP!Spectrometers = {spectrometer}
  BY DEF SelectP!Spectrometers
<1>5. x_lines \in UNION {[1 .. n -> SelectP!Lines] : n \in 0 .. MaxEntries + 1}
  BY <1>1, <1>2
<1>6. SelectP!Inputs
  BY <1>3, <1>4, <1>5 DEF SelectP!Inputs
<1> QED
  BY <1>6 DEF SelectP!Init

(* ... and the merge on the tree and the entries of Geant4.                  *)
LEMMA MergeReady ==
    ASSUME SampleOK, SimcP!IInv, TreeP!IInv, t_pc = "done", MergeStart
    PROVE  MergeP!Init
<1>1. Len(ntuple) \in 0 .. MaxEntries /\ N \in 1 .. MaxEntries
  BY RowsOfSimc, PipelineAssumption DEF SampleOK
<1>2. h10 \in [1 .. Len(ntuple) -> (0 .. MaxEntries) \cup {NotInteger}]
  BY Converted, PipelineAssumption
<1>3. [k \in 1 .. N |-> k - 1] \in [1 .. N -> 0 .. MaxEntries]
  BY <1>1, PipelineAssumption
<1>4. h10 \in MergeP!SeqUpTo((0 .. MaxEntries) \cup {NotInteger})
  BY <1>1, <1>2 DEF MergeP!SeqUpTo
<1>5. [k \in 1 .. N |-> k - 1] \in MergeP!SeqUpTo(0 .. MaxEntries)
  BY <1>1, <1>3, PipelineAssumption DEF MergeP!SeqUpTo
<1> QED
  BY <1>1, <1>4, <1>5, PipelineAssumption DEF MergeP!Init, MergeStart

------------------------------------------------------------------------------
LEMMA InitIInv == Init => IInv
<1> SUFFICES ASSUME Init PROVE IInv
  OBVIOUS
<1>1. SampleOK
  <2> DEFINE kinds == {Simc!Blank, Simc!ZeroE, Simc!ZeroP, Simc!Event}
  <2>1. PICK sample \in Samples : /\ dat = Root2dat(sample)
                                  /\ \E n \in 1 .. Len(sample) : ngen = 0 - n
    BY DEF Init
  <2>2. PICK n \in 1 .. MaxEntries :
            sample \in [1 .. n -> {Simc!ZeroE, Simc!ZeroP, Simc!Event}]
    BY <2>1 DEF Samples
  <2>3. Len(sample) = n /\ n \in Nat /\ sample \in Seq(kinds)
    BY <2>2, PipelineAssumption
  <2>4. <<Simc!Blank>> \in Seq(kinds) /\ Len(<<Simc!Blank>>) = 1
    OBVIOUS
  <2>5. /\ dat \in Seq(kinds) /\ Len(dat) = n + 1
        /\ \A k \in 1 .. n + 1 : dat[k] = IF k = 1 THEN Simc!Blank ELSE sample[k - 1]
    BY <2>1, <2>3, <2>4 DEF Root2dat
  <2>6. \A k \in 1 .. n : sample[k] # Simc!Blank
    BY <2>2 DEF Simc!Blank, Simc!ZeroE, Simc!ZeroP, Simc!Event
  <2>7. ngen < 0 /\ N \in 1 .. n
    BY <2>1, <2>3 DEF N, Simc!Quota
  <2> QED
    BY <2>3, <2>5, <2>6, <2>7, PipelineAssumption DEF SampleOK
<1>2. SimcP!IInv
  BY SameSimc, SimcAssumptions, SimcP!InitIInv DEF Init
<1>3. TreeStart
  BY DEF Init, Tree!Init, TreeStart
<1>4. SelectP!Start
  BY SameSelect DEF Init
<1>5. MergeStart
  BY DEF Init, Merge!Init, MergeStart
<1> QED
  BY <1>1, <1>2, <1>3, <1>4, <1>5 DEF IInv

(* The sample is an input of SimC.                                           *)
LEMMA SampleKept ==
    ASSUME SampleOK, UNCHANGED <<dat, ngen>> PROVE SampleOK'
  BY DEF SampleOK, N, Simc!Quota

(* A program that does not move stays where it is.                           *)
LEMMA TreeStartKept == TreeStart /\ UNCHANGED t_vars => TreeStart'
  BY DEF TreeStart, t_vars

LEMMA SelectStartKept == SelectP!Start /\ UNCHANGED x_vars => SelectP!Start'
  BY DEF SelectP!Start, x_vars, SelectP!Spectrometers, SelectP!NoPlots

LEMMA MergeStartKept == MergeStart /\ UNCHANGED m_vars => MergeStart'
  BY DEF MergeStart, m_vars

(* Nor does one whose inputs do not change either.                           *)
LEMMA SimcKept == SimcP!IInv /\ UNCHANGED s_vars => SimcP!IInv'
<1>1. UNCHANGED s_vars => UNCHANGED SimcP!vars
  BY DEF s_vars, SimcP!vars
<1> QED
  BY <1>1, SimcAssumptions, SimcP!StepIInv

LEMMA TreeKept == TreeP!IInv /\ UNCHANGED <<s_vars, t_vars>> => TreeP!IInv'
<1>1. UNCHANGED <<s_vars, t_vars>> => UNCHANGED TreeP!vars
  BY DEF s_vars, t_vars, TreeP!vars
<1> QED
  BY <1>1, TreeAssumptions, TreeP!StepIInv

LEMMA SelectKept ==
    SelectP!IInv /\ UNCHANGED <<s_vars, t_vars, x_vars>> => SelectP!IInv'
<1>1. UNCHANGED <<s_vars, t_vars, x_vars>> => UNCHANGED SelectP!vars
  BY DEF s_vars, t_vars, x_vars, SelectP!vars, h10
<1> QED
  BY <1>1, SelectAssumptions, SelectP!StepIInv

LEMMA MergeStepIInv ==
    ASSUME MergeP!IInv, MergeP!OutputStage, MergeP!DiesForAReason,
           [MergeP!Next]_(MergeP!vars)
    PROVE  MergeP!IInv' /\ MergeP!OutputStage' /\ MergeP!DiesForAReason'
  BY MergeAssumptions, MergeP!StepIInv, MergeP!OutputStageStep, MergeP!DeathStep

LEMMA StepIInv == IInv /\ [Next]_vars => IInv'
<1> SUFFICES ASSUME IInv, [Next]_vars PROVE IInv'
  OBVIOUS
<1>1. SampleOK /\ SimcP!IInv
  BY DEF IInv
<1>2. CASE RunSimc
  <2>1. ~SimcOver /\ SimcP!Next /\ UNCHANGED <<t_vars, x_vars, m_vars>>
    BY <1>2, SameSimc DEF RunSimc
  <2>2. TreeStart
    BY <2>1 DEF IInv
  <2>3. SelectP!Start /\ MergeStart
    BY <2>2 DEF IInv, TreeStart
  <2>4. SimcP!IInv'
    BY <1>1, <2>1, SimcAssumptions, SimcP!StepIInv
  <2>5. UNCHANGED <<dat, ngen>>
    BY <2>1 DEF SimcP!Next, SimcP!BeginAttempt, SimcP!ReadLine, SimcP!EndOfFile,
                SimcP!Simulate, SimcP!Finish, SimcP!Terminated, SimcP!inputs, SimcP!vars
  <2>6. SampleOK'
    BY <1>1, <2>5, SampleKept
  <2>7. TreeStart' /\ SelectP!Start' /\ MergeStart'
    BY <2>1, <2>2, <2>3, TreeStartKept, SelectStartKept, MergeStartKept
  <2> QED
    BY <2>4, <2>6, <2>7 DEF IInv
<1>3. ASSUME UNCHANGED s_vars PROVE SampleOK' /\ SimcP!IInv' /\ SimcOver' = SimcOver
  <2>1. UNCHANGED <<dat, ngen, s_pc>>
    BY <1>3 DEF s_vars
  <2> QED
    BY <1>1, <1>3, <2>1, SampleKept, SimcKept DEF SimcOver
<1>4. CASE RunTree
  <2>1. /\ SimcOver /\ t_pc # "done" /\ TreeP!Next
        /\ UNCHANGED s_vars /\ UNCHANGED x_vars /\ UNCHANGED m_vars
    BY <1>4, SameTree DEF RunTree
  <2>2. TreeP!IInv
    BY <1>1, TreeReady, TreeAssumptions, TreeP!InitIInv DEF IInv
  <2>3. TreeP!IInv'
    BY <2>1, <2>2, TreeAssumptions, TreeP!StepIInv
  <2>4. SelectP!Start' /\ MergeStart'
    BY <2>1, SelectStartKept, MergeStartKept DEF IInv
  <2> QED
    BY <1>3, <2>1, <2>3, <2>4 DEF IInv
<1>5. ASSUME t_pc = "done", UNCHANGED s_vars, UNCHANGED t_vars
      PROVE  /\ TreeP!IInv /\ TreeP!IInv' /\ SimcOver' /\ t_pc' = "done"
             /\ SampleOK' /\ SimcP!IInv'
  <2>1. SimcOver /\ TreeP!IInv
    BY <1>5 DEF IInv, TreeStart
  <2>2. TreeP!IInv'
    BY <1>5, <2>1, TreeKept
  <2> QED
    BY <1>3, <1>5, <2>1, <2>2 DEF t_vars
<1>6. CASE RunSelect
  <2>1. /\ t_pc = "done" /\ ~SelectP!Over /\ SelectP!Next
        /\ UNCHANGED s_vars /\ UNCHANGED t_vars /\ UNCHANGED m_vars
    BY <1>6, SameSelect DEF RunSelect
  <2>2. SelectP!IInv
    BY <1>1, <1>5, <2>1, SelectReady, SelectAssumptions, SelectP!InitIInv DEF IInv
  <2>3. SelectP!IInv'
    BY <2>1, <2>2, SelectAssumptions, SelectP!StepIInv
  <2>4. MergeStart'
    BY <2>1, MergeStartKept DEF IInv
  <2> QED
    BY <1>5, <2>1, <2>3, <2>4 DEF IInv
<1>7. CASE RunMerge
  <2>1. /\ t_pc = "done" /\ SelectP!Over /\ MergeP!Next
        /\ UNCHANGED s_vars /\ UNCHANGED t_vars /\ UNCHANGED x_vars
    BY <1>7, SameSelect, SameMerge DEF RunMerge
  <2>2. MergeP!IInv /\ MergeP!OutputStage /\ MergeP!DiesForAReason
    <3>1. CASE MergeStart
      <4>1. MergeP!Init
        BY <1>1, <1>5, <2>1, <3>1, MergeReady
      <4>2. MergeP!OutputStage /\ MergeP!DiesForAReason
        BY <3>1 DEF MergeStart, MergeP!OutputStage, MergeP!DiesForAReason
      <4> QED
        BY <4>1, <4>2, MergeAssumptions, MergeP!InitIInv
    <3> QED
      BY <3>1 DEF IInv
  <2>3. MergeP!IInv' /\ MergeP!OutputStage' /\ MergeP!DiesForAReason'
    BY <2>1, <2>2, MergeStepIInv
  <2>4. SelectP!Start' \/ SelectP!IInv'
    BY <2>1, SelectStartKept, SelectKept DEF IInv
  <2>5. SelectP!Over'
    BY <2>1 DEF SelectP!Over, x_vars
  <2> QED
    BY <1>5, <2>1, <2>3, <2>4, <2>5 DEF IInv
<1>8. CASE UNCHANGED vars
  <2>1. UNCHANGED s_vars /\ UNCHANGED t_vars /\ UNCHANGED x_vars /\ UNCHANGED m_vars
    BY <1>8 DEF vars
  <2>2. TreeStart' \/ (SimcOver' /\ TreeP!IInv')
    BY <1>3, <2>1, TreeStartKept, TreeKept DEF IInv
  <2>3. SelectP!Start' \/ (t_pc' = "done" /\ SelectP!IInv')
    BY <2>1, SelectStartKept, SelectKept DEF IInv, t_vars
  <2>4. MergeStart' \/ /\ t_pc' = "done" /\ SelectP!Over'
                       /\ MergeP!IInv' /\ MergeP!OutputStage' /\ MergeP!DiesForAReason'
    <3>1. UNCHANGED MergeP!vars
      BY <2>1 DEF s_vars, t_vars, m_vars, MergeP!vars, h10, N, Simc!Quota
    <3>2. SelectP!Over' = SelectP!Over /\ t_pc' = t_pc
      BY <2>1 DEF SelectP!Over, x_vars, t_vars
    <3> QED
      BY <2>1, <3>1, <3>2, MergeStartKept, MergeStepIInv DEF IInv
  <2> QED
    BY <1>3, <2>1, <2>2, <2>3, <2>4 DEF IInv
<1> QED
  BY <1>2, <1>4, <1>6, <1>7, <1>8 DEF Next, Terminated

(* The inductive invariant of the pipeline.                                  *)
LEMMA InductiveInvariant == Spec => []IInv
  BY InitIInv, StepIInv, PTL DEF Spec

------------------------------------------------------------------------------
(* The output of the merge, in terms of the sample: entry k comes from row k *)
(* of the n-tuple and from the Geant4 entry of the line of that row.         *)
LEMMA MergedEntry ==
    ASSUME IInv, NEW k \in 1 .. Len(simc_out)
    PROVE  /\ simc_out[k] = k /\ k \in 1 .. Len(ntuple)
           /\ ene_out[k] = ntuple[k].event_id - 1
           /\ gem_out[k] = ene_out[k] /\ pos_out[k] = ene_out[k]
<1>1. t_pc = "done" /\ MergeP!IInv
  <2>1. ~MergeStart
    <3>1. Len(<<>>) = 0
      OBVIOUS
    <3> QED
      BY <3>1 DEF MergeStart
  <2> QED
    BY <2>1 DEF IInv
<1>2. SampleOK /\ SimcP!IInv /\ TreeP!IInv
  BY <1>1 DEF IInv, TreeStart
<1>3. N \in Nat
  BY <1>2, PipelineAssumption DEF SampleOK
<1>4. Len([x \in 1 .. N |-> x - 1]) = N
  BY <1>3
<1>5. MergeP!RowsMatchEvents /\ Len(simc_out) <= Len(h10) /\ simc_out \in Seq(Nat)
  BY <1>1 DEF MergeP!IInv, MergeP!TypeOK
<1>6. /\ simc_out[k] = k /\ pos_out = ene_out /\ gem_out = ene_out
      /\ ene_out[k] \in 1 .. N /\ ene_out[k] - 1 = h10[k]
  BY <1>4, <1>5 DEF MergeP!RowsMatchEvents, MergeP!Entries
<1>7. k \in 1 .. Len(ntuple) /\ h10[k] = EvtID(ntuple[k].event_id)
  <2>1. Len(h10) = Len(ntuple) /\ Len(ntuple) \in Nat /\ Len(simc_out) \in Nat
    BY <1>1, <1>2, <1>5, Converted, RowsOfSimc
  <2>2. k \in 1 .. Len(ntuple)
    BY <1>5, <2>1
  <2> QED
    BY <1>1, <1>2, <2>2, Converted
<1>8. ene_out[k] = ntuple[k].event_id - 1
  <2>1. ntuple[k].event_id \in Int /\ ene_out[k] \in Int
    BY <1>2, <1>3, <1>6, <1>7, RowsOfSimc
  <2> QED
    BY <1>6, <1>7, <2>1 DEF EvtID
<1> QED
  BY <1>6, <1>7, <1>8

(* Whatever events SimC skips or loses, and wherever a program stops, what   *)
(* is merged is one event: the electron and the recoil of a merged row come  *)
(* from the line of the entry that Geant4 simulated, for samples of any size.*)
THEOREM MergedAreOneEvent == Spec => []MergedRowsAreOneEvent
<1>1. IInv => MergedRowsAreOneEvent
  <2> SUFFICES ASSUME IInv, NEW k \in 1 .. Len(simc_out)
               PROVE  LET row == ntuple[simc_out[k]]
                      IN  /\ dat[row.e] = Simc!Event
                          /\ row.e = ene_out[k] + 1 /\ row.p = ene_out[k] + 1
                          /\ row.e = gem_out[k] + 1 /\ row.e = pos_out[k] + 1
    BY DEF MergedRowsAreOneEvent
  <2>1. /\ simc_out[k] = k /\ k \in 1 .. Len(ntuple)
        /\ ene_out[k] = ntuple[k].event_id - 1
        /\ gem_out[k] = ene_out[k] /\ pos_out[k] = ene_out[k]
    BY MergedEntry
  <2>2. /\ dat[ntuple[k].event_id] = Simc!Event /\ ntuple[k].event_id \in Int
        /\ ntuple[k].e = ntuple[k].event_id /\ ntuple[k].p = ntuple[k].event_id
    BY <2>1, RowsOfSimc DEF IInv
  <2> QED
    BY <2>1, <2>2
<1> QED
  BY <1>1, InductiveInvariant, PTL

(* SimC that read nothing but events read no more than Geant4 simulated.     *)
LEMMA NoneSkipped ==
    ASSUME SampleOK, SimcP!IInv, SimcOver, Skipped = {}
    PROVE  lineno <= N + 1
<1> SUFFICES ASSUME lineno > N + 1 PROVE FALSE
  BY RowsOfSimc, PipelineAssumption DEF SampleOK
<1>1. lineno \in Nat /\ N \in Nat /\ ngeni \in Nat /\ ngeni <= N
  BY RowsOfSimc, PipelineAssumption DEF SampleOK
<1>2. SimcP!EventLines(lineno) = 2 .. lineno
  <2>1. dat[1] # "event" /\ \A n \in 2 .. lineno : dat[n] = "event"
    BY PipelineAssumption DEF SampleOK, Skipped, Simc!Blank, Simc!Event
  <2> QED
    BY <1>1, <2>1 DEF SimcP!EventLines, SimcP!Event
<1>3. Cardinality(2 .. lineno) = lineno - 1
  BY <1>1, FS_Interval
<1>4. Cardinality(SimcP!EventLines(lineno)) = ngeni
  <2>1. SimcP!OneEventPerAttempt /\ s_pc # "simulate"
    BY DEF SimcP!IInv, SimcOver
  <2> QED
    BY <2>1, SameCardinality DEF SimcP!OneEventPerAttempt
<1> QED
  BY <1>1, <1>2, <1>3, <1>4

(* The only way a merge over a run can fail, its output file once created,   *)
(* is that SimC passed over an event and so accepted one beyond the first N  *)
(* that Geant4 simulated: never an id twice, and never an id rounded by the  *)
(* single precision of the tree.                                             *)
THEOREM MergeFailures == Spec => []MergeFailsForSkippedEvents
<1>1. IInv => MergeFailsForSkippedEvents
  <2> SUFFICES ASSUME IInv, m_pc = "died", out = "partial"
               PROVE  Skipped # {} /\ lineno > N + 1
    BY DEF MergeFailsForSkippedEvents
  <2>1. t_pc = "done" /\ MergeP!DiesForAReason /\ SampleOK /\ SimcP!IInv
    BY DEF IInv, MergeStart
  <2>2. SimcOver /\ TreeP!IInv
    BY <2>1 DEF IInv, TreeStart
  <2>3. N \in Nat /\ lineno \in Nat /\ Len(ntuple) \in Nat
    BY <2>1, RowsOfSimc, PipelineAssumption DEF SampleOK
  <2>4. Len([k \in 1 .. N |-> k - 1]) = N
    BY <2>3
  <2>5. PICK k \in 1 .. Len(h10) : \A j \in 1 .. N : [x \in 1 .. N |-> x - 1][j] # h10[k]
    BY <2>1, <2>3, <2>4
       DEF MergeP!DiesForAReason, MergeP!SameEntryCounts, MergeP!Entries, MergeP!Indexed
  <2>6. k \in 1 .. Len(ntuple) /\ h10[k] = ntuple[k].event_id - 2
    BY <2>1, <2>2, <2>5, Converted DEF EvtID
  <2>7. ntuple[k].event_id \in 2 .. lineno
    BY <2>1, <2>6, RowsOfSimc
  <2>8. lineno > N + 1
    <3>1. CASE ntuple[k].event_id - 1 <= N
      <4>1. ntuple[k].event_id - 1 \in 1 .. N
        BY <2>3, <2>7, <3>1
      <4> QED
        BY <2>5, <2>6, <2>7, <4>1
    <3> QED
      BY <2>3, <2>7, <3>1
  <2> QED
    BY <2>1, <2>2, <2>3, <2>8, NoneSkipped
<1> QED
  BY <1>1, InductiveInvariant, PTL

------------------------------------------------------------------------------
(* In a set of numbers listed in increasing order, the n-th has rank n.      *)
LEMMA RankInOrder ==
    ASSUME NEW L \in Nat, NEW f \in [1 .. L -> Nat],
           \A m, n \in 1 .. L : m < n => f[m] < f[n],
           NEW n \in 1 .. L
    PROVE  Cardinality({v \in {f[x] : x \in 1 .. L} : v <= f[n]}) = n
<1> DEFINE low == {v \in {f[x] : x \in 1 .. L} : v <= f[n]}
           g == [x \in 1 .. n |-> f[x]]
<1>1. \A x \in 1 .. L : x \in 1 .. n <=> f[x] <= f[n]
  OBVIOUS
<1>2. low = {f[x] : x \in 1 .. n}
  BY <1>1
<1>3. g \in Bijection(1 .. n, low)
  <2>1. g \in [1 .. n -> low]
    BY <1>2
  <2>2. \A a, b \in 1 .. n : g[a] = g[b] => a = b
    <3>1. \A x \in 1 .. L : f[x] \in Nat
      OBVIOUS
    <3>2. \A a, b \in 1 .. n : a < b => f[a] < f[b]
      OBVIOUS
    <3> QED
      BY <3>1, <3>2
  <2>3. \A v \in low : \E x \in 1 .. n : g[x] = v
    BY <1>2
  <2> HIDE DEF low, g
  <2> QED
    BY <2>1, <2>2, <2>3 DEF Bijection, Injection, Surjection, IsInjective
<1>4. ExistsBijection(1 .. n, low)
  BY <1>3 DEF ExistsBijection
<1> QED
  BY <1>4, FS_CountingElements

(* The lines SimC accepted, and what the selection makes of a line.          *)
AcceptedLines == {ntuple[m].event_id : m \in 1 .. Len(ntuple)}

LinesOfDat == [n \in DOMAIN dat |->
                  IF dat[n] = Simc!Blank THEN [kind |-> "comment", id |-> -1]
                  ELSE [kind |-> "event", id |-> EvtID(n)]]

(* They are as many as the rows, and the line of row n is the n-th of them.  *)
LEMMA AcceptedInOrder ==
    ASSUME SampleOK, SimcP!IInv
    PROVE  /\ Cardinality(AcceptedLines) = Len(ntuple)
           /\ \A n \in 1 .. Len(ntuple) :
                  SelectP!Rank(AcceptedLines, ntuple[n].event_id) = n
<1> DEFINE L == Len(ntuple)
           f == [m \in 1 .. L |-> ntuple[m].event_id]
<1>1. /\ L \in Nat /\ lineno \in Nat
      /\ \A n \in 1 .. L : ntuple[n].event_id \in 2 .. lineno
      /\ \A m, n \in 1 .. L : m < n => ntuple[m].event_id < ntuple[n].event_id
  BY RowsOfSimc, PipelineAssumption DEF SampleOK
<1>2. f \in [1 .. L -> Nat] /\ \A m, n \in 1 .. L : m < n => f[m] < f[n]
  BY <1>1
<1>3. AcceptedLines = {f[x] : x \in 1 .. L}
  BY DEF AcceptedLines
<1>4. ASSUME NEW n \in 1 .. L
      PROVE  Cardinality({v \in AcceptedLines : v <= ntuple[n].event_id}) = n
  <2>1. Cardinality({v \in {f[x] : x \in 1 .. L} : v <= f[n]}) = n
    <3> HIDE DEF f
    <3> QED
      BY <1>1, <1>2, RankInOrder
  <2> QED
    BY <1>3, <2>1
<1>5. Cardinality(AcceptedLines) = L
  <2>1. CASE L = 0
    <3>1. AcceptedLines = {}
      BY <2>1 DEF AcceptedLines
    <3> QED
      BY <2>1, <3>1, FS_EmptySet
  <2>2. CASE L # 0
    <3>1. L \in 1 .. L
      BY <1>1, <2>2
    <3>2. {v \in AcceptedLines : v <= ntuple[L].event_id} = AcceptedLines
      BY <1>1, <3>1 DEF AcceptedLines
    <3> QED
      BY <1>4, <3>1, <3>2
  <2> QED
    BY <2>1, <2>2
<1> QED
  BY <1>4, <1>5, SameCardinality DEF SelectP!Rank

(* They are the lines of events whose id is in the tree.                     *)
LEMMA ChosenAreAccepted ==
    ASSUME SampleOK, SimcP!IInv, TreeP!IInv, t_pc = "done"
    PROVE  SelectP!Chosen(spectrometer, Len(dat)) = AcceptedLines
<1>1. /\ Len(dat) \in Nat /\ Len(ntuple) \in Nat /\ DOMAIN dat = 1 .. Len(dat)
      /\ lineno \in 0 .. Len(dat)
  BY RowsOfSimc, PipelineAssumption DEF SampleOK
<1>2. ASSUME NEW n \in 1 .. Len(dat), dat[n] # Simc!Blank
      PROVE  SelectP!InTree(spectrometer, EvtID(n)) <=> n \in AcceptedLines
  <2>1. SelectP!InTree(spectrometer, EvtID(n)) <=>
            \E m \in 1 .. Len(ntuple) : h10[m] = EvtID(n)
    BY Converted DEF SelectP!InTree
  <2>2. \A m \in 1 .. Len(ntuple) : h10[m] = EvtID(n) <=> ntuple[m].event_id = n
    <3> SUFFICES ASSUME NEW m \in 1 .. Len(ntuple)
                 PROVE  h10[m] = EvtID(n) <=> ntuple[m].event_id = n
      OBVIOUS
    <3>1. h10[m] = EvtID(ntuple[m].event_id)
      BY Converted
    <3>2. ntuple[m].event_id \in Int /\ n \in Int
      BY <1>1, RowsOfSimc
    <3> QED
      BY <3>1, <3>2 DEF EvtID
  <2> QED
    BY <2>1, <2>2 DEF AcceptedLines
<1>3. ASSUME NEW n \in AcceptedLines PROVE n \in 1 .. Len(dat) /\ dat[n] # Simc!Blank
  <2>1. PICK m \in 1 .. Len(ntuple) : n = ntuple[m].event_id
    BY DEF AcceptedLines
  <2> QED
    BY <1>1, <2>1, RowsOfSimc DEF Simc!Blank, Simc!Event
<1> QED
  BY <1>1, <1>2, <1>3 DEF SelectP!Chosen

(* The selected file counts, plots and holds the accepted events.            *)
LEMMA SelectionOfRun ==
    ASSUME IInv, t_pc = "done", SelectP!Over
    PROVE  /\ nSelectedEvents[spectrometer] = ncontribute
           /\ plots[spectrometer].Q2 = plots[spectrometer].Q2_root
           /\ \A n \in DOMAIN ntuple :
                  \E l \in DOMAIN selected[spectrometer] :
                      selected[spectrometer][l] = [kind |-> "event", id |-> EvtID(ntuple[n].e)]
<1> DEFINE s == spectrometer
           L == Len(ntuple)
<1>1. SampleOK /\ SimcP!IInv /\ TreeP!IInv
  BY DEF IInv, TreeStart
<1>2. SelectP!IInv
  BY DEF IInv, SelectP!Start, SelectP!Over
<1>3. SelectP!TypeOK /\ SelectP!Result(s)
  <2>1. x_k > 1 /\ <<s>>[1] = s /\ Len(<<s>>) = 1
    BY DEF SelectP!Over
  <2>2. SelectP!ExactIInv /\ SelectP!TypeOK
    BY <1>2 DEF SelectP!IInv
  <2> QED
    BY <2>1, <2>2 DEF SelectP!ExactIInv
<1>4. /\ L \in Nat /\ L = ncontribute /\ DOMAIN ntuple = 1 .. L
      /\ DOMAIN dat = 1 .. Len(dat) /\ Len(dat) \in Nat
      /\ lineno \in 0 .. Len(dat)
  BY <1>1, RowsOfSimc, PipelineAssumption DEF SampleOK
<1>5. h10 \in [1 .. L -> 0 .. MaxEntries - 1] /\ Len(h10) = L
  BY <1>1, Converted
<1>6. CASE L = 0
  <2>1. h10 = <<>>
    BY <1>5, <1>6
  <2>2. SelectP!Missing(s)
    BY <2>1 DEF SelectP!Missing
  <2>3. nSelectedEvents[s] = 0 /\ plots[s] = [Q2 |-> <<>>, Q2_root |-> <<>>]
    BY <1>3, <2>2 DEF SelectP!Result, SelectP!Untouched, SelectP!NoPlots
  <2> QED
    BY <1>4, <1>6, <2>3
<1>7. CASE L # 0
  <2>1. ~SelectP!Missing(s)
    <3>1. h10 # <<>>
      BY <1>5, <1>7
    <3> QED
      BY <3>1 DEF SelectP!Missing
  <2>2. Len(LinesOfDat) = Len(dat)
    BY <1>4 DEF LinesOfDat
  <2>3. SelectP!Progress(s, Len(dat)) /\ plots[s].Q2_root = h10
    BY <1>3, <2>1, <2>2 DEF SelectP!Result, LinesOfDat
  <2>4. /\ nSelectedEvents[s] = Cardinality(AcceptedLines)
        /\ SelectP!Lists(selected[s], LinesOfDat, SelectP!Copied(s, Len(dat)))
        /\ SelectP!Lists(plots[s].Q2, SelectP!IdOfLine, AcceptedLines)
    BY <1>1, <2>3, ChosenAreAccepted, SameCardinality DEF SelectP!Progress, LinesOfDat
  <2>5. \A n \in 1 .. L : /\ ntuple[n].event_id \in 2 .. Len(dat)
                          /\ dat[ntuple[n].event_id] # Simc!Blank
                          /\ ntuple[n].e = ntuple[n].event_id
                          /\ ntuple[n].event_id \in AcceptedLines
    BY <1>1, <1>4, RowsOfSimc DEF AcceptedLines, Simc!Blank, Simc!Event
  <2>6. plots[s].Q2 = h10
    <3>1. plots[s].Q2 \in Seq(0 .. 2 * MaxEntries)
      <4>1. plots[s] \in [Q2 : Seq(0 .. 2 * MaxEntries), Q2_root : Seq(0 .. 2 * MaxEntries)]
        BY <1>3 DEF SelectP!TypeOK, SelectP!Spectrometers
      <4> QED
        BY <4>1
    <3>2. Len(plots[s].Q2) = L
      BY <1>1, <2>4, AcceptedInOrder, SameCardinality DEF SelectP!Lists
    <3>3. ASSUME NEW n \in 1 .. L PROVE plots[s].Q2[n] = h10[n]
      <4>1. plots[s].Q2[n] = SelectP!IdOfLine[ntuple[n].event_id]
        BY <1>1, <2>4, <2>5, AcceptedInOrder DEF SelectP!Lists
      <4>2. SelectP!IdOfLine[ntuple[n].event_id] = EvtID(ntuple[n].event_id)
        BY <1>4, <2>5 DEF SelectP!IdOfLine
      <4> QED
        BY <1>1, <4>1, <4>2, Converted
    <3> QED
      BY <1>4, <1>5, <3>1, <3>2, <3>3
  <2>7. ASSUME NEW n \in 1 .. L
        PROVE  \E l \in DOMAIN selected[s] :
                   selected[s][l] = [kind |-> "event", id |-> EvtID(ntuple[n].e)]
    <3> DEFINE places == SelectP!Copied(s, Len(dat))
               line == ntuple[n].event_id
    <3>1. places \subseteq 1 .. Len(dat) /\ line \in places
      BY <1>1, <1>4, <2>5, ChosenAreAccepted DEF SelectP!Copied, SelectP!Chosen
    <3>2. places \in SUBSET Nat /\ SelectP!IsFiniteSet(places)
      <4>1. IsFiniteSet(1 .. Len(dat)) /\ 1 .. Len(dat) \subseteq Nat
        <5>1. Len(dat) \in Int /\ 1 .. Len(dat) \subseteq Nat
          BY <1>4
        <5> QED
          BY <5>1, FS_Interval
      <4> HIDE DEF places, line
      <4>2. IsFiniteSet(places)
        BY <3>1, <4>1, FS_Subset
      <4> QED
        BY <3>1, <4>1, <4>2, SameCardinality
    <3>3. SelectP!Rank(places, line) \in 1 .. SelectP!Cardinality(places)
      <4> HIDE DEF places, line
      <4> QED
        BY <3>1, <3>2, SelectP!RankRange
    <3>4. selected[s] \in Seq(SelectP!Lines)
      BY <1>3 DEF SelectP!TypeOK, SelectP!Spectrometers
    <3>5. SelectP!Rank(places, line) \in DOMAIN selected[s]
      BY <2>4, <3>3, <3>4 DEF SelectP!Lists
    <3>6. selected[s][SelectP!Rank(places, line)] = LinesOfDat[line]
      BY <2>4, <3>1 DEF SelectP!Lists
    <3>7. LinesOfDat[line] = [kind |-> "event", id |-> EvtID(ntuple[n].e)]
      BY <1>4, <2>5 DEF LinesOfDat
    <3> QED
      BY <3>5, <3>6, <3>7
  <2> QED
    BY <1>1, <1>4, <2>3, <2>4, <2>6, <2>7, AcceptedInOrder
<1> QED
  BY <1>4, <1>6, <1>7

(* No event is lost on the way from SimC to the merged and the selected      *)
(* file: both have as many as SimC counted, and the plots of the selection   *)
(* compare each event with itself, for samples of any size.                  *)
THEOREM NothingIsLost == Spec => []AllAcceptedAreMerged
<1>1. IInv => AllAcceptedAreMerged
  <2> SUFFICES ASSUME IInv PROVE AllAcceptedAreMerged
    OBVIOUS
  <2>1. ASSUME m_pc = "done" PROVE Len(simc_out) = ncontribute
    <3>1. t_pc = "done" /\ MergeP!IInv /\ SampleOK /\ SimcP!IInv
      BY <2>1 DEF IInv, MergeStart
    <3>2. TreeP!IInv
      BY <3>1 DEF IInv, TreeStart
    <3>3. Len(simc_out) = Len(h10)
      BY <2>1, <3>1 DEF MergeP!IInv, MergeP!WrittenIsComplete
    <3> QED
      BY <3>1, <3>2, <3>3, Converted, RowsOfSimc
  <2> QED
    BY <2>1, SelectionOfRun, SameSelect DEF AllAcceptedAreMerged
<1> QED
  BY <1>1, InductiveInvariant, PTL

------------------------------------------------------------------------------
(* The converter and the selection on inputs of their own.                   *)
ConverterP == INSTANCE MakeRootTreeProofs WITH
                  MaxRows <- MaxStream, pc <- t_pc, j <- t_j, i <- t_i

SelectionP == INSTANCE SelectAcceptedProofs WITH
                  k <- x_k, pc <- x_pc, i <- x_i, output <- x_output,
                  dat <- x_dat, h10 <- x_h10

LEMMA SameConverter ==
    /\ Converter!TreeAssumption => ConverterP!TreeAssumption
    /\ Converter!Init => ConverterP!Init
    /\ Converter!Next => ConverterP!Next
    /\ ConverterP!RowsAreWhole => Converter!RowsAreWhole
  BY DEF Converter!TreeAssumption, ConverterP!TreeAssumption,
         Converter!Init, ConverterP!Init, Converter!Next, ConverterP!Next,
         Converter!Header, ConverterP!Header, Converter!ReadRecord, ConverterP!ReadRecord,
         Converter!FillNTBranch, ConverterP!FillNTBranch,
         Converter!RootNTOutp, ConverterP!RootNTOutp,
         Converter!Terminated, ConverterP!Terminated, Converter!stream, ConverterP!stream,
         Converter!vars, ConverterP!vars, Converter!Single, ConverterP!Single,
         Converter!Position, ConverterP!Position, Converter!Record, ConverterP!Record,
         Converter!AtEnd, ConverterP!AtEnd, Converter!OpensTree, ConverterP!OpensTree,
         Converter!RowsAtEnd, ConverterP!RowsAtEnd,
         Converter!RowsAreWhole, ConverterP!RowsAreWhole

LEMMA SameSelection ==
    /\ Selection!SelectAssumption => SelectionP!SelectAssumption
    /\ Selection!Init => SelectionP!Init
    /\ Selection!Next => SelectionP!Next
  BY DEF Selection!SelectAssumption, SelectionP!SelectAssumption,
         Selection!Init, SelectionP!Init, Selection!Inputs, SelectionP!Inputs,
         Selection!Lines, SelectionP!Lines, Selection!Line, SelectionP!Line,
         Selection!Start, SelectionP!Start, Selection!Next, SelectionP!Next,
         Selection!Over, SelectionP!Over,
         Selection!ReadAcceptedIDs, SelectionP!ReadAcceptedIDs,
         Selection!OpenFiles, SelectionP!OpenFiles,
         Selection!FillRootKinematicsHistograms, SelectionP!FillRootKinematicsHistograms,
         Selection!ReadLine, SelectionP!ReadLine, Selection!EndOfDat, SelectionP!EndOfDat,
         Selection!Terminated, SelectionP!Terminated, Selection!vars, SelectionP!vars,
         Selection!inputs, SelectionP!inputs, Selection!spec, SelectionP!spec,
         Selection!Return, SelectionP!Return, Selection!IdsOf, SelectionP!IdsOf,
         Selection!NoId, SelectionP!NoId, Selection!NoPlots, SelectionP!NoPlots,
         Selection!IsCopied, SelectionP!IsCopied, Selection!IsSelected, SelectionP!IsSelected,
         Selection!Filled, SelectionP!Filled,
         Selection!Spectrometers, SelectionP!Spectrometers

LEMMA SameExactness == SelectionP!SelectionIsExact => Selection!SelectionIsExact
<1>1. \A S : SelectionP!Cardinality(S) = Selection!Cardinality(S)
  BY DEF SelectionP!Cardinality, Selection!Cardinality,
         SelectionP!IsFiniteSet, Selection!IsFiniteSet
<1>2. \A S, n : SelectionP!Rank(S, n) = Selection!Rank(S, n)
  BY <1>1 DEF SelectionP!Rank, Selection!Rank
<1>3. \A list, lines, S : SelectionP!Lists(list, lines, S) => Selection!Lists(list, lines, S)
  BY <1>1, <1>2 DEF SelectionP!Lists, Selection!Lists
<1>4. \A s : SelectionP!EventsOf(s) = Selection!EventsOf(s)
  BY DEF SelectionP!EventsOf, Selection!EventsOf, SelectionP!InTree, Selection!InTree
<1>5. /\ SelectionP!Processed = Selection!Processed
      /\ SelectionP!IdOfLine = Selection!IdOfLine
      /\ SelectionP!Comments = Selection!Comments
  BY DEF SelectionP!Processed, Selection!Processed, SelectionP!IdOfLine, Selection!IdOfLine,
         SelectionP!Comments, Selection!Comments
<1>6. \A f : Selection!Once(f) => SelectionP!Once(f)
  BY DEF SelectionP!Once, Selection!Once
<1>7. \A f, g : SelectionP!SameEvents(f, g) => Selection!SameEvents(f, g)
  BY DEF SelectionP!SameEvents, Selection!SameEvents
<1> QED
  BY <1>3, <1>4, <1>5, <1>6, <1>7 DEF SelectionP!SelectionIsExact, Selection!SelectionIsExact

(* The inputs of a program that runs alone are any that it can meet.         *)
AloneIInv ==
    /\ which = "make_root_tree" => ConverterP!IInv
    /\ which = "select_accepted" => SelectionP!IInv

LEMMA AloneInit == MCInit => AloneIInv
<1>1. ConverterP!TreeAssumption /\ SelectionP!SelectAssumption
  BY InputsAssumption, SameConverter, SameSelection
<1> QED
  BY <1>1, SameConverter, SameSelection, ConverterP!InitIInv, SelectionP!InitIInv
     DEF MCInit, AloneIInv

LEMMA AloneStep ==
    AloneIInv /\ [MCNext]_<<vars, which, t_inputs, x_inputs>> => AloneIInv'
<1> SUFFICES ASSUME AloneIInv, [MCNext]_<<vars, which, t_inputs, x_inputs>>
             PROVE  AloneIInv'
  OBVIOUS
<1>1. ConverterP!TreeAssumption /\ SelectionP!SelectAssumption
  BY InputsAssumption, SameConverter, SameSelection
<1>2. which' = which
  BY DEF MCNext
<1>3. ASSUME which = "make_root_tree" PROVE ConverterP!IInv'
  <2>1. [ConverterP!Next]_(ConverterP!vars)
    BY <1>3, SameConverter DEF MCNext, vars, t_vars, t_inputs, ConverterP!vars
  <2> QED
    BY <1>1, <1>3, <2>1, ConverterP!StepIInv DEF AloneIInv
<1>4. ASSUME which = "select_accepted" PROVE SelectionP!IInv'
  <2>1. [SelectionP!Next]_(SelectionP!vars)
    BY <1>4, SameSelection DEF MCNext, vars, x_vars, x_inputs, SelectionP!vars
  <2> QED
    BY <1>1, <1>4, <2>1, SelectionP!StepIInv DEF AloneIInv
<1> QED
  BY <1>2, <1>3, <1>4 DEF AloneIInv

(* Whatever stream the converter is given, and wherever it breaks off, the   *)
(* tree is its complete rows: for any size of rows and any limit.            *)
THEOREM StreamsConvertWhole == MCSpec => []RowsAreWhole
<1>1. AloneIInv => RowsAreWhole
  BY InputsAssumption, SameConverter, ConverterP!InvariantIsWhole DEF AloneIInv, RowsAreWhole
<1> QED
  BY <1>1, AloneInit, AloneStep, PTL DEF MCSpec

(* Whatever dat file and trees the selection is given, it is exact for each  *)
(* spectrometer on its own, however many there are.                          *)
THEOREM FilesSelectExactly == MCSpec => []SelectionIsExact
<1>1. AloneIInv => SelectionIsExact
  BY InputsAssumption, SameSelection, SameExactness, SelectionP!InvariantIsExact
     DEF AloneIInv, SelectionIsExact
<1> QED
  BY <1>1, AloneInit, AloneStep, PTL DEF MCSpec
==============================================================================
