------------------------------- MODULE Pipeline -------------------------------
(***************************************************************************)
(* One event sample on its way through the workflow: DIS_root2dat.C writes *)
(* it to a dat file, SimC reads that (module SimcDis), make_root_tree      *)
(* converts its n-tuple (module MakeRootTree), select_accepted_DIS_dat.C   *)
(* copies the accepted lines (module SelectAccepted), Geant4 simulates the *)
(* first N entries of the sample, and merge_simc_g4.C joins it with SimC   *)
(* (module MergeSimcG4).  N is DIS_EVENT_COUNT: beamOn N, and ngen = -N.   *)
(***************************************************************************)
EXTENDS Integers, Sequences, FiniteSets

CONSTANTS
    MaxEntries,         \* largest sample
    MaxExact,           \* see MakeRootTree
    NotInteger          \* see MergeSimcG4

ASSUME PipelineAssumption ==
    /\ MaxEntries \in Nat \ {0}
    /\ MaxExact \in Nat /\ MaxExact % 2 = 0
    /\ MaxEntries <= MaxExact + 1   \* the largest id is exact in the tree
    /\ NotInteger \notin Int

VARIABLES
    \* SimcDis
    dat, ngen, hard_cuts, s_pc, lineno, ntried, nevent, ncontribute, npasscuts,
    dis_event_id, vertex, ngeni, ntuple, normfac,
    \* MakeRootTree
    t_pc, t_j, t_i, ntup_out, tree, root,
    \* SelectAccepted
    x_k, x_pc, x_i, acceptedIDs, selected, nSelectedEvents, plots, x_output,
    \* MergeSimcG4
    m_pc, m_i, g4_entry_by_event_id, out, simc_out, pos_out, ene_out, gem_out

s_vars == <<dat, ngen, hard_cuts, s_pc, lineno, ntried, nevent, ncontribute,
            npasscuts, dis_event_id, vertex, ngeni, ntuple, normfac>>
t_vars == <<t_pc, t_j, t_i, ntup_out, tree, root>>
x_vars == <<x_k, x_pc, x_i, acceptedIDs, selected, nSelectedEvents, plots, x_output>>
m_vars == <<m_pc, m_i, g4_entry_by_event_id, out, simc_out, pos_out, ene_out, gem_out>>
vars == <<s_vars, t_vars, x_vars, m_vars>>

Simc == INSTANCE SimcDis WITH
            MaxLines <- MaxEntries + 1, MaxGen <- MaxEntries, pc <- s_pc

N == Simc!Quota

(* DIS_root2dat.C: a header line, then entry k with k as its EvtID.  The     *)
(* model of SimC names events by their lines.                                *)
Root2dat(lines) == <<Simc!Blank>> \o lines

EvtID_OneBased(line) == line - 1
EvtID(line) == line - 2

h10_event_id == 2       \* event_id is the last variable of a row

Tree == INSTANCE MakeRootTree WITH
            NtupleSize <- 2, nev <- MaxEntries, MaxRows <- MaxEntries,
            MaxId <- MaxEntries - 1, pc <- t_pc, j <- t_j, i <- t_i,
            header <- "whole",
            events <- [k \in DOMAIN ntuple |-> EvtID(ntuple[k].event_id)],
            n_records <- 2 * Len(ntuple)

h10 == [n \in DOMAIN tree |-> tree[n][h10_event_id]]

spectrometer == "HMS"

Select == INSTANCE SelectAccepted WITH
            Specs <- <<spectrometer>>, Ids <- 0 .. 2 * MaxEntries,
            MaxLines <- MaxEntries + 1, MaxRows <- MaxEntries,
            k <- x_k, pc <- x_pc, i <- x_i, output <- x_output,
            dat <- [n \in DOMAIN dat |->
                       IF dat[n] = Simc!Blank THEN [kind |-> "comment", id |-> -1]
                       ELSE [kind |-> "event", id |-> EvtID(n)]],
            h10 <- [s \in {spectrometer} |-> h10],
            dat_access <- "readable",
            tree_access <- [s \in {spectrometer} |-> "full"],
            writable <- [s \in {spectrometer} |-> "yes"]

Merge == INSTANCE MergeSimcG4 WITH
            Ids <- 0 .. MaxEntries, MaxRows <- MaxEntries, pc <- m_pc, i <- m_i,
            files <- "readable",
            hodoenergy <- [k \in 1 .. N |-> k - 1],
            n_pos <- N, n_gem <- N

Samples == UNION {[1 .. n -> {Simc!ZeroE, Simc!ZeroP, Simc!Event}] : n \in 1 .. MaxEntries}

(* The driver caps the count at the number of events in the dat file.        *)
Init ==
    /\ \E sample \in Samples :
           /\ dat = Root2dat(sample)
           /\ \E n \in 1 .. Len(sample) : ngen = 0 - n
    /\ Simc!Init
    /\ Tree!Init
    /\ Select!Start
    /\ Merge!Init

SimcOver == s_pc \in {"done", "stopped"}

RunSimc == ~SimcOver /\ Simc!Next /\ UNCHANGED <<t_vars, x_vars, m_vars>>

RunTree == /\ SimcOver /\ t_pc \notin {"done", "aborted"}
           /\ UNCHANGED <<s_vars, x_vars, m_vars>>
           /\ Tree!Next

RunSelect == /\ t_pc = "done" /\ ~Select!Over
             /\ UNCHANGED <<s_vars, t_vars, m_vars>>
             /\ Select!Next

RunMerge == /\ t_pc = "done" /\ Select!Over
            /\ m_pc \notin {"done", "died"}
            /\ UNCHANGED <<s_vars, t_vars, x_vars>>
            /\ Merge!Next

Terminated == m_pc \in {"done", "died"} /\ UNCHANGED vars

Next == RunSimc \/ RunTree \/ RunSelect \/ RunMerge \/ Terminated

Spec == Init /\ [][Next]_vars

------------------------------------------------------------------------------
Skipped == {k \in 2 .. lineno : dat[k] # Simc!Event}

(* What is merged is one event: the electron and the recoil of a SimC row    *)
(* come from the line of the dat file that holds the DIS entry the Geant4    *)
(* row was simulated from.                                                   *)
MergedRowsAreOneEvent ==
    \A k \in 1 .. Len(simc_out) :
        LET row == ntuple[simc_out[k]]
        IN  /\ dat[row.e] = Simc!Event
            /\ row.e = ene_out[k] + 1 /\ row.p = ene_out[k] + 1
            /\ row.e = gem_out[k] + 1 /\ row.e = pos_out[k] + 1

(* A merge over the output of a run only fails, once its output file could   *)
(* be created, when SimC passed over an event and so read beyond the last    *)
(* one Geant4 simulated.                                                     *)
MergeFailsForSkippedEvents ==
    m_pc = "died" /\ out = "partial" => Skipped # {} /\ lineno > N + 1

(* Nothing is lost on the way: the rows of a merge that succeeds are the     *)
(* events SimC counted as accepted; the selected dat file has as many, and   *)
(* the line of each is the one both momenta of an n-tuple row were read      *)
(* from; and its plots compare each event with itself.                       *)
AllAcceptedAreMerged ==
    /\ m_pc = "done" => Len(simc_out) = ncontribute
    /\ t_pc = "done" /\ Select!Over =>
           /\ nSelectedEvents[spectrometer] = ncontribute
           /\ plots[spectrometer].Q2 = plots[spectrometer].Q2_root
           /\ \A n \in DOMAIN ntuple :
                  \E l \in DOMAIN selected[spectrometer] :
                      selected[spectrometer][l] = [kind |-> "event", id |-> EvtID(ntuple[n].e)]
==============================================================================
