-------------------------------- MODULE LadG4 --------------------------------
(***************************************************************************)
(* The LAD Geant4 application in DIS mode: generation of the primaries     *)
(* (LADPrimaryGeneratorAction::DISgen), the event and run actions, and the *)
(* three trees of HistoManager.                                            *)
(*                                                                         *)
(* Event e is simulated from entry e of the DIS file.  Each worker thread  *)
(* has its own HodoAnalysis and HistoManager; the buffers of DISgen are    *)
(* function-static, one set for all workers.  A vector of hits is          *)
(* abstracted to the set of the events whose hits it holds.  An operator   *)
(* X_Mistake is X with a plausible mistake.                                *)
(***************************************************************************)
EXTENDS Integers, Sequences, FiniteSets

CONSTANTS
    Workers,        \* worker threads
    MaxEvents,      \* bound on beamOn and on the size of the DIS file
    MayMiss         \* may an event lack a GEM hits collection?

ASSUME LadAssumption ==
    /\ IsFiniteSet(Workers) /\ Workers # {}
    /\ MaxEvents \in Nat
    /\ MayMiss \in BOOLEAN

Chambers == 0 .. 1          \* kDim = 2
NoEntry == -1               \* of a vertex that was not generated

VARIABLES
    dis_file,       \* what DISgen finds for DISrootFile: "tree", or nothing of use
    nEntries,       \* entries of the DIS file
    unknown,        \* those whose recoil PID Geant4 does not know
    beam_on,        \* events requested of the run manager
    next_event,     \* the next event id the run manager hands out
    alive,          \* no fatal exception so far: "yes" or "no"
    pc, evtID,      \* of each worker
    buffer,         \* entry in the static pe, prec, pidrec and zvtx
    primaries,      \* entries the vertices of each event were made from
    vEneDep, vPaddle,       \* hit vectors of HodoAnalysis
    vChamber,       \* GEM hit vectors of HistoManager
    hodoenergy, hodoposition, gemana,   \* the trees
    saved           \* workers whose file was written and closed

run   == <<dis_file, nEntries, unknown, beam_on>>
trees == <<hodoenergy, hodoposition, gemana>>
hits  == <<vEneDep, vPaddle, vChamber>>
vars  == <<run, next_event, alive, pc, evtID, buffer, primaries, hits, trees, saved>>

Init ==
    /\ dis_file \in {"tree", "unset", "unopened", "treeless"}
    /\ nEntries \in 0 .. MaxEvents
    /\ unknown \in SUBSET (0 .. nEntries - 1)
    /\ beam_on \in 0 .. MaxEvents
    /\ next_event = 0
    /\ alive = "yes"
    /\ pc = [w \in Workers |-> "book"]
    /\ evtID = [w \in Workers |-> NoEntry]
    /\ buffer = NoEntry
    /\ primaries = <<>>
    /\ vEneDep = [w \in Workers |-> {}] /\ vPaddle = [w \in Workers |-> {}]
    /\ vChamber = [w \in Workers |-> {}]
    /\ hodoenergy = [w \in Workers |-> <<>>]
    /\ hodoposition = [w \in Workers |-> <<>>]
    /\ gemana = [w \in Workers |-> <<>>]
    /\ saved = {}

Go(w, here, there) ==
    /\ alive = "yes"
    /\ pc[w] = here
    /\ pc' = [pc EXCEPT ![w] = there]

------------------------------------------------------------------------------
(* LADRunAction::BeginOfRunAction: Book() opens the file and makes the trees. *)
(* A beamOn of 0 is no run to Geant4: none of the actions is called.         *)
Book(w) ==
    /\ beam_on > 0
    /\ Go(w, "book", "idle")
    /\ UNCHANGED <<run, next_event, alive, evtID, buffer, primaries, hits, trees, saved>>

(* The run manager hands out the event ids 0, 1, ... one by one.             *)
TakeEvent(w) ==
    /\ Go(w, "idle", "read")
    /\ next_event < beam_on
    /\ evtID' = [evtID EXCEPT ![w] = next_event]
    /\ next_event' = next_event + 1
    /\ primaries' = Append(primaries, [electron |-> NoEntry, recoil |-> NoEntry])
    /\ UNCHANGED <<run, alive, buffer, hits, trees, saved>>

EntryOf_OneBased(e) == e + 1
EntryOf(e) == e

OutOfRange_LastToo(e) == e + 1 >= nEntries
OutOfRange(e) == e >= nEntries

(* DISgen, up to T->GetEntry(evtID).  Its first call opens the file.         *)
ReadEntry(w) ==
    /\ dis_file = "tree"
    /\ ~OutOfRange(evtID[w])
    /\ Go(w, "read", "electron")
    /\ buffer' = EntryOf(evtID[w])
    /\ UNCHANGED <<run, next_event, alive, evtID, primaries, hits, trees, saved>>

(* Fatal exceptions, which abort the program where it stands: DISrootFile is *)
(* not set, cannot be opened or has no tree T, ...                           *)
NoSample(w) ==
    /\ alive = "yes" /\ pc[w] = "read"
    /\ dis_file # "tree"
    /\ alive' = "no"
    /\ UNCHANGED <<run, next_event, pc, evtID, buffer, primaries, hits, trees, saved>>

(* ... or the event is past the end of the tree.                             *)
PastTheEnd(w) ==
    /\ alive = "yes" /\ pc[w] = "read"
    /\ dis_file = "tree"
    /\ OutOfRange(evtID[w])
    /\ alive' = "no"
    /\ UNCHANGED <<run, next_event, pc, evtID, buffer, primaries, hits, trees, saved>>

(* The rest of DISgen: the electron vertex, then the recoil vertex, which    *)
(* is left out with a warning when the PID is unknown.  Every physics list   *)
(* defines e-.                                                               *)
ElectronVertex(w) ==
    /\ Go(w, "electron", "recoil")
    /\ primaries' = [primaries EXCEPT ![evtID[w] + 1].electron = buffer]
    /\ UNCHANGED <<run, next_event, alive, evtID, buffer, hits, trees, saved>>

RecoilVertex(w) ==
    /\ Go(w, "recoil", "begin")
    /\ primaries' = IF buffer \in unknown THEN primaries
                    ELSE [primaries EXCEPT ![evtID[w] + 1].recoil = buffer]
    /\ UNCHANGED <<run, next_event, alive, evtID, buffer, hits, trees, saved>>

AtBegin_Kept(v, w) == v
AtBegin(v, w) == [v EXCEPT ![w] = {}]

(* HodoAnalysis::BeginOfEventAction clears its vectors.                      *)
BeginOfEvent(w) ==
    /\ Go(w, "begin", "track")
    /\ vEneDep' = AtBegin(vEneDep, w)
    /\ vPaddle' = AtBegin(vPaddle, w)
    /\ UNCHANGED <<run, next_event, alive, evtID, buffer, primaries, vChamber,
                   trees, saved>>

(* Tracking: StepAnalysis adds hits in bars, and hits on entering a bar.     *)
Track(w) ==
    /\ Go(w, "track", "end")
    /\ \E e, p \in SUBSET {evtID[w]} :
           /\ vEneDep' = [vEneDep EXCEPT ![w] = @ \cup e]
           /\ vPaddle' = [vPaddle EXCEPT ![w] = @ \cup p]
    /\ UNCHANGED <<run, next_event, alive, evtID, buffer, primaries, vChamber,
                   trees, saved>>

HodoFill_OnlyHits(tree, w, entry) ==
    IF entry.hits = {} THEN tree ELSE [tree EXCEPT ![w] = Append(@, entry)]
HodoFill(tree, w, entry) == [tree EXCEPT ![w] = Append(@, entry)]

(* FillHodoEnergy and FillHodoPosition: one entry each for every event.      *)
FillHodo(w) ==
    /\ hodoenergy' = HodoFill(hodoenergy, w, [id |-> evtID[w], hits |-> vEneDep[w]])
    /\ hodoposition' = HodoFill(hodoposition, w, [id |-> evtID[w], hits |-> vPaddle[w]])

AfterFillGEM_Kept(w, v) == [vChamber EXCEPT ![w] = v]
AfterFillGEM(w, v) == [vChamber EXCEPT ![w] = {}]

(* EndOfEventAction: fill the hodoscope trees, add the GEM hits of one       *)
(* chamber after the other, fill gemana and clear its vectors.               *)
EndOfEvent(w) ==
    /\ Go(w, "end", "idle")
    /\ FillHodo(w)
    /\ \E g \in SUBSET {evtID[w]} :
           LET v == vChamber[w] \cup g
           IN  /\ gemana' = [gemana EXCEPT ![w] = Append(@, v)]
               /\ vChamber' = AfterFillGEM(w, v)
    /\ UNCHANGED <<run, next_event, alive, evtID, buffer, primaries, vEneDep,
                   vPaddle, saved>>

(* The same, when the collection of a chamber is missing: return, with the   *)
(* hits of the chambers before it still in the vectors.                      *)
EndOfEventMissing(w) ==
    /\ MayMiss
    /\ Go(w, "end", "idle")
    /\ FillHodo(w)
    /\ \E iDet \in Chambers : \E g \in SUBSET {evtID[w]} :
           /\ iDet = 0 => g = {}
           /\ vChamber' = [vChamber EXCEPT ![w] = @ \cup g]
    /\ UNCHANGED <<run, next_event, alive, evtID, buffer, primaries, vEneDep,
                   vPaddle, gemana, saved>>

(* EndOfRunAction: Save() writes and closes the file, after no events too.   *)
EndOfRun(w) ==
    /\ Go(w, "idle", "over")
    /\ next_event >= beam_on
    /\ saved' = saved \cup {w}
    /\ UNCHANGED <<run, next_event, alive, evtID, buffer, primaries, hits, trees>>

Terminated ==
    /\ \/ alive = "no" \/ beam_on = 0
       \/ \A w \in Workers : pc[w] = "over"
    /\ UNCHANGED vars

Worker(w) == \/ Book(w) \/ TakeEvent(w) \/ ReadEntry(w) \/ NoSample(w) \/ PastTheEnd(w)
             \/ ElectronVertex(w) \/ RecoilVertex(w) \/ BeginOfEvent(w) \/ Track(w)
             \/ EndOfEvent(w) \/ EndOfEventMissing(w) \/ EndOfRun(w)

Next == (\E w \in Workers : Worker(w)) \/ Terminated

Spec == Init /\ [][Next]_vars

(* Every thread goes on with its event loop.                                 *)
FairSpec == Spec /\ \A w \in Workers : WF_vars(Worker(w))

------------------------------------------------------------------------------
EventIds == 0 .. beam_on - 1
Entries  == (0 .. nEntries - 1) \cup {NoEntry}

TypeOK ==
    /\ dis_file \in {"tree", "unset", "unopened", "treeless"}
    /\ nEntries \in 0 .. MaxEvents /\ beam_on \in 0 .. MaxEvents
    /\ unknown \subseteq 0 .. nEntries - 1
    /\ next_event \in 0 .. beam_on
    /\ alive \in {"yes", "no"}
    /\ pc \in [Workers -> {"book", "idle", "read", "electron", "recoil", "begin",
                           "track", "end", "over"}]
    /\ evtID \in [Workers -> EventIds \cup {NoEntry}]
    /\ buffer \in Entries
    /\ primaries \in Seq([electron : Entries, recoil : Entries])
    /\ Len(primaries) = next_event
    /\ vEneDep \in [Workers -> SUBSET EventIds] /\ vPaddle \in [Workers -> SUBSET EventIds]
    /\ vChamber \in [Workers -> SUBSET EventIds]
    /\ \A t \in {hodoenergy, hodoposition} :
           t \in [Workers -> Seq([id : EventIds, hits : SUBSET EventIds])]
    /\ gemana \in [Workers -> Seq(SUBSET EventIds)]
    /\ saved \subseteq Workers

(* Event e is simulated from entry e of the DIS file, electron and recoil    *)
(* alike: what makes EventID the key the SimC rows are joined on.            *)
PrimariesFromOwnEntry ==
    \A k \in 1 .. Len(primaries) :
        /\ primaries[k].electron \in {k - 1, NoEntry}
        /\ primaries[k].recoil \in {k - 1, NoEntry} \ unknown

(* The hodoscope trees of a worker stay in step, event ids grow along them,  *)
(* and an entry holds hits of its own event only.                            *)
HodoEntriesHoldOwnHits ==
    \A w \in Workers :
        LET ene == hodoenergy[w]  pos == hodoposition[w]
        IN  /\ Len(ene) = Len(pos)
            /\ \A k \in 1 .. Len(ene) :
                   /\ ene[k].id = pos[k].id
                   /\ ene[k].hits \subseteq {ene[k].id}
                   /\ pos[k].hits \subseteq {ene[k].id}
                   /\ k > 1 => ene[k - 1].id < ene[k].id

(* A gemana entry with hits of another event than the hodoenergy entry of    *)
(* the same number gives itself away: the trees have different lengths for   *)
(* good, which is what merge_simc_g4.C refuses.                              *)
MisalignedGemShows ==
    \A w \in Workers :
        (\E k \in 1 .. Len(gemana[w]) : ~(gemana[w][k] \subseteq {hodoenergy[w][k].id}))
            => Len(gemana[w]) < Len(hodoenergy[w])

(* When the application aborts, a file is still to be closed, and nothing of *)
(* the sample was left out: every event it has an entry for is recorded, or  *)
(* in the hands of a worker.  If there was no sample, nothing is recorded.   *)
InEvent == {"read", "electron", "recoil", "begin", "track", "end"}
InHand(e) == \E w \in Workers : pc[w] \in InEvent /\ evtID[w] = e
Recorded(e) ==
    \E w \in Workers : \E k \in 1 .. Len(hodoenergy[w]) : hodoenergy[w][k].id = e
BreaksOffAfterTheSample ==
    alive = "no" =>
        /\ saved # Workers
        /\ IF dis_file = "tree"
           THEN /\ next_event > nEntries
                /\ \A e \in 0 .. nEntries - 1 : Recorded(e) \/ InHand(e)
           ELSE \A w \in Workers : hodoenergy[w] = <<>>

(* A run of one event or more comes to an end.  When the sample suffices,    *)
(* the files are written and every event requested is in exactly one of      *)
(* them, once, whether anything of it hit the hodoscope or not; when it does *)
(* not, the program aborts.                                                  *)
SampleSuffices == dis_file = "tree" /\ beam_on <= nEntries
EveryEventOnce ==
    \A e \in EventIds :
        Cardinality({x \in Workers \X (1 .. beam_on) :
                         /\ x[2] <= Len(hodoenergy[x[1]])
                         /\ hodoenergy[x[1]][x[2]].id = e}) = 1
FilesAreWritten ==
    beam_on > 0 =>
        <>(IF SampleSuffices THEN saved = Workers /\ EveryEventOnce ELSE alive = "no")
==============================================================================
