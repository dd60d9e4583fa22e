------------------------------- MODULE SimcDis -------------------------------
(***************************************************************************)
(* SimC in DIS mode: the event loop of simc.f together with generate_dis.f *)
(* (which replaces the physics generator by a file of DIS events) and the  *)
(* n-tuple writer of results_write.f.                                      *)
(*                                                                         *)
(* A line of the dat file is abstracted to what generate_dis does with it: *)
(* it is blank or a comment, does not parse, has a vanishing electron or   *)
(* recoil momentum, or is a usable event.  What the spectrometers and the  *)
(* reconstruction make of a usable event is a nondeterministic verdict.    *)
(* Kinematics are abstracted to the number of the line they come from.     *)
(*                                                                         *)
(* An operator X_Mistake above an operator X is X with a plausible mistake *)
(* in it.  No specification uses it: it records which property would       *)
(* notice the mistake.                                                     *)
(***************************************************************************)
EXTENDS Integers, Sequences, FiniteSets

CONSTANTS
    MaxLines,   \* longest dat file considered
    MaxGen      \* largest |ngen| considered

ASSUME SimcAssumption ==
    /\ MaxLines \in Nat             \* any file length, an empty file too
    /\ MaxGen \in Nat \ {0}         \* the driver refuses a count of zero

\* What generate_dis can find on a line of the dat file.
Blank == "blank"        \* empty, or starting with '#'
Bad   == "bad"          \* the list-directed read of the ten fields fails
ZeroE == "zero_e"       \* electron momentum not above tiny
ZeroP == "zero_p"       \* recoil momentum not above tiny
Event == "event"        \* a usable DIS event

LineKind == {Blank, Bad, ZeroE, ZeroP, Event}

VARIABLES
    dat,            \* the dat file: a sequence of line kinds (never changes)
    ngen,           \* ngen of the .inp file: +N successes, -N attempts
    hard_cuts,      \* hard_cuts of the .inp file: 1 applies the SPedge limits
    pc,             \* where the program is
    lineno,         \* lines of unit iu read so far
    ntried, nevent, ncontribute, npasscuts,     \* the counters of simc.f
    dis_event_id,   \* ntup%dis_event_id, as the line it was read from; 0 if reset
    vertex,         \* the lines vertex%e and vertex%p were computed from
    ngeni,          \* events in the H%geni histograms
    ntuple,         \* rows of worksim/<base>.bin
    normfac         \* nevent and ntried as the end game uses them; zeros until then

inputs   == <<dat, ngen, hard_cuts>>
counters == <<ntried, nevent, ncontribute, npasscuts>>
vars == <<dat, ngen, hard_cuts, pc, lineno, ntried, nevent, ncontribute, npasscuts,
          dis_event_id, vertex, ngeni, ntuple, normfac>>

Quota == IF ngen < 0 THEN -ngen ELSE ngen

Lines == 1 .. Len(dat)
EventLines(n) == {k \in 1 .. n : dat[k] = Event}

\* ntried counts an attempt that has no outcome yet.
InAttempt == pc \in {"read", "simulate", "stopped"}

Row == [event_id : Nat, e : Nat, p : Nat]

Init ==
    /\ dat \in UNION {[1 .. n -> LineKind] : n \in 0 .. MaxLines}
    /\ ngen \in (-MaxGen .. MaxGen) \ {0}
    /\ hard_cuts \in {0, 1}
    /\ pc = "loop"
    /\ lineno = 0
    /\ ntried = 0 /\ nevent = 0 /\ ncontribute = 0 /\ npasscuts = 0
    /\ dis_event_id = 0
    /\ vertex = [e |-> 0, p |-> 0]
    /\ ngeni = 0
    /\ ntuple = <<>>
    /\ normfac = [nevent |-> 0, ntried |-> 0]

------------------------------------------------------------------------------
(* The do while condition of the event loop.                                 *)
BelowQuota_OneTooMany == nevent <= Quota
BelowQuota == nevent < Quota

(* Reset the per-event variables, count the attempt and call generate_dis.   *)
BeginAttempt ==
    /\ pc = "loop"
    /\ BelowQuota
    /\ dis_event_id' = 0
    /\ ntried' = ntried + 1
    /\ pc' = "read"
    /\ UNCHANGED <<inputs, lineno, nevent, ncontribute, npasscuts, vertex,
                   ngeni, ntuple, normfac>>

(* What one line does to generate_dis.  The event id is stored before the    *)
(* momenta are looked at, and vertex%e before the recoil momentum is; only a *)
(* usable line lets it return, any other sends it back to label 10.          *)
LineAfter_BadIsReread(kind) == IF kind = Bad THEN lineno ELSE lineno + 1
LineAfter(kind) == lineno + 1

IdAfter(kind) == IF kind \in {Blank, Bad} THEN dis_event_id ELSE lineno + 1

Returns_ZeroRecoil(kind) == kind \in {Event, ZeroP}
Returns_AnyRecord(kind)  == kind \in {Event, ZeroE, ZeroP}
Returns(kind) == kind = Event

(* Label 10: the next line, for as long as generate_dis jumps back to it.    *)
ReadLine ==
    /\ pc = "read"
    /\ lineno < Len(dat)
    /\ LET kind == dat[lineno + 1]
       IN  /\ lineno' = LineAfter(kind)
           /\ dis_event_id' = IdAfter(kind)
           /\ vertex' = [e |-> IF kind \in {ZeroP, Event} THEN lineno + 1 ELSE vertex.e,
                         p |-> IF kind = Event THEN lineno + 1 ELSE vertex.p]
           /\ pc' = IF Returns(kind) THEN "simulate" ELSE "read"
    /\ UNCHANGED <<inputs, counters, ngeni, ntuple, normfac>>

(* The end of the file is a Fortran stop: the units are closed with what was *)
(* written to them and nothing after the loop runs.                          *)
EndOfFile ==
    /\ pc = "read"
    /\ lineno = Len(dat)
    /\ pc' = "stopped"
    /\ UNCHANGED <<inputs, lineno, counters, dis_event_id, vertex,
                   ngeni, ntuple, normfac>>

(* results_ntu_write: one row, with event_id in its last slot.               *)
NtuWrite(row) == ntuple' = Append(ntuple, row)

(* An event counts for ncontribute when it survived, for npasscuts when it   *)
(* is inside the SPedge limits as well.                                      *)
PassCuts(success, pass_cuts) == success /\ pass_cuts

(* The rest of the loop body, for one verdict of montecarlo and of the       *)
(* reconstruction (accepted) and of the SPedge limits (pass_cuts): hard      *)
(* cuts, histograms, counters, the n-tuple row, and nevent.  generate_dis    *)
(* only ever returns with success set.                                       *)
Simulate(accepted, pass_cuts) ==
    LET success == accepted /\ (hard_cuts = 1 => pass_cuts)
    IN  /\ pc = "simulate"
        /\ ngeni' = ngeni + 1
        /\ ncontribute' = IF success THEN ncontribute + 1 ELSE ncontribute
        /\ npasscuts' = IF PassCuts(success, pass_cuts) THEN npasscuts + 1
                        ELSE npasscuts
        /\ IF success
           THEN NtuWrite([event_id |-> dis_event_id, e |-> vertex.e, p |-> vertex.p])
           ELSE UNCHANGED ntuple
        /\ nevent' = IF ngen < 0 \/ success THEN nevent + 1 ELSE nevent
        /\ pc' = "loop"
        /\ UNCHANGED <<inputs, lineno, ntried, dis_event_id, vertex, normfac>>

(* END GAME: normalisation, NtupleClose, the .geni, .gen and .hist files.    *)
Finish ==
    /\ pc = "loop"
    /\ ~BelowQuota
    /\ normfac' = [nevent |-> nevent, ntried |-> ntried]
    /\ pc' = "done"
    /\ UNCHANGED <<inputs, lineno, counters, dis_event_id, vertex,
                   ngeni, ntuple>>

Terminated == pc \in {"done", "stopped"} /\ UNCHANGED vars

Next ==
    \/ BeginAttempt
    \/ ReadLine
    \/ EndOfFile
    \/ \E accepted, pass_cuts \in BOOLEAN : Simulate(accepted, pass_cuts)
    \/ Finish
    \/ Terminated

Spec == Init /\ [][Next]_vars

(* A sequential program that nothing blocks: every enabled step is taken.    *)
FairSpec == Spec /\ WF_vars(Next)

------------------------------------------------------------------------------
TypeOK ==
    /\ dat \in Seq(LineKind)
    /\ ngen \in Int \ {0}
    /\ hard_cuts \in {0, 1}
    /\ pc \in {"loop", "read", "simulate", "done", "stopped"}
    /\ lineno \in 0 .. Len(dat)
    /\ ntried \in Nat /\ nevent \in Nat /\ ncontribute \in Nat /\ npasscuts \in Nat
    /\ dis_event_id \in 0 .. Len(dat)
    /\ vertex \in [e : 0 .. Len(dat), p : 0 .. Len(dat)]
    /\ ngeni \in Nat
    /\ ntuple \in Seq(Row)
    /\ normfac \in [nevent : Nat, ntried : Nat]

(* Every row of the n-tuple carries the id of the line both its electron and *)
(* its recoil come from, and that line is a usable event already read: no    *)
(* skipped line leaves its id or its electron in a row.                      *)
RowsAreCoherent ==
    \A i \in 1 .. Len(ntuple) :
        LET row == ntuple[i]
        IN  /\ row.event_id \in 1 .. lineno
            /\ dat[row.event_id] = Event
            /\ row.e = row.event_id
            /\ row.p = row.event_id

(* Rows follow the order of the dat file and no event is written twice, so   *)
(* event_id is a key of the n-tuple, which the merge relies on.              *)
RowsInFileOrder ==
    \A i, j \in 1 .. Len(ntuple) :
        i < j => ntuple[i].event_id < ntuple[j].event_id

(* An attempt consumes exactly one usable event, however many lines it       *)
(* skips: the usable lines read are those of the completed attempts, all in  *)
(* the generated histograms, and the one being simulated.                    *)
OneEventPerAttempt ==
    /\ ntried = ngeni + (IF InAttempt THEN 1 ELSE 0)
    /\ Cardinality(EventLines(lineno)) = IF pc = "simulate" THEN ntried ELSE ngeni

(* The normalisation is only computed over a complete sample: |ngen|         *)
(* attempts for a negative ngen, ngen rows for a positive one; a run that    *)
(* hit the end of the file never normalises the rows it wrote.               *)
NormalisesCompleteSample ==
    /\ normfac.ntried # 0 <=> (pc = "done")
    /\ pc = "done" =>
           /\ normfac.nevent = Quota
           /\ ngen < 0 => normfac.ntried = Quota
           /\ ngen > 0 => Len(ntuple) = Quota
    /\ pc = "stopped" => nevent < Quota /\ lineno = Len(dat)

(* The counters of accepted events, the histograms and the n-tuple agree.    *)
CountersMatchNtuple ==
    /\ Len(ntuple) = ncontribute
    /\ npasscuts <= ncontribute
    /\ ncontribute <= ngeni
    /\ hard_cuts = 1 => npasscuts = ncontribute

(* What the loop maintains between its steps, and the invariants above lean  *)
(* on: an event being simulated is the line just read and is in no row yet,  *)
(* nevent counts attempts or rows according to the sign of ngen, and an      *)
(* attempt is only under way below the quota.                                *)
LoopInvariant ==
    /\ pc = "simulate" =>
           /\ lineno \in Lines
           /\ dat[lineno] = Event
           /\ dis_event_id = lineno
           /\ vertex = [e |-> lineno, p |-> lineno]
           /\ \A i \in 1 .. Len(ntuple) : ntuple[i].event_id < lineno
    /\ nevent <= Quota
    /\ InAttempt => nevent < Quota
    /\ nevent = IF ngen > 0 THEN Len(ntuple) ELSE ngeni

IInv ==
    /\ TypeOK
    /\ RowsAreCoherent
    /\ RowsInFileOrder
    /\ OneEventPerAttempt
    /\ NormalisesCompleteSample
    /\ CountersMatchNtuple
    /\ LoopInvariant

(* A run always ends, normally or at the end of the file.                    *)
Terminates == <>(pc \in {"done", "stopped"})
==============================================================================
