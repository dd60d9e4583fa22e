------------------------------ MODULE SimcProofs ------------------------------
(***************************************************************************)
(* Proofs about SimcDis, for every dat file, every ngen and both values of *)
(* hard_cuts, and about Montecarlo, for every spect_mode and either        *)
(* assignment of the spectrometers as well.  Montecarlo implements         *)
(* SimcDis, and what holds of the one is used in the proofs of the other:  *)
(* a row of the n-tuple never holds a track left over from another event,  *)
(* and the counters of a spectrometer account for every particle that was  *)
(* sent into it.                                                           *)
(***************************************************************************)
EXTENDS Montecarlo, FiniteSetTheorems, TLAPS

(* The files and settings a run starts from give every variable its range.   *)
LEMMA InitTypeOK == Init => TypeOK
<1> SUFFICES ASSUME Init PROVE TypeOK
  OBVIOUS
<1>1. dat \in Seq(LineKind)
  <2>1. PICK n \in 0 .. MaxLines : dat \in [1 .. n -> LineKind]
    BY DEF Init
  <2> QED
    BY <2>1, SimcAssumption
<1>2. ngen \in Int \ {0}
  BY SimcAssumption DEF Init
<1>3. ntuple \in Seq(Row) /\ vertex \in [e : 0 .. Len(dat), p : 0 .. Len(dat)]
  BY <1>1 DEF Init
<1> QED
  BY <1>1, <1>2, <1>3 DEF Init, TypeOK

(* Every step of the event loop keeps every variable in its range.           *)
LEMMA StepTypeOK == TypeOK /\ [Next]_vars => TypeOK'
<1> SUFFICES ASSUME TypeOK, [Next]_vars PROVE TypeOK'
  OBVIOUS
<1> USE DEF TypeOK, inputs, counters
<1>1. CASE BeginAttempt
  BY <1>1 DEF BeginAttempt
<1>2. CASE ReadLine
  BY <1>2 DEF ReadLine, LineAfter, IdAfter, Returns, Event, ZeroP, Blank, Bad
<1>3. CASE EndOfFile
  BY <1>3 DEF EndOfFile
<1>4. ASSUME NEW accepted \in BOOLEAN, NEW pass_cuts \in BOOLEAN,
             Simulate(accepted, pass_cuts)
      PROVE  TypeOK'
  <2>1. [event_id |-> dis_event_id, e |-> vertex.e, p |-> vertex.p] \in Row
    BY DEF Row
  <2>2. ntuple' \in Seq(Row)
    BY <1>4, <2>1 DEF Simulate, NtuWrite
  <2> QED
    BY <1>4, <2>2 DEF Simulate
<1>5. CASE Finish
  BY <1>5 DEF Finish
<1>6. CASE UNCHANGED vars
  BY <1>6 DEF vars
<1> QED
  BY <1>1, <1>2, <1>3, <1>4, <1>5, <1>6 DEF Next, Terminated

(* Type correctness of SimcDis for every dat file, ngen and cut setting.     *)
THEOREM TypeCorrect == Spec => []TypeOK
  BY InitTypeOK, StepTypeOK, PTL DEF Spec

------------------------------------------------------------------------------
(* Reading one more line adds that line to the usable ones if it is one.     *)
LEMMA EventLinesStep ==
  ASSUME NEW n \in Nat
  PROVE  /\ IsFiniteSet(EventLines(n))
         /\ Cardinality(EventLines(n)) \in Nat
         /\ Cardinality(EventLines(n + 1)) =
                Cardinality(EventLines(n)) + (IF dat[n + 1] = Event THEN 1 ELSE 0)
<1>1. IsFiniteSet(EventLines(n)) /\ Cardinality(EventLines(n)) \in Nat
  <2>1. IsFiniteSet(1 .. n)
    BY FS_Interval
  <2>2. EventLines(n) \subseteq 1 .. n
    BY DEF EventLines
  <2> QED
    BY <2>1, <2>2, FS_Subset, FS_CardinalityType
<1>2. CASE dat[n + 1] = Event
  <2>1. EventLines(n + 1) = EventLines(n) \cup {n + 1} /\ n + 1 \notin EventLines(n)
    BY <1>2 DEF EventLines
  <2> QED
    BY <1>1, <1>2, <2>1, FS_AddElement
<1>3. CASE dat[n + 1] # Event
  <2>1. EventLines(n + 1) = EventLines(n)
    BY <1>3 DEF EventLines
  <2> QED
    BY <1>1, <1>3, <2>1
<1> QED
  BY <1>1, <1>2, <1>3

(* The quota is a positive number and the two files have a length.           *)
LEMMA TypedSizes ==
  ASSUME TypeOK
  PROVE  Quota \in Nat \ {0} /\ Len(ntuple) \in Nat /\ Len(dat) \in Nat
<1>1. Quota \in Nat \ {0}
  <2>1. ngen \in Int /\ ngen # 0
    BY DEF TypeOK
  <2> QED
    BY <2>1 DEF Quota
<1>2. ntuple \in Seq(Row) /\ dat \in Seq(LineKind)
  BY DEF TypeOK
<1> QED
  BY <1>1, <1>2

LEMMA NoLineRead == Cardinality(EventLines(0)) = 0
  BY FS_EmptySet DEF EventLines

(* The strengthened invariant holds initially...                             *)
LEMMA InitIInv == Init => IInv
<1> SUFFICES ASSUME Init PROVE IInv
  OBVIOUS
<1>1. TypeOK
  BY InitTypeOK
<1>2. Len(ntuple) = 0
  BY DEF Init
<1>3. Quota \in Nat \ {0}
  BY <1>1, TypedSizes
<1>4. OneEventPerAttempt
  <2>1. lineno = 0 /\ ntried = 0 /\ ngeni = 0
    BY DEF Init
  <2>2. pc # "simulate" /\ ~InAttempt
    BY DEF Init, InAttempt
  <2> QED
    BY <2>1, <2>2, NoLineRead DEF OneEventPerAttempt
<1>5. RowsAreCoherent /\ RowsInFileOrder /\ CountersMatchNtuple
  BY <1>2 DEF Init, RowsAreCoherent, RowsInFileOrder, CountersMatchNtuple
<1>6. NormalisesCompleteSample
  BY DEF Init, NormalisesCompleteSample
<1>7. LoopInvariant
  <2>1. nevent = 0 /\ ngeni = 0
    BY DEF Init
  <2>2. pc # "simulate" /\ ~InAttempt
    BY DEF Init, InAttempt
  <2> QED
    BY <1>2, <1>3, <2>1, <2>2 DEF LoopInvariant
<1> QED
  BY <1>1, <1>4, <1>5, <1>6, <1>7 DEF IInv

(* ... and is kept by every action.                                          *)
LEMMA StepIInv == IInv /\ [Next]_vars => IInv'
<1> SUFFICES ASSUME IInv, [Next]_vars PROVE IInv'
  OBVIOUS
<1>1. TypeOK /\ TypeOK'
  BY StepTypeOK DEF IInv
<1>2. Quota \in Nat \ {0} /\ Len(ntuple) \in Nat /\ Len(dat) \in Nat
  BY <1>1, TypedSizes
<1>3. CASE BeginAttempt
  <2>1. UNCHANGED <<dat, ngen, hard_cuts, lineno, nevent, ncontribute, npasscuts,
                    vertex, ngeni, ntuple, normfac>>
    BY <1>3 DEF BeginAttempt, inputs, counters
  <2>2. EventLines(lineno)' = EventLines(lineno) /\ Quota' = Quota
    BY <2>1 DEF EventLines, Quota
  <2>3. RowsAreCoherent' /\ RowsInFileOrder' /\ CountersMatchNtuple'
    BY <2>1 DEF IInv, RowsAreCoherent, RowsInFileOrder, CountersMatchNtuple
  <2>4. OneEventPerAttempt'
    BY <1>1, <1>3, <2>1, <2>2
       DEF IInv, TypeOK, OneEventPerAttempt, InAttempt, BeginAttempt
  <2>5. NormalisesCompleteSample'
    BY <1>1, <1>3, <2>1, <2>2
       DEF IInv, TypeOK, NormalisesCompleteSample, BeginAttempt, BelowQuota
  <2>6. LoopInvariant'
    BY <1>1, <1>2, <1>3, <2>1, <2>2
       DEF IInv, TypeOK, LoopInvariant, InAttempt, BeginAttempt, BelowQuota
  <2> QED
    BY <1>1, <2>3, <2>4, <2>5, <2>6 DEF IInv
<1>4. CASE ReadLine
  <2> DEFINE kind == dat[lineno + 1]
  <2>1. /\ UNCHANGED <<dat, ngen, hard_cuts, ntried, nevent, ncontribute, npasscuts,
                       ngeni, ntuple, normfac>>
        /\ pc = "read"
        /\ lineno' = lineno + 1
        /\ lineno < Len(dat)
        /\ pc' = IF kind = Event THEN "simulate" ELSE "read"
        /\ kind = Event => /\ dis_event_id' = lineno + 1
                           /\ vertex' = [e |-> lineno + 1, p |-> lineno + 1]
    BY <1>4 DEF ReadLine, LineAfter, IdAfter, Returns, inputs, counters,
                Event, ZeroP, Blank, Bad
  <2>2. /\ Cardinality(EventLines(lineno))' =
              Cardinality(EventLines(lineno)) + (IF kind = Event THEN 1 ELSE 0)
        /\ Cardinality(EventLines(lineno)) \in Nat
        /\ Quota' = Quota
    <3>1. EventLines(lineno)' = EventLines(lineno + 1)
      BY <2>1 DEF EventLines
    <3>2. lineno \in Nat
      BY <1>1, <1>2 DEF TypeOK
    <3> QED
      BY <1>2, <2>1, <3>1, <3>2, EventLinesStep DEF Quota
  <2>3. RowsAreCoherent'
    BY <1>1, <1>2, <2>1 DEF IInv, TypeOK, RowsAreCoherent
  <2>4. RowsInFileOrder' /\ CountersMatchNtuple'
    BY <2>1 DEF IInv, RowsInFileOrder, CountersMatchNtuple
  <2>5. OneEventPerAttempt'
    BY <1>1, <2>1, <2>2 DEF IInv, TypeOK, OneEventPerAttempt, InAttempt
  <2>6. NormalisesCompleteSample'
    BY <1>1, <2>1, <2>2 DEF IInv, TypeOK, NormalisesCompleteSample
  <2>7. LoopInvariant'
    <3>1. \A i \in 1 .. Len(ntuple) : ntuple[i].event_id < lineno + 1
      <4>1. lineno \in Nat /\ RowsAreCoherent
        BY <1>1, <1>2 DEF IInv, TypeOK
      <4> QED
        BY <4>1 DEF RowsAreCoherent
    <3> QED
      BY <1>1, <1>2, <2>1, <2>2, <3>1
         DEF IInv, TypeOK, LoopInvariant, InAttempt, Lines
  <2> QED
    BY <1>1, <2>3, <2>4, <2>5, <2>6, <2>7 DEF IInv
<1>5. CASE EndOfFile
  <2>1. UNCHANGED <<dat, ngen, hard_cuts, lineno, ntried, nevent, ncontribute,
                    npasscuts, ngeni, ntuple, normfac>>
    BY <1>5 DEF EndOfFile, inputs, counters
  <2>2. EventLines(lineno)' = EventLines(lineno) /\ Quota' = Quota
    BY <2>1 DEF EventLines, Quota
  <2>3. RowsAreCoherent' /\ RowsInFileOrder' /\ CountersMatchNtuple'
    BY <2>1 DEF IInv, RowsAreCoherent, RowsInFileOrder, CountersMatchNtuple
  <2>4. OneEventPerAttempt'
    BY <1>5, <2>1, <2>2 DEF IInv, OneEventPerAttempt, InAttempt, EndOfFile
  <2>5. NormalisesCompleteSample' /\ LoopInvariant'
    BY <1>5, <2>1, <2>2
       DEF IInv, NormalisesCompleteSample, LoopInvariant, InAttempt, EndOfFile
  <2> QED
    BY <1>1, <2>3, <2>4, <2>5 DEF IInv
<1>6. ASSUME NEW accepted \in BOOLEAN, NEW pass_cuts \in BOOLEAN,
             Simulate(accepted, pass_cuts)
      PROVE  IInv'
  <2> DEFINE ok  == accepted /\ (hard_cuts = 1 => pass_cuts)
             row == [event_id |-> dis_event_id, e |-> vertex.e, p |-> vertex.p]
  <2>1. /\ UNCHANGED <<dat, ngen, hard_cuts, lineno, ntried, normfac>>
        /\ pc = "simulate" /\ pc' = "loop"
        /\ ngeni' = ngeni + 1
        /\ nevent' = IF ngen < 0 \/ ok THEN nevent + 1 ELSE nevent
    BY <1>6 DEF Simulate, inputs
  <2>2. \/ /\ ntuple' = Append(ntuple, row)
           /\ ncontribute' = ncontribute + 1
           /\ npasscuts' = npasscuts \/ npasscuts' = npasscuts + 1
           /\ hard_cuts = 1 => npasscuts' = npasscuts + 1
        \/ UNCHANGED <<ntuple, ncontribute, npasscuts>>
    BY <1>6 DEF Simulate, NtuWrite, PassCuts
  <2>3. /\ lineno \in 1 .. Len(dat) /\ dat[lineno] = Event
        /\ row = [event_id |-> lineno, e |-> lineno, p |-> lineno]
        /\ \A i \in 1 .. Len(ntuple) : ntuple[i].event_id < lineno
    BY <2>1 DEF IInv, LoopInvariant, InAttempt, Lines
  <2>14. ntuple \in Seq(Row) /\ row \in Row
    BY <1>1, <2>3 DEF TypeOK, Row
  <2>4. \/ /\ Len(ntuple') = Len(ntuple) + 1
           /\ ncontribute' = ncontribute + 1
        \/ Len(ntuple') = Len(ntuple) /\ UNCHANGED <<ntuple, ncontribute, npasscuts>>
    BY <2>2, <2>14
  <2>5. \A i \in 1 .. Len(ntuple') :
            \/ i = Len(ntuple) + 1 /\ ntuple'[i] = row
            \/ i \in 1 .. Len(ntuple) /\ ntuple'[i] = ntuple[i]
    <3>1. CASE UNCHANGED ntuple
      BY <3>1
    <3>2. CASE ntuple' = Append(ntuple, row)
      BY <2>14, <3>2
    <3> QED
      BY <2>2, <3>1, <3>2
  <2>6. EventLines(lineno)' = EventLines(lineno) /\ Quota' = Quota
    BY <2>1 DEF EventLines, Quota
  <2>7. RowsAreCoherent'
    BY <1>2, <2>1, <2>3, <2>5 DEF IInv, RowsAreCoherent
  <2>8. RowsInFileOrder'
    BY <1>2, <2>3, <2>4, <2>5 DEF IInv, RowsInFileOrder
  <2>9. OneEventPerAttempt'
    BY <1>1, <2>1, <2>6 DEF IInv, TypeOK, OneEventPerAttempt, InAttempt
  <2>10. NormalisesCompleteSample'
    BY <1>1, <2>1, <2>6 DEF IInv, TypeOK, NormalisesCompleteSample
  <2>11. CountersMatchNtuple'
    BY <1>1, <1>2, <2>1, <2>2 DEF IInv, TypeOK, CountersMatchNtuple
  <2>13. ngen > 0 => nevent' = Len(ntuple')
    BY <1>1, <1>2, <1>6, <2>1 DEF Simulate, NtuWrite, IInv, TypeOK, LoopInvariant, InAttempt
  <2>12. LoopInvariant'
    <3>1. nevent < Quota /\ nevent \in Nat /\ (ngen > 0 \/ nevent = ngeni)
      BY <1>1, <2>1 DEF IInv, TypeOK, LoopInvariant, InAttempt
    <3>2. ngen \in Int \ {0} /\ ngeni \in Nat
      BY <1>1 DEF TypeOK
    <3>3. nevent' <= Quota'
      BY <1>2, <2>1, <2>6, <3>1
    <3>4. pc' # "simulate" /\ ~InAttempt'
      BY <2>1 DEF InAttempt
    <3>5. nevent' = IF ngen > 0 THEN Len(ntuple') ELSE ngeni'
      BY <2>1, <2>13, <3>1, <3>2
    <3> QED
      BY <2>1, <3>3, <3>4, <3>5 DEF LoopInvariant
  <2> QED
    BY <1>1, <2>7, <2>8, <2>9, <2>10, <2>11, <2>12 DEF IInv
<1>7. CASE Finish
  <2>1. UNCHANGED <<dat, ngen, hard_cuts, lineno, ntried, nevent, ncontribute,
                    npasscuts, ngeni, ntuple>>
    BY <1>7 DEF Finish, inputs, counters
  <2>2. EventLines(lineno)' = EventLines(lineno) /\ Quota' = Quota
    BY <2>1 DEF EventLines, Quota
  <2>3. RowsAreCoherent' /\ RowsInFileOrder' /\ CountersMatchNtuple'
    BY <2>1 DEF IInv, RowsAreCoherent, RowsInFileOrder, CountersMatchNtuple
  <2>4. OneEventPerAttempt'
    BY <1>7, <2>1, <2>2 DEF IInv, OneEventPerAttempt, InAttempt, Finish
  <2>5. NormalisesCompleteSample'
    BY <1>1, <1>2, <1>7, <2>1, <2>2
       DEF IInv, TypeOK, NormalisesCompleteSample, CountersMatchNtuple,
           OneEventPerAttempt, LoopInvariant, InAttempt, BelowQuota, Finish
  <2>6. LoopInvariant'
    BY <1>7, <2>1, <2>2 DEF IInv, LoopInvariant, InAttempt, Finish
  <2> QED
    BY <1>1, <2>3, <2>4, <2>5, <2>6 DEF IInv
<1>8. CASE UNCHANGED vars
  BY <1>1, <1>8
     DEF vars, IInv, RowsAreCoherent, RowsInFileOrder, OneEventPerAttempt,
         NormalisesCompleteSample, CountersMatchNtuple, LoopInvariant, InAttempt,
         EventLines, Quota, Lines
<1> QED
  BY <1>3, <1>4, <1>5, <1>6, <1>7, <1>8 DEF Next, Terminated

(* The inductive invariant of the event loop.                                *)
THEOREM InductiveInvariant == Spec => []IInv
  BY InitIInv, StepIInv, PTL DEF Spec

------------------------------------------------------------------------------
(* event_id is a coherent key of the n-tuple: each row belongs to the line   *)
(* whose id it carries, and no id is written twice.                          *)
THEOREM EventIdIsKey == Spec => [](RowsAreCoherent /\ RowsInFileOrder)
<1>1. IInv => RowsAreCoherent /\ RowsInFileOrder
  BY DEF IInv
<1> QED
  BY <1>1, InductiveInvariant, PTL

(* Every completed attempt used one usable line of the dat file.             *)
THEOREM AttemptsMatchEvents == Spec => []OneEventPerAttempt
<1>1. IInv => OneEventPerAttempt
  BY DEF IInv
<1> QED
  BY <1>1, InductiveInvariant, PTL

(* normfac is computed from a complete sample or not at all.                 *)
THEOREM NormalisationIsComplete == Spec => []NormalisesCompleteSample
<1>1. IInv => NormalisesCompleteSample
  BY DEF IInv
<1> QED
  BY <1>1, InductiveInvariant, PTL
------------------------------------------------------------------------------
(* What montecarlo does between two steps of the event loop, the loop does   *)
(* not see; what it leaves in success is one of the verdicts Simulate has.   *)
LEMMA TransportStep ==
    ASSUME [TransportNext]_<<vars, transport>>
    PROVE  [Next]_vars
<1>1. CASE LoopStep
  BY <1>1 DEF LoopStep, Next
<1>2. CASE \E refused, pass_cuts \in BOOLEAN : Complete(refused, pass_cuts)
  <2>1. PICK refused \in BOOLEAN, pass_cuts \in BOOLEAN : Complete(refused, pass_cuts)
    BY <1>2
  <2>2. Simulate(success /\ ~refused, pass_cuts)
    BY <2>1 DEF Complete
  <2>3. CASE success /\ ~refused
    BY <2>2, <2>3 DEF Simulate, Next
  <2>4. CASE ~(success /\ ~refused)
    BY <2>2, <2>4 DEF Simulate, Next
  <2> QED
    BY <2>3, <2>4
<1> QED
  BY <1>1, <1>2 DEF TransportNext, CallMontecarlo, CopyThrough, EnterSpectrometer, PassPlane,
                    StopAtPlane, LeaveSpectrometer

(* Transport through the two spectrometers, plane by plane, implements the   *)
(* event loop for which an event is accepted or refused in one step: all     *)
(* that is proved of the loop is true of it.                                 *)
THEOREM TransportImplementsLoop == TransportSpec => Spec
<1>1. TransportInit => Init
  BY DEF TransportInit
<1> QED
  BY <1>1, TransportStep, PTL DEF Spec, TransportSpec
------------------------------------------------------------------------------
USE DEF modes, tracks, transport

Typed ==
    /\ electron_arm \in Arm
    /\ side \in Side
    /\ recon \in [Side -> Nat] /\ ytar \in [Side -> Nat] /\ FP \in [Side -> Nat]
    /\ columns \in Seq([Arm -> Columns])

(* The track of an arm is that of the current event; ytar and the focal plane*)
(* of an arm that is not transported stay as they were at the start.         *)
Through(s) == IF Transported(s) THEN vertex[s] ELSE 0
Own(s) == recon[s] = vertex[s] /\ ytar[s] = Through(s) /\ FP[s] = Through(s)

(* Until an arm is left its record may be stale, but then success is not     *)
(* set: what the rows rely on.                                               *)
TracksIInv ==
    /\ Typed
    /\ RowsReconstructOwnEvent
    /\ \A s \in Side : ~Transported(s) => FP[s] = 0 /\ ytar[s] = 0
    /\ stage # "main" => pc = "simulate"
    /\ stage \in {"arm", "spectrometer"} => ~success
    /\ stage = "spectrometer" => Transported(side)
    /\ stage \in {"arm", "spectrometer"} /\ side = "e" => Own("p")
    /\ stage = "complete" /\ success => Own("p") /\ Own("e")

LEMMA InitTracks == TransportInit => TracksIInv
  BY DEF TransportInit, Init, TracksIInv, Typed, RowsReconstructOwnEvent, Side, Arm

(* Rows, modes and arms that do not change keep what is known of the rows.   *)
LEMMA RowsKept ==
    ASSUME RowsReconstructOwnEvent, UNCHANGED <<spect_mode, electron_arm, ntuple, columns>>
    PROVE  RowsReconstructOwnEvent'
  BY DEF RowsReconstructOwnEvent, Transported

(* The lines an event comes from are numbers, one and the same for the event *)
(* being simulated.                                                          *)
LEMMA VertexType ==
    ASSUME IInv
    PROVE  /\ \A s \in Side : vertex[s] \in Nat
           /\ lineno \in Nat
           /\ pc = "simulate" => /\ dis_event_id = lineno
                                 /\ \A s \in Side : vertex[s] = lineno
<1>1. TypeOK /\ LoopInvariant
  BY DEF IInv
<1>2. Len(dat) \in Nat
  BY <1>1, TypedSizes
<1>3. vertex["e"] \in 0 .. Len(dat) /\ vertex["p"] \in 0 .. Len(dat) /\ lineno \in 0 .. Len(dat)
  BY <1>1 DEF TypeOK
<1>4. ASSUME pc = "simulate"
      PROVE  dis_event_id = lineno /\ vertex["e"] = lineno /\ vertex["p"] = lineno
  BY <1>1, <1>4 DEF LoopInvariant
<1> QED
  BY <1>2, <1>3, <1>4 DEF Side

LEMMA LeaveArmTracks ==
    ASSUME IInv, TracksIInv, LeaveArm, stage \in {"arm", "spectrometer"},
           FP' = [FP EXCEPT ![side] = Through(side)],
           ytar' = [ytar EXCEPT ![side] = Through(side)],
           UNCHANGED <<vars, spect_mode, electron_arm, columns>>
    PROVE  TracksIInv'
<1>0. \A s \in Side : vertex[s] \in Nat /\ vertex'[s] = vertex[s]
  BY VertexType DEF vars
<1>1. Typed'
  BY <1>0 DEF TracksIInv, Typed, LeaveArm, Side, Through
<1>2. RowsReconstructOwnEvent'
  BY RowsKept DEF TracksIInv, vars
<1>3. \A s \in Side : Transported(s)' = Transported(s)
  BY DEF Transported
<1>4. recon'[side] = vertex[side] /\ FP'[side] = Through(side) /\ ytar'[side] = Through(side)
  BY DEF TracksIInv, Typed, LeaveArm, Side
<1>5. \A s \in Side : s # side => recon'[s] = recon[s] /\ FP'[s] = FP[s] /\ ytar'[s] = ytar[s]
  BY DEF TracksIInv, Typed, LeaveArm, Side
<1>6. \A s \in Side : ~Transported(s)' => FP'[s] = 0 /\ ytar'[s] = 0
  BY <1>3, <1>4, <1>5 DEF TracksIInv, Through
<1>7. pc' = "simulate"
  BY DEF TracksIInv, vars
<1>8. CASE side = "p"
  <2>1. stage' = "arm" /\ ~success' /\ side' = "e"
    BY <1>8 DEF LeaveArm, TracksIInv
  <2>2. Own("p")'
    BY <1>0, <1>3, <1>4, <1>8 DEF Own, Through, Side
  <2> QED
    BY <1>1, <1>2, <1>6, <1>7, <2>1, <2>2 DEF TracksIInv
<1>9. CASE side = "e"
  <2>1. stage' = "complete"
    BY <1>9 DEF LeaveArm
  <2>2. Own("p")
    BY <1>9 DEF TracksIInv
  <2>3. Own("p")' /\ Own("e")'
    BY <1>0, <1>3, <1>4, <1>5, <1>9, <2>2 DEF Own, Through, Side
  <2> QED
    BY <1>1, <1>2, <1>6, <1>7, <2>1, <2>3 DEF TracksIInv
<1> QED
  BY <1>8, <1>9 DEF TracksIInv, Typed, Side

LEMMA CompleteTracks ==
    ASSUME IInv, TracksIInv, NEW refused \in BOOLEAN, NEW pass_cuts \in BOOLEAN,
           Complete(refused, pass_cuts)
    PROVE  TracksIInv'
<1> DEFINE accepted == success /\ ~refused /\ (hard_cuts = 1 => pass_cuts)
           row == [event_id |-> dis_event_id, e |-> vertex.e, p |-> vertex.p]
<1>0. /\ stage = "complete" /\ stage' = "main" /\ pc = "simulate"
      /\ UNCHANGED <<spect_mode, electron_arm, side, vertex, recon, ytar, FP>>
      /\ ntuple' = IF accepted THEN Append(ntuple, row) ELSE ntuple
      /\ columns' = IF accepted THEN Append(columns, NtuColumns) ELSE columns
  BY DEF Complete, Simulate, NtuWrite
<1>1. \A s \in Side : ~Transported(s)' => FP'[s] = 0 /\ ytar'[s] = 0
  BY <1>0 DEF TracksIInv, Transported
<1>2. CASE ~accepted
  <2>1. ntuple' = ntuple /\ columns' = columns
    BY <1>0, <1>2
  <2>2. RowsReconstructOwnEvent'
    BY <1>0, <2>1, RowsKept DEF TracksIInv
  <2> QED
    BY <1>0, <1>1, <2>1, <2>2 DEF TracksIInv, Typed
<1>3. CASE accepted
  <2>1. ntuple' = Append(ntuple, row) /\ columns' = Append(columns, NtuColumns)
    BY <1>0, <1>3
  <2>2. /\ recon["p"] = row.event_id /\ recon["e"] = row.event_id
        /\ \A s \in Side :
              /\ FP[s] = IF Transported(s) THEN row.event_id ELSE 0
              /\ ytar[s] = IF Transported(s) THEN row.event_id ELSE 0
    <3>1. Own("p") /\ Own("e")
      BY <1>0, <1>3 DEF TracksIInv
    <3>2. vertex["p"] = row.event_id /\ vertex["e"] = row.event_id
      BY <1>0, VertexType DEF Side
    <3> QED
      BY <3>1, <3>2 DEF Own, Through, Side
  <2>3. NtuColumns \in [Arm -> Columns]
    BY DEF TracksIInv, Typed, NtuColumns, Columns, SideOfColumns, ArmOf, HadronArm, Arm, Side
  <2>4. ASSUME NEW arm \in Arm
        PROVE  LET s == IF arm = electron_arm THEN "e" ELSE "p"
                   through == IF Transported(s) THEN row.event_id ELSE 0
               IN  NtuColumns[arm] = [of |-> arm, recon |-> row.event_id, ytar |-> through,
                                      fp |-> through]
    <3>1. ArmOf(SideOfColumns(arm)) = arm /\ SideOfColumns(arm) \in Side
      BY DEF TracksIInv, Typed, SideOfColumns, ArmOf, HadronArm, Arm, Side
    <3>2. SideOfColumns(arm) = IF arm = electron_arm THEN "e" ELSE "p"
      BY DEF SideOfColumns
    <3> HIDE DEF row
    <3> QED
      BY <2>2, <3>1, <3>2 DEF NtuColumns, Side
  <2>5. columns \in Seq([Arm -> Columns]) /\ ntuple \in Seq(Row) /\ row \in Row
    <3>1. TypeOK
      BY DEF IInv
    <3> QED
      BY <1>0, <3>1 DEF TracksIInv, Typed, TypeOK, Row
  <2> HIDE DEF row
  <2>6. /\ columns' \in Seq([Arm -> Columns])
        /\ Len(columns') = Len(columns) + 1 /\ Len(ntuple') = Len(ntuple) + 1
        /\ DOMAIN ntuple' = 1 .. Len(ntuple) + 1 /\ DOMAIN ntuple = 1 .. Len(ntuple)
        /\ ntuple'[Len(ntuple) + 1] = row /\ columns'[Len(columns) + 1] = NtuColumns
        /\ \A i \in 1 .. Len(ntuple) : ntuple'[i] = ntuple[i]
        /\ \A i \in 1 .. Len(columns) : columns'[i] = columns[i]
        /\ Len(ntuple) \in Nat
    BY <2>1, <2>3, <2>5
  <2>7. RowsReconstructOwnEvent'
    <3>1. Len(columns) = Len(ntuple)
      BY DEF TracksIInv, RowsReconstructOwnEvent
    <3>2. \A s : Transported(s)' = Transported(s)
      BY <1>0 DEF Transported
    <3>3. ASSUME NEW i \in DOMAIN ntuple', NEW arm \in Arm
          PROVE  LET s == IF arm = electron_arm THEN "e" ELSE "p"
                     id == ntuple'[i].event_id
                     through == IF Transported(s) THEN id ELSE 0
                 IN  columns'[i][arm] = [of |-> arm, recon |-> id, ytar |-> through,
                                         fp |-> through]
      <4>1. CASE i = Len(ntuple) + 1
        BY <2>4, <2>6, <3>1, <4>1
      <4>2. CASE i \in DOMAIN ntuple
        BY <2>6, <3>1, <4>2 DEF TracksIInv, RowsReconstructOwnEvent
      <4> QED
        BY <2>6, <4>1, <4>2
    <3> QED
      BY <1>0, <2>6, <3>1, <3>2, <3>3 DEF RowsReconstructOwnEvent
  <2> QED
    BY <1>0, <1>1, <2>6, <2>7 DEF TracksIInv, Typed
<1> QED
  BY <1>2, <1>3

LEMMA StepTracks ==
    ASSUME IInv, TracksIInv, [TransportNext]_<<vars, transport>>
    PROVE  TracksIInv'
<1>1. CASE LoopStep
  <2>1. /\ UNCHANGED <<spect_mode, electron_arm, stage, side, success, recon, ytar, FP, ntuple,
                       columns>>
        /\ pc # "simulate"
    BY <1>1 DEF LoopStep, BeginAttempt, ReadLine, EndOfFile, Finish, Terminated, vars
  <2>2. stage = "main"
    BY <2>1 DEF TracksIInv
  <2> QED
    BY <2>1, <2>2, RowsKept DEF TracksIInv, Typed, Transported
<1>2. CASE CallMontecarlo
  <2>1. /\ stage' = "arm" /\ side' = "p" /\ ~success' /\ pc = "simulate"
        /\ UNCHANGED <<spect_mode, electron_arm, pc, recon, ytar, FP, ntuple, columns>>
    BY <1>2 DEF CallMontecarlo, EntrySuccess, vars
  <2> QED
    BY <2>1, RowsKept DEF TracksIInv, Typed, Transported, Side
<1>3. CASE CopyThrough
  <2>1. /\ FP' = [FP EXCEPT ![side] = Through(side)]
        /\ ytar' = [ytar EXCEPT ![side] = Through(side)]
    BY <1>3 DEF CopyThrough, TracksIInv, Typed, Through
  <2> QED
    BY <1>3, <2>1, LeaveArmTracks DEF CopyThrough
<1>4. CASE LeaveSpectrometer
  <2>1. stage = "spectrometer" /\ Transported(side)
    BY <1>4 DEF LeaveSpectrometer, TracksIInv
  <2> QED
    BY <1>4, <2>1, LeaveArmTracks DEF LeaveSpectrometer, Through
<1>5. ASSUME NEW refused \in BOOLEAN, NEW pass_cuts \in BOOLEAN, Complete(refused, pass_cuts)
      PROVE  TracksIInv'
  BY <1>5, CompleteTracks
<1>6. CASE EnterSpectrometer \/ PassPlane \/ StopAtPlane
  <2>1. /\ UNCHANGED <<spect_mode, electron_arm, side, success, recon, ytar, FP, ntuple, columns,
                       pc, vertex>>
        /\ stage \in {"arm", "spectrometer"}
        /\ stage' \in {"spectrometer", "complete"}
    BY <1>6 DEF EnterSpectrometer, PassPlane, StopAtPlane, AtPlane, vars
  <2>2. RowsReconstructOwnEvent'
    BY <2>1, RowsKept DEF TracksIInv
  <2>3. \A s \in Side : Transported(s)' = Transported(s)
    BY <2>1 DEF Transported
  <2>4. Own("p")' = Own("p")
    BY <2>1, <2>3 DEF Own, Through, Side
  <2>5. stage' = "spectrometer" => Transported(side)'
    BY <1>6, <2>1 DEF EnterSpectrometer, PassPlane, StopAtPlane, AtPlane, Transported, TracksIInv
  <2> QED
    BY <2>1, <2>2, <2>3, <2>4, <2>5 DEF TracksIInv, Typed
<1>7. CASE UNCHANGED <<vars, transport>>
  <2>1. UNCHANGED <<spect_mode, electron_arm, stage, side, success, recon, ytar, FP, columns,
                    ntuple, pc, vertex>>
    BY <1>7 DEF vars
  <2> QED
    BY <2>1, RowsKept DEF TracksIInv, Typed, Own, Through, Transported
<1> QED
  BY <1>1, <1>2, <1>3, <1>4, <1>5, <1>6, <1>7 DEF TransportNext

LEMMA LoopIsKept == TransportSpec => []IInv
<1>1. Spec => []IInv
  BY InitIInv, StepIInv, PTL DEF Spec
<1> QED
  BY <1>1, TransportImplementsLoop, PTL

LEMMA TracksAreKept == TransportSpec => []TracksIInv
  BY InitTracks, StepTracks, LoopIsKept, PTL DEF TransportSpec

(* Every row of the n-tuple holds, for both spectrometers, the track of the  *)
(* line of the dat file it is numbered by, although montecarlo returns from a*)
(* lost electron with the recoil of that event already recorded.             *)
THEOREM RowsAreTheirOwn == TransportSpec => []RowsReconstructOwnEvent
<1>1. TracksIInv => RowsReconstructOwnEvent
  BY DEF TracksIInv
<1> QED
  BY TracksAreKept, <1>1, PTL

(* Counting one more particle keeps the counters numbers.                    *)
LEMMA CountType ==
    ASSUME DOMAIN STOP = Arm, \A arm \in Arm : STOP[arm] \in [Counter[arm] -> Nat],
           NEW a \in Arm, NEW name, Count(a, name)
    PROVE  DOMAIN STOP' = Arm /\ \A arm \in Arm : STOP'[arm] \in [Counter[arm] -> Nat]
<1>1. STOP' = [STOP EXCEPT ![a] = [STOP[a] EXCEPT ![name] = STOP[a][name] + 1]]
  BY DEF Count
<1>2. [STOP[a] EXCEPT ![name] = STOP[a][name] + 1] \in [Counter[a] -> Nat]
  <2> DEFINE f == STOP[a]
  <2> DEFINE g == [f EXCEPT ![name] = f[name] + 1]
  <2>1. f \in [Counter[a] -> Nat]
    OBVIOUS
  <2>2. \A n \in Counter[a] : g[n] \in Nat
    BY <2>1
  <2>3. g = [n \in Counter[a] |-> g[n]]
    BY <2>1
  <2> QED
    BY <2>2, <2>3
<1> QED
  BY <1>1, <1>2

LEMMA StepTransportType ==
    ASSUME TransportTypeOK, IInv, TracksIInv, TracksIInv', [TransportNext]_<<vars, transport>>
    PROVE  TransportTypeOK'
<1>0. columns' \in Seq([Arm -> Columns])
  BY DEF TracksIInv, Typed
<1>a. \A s \in Side : ArmOf(s) \in Arm
  BY DEF TransportTypeOK, ArmOf, HadronArm, Arm
<1>b. stage # "main" => pc = "simulate" /\ \A s \in Side : vertex[s] = lineno
  BY VertexType DEF TracksIInv
<1>c. lineno \in Nat
  BY VertexType
<1>1. CASE LoopStep
  <2>1. UNCHANGED transport /\ lineno' \in {lineno, lineno + 1}
    BY <1>1 DEF LoopStep, BeginAttempt, ReadLine, LineAfter, EndOfFile, Finish, Terminated, vars
  <2>2. 0 .. lineno \subseteq 0 .. lineno'
    BY <1>c, <2>1
  <2>3. /\ recon' \in [Side -> 0 .. lineno'] /\ FP' \in [Side -> 0 .. lineno']
        /\ ytar' \in [Side -> 0 .. lineno']
    BY <2>1, <2>2 DEF TransportTypeOK
  <2> QED
    BY <2>1, <2>3 DEF TransportTypeOK
<1>2. CASE CallMontecarlo
  BY <1>2 DEF CallMontecarlo, EntrySuccess, TransportTypeOK, Side, vars
<1>L. ASSUME LeaveArm, lineno' = lineno, stage # "main"
      PROVE  /\ recon' \in [Side -> 0 .. lineno'] /\ side' \in Side
             /\ stage' \in {"arm", "complete"} /\ success' \in BOOLEAN
  <2>1. vertex[side] \in 0 .. lineno
    BY <1>b, <1>c, <1>L DEF TransportTypeOK
  <2>2. recon' \in [Side -> 0 .. lineno'] /\ side' \in Side
    BY <1>L, <2>1 DEF LeaveArm, TransportTypeOK, Side
  <2>3. stage' \in {"arm", "complete"}
    BY <1>L DEF LeaveArm
  <2>4. success' \in BOOLEAN
    BY <1>L DEF LeaveArm, TransportTypeOK
  <2> QED
    BY <2>2, <2>3, <2>4
<1>3. CASE CopyThrough
  <2>1. /\ LeaveArm /\ lineno' = lineno /\ stage # "main"
        /\ UNCHANGED <<spect_mode, electron_arm, plane, STOP, ytar, FP>>
    BY <1>3 DEF CopyThrough, vars
  <2> QED
    BY <1>0, <1>L, <2>1 DEF TransportTypeOK
<1>4. CASE EnterSpectrometer
  <2>1. Count(ArmOf(side), "trials")
    BY <1>4 DEF EnterSpectrometer
  <2>2. DOMAIN STOP' = Arm /\ \A arm \in Arm : STOP'[arm] \in [Counter[arm] -> Nat]
    BY <1>a, <2>1, CountType DEF TransportTypeOK
  <2> QED
    BY <1>0, <1>4, <2>2 DEF EnterSpectrometer, TransportTypeOK, vars
<1>5. CASE PassPlane
  <2>1. DOMAIN STOP' = Arm /\ \A arm \in Arm : STOP'[arm] \in [Counter[arm] -> Nat]
    BY <1>a, <1>5, CountType DEF PassPlane, TransportTypeOK
  <2> QED
    BY <1>0, <1>5, <2>1 DEF PassPlane, TransportTypeOK, vars
<1>6. CASE StopAtPlane
  <2>1. Count(ArmOf(side), ThisPlane)
    BY <1>6 DEF StopAtPlane
  <2>2. DOMAIN STOP' = Arm /\ \A arm \in Arm : STOP'[arm] \in [Counter[arm] -> Nat]
    BY <1>a, <2>1, CountType DEF TransportTypeOK
  <2> QED
    BY <1>0, <1>6, <2>2 DEF StopAtPlane, TransportTypeOK, vars
<1>7. CASE LeaveSpectrometer
  <2>1. Count(ArmOf(side), "successes")
    BY <1>7 DEF LeaveSpectrometer
  <2>2. DOMAIN STOP' = Arm /\ \A arm \in Arm : STOP'[arm] \in [Counter[arm] -> Nat]
    BY <1>a, <2>1, CountType DEF TransportTypeOK
  <2>3. /\ LeaveArm /\ plane' = 0 /\ lineno' = lineno /\ stage # "main"
        /\ UNCHANGED <<spect_mode, electron_arm>>
    BY <1>7 DEF LeaveSpectrometer, vars
  <2>4. vertex[side] \in 0 .. lineno
    BY <1>b, <1>c, <2>3 DEF TransportTypeOK
  <2>5. FP' \in [Side -> 0 .. lineno'] /\ ytar' \in [Side -> 0 .. lineno']
    BY <1>7, <2>3, <2>4 DEF LeaveSpectrometer, TransportTypeOK
  <2> QED
    BY <1>0, <1>L, <2>2, <2>3, <2>5 DEF TransportTypeOK
<1>8. ASSUME NEW refused \in BOOLEAN, NEW pass_cuts \in BOOLEAN, Complete(refused, pass_cuts)
      PROVE  TransportTypeOK'
  <2>1. /\ stage' = "main" /\ plane' = 0 /\ lineno' = lineno /\ success' \in BOOLEAN
        /\ UNCHANGED <<spect_mode, electron_arm, side, STOP, recon, ytar, FP>>
    BY <1>8 DEF Complete, Simulate, inputs
  <2> QED
    BY <1>0, <2>1 DEF TransportTypeOK
<1>9. CASE UNCHANGED <<vars, transport>>
  BY <1>9 DEF vars, TransportTypeOK
<1> QED
  BY <1>1, <1>2, <1>3, <1>4, <1>5, <1>6, <1>7, <1>8, <1>9 DEF TransportNext

(* Type correctness of the transport.                                        *)
THEOREM TransportTypeCorrect == TransportSpec => []TransportTypeOK
<1>1. TransportInit => TransportTypeOK
  <2> SUFFICES ASSUME TransportInit PROVE TransportTypeOK
    OBVIOUS
  <2>1. DOMAIN STOP = Arm /\ \A arm \in Arm : STOP[arm] \in [Counter[arm] -> Nat]
    BY DEF TransportInit
  <2>2. lineno = 0 /\ 0 \in 0 .. lineno
    BY DEF TransportInit, Init
  <2>3. /\ recon \in [Side -> 0 .. lineno] /\ FP \in [Side -> 0 .. lineno]
        /\ ytar \in [Side -> 0 .. lineno]
    BY <2>2 DEF TransportInit
  <2>4. success \in BOOLEAN
    BY Zenon DEF TransportInit
  <2>5. columns \in Seq([Arm -> Columns])
    BY DEF TransportInit
  <2> QED
    BY <2>1, <2>2, <2>3, <2>4, <2>5 DEF TransportInit, TransportTypeOK, Side
<1> QED
  BY LoopIsKept, TracksAreKept, StepTransportType, <1>1, PTL DEF TransportSpec
------------------------------------------------------------------------------
(* The counters.  First the names of the planes: what is counted apart from  *)
(* the stops is not the name of a plane that stops particles, and no plane   *)
(* of the hut shares a counter with a magnet.                                *)
Ends(arm) == EndsPastHut(arm) \cup NamesOf(Magnets(arm))

LEMMA NamesOfConcat ==
    ASSUME NEW S, NEW s \in Seq(S), NEW t \in Seq(S)
    PROVE  NamesOf(s \o t) = NamesOf(s) \cup NamesOf(t)
<1>1. s \o t \in Seq(S) /\ Len(s \o t) = Len(s) + Len(t)
  OBVIOUS
<1>2. \A i \in 1 .. Len(s) : (s \o t)[i] = s[i]
  OBVIOUS
<1>3. \A i \in 1 .. Len(t) : (s \o t)[Len(s) + i] = t[i]
  OBVIOUS
<1>4. ASSUME NEW i \in 1 .. Len(s) + Len(t), i > Len(s)
      PROVE  (s \o t)[i] \in NamesOf(t)
  <2>1. i - Len(s) \in DOMAIN t
    BY <1>4
  <2>2. (s \o t)[i] = t[i - Len(s)]
    BY <1>4
  <2> QED
    BY <2>1, <2>2 DEF NamesOf
<1>5. NamesOf(s \o t) \subseteq NamesOf(s) \cup NamesOf(t)
  BY <1>1, <1>2, <1>4 DEF NamesOf
<1>6. NamesOf(s) \subseteq NamesOf(s \o t)
  BY <1>1, <1>2 DEF NamesOf
<1>7. ASSUME NEW i \in DOMAIN t PROVE t[i] \in NamesOf(s \o t)
  <2>1. Len(s) + i \in DOMAIN (s \o t)
    BY <1>1
  <2> QED
    BY <1>3, <2>1 DEF NamesOf
<1> QED
  BY <1>5, <1>6, <1>7 DEF NamesOf

LEMMA NamesInSet ==
    ASSUME NEW S, NEW s \in Seq(S) PROVE NamesOf(s) \subseteq S
  BY DEF NamesOf

(* The names of the magnets and of the detectors, as sets.                   *)
SlitNames == {"slit_hor", "slit_vert", "slit_oct"}
HMSMagnetNames ==
    SlitNames \cup {"Q1_in", "Q1_mid", "Q1_out", "Q2_in", "Q2_mid", "Q2_out",
                    "Q3_in", "Q3_mid", "Q3_out"} \cup {"D1_in", "D1_out"}
SHMSQuadNames ==
    {"Q1_in", "Q1_men", "Q1_mid", "Q1_mex", "Q1_out", "Q2_in", "Q2_men", "Q2_mid",
     "Q2_mex", "Q2_out", "Q3_in", "Q3_men", "Q3_mid", "Q3_mex", "Q3_out"}
SHMSDipoleNames ==
    {"D1_in", "D1_flr", "D1_men", "D1_mid1", "D1_mid2", "D1_mid3",
     "D1_mid4", "D1_mid5", "D1_mid6", "D1_mid7", "D1_mex", "D1_out"}
SHMSMagnetNames ==
    {"HB_in", "HB_men", "HB_mex", "HB_out"} \cup SlitNames \cup SHMSQuadNames
        \cup SHMSDipoleNames
HMSHutNames == {"dc1", "dc2", "scin"}
SHMSHutNames == {"dc1", "dc2", "s1", "s3", "s2", "cal"}

LEMMA HMSNames ==
    Magnets("HMS") \in Seq(HMSMagnetNames) /\ Detectors("HMS") \in Seq(HMSHutNames)
<1>1. HMSSlits \in Seq(HMSMagnetNames)
  BY DEF HMSSlits, HMSMagnetNames, SlitNames
<1>2. HMSQuads \in Seq(HMSMagnetNames)
  BY DEF HMSQuads, HMSMagnetNames
<1>3. HMSDipole \in Seq(HMSMagnetNames)
  BY DEF HMSDipole, HMSMagnetNames
<1>4. HMSChambers \in Seq(HMSHutNames) /\ HMSScintillators \in Seq(HMSHutNames)
  BY DEF HMSChambers, HMSScintillators, HMSHutNames
<1> QED
  BY <1>1, <1>2, <1>3, <1>4 DEF Magnets, Detectors

LEMMA SHMSNames ==
    Magnets("SHMS") \in Seq(SHMSMagnetNames) /\ Detectors("SHMS") \in Seq(SHMSHutNames)
<1>1. SHMSBender \in Seq(SHMSMagnetNames) /\ SHMSSlits \in Seq(SHMSMagnetNames)
  BY DEF SHMSBender, SHMSSlits, SHMSMagnetNames, SlitNames
<1>2. SHMSQ1 \in Seq(SHMSMagnetNames) /\ SHMSQ2 \in Seq(SHMSMagnetNames)
  BY DEF SHMSQ1, SHMSQ2, SHMSMagnetNames, SHMSQuadNames
<1>3. SHMSQ3 \in Seq(SHMSMagnetNames)
  BY DEF SHMSQ3, SHMSMagnetNames, SHMSQuadNames
<1>4. SHMSDipoleFront \in Seq(SHMSMagnetNames) /\ SHMSDipoleBack \in Seq(SHMSMagnetNames)
  BY DEF SHMSDipoleFront, SHMSDipoleBack, SHMSMagnetNames, SHMSDipoleNames
<1>5. SHMSChambers \in Seq(SHMSHutNames)
  BY DEF SHMSChambers, SHMSHutNames
<1>6. SHMSScintillators \in Seq(SHMSHutNames) /\ SHMSCalorimeter \in Seq(SHMSHutNames)
  BY DEF SHMSScintillators, SHMSCalorimeter, SHMSHutNames
<1> QED
  BY <1>1, <1>2, <1>3, <1>4, <1>5, <1>6 DEF Magnets, Detectors

LEMMA NamesApart ==
    ASSUME NEW arm \in Arm
    PROVE  /\ \E S : Magnets(arm) \in Seq(S) /\ Detectors(arm) \in Seq(S)
           /\ NamesOf(Magnets(arm)) \cap NamesOf(Detectors(arm)) = {}
           /\ "successes" \notin NamesOf(Magnets(arm)) \cup NamesOf(Detectors(arm))
           /\ "trials" \notin Ends(arm) /\ "hut" \notin Ends(arm)
<1>1. ASSUME NEW S, NEW T, Magnets(arm) \in Seq(S), Detectors(arm) \in Seq(T),
             S \cap T = {}, {"successes", "trials", "hut"} \cap (S \cup T) = {}
      PROVE  /\ Magnets(arm) \in Seq(S \cup T) /\ Detectors(arm) \in Seq(S \cup T)
             /\ NamesOf(Magnets(arm)) \cap NamesOf(Detectors(arm)) = {}
             /\ "successes" \notin NamesOf(Magnets(arm)) \cup NamesOf(Detectors(arm))
             /\ "trials" \notin Ends(arm) /\ "hut" \notin Ends(arm)
  <2>1. NamesOf(Magnets(arm)) \subseteq S /\ NamesOf(Detectors(arm)) \subseteq T
    BY <1>1, NamesInSet
  <2>2. Magnets(arm) \in Seq(S \cup T) /\ Detectors(arm) \in Seq(S \cup T)
    BY <1>1
  <2> QED
    BY <1>1, <2>1, <2>2 DEF Ends, EndsPastHut
<1>2. CASE arm = "HMS"
  <2>1. HMSMagnetNames \cap HMSHutNames = {}
    BY DEF HMSMagnetNames, SlitNames, HMSHutNames
  <2>2. {"successes", "trials", "hut"} \cap (HMSMagnetNames \cup HMSHutNames) = {}
    BY DEF HMSMagnetNames, SlitNames, HMSHutNames
  <2> QED
    BY <1>1, <1>2, <2>1, <2>2, HMSNames
<1>3. CASE arm = "SHMS"
  <2>1. SHMSMagnetNames \cap SHMSHutNames = {}
    BY DEF SHMSMagnetNames, SlitNames, SHMSQuadNames, SHMSDipoleNames, SHMSHutNames
  <2>2. {"successes", "trials", "hut"} \cap (SHMSMagnetNames \cup SHMSHutNames) = {}
    BY DEF SHMSMagnetNames, SlitNames, SHMSQuadNames, SHMSDipoleNames, SHMSHutNames
  <2> QED
    BY <1>1, <1>3, <2>1, <2>2, SHMSNames
<1> QED
  BY <1>2, <1>3 DEF Arm

(* Two sequences with an element between them, as a cascade has its hut.     *)
Around(c, s, x, t) ==
    /\ Len(c) = Len(s) + 1 + Len(t) /\ DOMAIN c = 1 .. Len(c)
    /\ NamesOf(c) = NamesOf(s) \cup {x} \cup NamesOf(t)
    /\ \A n \in DOMAIN c :
          /\ n <= Len(s) => c[n] \in NamesOf(s)
          /\ n = Len(s) + 1 => c[n] = x
          /\ n > Len(s) + 1 => c[n] \in NamesOf(t)

LEMMA AroundElement ==
    ASSUME NEW S, NEW s \in Seq(S), NEW x \in S, NEW t \in Seq(S)
    PROVE  Around(s \o <<x>> \o t, s, x, t)
<1> DEFINE m == <<x>>
           front == s \o m
           c == front \o t
<1>1. m \in Seq(S) /\ Len(m) = 1 /\ m[1] = x /\ NamesOf(m) = {x}
  BY DEF NamesOf
<1>2. front \in Seq(S) /\ Len(front) = Len(s) + 1
  BY <1>1
<1>3. NamesOf(front) = NamesOf(s) \cup {x}
  <2>1. NamesOf(front) = NamesOf(s) \cup NamesOf(m)
    BY <1>1, NamesOfConcat, Zenon
  <2> QED
    BY <1>1, <2>1
<1>4. c \in Seq(S) /\ Len(c) = Len(front) + Len(t) /\ DOMAIN c = 1 .. Len(c)
  BY <1>2
<1>5. NamesOf(c) = NamesOf(front) \cup NamesOf(t)
  BY <1>2, NamesOfConcat
<1>6. Len(s) \in Nat /\ Len(t) \in Nat /\ DOMAIN s = 1 .. Len(s) /\ DOMAIN t = 1 .. Len(t)
  OBVIOUS
<1>7. \A n \in 1 .. Len(s) : front[n] = s[n]
  BY <1>1
<1>8. front[Len(s) + 1] = x
  BY <1>1
<1>9. \A n \in 1 .. Len(s) + 1 : c[n] = front[n]
  BY <1>2
<1>10. \A n \in 1 .. Len(t) : c[Len(s) + 1 + n] = t[n]
  BY <1>2
<1> HIDE DEF c, front, m
<1>11. ASSUME NEW n \in DOMAIN c
       PROVE  /\ n <= Len(s) => c[n] \in NamesOf(s)
              /\ n = Len(s) + 1 => c[n] = x
              /\ n > Len(s) + 1 => c[n] \in NamesOf(t)
  <2>1. n \in 1 .. Len(s) + 1 + Len(t)
    BY <1>2, <1>4
  <2>2. n <= Len(s) => n \in DOMAIN s /\ c[n] = s[n]
    BY <1>6, <1>7, <1>9, <2>1
  <2>3. n = Len(s) + 1 => c[n] = x
    BY <1>6, <1>8, <1>9, <2>1
  <2>4. ASSUME n > Len(s) + 1 PROVE c[n] \in NamesOf(t)
    <3>1. n - (Len(s) + 1) \in 1 .. Len(t) /\ n = Len(s) + 1 + (n - (Len(s) + 1))
      BY <1>6, <2>1, <2>4
    <3>2. c[n] = t[n - (Len(s) + 1)]
      BY <1>10, <3>1
    <3> QED
      BY <1>6, <3>1, <3>2 DEF NamesOf
  <2> QED
    BY <2>2, <2>3, <2>4 DEF NamesOf
<1> QED
  BY <1>2, <1>3, <1>4, <1>5, <1>11 DEF Around, c, front, m

(* Where a particle is in its cascade tells which kind of plane it meets.    *)
LEMMA PlaneNames ==
    ASSUME NEW arm \in Arm
    PROVE  /\ Len(Magnets(arm)) \in Nat /\ Len(Cascade[arm]) \in Nat
           /\ DOMAIN Cascade[arm] = 1 .. Len(Cascade[arm])
           /\ Len(Magnets(arm)) + 1 <= Len(Cascade[arm])
           /\ Ends(arm) \cup {"trials", "hut"} \subseteq Counter[arm]
           /\ \A n \in DOMAIN Cascade[arm] :
                 /\ n <= Len(Magnets(arm)) => Cascade[arm][n] \in NamesOf(Magnets(arm))
                 /\ n = Len(Magnets(arm)) + 1 => Cascade[arm][n] = "hut"
                 /\ n > Len(Magnets(arm)) + 1 => Cascade[arm][n] \in NamesOf(Detectors(arm))
<1>1. PICK S : Magnets(arm) \in Seq(S) /\ Detectors(arm) \in Seq(S)
  BY NamesApart
<1>2. /\ Magnets(arm) \in Seq(S \cup {"hut"}) /\ Detectors(arm) \in Seq(S \cup {"hut"})
      /\ "hut" \in S \cup {"hut"}
  BY <1>1
<1>3. Cascade[arm] = Magnets(arm) \o <<"hut">> \o Detectors(arm)
  BY DEF Cascade
<1>4. Around(Cascade[arm], Magnets(arm), "hut", Detectors(arm))
  BY <1>2, <1>3, AroundElement, Zenon
<1>5. Len(Magnets(arm)) \in Nat /\ Len(Detectors(arm)) \in Nat
  BY <1>1
<1>6. Ends(arm) \cup {"trials", "hut"} \subseteq Counter[arm]
  BY <1>4 DEF Around, Ends, EndsPastHut, Counter
<1> QED
  BY <1>4, <1>5, <1>6 DEF Around

(* One more particle counted: the set of the counted particles grows by one  *)
(* when its counter is among those summed, and stays as it is otherwise.     *)
LEMMA CountedGrows ==
    ASSUME NEW S, NEW f \in [S -> Nat], NEW x \in S, NEW g \in [S -> Nat],
           g[x] = f[x] + 1, \A n \in S : n # x => g[n] = f[n],
           NEW names \in SUBSET S
    PROVE  /\ x \in names => /\ Counted(g, names) = Counted(f, names) \cup {<<x, f[x] + 1>>}
                             /\ <<x, f[x] + 1>> \notin Counted(f, names)
           /\ x \notin names => Counted(g, names) = Counted(f, names)
<1>1. \A h \in [S -> Nat] : \A z :
          z \in Counted(h, names) <=> \E n \in names : \E l \in 1 .. h[n] : z = <<n, l>>
  BY DEF Counted
<1>2. CASE x \notin names
  <2>1. \A n \in names : g[n] = f[n]
    BY <1>2
  <2> QED
    BY <1>2, <2>1 DEF Counted
<1>3. CASE x \in names
  <2>1. <<x, f[x] + 1>> \notin Counted(f, names)
    BY <1>1
  <2>2. ASSUME NEW z \in Counted(g, names)
        PROVE  z \in Counted(f, names) \cup {<<x, f[x] + 1>>}
    <3>1. PICK n \in names : \E l \in 1 .. g[n] : z = <<n, l>>
      BY <1>1
    <3>a. PICK l \in 1 .. g[n] : z = <<n, l>>
      BY <3>1
    <3>2. CASE l \in 1 .. f[n]
      BY <1>1, <3>a, <3>2
    <3>3. CASE l \notin 1 .. f[n]
      <4>1. n = x /\ l = f[x] + 1
        BY <3>a, <3>3
      <4> QED
        BY <3>a, <4>1
    <3> QED
      BY <3>2, <3>3
  <2>3. Counted(f, names) \subseteq Counted(g, names)
    <3>1. \A n \in names : 1 .. f[n] \subseteq 1 .. g[n]
      <4>1. \A n \in names : f[n] \in Nat /\ g[n] \in Nat /\ f[n] <= g[n]
        OBVIOUS
      <4> QED
        BY <4>1
    <3> QED
      BY <1>1, <3>1
  <2>4. <<x, f[x] + 1>> \in Counted(g, names)
    BY <1>1, <1>3
  <2> QED
    BY <1>3, <2>1, <2>2, <2>3, <2>4
<1> QED
  BY <1>2, <1>3

(* All counters of a spectrometer have counted finitely many particles.      *)
FinitelyMany == \A arm \in Arm : IsFiniteSet(Counted(STOP[arm], Counter[arm]))
StopType == DOMAIN STOP = Arm /\ \A arm \in Arm : STOP[arm] \in [Counter[arm] -> Nat]

LEMMA CountedSubset ==
    ASSUME NEW arm \in Arm, FinitelyMany, NEW names \in SUBSET Counter[arm]
    PROVE  IsFiniteSet(Counted(STOP[arm], names)) /\ Total(arm, names) \in Nat
<1>1. Counted(STOP[arm], names) \subseteq Counted(STOP[arm], Counter[arm])
  BY DEF Counted
<1>2. IsFiniteSet(Counted(STOP[arm], names))
  BY <1>1, FS_Subset DEF FinitelyMany
<1> QED
  BY <1>2, FS_CardinalityType DEF Total

(* What Count does to the sums of the counters.                              *)
LEMMA CountAddsOne ==
    ASSUME StopType, FinitelyMany, NEW a \in Arm, NEW name \in Counter[a], Count(a, name)
    PROVE  /\ FinitelyMany'
           /\ STOP'[a][name] = STOP[a][name] + 1
           /\ \A n \in Counter[a] : n # name => STOP'[a][n] = STOP[a][n]
           /\ \A arm \in Arm : arm # a => STOP'[arm] = STOP[arm]
           /\ \A names \in SUBSET Counter[a] :
                 /\ name \in names => Total(a, names)' = Total(a, names) + 1
                 /\ name \notin names => Total(a, names)' = Total(a, names)
<1> DEFINE f == STOP[a]
           g == STOP'[a]
<1>1. f \in [Counter[a] -> Nat]
  BY DEF StopType
<1>2. STOP' = [STOP EXCEPT ![a] = [STOP[a] EXCEPT ![name] = STOP[a][name] + 1]]
  BY DEF Count
<1>3. g = [f EXCEPT ![name] = f[name] + 1]
  BY <1>2 DEF StopType
<1>4. g \in [Counter[a] -> Nat] /\ g[name] = f[name] + 1
  BY <1>1, <1>3
<1>5. \A n \in Counter[a] : n # name => g[n] = f[n]
  BY <1>1, <1>3
<1>6. \A arm \in Arm : arm # a => STOP'[arm] = STOP[arm]
  BY <1>2 DEF StopType
<1>7. ASSUME NEW names \in SUBSET Counter[a]
      PROVE  /\ IsFiniteSet(Counted(g, names))
             /\ name \in names => Total(a, names)' = Total(a, names) + 1
             /\ name \notin names => Total(a, names)' = Total(a, names)
  <2> DEFINE before == Counted(f, names)
             after == Counted(g, names)
  <2>1. /\ name \in names => /\ after = before \cup {<<name, f[name] + 1>>}
                             /\ <<name, f[name] + 1>> \notin before
        /\ name \notin names => after = before
    <3> HIDE DEF f, g
    <3> QED
      BY <1>1, <1>4, <1>5, CountedGrows
  <2>2. IsFiniteSet(before)
    BY CountedSubset
  <2>3. Total(a, names) = Cardinality(before) /\ Total(a, names)' = Cardinality(after)
    BY DEF Total
  <2>4. /\ IsFiniteSet(after)
        /\ name \in names => Cardinality(after) = Cardinality(before) + 1
        /\ name \notin names => Cardinality(after) = Cardinality(before)
    <3> HIDE DEF before, after
    <3>1. CASE name \in names
      BY <2>1, <2>2, <3>1, FS_AddElement
    <3>2. CASE name \notin names
      BY <2>1, <2>2, <3>2
    <3> QED
      BY <3>1, <3>2
  <2> QED
    BY <2>3, <2>4
<1>8. FinitelyMany'
  <2>1. IsFiniteSet(Counted(g, Counter[a]))
    BY <1>7
  <2>2. \A arm \in Arm : arm # a => IsFiniteSet(Counted(STOP'[arm], Counter[arm]))
    BY <1>6 DEF FinitelyMany
  <2> QED
    BY <2>1, <2>2 DEF FinitelyMany
<1> QED
  BY <1>4, <1>5, <1>6, <1>7, <1>8

(* The inductive invariant: besides the sums, where the particle under way   *)
(* is in its cascade.                                                        *)
StopIInv ==
    /\ electron_arm \in Arm /\ side \in Side
    /\ StopType /\ FinitelyMany
    /\ stage = "spectrometer" => plane \in 1 .. Len(Cascade[ArmOf(side)]) + 1
    /\ StopsAccountForTrials

(* The two sums, as the actions see them: only where the particle is, and    *)
(* what was counted, matters.                                                *)
Accounts(arm, inSpectrometer, pastHut) ==
    /\ STOP[arm]["trials"] = Total(arm, Ends(arm)) + inSpectrometer
    /\ STOP[arm]["hut"] = Total(arm, EndsPastHut(arm)) + pastHut

Accounted(arm) == Accounts(arm, IF InSpectrometer(arm) THEN 1 ELSE 0,
                           IF PastHut(arm) THEN 1 ELSE 0)

LEMMA AccountsIs == StopsAccountForTrials <=> \A arm \in Arm : Accounted(arm)
  BY DEF StopsAccountForTrials, Accounted, Accounts, Ends

LEMMA AccountedIs ==
    ASSUME NEW arm
    PROVE  /\ ~InSpectrometer(arm)' /\ ~PastHut(arm)' /\ Accounts(arm, 0, 0)'
                  => Accounted(arm)'
           /\ InSpectrometer(arm)' /\ ~PastHut(arm)' /\ Accounts(arm, 1, 0)'
                  => Accounted(arm)'
           /\ InSpectrometer(arm)' /\ PastHut(arm)' /\ Accounts(arm, 1, 1)'
                  => Accounted(arm)'
  BY DEF Accounted, Accounts

LEMMA AccountsKept ==
    ASSUME NEW arm \in Arm, STOP'[arm] = STOP[arm], NEW in, NEW past, Accounts(arm, in, past)
    PROVE  Accounts(arm, in, past)'
  BY DEF Accounts, Total

(* A step that counts a particle: the accounts of its spectrometer move by   *)
(* what was counted.                                                         *)
LEMMA AccountsMove ==
    ASSUME StopType, FinitelyMany, NEW a \in Arm, NEW name \in Counter[a], Count(a, name)
    PROVE  /\ name = "trials" /\ Accounts(a, 0, 0) => Accounts(a, 1, 0)'
           /\ name = "hut" /\ Accounts(a, 1, 0) => Accounts(a, 1, 1)'
           /\ name \in NamesOf(Magnets(a)) /\ Accounts(a, 1, 0) => Accounts(a, 0, 0)'
           /\ name \in EndsPastHut(a) /\ Accounts(a, 1, 1) => Accounts(a, 0, 0)'
<1>1. "trials" \in Counter[a] /\ "hut" \in Counter[a]
  BY PlaneNames
<1>2. Ends(a) \in SUBSET Counter[a] /\ EndsPastHut(a) \in SUBSET Counter[a]
  BY PlaneNames DEF Ends
<1>3. Total(a, Ends(a)) \in Nat /\ Total(a, EndsPastHut(a)) \in Nat
  BY <1>2, CountedSubset
<1>4. /\ name \in Ends(a) => Total(a, Ends(a))' = Total(a, Ends(a)) + 1
      /\ name \notin Ends(a) => Total(a, Ends(a))' = Total(a, Ends(a))
      /\ name \in EndsPastHut(a) => Total(a, EndsPastHut(a))' = Total(a, EndsPastHut(a)) + 1
      /\ name \notin EndsPastHut(a) => Total(a, EndsPastHut(a))' = Total(a, EndsPastHut(a))
      /\ STOP'[a][name] = STOP[a][name] + 1
      /\ \A n \in Counter[a] : n # name => STOP'[a][n] = STOP[a][n]
  BY <1>2, CountAddsOne
<1>5. /\ NamesOf(Magnets(a)) \cap EndsPastHut(a) = {}
      /\ "trials" \notin Ends(a) /\ "hut" \notin Ends(a)
      /\ EndsPastHut(a) \subseteq Ends(a) /\ NamesOf(Magnets(a)) \subseteq Ends(a)
  BY NamesApart DEF Ends, EndsPastHut
<1>6. \A i, p \in Int :
          /\ Accounts(a, i, p) <=> /\ STOP[a]["trials"] = Total(a, Ends(a)) + i
                                   /\ STOP[a]["hut"] = Total(a, EndsPastHut(a)) + p
          /\ Accounts(a, i, p)' <=> /\ STOP'[a]["trials"] = Total(a, Ends(a))' + i
                                    /\ STOP'[a]["hut"] = Total(a, EndsPastHut(a))' + p
  BY DEF Accounts
<1>7. ASSUME name = "trials", Accounts(a, 0, 0) PROVE Accounts(a, 1, 0)'
  <2>1. "trials" # "hut" /\ "trials" \notin EndsPastHut(a)
    BY <1>5
  <2> QED
    BY <1>1, <1>3, <1>4, <1>5, <1>6, <1>7, <2>1
<1>8. ASSUME name = "hut", Accounts(a, 1, 0) PROVE Accounts(a, 1, 1)'
  <2>1. "trials" # "hut" /\ "hut" \notin EndsPastHut(a)
    BY <1>5
  <2> QED
    BY <1>1, <1>3, <1>4, <1>5, <1>6, <1>8, <2>1
<1>9. ASSUME name \in Ends(a)
      PROVE  STOP'[a]["trials"] = STOP[a]["trials"] /\ STOP'[a]["hut"] = STOP[a]["hut"]
  BY <1>1, <1>4, <1>5, <1>9
<1>10. ASSUME name \in NamesOf(Magnets(a)), Accounts(a, 1, 0) PROVE Accounts(a, 0, 0)'
  <2>1. name \in Ends(a) /\ name \notin EndsPastHut(a)
    BY <1>5, <1>10
  <2> QED
    BY <1>3, <1>4, <1>6, <1>9, <1>10, <2>1
<1>11. ASSUME name \in EndsPastHut(a), Accounts(a, 1, 1) PROVE Accounts(a, 0, 0)'
  <2>1. name \in Ends(a)
    BY <1>5, <1>11
  <2> QED
    BY <1>3, <1>4, <1>6, <1>9, <1>11, <2>1
<1> QED
  BY <1>7, <1>8, <1>10, <1>11

LEMMA StopStep ==
    ASSUME StopIInv, [TransportNext]_<<vars, transport>> PROVE StopIInv'
<1>z. PICK a \in Arm : ArmOf(side) = a
  BY DEF StopIInv, ArmOf, HadronArm, Arm
<1> DEFINE L == Len(Magnets(a))
<1>0. /\ StopType /\ FinitelyMany /\ electron_arm \in Arm /\ side \in Side
      /\ ArmOf(side) = a /\ electron_arm' = electron_arm
  BY <1>z DEF StopIInv, TransportNext, LoopStep, CallMontecarlo, CopyThrough, EnterSpectrometer,
         PassPlane, StopAtPlane, LeaveSpectrometer, Complete, vars
<1>t. side' \in Side
  BY <1>0 DEF Side, TransportNext, LoopStep, CallMontecarlo, CopyThrough, EnterSpectrometer, PassPlane, StopAtPlane,
              LeaveSpectrometer, LeaveArm, Complete, vars
<1>a. \A arm \in Arm : stage # "spectrometer" \/ arm # a => Accounts(arm, 0, 0)
  BY <1>z, AccountsIs DEF StopIInv, InSpectrometer, PastHut, Accounted
<1>b. ASSUME stage = "spectrometer"
      PROVE  /\ plane \in 1 .. Len(Cascade[a]) + 1 /\ L \in Nat
             /\ plane <= L + 1 => Accounts(a, 1, 0)
             /\ plane > L + 1 => Accounts(a, 1, 1)
  BY <1>0, <1>b, AccountsIs, PlaneNames DEF StopIInv, InSpectrometer, PastHut, Accounted
(* What is left to show of a step that leaves the spectrometers alone, and   *)
(* of one after which no particle is in them.                                *)
<1>c. ASSUME StopType', FinitelyMany',
             stage' = "spectrometer" =>
                 plane' \in 1 .. Len(Cascade[ArmOf(side)']) + 1,
             \A arm \in Arm : Accounted(arm)'
      PROVE  StopIInv'
  <2>1. StopsAccountForTrials'
    BY <1>c DEF StopsAccountForTrials, Accounted, Accounts, Ends
  <2> QED
    BY <1>0, <1>t, <1>c, <2>1 DEF StopIInv
<1>d. ASSUME STOP' = STOP PROVE StopType' /\ FinitelyMany'
  BY <1>0, <1>d DEF StopType, FinitelyMany
<1>1. CASE STOP' = STOP /\ stage # "spectrometer" /\ stage' # "spectrometer"
  <2>1. \A arm \in Arm : Accounts(arm, 0, 0)'
    BY <1>1, <1>a, AccountsKept
  <2>2. \A arm \in Arm : ~InSpectrometer(arm)' /\ ~PastHut(arm)'
    BY <1>1 DEF InSpectrometer, PastHut
  <2> QED
    BY <1>1, <1>c, <1>d, <2>1, <2>2, AccountedIs
<1>2. CASE CallMontecarlo \/ CopyThrough \/ (\E refused, pass_cuts \in BOOLEAN : Complete(refused, pass_cuts))
  BY <1>1, <1>2 DEF CallMontecarlo, CopyThrough, LeaveArm, Complete
<1>n. ASSUME NEW name \in Counter[a], Count(a, name)
      PROVE  StopType' /\ FinitelyMany'
             /\ \A arm \in Arm : arm # a => Accounts(arm, 0, 0)'
  <2>1. StopType'
    BY <1>0, <1>n, CountType DEF StopType
  <2>2. FinitelyMany' /\ \A arm \in Arm : arm # a => STOP'[arm] = STOP[arm]
    BY <1>0, <1>n, CountAddsOne
  <2> QED
    BY <1>a, <2>1, <2>2, AccountsKept
<1>e. ASSUME stage' # "spectrometer", NEW name \in Counter[a], Count(a, name), Accounts(a, 0, 0)'
      PROVE  StopIInv'
  <2>1. \A arm \in Arm : ~InSpectrometer(arm)' /\ ~PastHut(arm)'
    BY <1>e DEF InSpectrometer, PastHut
  <2>2. StopType' /\ FinitelyMany' /\ \A arm \in Arm : arm # a => Accounts(arm, 0, 0)'
    BY <1>e, <1>n
  <2> QED
    BY <1>c, <1>e, <2>1, <2>2, AccountedIs
<1>3. CASE EnterSpectrometer
  <2>1. /\ stage = "arm" /\ stage' = "spectrometer" /\ plane' = 1 /\ side' = side
        /\ Count(a, "trials") /\ ArmOf(side)' = a
    BY <1>0, <1>3 DEF EnterSpectrometer, ArmOf, HadronArm
  <2>2. "trials" \in Counter[a]
    BY <1>0, PlaneNames
  <2>3. Accounts(a, 1, 0)'
    BY <1>0, <1>a, <2>1, <2>2, AccountsMove
  <2>4. StopType' /\ FinitelyMany' /\ \A arm \in Arm : arm # a => Accounts(arm, 0, 0)'
    BY <1>n, <2>1, <2>2
  <2>5. plane' \in 1 .. Len(Cascade[ArmOf(side)']) + 1 /\ ~(plane' > L + 1)
    BY <1>0, <2>1, PlaneNames
  <2>6. \A arm \in Arm : /\ InSpectrometer(arm)' <=> arm = a
                         /\ ~PastHut(arm)'
    BY <2>1, <2>5 DEF InSpectrometer, PastHut
  <2> QED
    BY <1>c, <2>1, <2>3, <2>4, <2>5, <2>6, AccountedIs
<1>4. CASE PassPlane
  <2>1. /\ stage = "spectrometer" /\ stage' = "spectrometer" /\ plane \in DOMAIN Cascade[a]
        /\ plane' = plane + 1 /\ side' = side /\ ArmOf(side)' = a
    BY <1>0, <1>4 DEF PassPlane, AtPlane, ArmOf, HadronArm
  <2>2. /\ plane' \in 1 .. Len(Cascade[ArmOf(side)']) + 1
        /\ Cascade[a][plane] = "hut" <=> plane = L + 1
    BY <1>0, <1>b, <2>1, PlaneNames, NamesApart DEF Ends, EndsPastHut
  <2>3. \A arm \in Arm : /\ InSpectrometer(arm)' <=> arm = a
                         /\ PastHut(arm)' <=> arm = a /\ plane + 1 > L + 1
    BY <2>1 DEF InSpectrometer, PastHut
  <2>4. CASE Cascade[a][plane] = "hut"
    <3>1. Count(a, "hut") /\ "hut" \in Counter[a]
      BY <1>0, <1>4, <2>4, PlaneNames DEF PassPlane, ThisPlane
    <3>2. Accounts(a, 1, 0)
      BY <1>b, <2>1, <2>2, <2>4
    <3>3. Accounts(a, 1, 1)'
      BY <1>0, <3>1, <3>2, AccountsMove
    <3>4. StopType' /\ FinitelyMany' /\ \A arm \in Arm : arm # a => Accounts(arm, 0, 0)'
      BY <1>n, <3>1
    <3>5. plane + 1 > L + 1
      BY <1>b, <2>1, <2>2, <2>4
    <3> QED
      BY <1>c, <2>2, <2>3, <3>3, <3>4, <3>5, AccountedIs
  <2>5. CASE Cascade[a][plane] # "hut"
    <3>1. STOP' = STOP
      BY <1>0, <1>4, <2>5 DEF PassPlane, ThisPlane
    <3>2. plane + 1 > L + 1 <=> plane > L + 1
      BY <1>b, <2>1, <2>2, <2>5
    <3>3. /\ plane <= L + 1 => Accounts(a, 1, 0)'
          /\ plane > L + 1 => Accounts(a, 1, 1)'
      BY <1>0, <1>b, <2>1, <3>1, AccountsKept
    <3>4. \A arm \in Arm : arm # a => Accounts(arm, 0, 0)'
      BY <1>a, <3>1, AccountsKept
    <3>5. plane <= L + 1 \/ plane > L + 1
      BY <1>b, <2>1
    <3> QED
      BY <1>c, <1>d, <2>2, <2>3, <3>1, <3>2, <3>3, <3>4, <3>5, AccountedIs
  <2> QED
    BY <2>4, <2>5
<1>5. CASE StopAtPlane
  <2>1. /\ stage = "spectrometer" /\ stage' = "complete" /\ plane \in DOMAIN Cascade[a]
        /\ Cascade[a][plane] # "hut" /\ Count(a, Cascade[a][plane])
    BY <1>0, <1>5 DEF StopAtPlane, AtPlane, ThisPlane, StopsHere
  <2>2. Cascade[a][plane] \in Counter[a]
    BY <1>0, <2>1 DEF Counter, NamesOf
  <2>3. CASE plane <= L
    <3>1. Accounts(a, 1, 0) /\ Cascade[a][plane] \in NamesOf(Magnets(a))
      BY <1>0, <1>b, <2>1, <2>3, PlaneNames
    <3>2. Accounts(a, 0, 0)'
      BY <1>0, <2>1, <2>2, <3>1, AccountsMove
    <3> QED
      BY <1>e, <2>1, <2>2, <3>2
  <2>4. CASE plane > L + 1
    <3>1. Accounts(a, 1, 1) /\ Cascade[a][plane] \in EndsPastHut(a)
      BY <1>0, <1>b, <2>1, <2>4, PlaneNames DEF EndsPastHut
    <3>2. Accounts(a, 0, 0)'
      BY <1>0, <2>1, <2>2, <3>1, AccountsMove
    <3> QED
      BY <1>e, <2>1, <2>2, <3>2
  <2>5. plane # L + 1
    BY <1>0, <2>1, PlaneNames
  <2> QED
    BY <1>0, <1>b, <2>1, <2>3, <2>4, <2>5
<1>6. CASE LeaveSpectrometer
  <2>1. /\ stage = "spectrometer" /\ stage' # "spectrometer" /\ plane = Len(Cascade[a]) + 1
        /\ Count(a, "successes")
    BY <1>0, <1>6 DEF LeaveSpectrometer, LeaveArm
  <2>2. "successes" \in EndsPastHut(a) /\ "successes" \in Counter[a]
    BY <1>0 DEF EndsPastHut, Counter
  <2>3. Accounts(a, 1, 1)
    BY <1>0, <1>b, <2>1, PlaneNames
  <2>4. Accounts(a, 0, 0)'
    BY <1>0, <2>1, <2>2, <2>3, AccountsMove
  <2> QED
    BY <1>e, <2>1, <2>2, <2>4
<1>7. CASE UNCHANGED transport
  BY <1>7 DEF StopIInv, StopType, FinitelyMany, StopsAccountForTrials, Total,
              InSpectrometer, PastHut, ArmOf, HadronArm
<1> QED
  BY <1>2, <1>3, <1>4, <1>5, <1>6, <1>7 DEF TransportNext, LoopStep

LEMMA StopInit == TransportInit => StopIInv
<1> SUFFICES ASSUME TransportInit PROVE StopIInv
  OBVIOUS
<1>1. StopType /\ \A arm \in Arm : \A name \in Counter[arm] : STOP[arm][name] = 0
  BY DEF TransportInit, StopType
<1>2. \A arm \in Arm : \A names \in SUBSET Counter[arm] : Counted(STOP[arm], names) = {}
  BY <1>1 DEF Counted
<1>3. FinitelyMany
  BY <1>2, FS_EmptySet DEF FinitelyMany
<1>4. ASSUME NEW arm \in Arm PROVE Accounts(arm, 0, 0)
  <2>1. /\ Ends(arm) \in SUBSET Counter[arm] /\ EndsPastHut(arm) \in SUBSET Counter[arm]
        /\ "trials" \in Counter[arm] /\ "hut" \in Counter[arm]
    BY PlaneNames DEF Ends
  <2> QED
    BY <1>1, <1>2, <2>1, FS_EmptySet DEF Accounts, Total
<1>5. \A arm \in Arm : ~InSpectrometer(arm) /\ ~PastHut(arm)
  BY DEF TransportInit, InSpectrometer, PastHut
<1>6. StopsAccountForTrials
  BY <1>4, <1>5, AccountsIs DEF Accounted
<1> QED
  BY <1>1, <1>3, <1>6 DEF StopIInv, TransportInit, Side

(* For dat files of any length, the counters of a spectrometer account for   *)
(* every particle sent into it: although planes share counters and the       *)
(* counts of the hut begin at its own counter, none is stopped twice, none   *)
(* is lost, and none that is stopped succeeds.                               *)
THEOREM StopsAddUp == TransportSpec => []StopsAccountForTrials
<1>1. StopIInv => StopsAccountForTrials
  BY DEF StopIInv
<1> QED
  BY StopInit, StopStep, <1>1, PTL DEF TransportSpec
==============================================================================
