------------------------------- MODULE LadProofs -------------------------------
(***************************************************************************)
(* Proofs about the LAD application: LadG4 (DIS mode) for any set of       *)
(* worker threads and any number of events; after it Generators (the other *)
(* primary generators) for any LUND files and any runs; and LadDetector    *)
(* for any LAD.ini and any bars that tracks aim at.                        *)
(***************************************************************************)
EXTENDS LadG4, MCLadDetector, SequenceTheorems, FiniteSetTheorems, NaturalsInduction,
        WellFoundedInduction, TLAPS

Numbered == \A w \in Workers : pc[w] \in InEvent => evtID[w] \in 0 .. next_event - 1

USE DEF run, trees, hits, Go

HodoEntry == [id : EventIds, hits : SUBSET EventIds]

(* One more entry in the tree of a worker.                                   *)
LEMMA FillType ==
    ASSUME NEW tree \in [Workers -> Seq(HodoEntry)], NEW w \in Workers,
           NEW entry \in HodoEntry
    PROVE  HodoFill(tree, w, entry) \in [Workers -> Seq(HodoEntry)]
<1>1. tree[w] \in Seq(HodoEntry)
  OBVIOUS
<1>2. Append(tree[w], entry) \in Seq(HodoEntry)
  BY <1>1
<1> QED
  BY <1>2 DEF HodoFill

LEMMA FillHodoType ==
    ASSUME TypeOK, Numbered, NEW w \in Workers, pc[w] = "end", FillHodo(w),
           UNCHANGED beam_on
    PROVE  /\ hodoenergy' \in [Workers -> Seq(HodoEntry)]
           /\ hodoposition' \in [Workers -> Seq(HodoEntry)]
<1>1. evtID[w] \in EventIds
  BY LadAssumption DEF TypeOK, Numbered, InEvent, EventIds
<1>2. /\ hodoenergy \in [Workers -> Seq(HodoEntry)]
      /\ hodoposition \in [Workers -> Seq(HodoEntry)]
  BY DEF TypeOK, HodoEntry
<1>3. /\ [id |-> evtID[w], hits |-> vEneDep[w]] \in HodoEntry
      /\ [id |-> evtID[w], hits |-> vPaddle[w]] \in HodoEntry
  BY <1>1 DEF TypeOK, HodoEntry
<1> QED
  BY <1>2, <1>3, FillType DEF FillHodo

TypeAndNumbers == TypeOK /\ Numbered

LEMMA InitTypes == Init => TypeAndNumbers
<1> SUFFICES ASSUME Init PROVE TypeAndNumbers
  OBVIOUS
<1>1. primaries = <<>> /\ next_event = 0 /\ pc = [w \in Workers |-> "book"]
  BY DEF Init
<1>2. /\ hodoenergy \in [Workers -> Seq(HodoEntry)]
      /\ hodoposition \in [Workers -> Seq(HodoEntry)]
  BY DEF Init
<1>3. gemana \in [Workers -> Seq(SUBSET EventIds)]
  BY DEF Init
<1>4. Numbered
  BY <1>1 DEF Numbered, InEvent
<1>5. TypeOK
  BY <1>1, <1>2, <1>3, LadAssumption DEF Init, TypeOK, HodoEntry, Entries
<1> QED
  BY <1>4, <1>5 DEF TypeAndNumbers

(* A sequence is a function on an initial segment of the numbers.            *)
LEMMA SeqIsFunction ==
    ASSUME NEW R
    PROVE  /\ \A s \in Seq(R) : Len(s) \in Nat /\ s \in [1 .. Len(s) -> R]
           /\ \A n \in Nat : \A f \in [1 .. n -> R] : f \in Seq(R) /\ Len(f) = n
  OBVIOUS

(* Writing an entry into a vertex changes nothing of the other events.       *)
LEMMA PrimariesType ==
    ASSUME TypeOK, NEW n \in Int, NEW entry \in Entries
    PROVE  /\ Len([primaries EXCEPT ![n].electron = entry]) = Len(primaries)
           /\ Len([primaries EXCEPT ![n].recoil = entry]) = Len(primaries)
           /\ [primaries EXCEPT ![n].electron = entry]
                  \in Seq([electron : Entries, recoil : Entries])
           /\ [primaries EXCEPT ![n].recoil = entry]
                  \in Seq([electron : Entries, recoil : Entries])
<1> DEFINE R == [electron : Entries, recoil : Entries]
           e == [primaries EXCEPT ![n].electron = entry]
           r == [primaries EXCEPT ![n].recoil = entry]
<1>1. primaries \in Seq(R)
  BY DEF TypeOK
<1>2. /\ primaries \in [1 .. Len(primaries) -> R]
      /\ Len(primaries) \in Nat
  <2> HIDE DEF R
  <2> QED
    BY <1>1, SeqIsFunction
<1>3. e \in [1 .. Len(primaries) -> R] /\ r \in [1 .. Len(primaries) -> R]
  BY <1>2
<1> QED
  <2> HIDE DEF R, e, r
  <2>1. /\ e \in Seq(R) /\ Len(e) = Len(primaries)
        /\ r \in Seq(R) /\ Len(r) = Len(primaries)
    BY <1>2, <1>3, SeqIsFunction
  <2> QED
    BY <2>1 DEF R, e, r

LEMMA StepTypes == TypeAndNumbers /\ [Next]_vars => TypeAndNumbers'
<1> SUFFICES ASSUME TypeOK, Numbered, [Next]_vars PROVE TypeOK' /\ Numbered'
  BY DEF TypeAndNumbers
<1> USE LadAssumption
<1>1. ASSUME NEW w \in Workers, Book(w) PROVE TypeOK' /\ Numbered'
  BY <1>1 DEF Book, TypeOK, Numbered, InEvent, Entries, EventIds
<1>2. ASSUME NEW w \in Workers, TakeEvent(w) PROVE TypeOK' /\ Numbered'
  <2>1. /\ primaries' \in Seq([electron : Entries, recoil : Entries])
        /\ Len(primaries') = Len(primaries) + 1
    <3>1. [electron |-> NoEntry, recoil |-> NoEntry] \in [electron : Entries, recoil : Entries]
      BY DEF Entries
    <3> QED
      BY <1>2, <3>1 DEF TakeEvent, TypeOK
  <2>2. next_event \in EventIds /\ next_event' \in 0 .. beam_on
    BY <1>2 DEF TakeEvent, TypeOK, EventIds
  <2>3. Numbered'
    BY <1>2, <2>2 DEF TakeEvent, TypeOK, Numbered, InEvent, EventIds
  <2>4. TypeOK'
    BY <1>2, <2>1, <2>2 DEF TakeEvent, TypeOK, Entries, EventIds
  <2> QED
    BY <2>3, <2>4
<1>3. ASSUME NEW w \in Workers, ReadEntry(w) PROVE TypeOK' /\ Numbered'
  <2>1. buffer' \in Entries
    BY <1>3 DEF ReadEntry, OutOfRange, EntryOf, TypeOK, Entries, Numbered, InEvent
  <2> QED
    BY <1>3, <2>1 DEF ReadEntry, TypeOK, Numbered, InEvent, Entries, EventIds
<1>4. ASSUME NEW w \in Workers, PastTheEnd(w) PROVE TypeOK' /\ Numbered'
  BY <1>4 DEF PastTheEnd, TypeOK, Numbered, InEvent, Entries, EventIds
<1>4a. ASSUME NEW w \in Workers, NoSample(w) PROVE TypeOK' /\ Numbered'
  BY <1>4a DEF NoSample, TypeOK, Numbered, InEvent, Entries, EventIds
<1>5. ASSUME NEW w \in Workers, ElectronVertex(w) PROVE TypeOK' /\ Numbered'
  <2>0. evtID[w] \in EventIds \cup {NoEntry} /\ buffer \in Entries
    BY DEF TypeOK
  <2>1. evtID[w] + 1 \in Int
    BY <2>0 DEF EventIds, NoEntry
  <2>2. /\ primaries' \in Seq([electron : Entries, recoil : Entries])
        /\ Len(primaries') = Len(primaries)
    BY <1>5, <2>0, <2>1, PrimariesType DEF ElectronVertex
  <2> QED
    BY <1>5, <2>2 DEF ElectronVertex, TypeOK, Numbered, InEvent, Entries, EventIds
<1>6. ASSUME NEW w \in Workers, RecoilVertex(w) PROVE TypeOK' /\ Numbered'
  <2>0. evtID[w] \in EventIds \cup {NoEntry} /\ buffer \in Entries
    BY DEF TypeOK
  <2>1. evtID[w] + 1 \in Int
    BY <2>0 DEF EventIds, NoEntry
  <2>2. /\ primaries' \in Seq([electron : Entries, recoil : Entries])
        /\ Len(primaries') = Len(primaries)
    BY <1>6, <2>0, <2>1, PrimariesType DEF RecoilVertex, TypeOK
  <2> QED
    BY <1>6, <2>2 DEF RecoilVertex, TypeOK, Numbered, InEvent, Entries, EventIds
<1>7. ASSUME NEW w \in Workers, BeginOfEvent(w) PROVE TypeOK' /\ Numbered'
  BY <1>7 DEF BeginOfEvent, AtBegin, TypeOK, Numbered, InEvent, Entries, EventIds
<1>8. ASSUME NEW w \in Workers, Track(w) PROVE TypeOK' /\ Numbered'
  <2>1. evtID[w] \in EventIds
    BY <1>8 DEF Track, TypeOK, Numbered, InEvent, EventIds
  <2>2. /\ vEneDep' \in [Workers -> SUBSET EventIds]
        /\ vPaddle' \in [Workers -> SUBSET EventIds]
    BY <1>8, <2>1 DEF Track, TypeOK
  <2>3. Numbered'
    BY <1>8 DEF Track, TypeOK, Numbered, InEvent
  <2> QED
    BY <1>8, <2>2, <2>3 DEF Track, TypeOK, Entries, EventIds
<1>9. ASSUME NEW w \in Workers, EndOfEvent(w) PROVE TypeOK' /\ Numbered'
  <2>0. pc[w] = "end" /\ FillHodo(w) /\ UNCHANGED beam_on
    BY <1>9 DEF EndOfEvent
  <2>1. evtID[w] \in EventIds
    BY <2>0 DEF TypeOK, Numbered, InEvent, EventIds
  <2>2. PICK g \in SUBSET {evtID[w]} :
            /\ gemana' = [gemana EXCEPT ![w] = Append(@, vChamber[w] \cup g)]
            /\ vChamber' = AfterFillGEM(w, vChamber[w] \cup g)
    BY <1>9 DEF EndOfEvent
  <2>3. gemana' \in [Workers -> Seq(SUBSET EventIds)]
    <3>1. gemana \in [Workers -> Seq(SUBSET EventIds)] /\ gemana[w] \in Seq(SUBSET EventIds)
      BY DEF TypeOK
    <3>2. vChamber[w] \cup g \in SUBSET EventIds
      BY <2>1 DEF TypeOK
    <3>3. Append(gemana[w], vChamber[w] \cup g) \in Seq(SUBSET EventIds)
      BY <3>1, <3>2
    <3> QED
      BY <2>2, <3>1, <3>3
  <2>4. vChamber' \in [Workers -> SUBSET EventIds]
    BY <2>2 DEF AfterFillGEM, TypeOK
  <2>5. Numbered'
    BY <1>9 DEF EndOfEvent, TypeOK, Numbered, InEvent
  <2> QED
    BY <1>9, <2>0, <2>3, <2>4, <2>5, FillHodoType
       DEF EndOfEvent, TypeOK, Entries, EventIds, HodoEntry
<1>10. ASSUME NEW w \in Workers, EndOfEventMissing(w) PROVE TypeOK' /\ Numbered'
  <2>0. pc[w] = "end" /\ FillHodo(w) /\ UNCHANGED beam_on
    BY <1>10 DEF EndOfEventMissing
  <2>1. evtID[w] \in EventIds
    BY <2>0 DEF TypeOK, Numbered, InEvent, EventIds
  <2>4. vChamber' \in [Workers -> SUBSET EventIds]
    BY <1>10, <2>1 DEF EndOfEventMissing, TypeOK
  <2>5. Numbered'
    BY <1>10 DEF EndOfEventMissing, TypeOK, Numbered, InEvent
  <2> QED
    BY <1>10, <2>0, <2>4, <2>5, FillHodoType
       DEF EndOfEventMissing, TypeOK, Entries, EventIds, HodoEntry
<1>11. ASSUME NEW w \in Workers, EndOfRun(w) PROVE TypeOK' /\ Numbered'
  BY <1>11 DEF EndOfRun, TypeOK, Numbered, InEvent, Entries, EventIds
<1>12. CASE UNCHANGED vars
  BY <1>12 DEF vars, TypeOK, Numbered, Entries, EventIds
<1> QED
  BY <1>1, <1>2, <1>3, <1>4, <1>4a, <1>5, <1>6, <1>7, <1>8, <1>9, <1>10, <1>11, <1>12
     DEF Next, Worker, Terminated

(* Type correctness of the application, with any number of workers.          *)
THEOREM TypeCorrect == Spec => []TypeOK
<1>1. Spec => []TypeAndNumbers
  BY InitTypes, StepTypes, PTL DEF Spec
<1>2. TypeAndNumbers => TypeOK
  BY DEF TypeAndNumbers
<1> QED
  BY <1>1, <1>2, PTL
------------------------------------------------------------------------------
(* What holds of the trees of one worker.  Its entries are in step, with     *)
(* growing ids below that of the event under way, and hold hits of their own *)
(* event; so do the vectors while they are filled.                           *)
HodoInv(w) ==
    LET ene == hodoenergy[w]  pos == hodoposition[w]
    IN  /\ Len(ene) = Len(pos)
        /\ \A k \in 1 .. Len(ene) :
               /\ ene[k].id = pos[k].id
               /\ ene[k].hits \subseteq {ene[k].id}
               /\ pos[k].hits \subseteq {ene[k].id}
               /\ k > 1 => ene[k - 1].id < ene[k].id
               /\ ene[k].id < next_event
               /\ pc[w] \in InEvent => ene[k].id < evtID[w]
        /\ pc[w] \in {"track", "end"} =>
               vEneDep[w] \subseteq {evtID[w]} /\ vPaddle[w] \subseteq {evtID[w]}

(* The GEM tree is never longer than the hodoscope trees, and as long as it  *)
(* is as long, nothing of an earlier event is left in its vectors.           *)
GemInv(w) ==
    /\ Len(gemana[w]) <= Len(hodoenergy[w])
    /\ Len(gemana[w]) = Len(hodoenergy[w]) =>
           /\ vChamber[w] = {}
           /\ \A k \in 1 .. Len(gemana[w]) : gemana[w][k] \subseteq {hodoenergy[w][k].id}

(* No event handed out gets lost, nothing is read from a sample that is not  *)
(* there, and a file is closed only when its worker is through.              *)
Handled == \A e \in 0 .. next_event - 1 : Recorded(e) \/ InHand(e)
Unread ==
    dis_file # "tree" =>
        \A w \in Workers : hodoenergy[w] = <<>> /\ pc[w] \in {"book", "idle", "read", "over"}
SavedAtTheEnd == \A w \in saved : pc[w] = "over"

IInv ==
    /\ TypeAndNumbers
    /\ \A w \in Workers : HodoInv(w) /\ GemInv(w)
    /\ Handled /\ Unread /\ SavedAtTheEnd
    /\ BreaksOffAfterTheSample

LEMMA EntryIds ==
    ASSUME TypeAndNumbers, NEW w \in Workers
    PROVE  \A k \in 1 .. Len(hodoenergy[w]) : hodoenergy[w][k].id \in Int
<1>1. hodoenergy[w] \in Seq(HodoEntry)
  BY DEF TypeAndNumbers, TypeOK, HodoEntry
<1>2. \A k \in 1 .. Len(hodoenergy[w]) : hodoenergy[w][k] \in HodoEntry
  BY <1>1
<1>3. EventIds \subseteq Int
  BY DEF EventIds
<1> QED
  BY <1>2, <1>3 DEF HodoEntry

(* The trees of a worker that does not touch them keep what holds of them.   *)
LEMMA Untouched ==
    ASSUME TypeAndNumbers, TypeAndNumbers', NEW w \in Workers, HodoInv(w), GemInv(w),
           hodoenergy'[w] = hodoenergy[w], hodoposition'[w] = hodoposition[w],
           gemana'[w] = gemana[w], vChamber'[w] = vChamber[w],
           evtID'[w] = evtID[w], next_event' >= next_event,
           pc'[w] \in InEvent => pc[w] \in InEvent,
           pc'[w] \in {"track", "end"} =>
               vEneDep'[w] \subseteq {evtID[w]} /\ vPaddle'[w] \subseteq {evtID[w]}
    PROVE  HodoInv(w)' /\ GemInv(w)'
<1>1. next_event \in Int /\ next_event' \in Int
  BY LadAssumption DEF TypeAndNumbers, TypeOK
<1>2. \A k \in 1 .. Len(hodoenergy[w]) : hodoenergy[w][k].id \in Int
  BY EntryIds
<1>3. ASSUME NEW k \in 1 .. Len(hodoenergy[w])
      PROVE  /\ hodoenergy[w][k].id < next_event'
             /\ pc'[w] \in InEvent => hodoenergy[w][k].id < evtID'[w]
  <2>1. /\ hodoenergy[w][k].id < next_event
        /\ pc[w] \in InEvent => hodoenergy[w][k].id < evtID[w]
    BY DEF HodoInv
  <2>2. hodoenergy[w][k].id \in Int
    BY <1>2
  <2> QED
    BY <1>1, <2>1, <2>2
<1>4. HodoInv(w)'
  BY <1>3 DEF HodoInv
<1>5. GemInv(w)'
  BY DEF GemInv
<1> QED
  BY <1>4, <1>5

LEMMA UntouchedByOther ==
    ASSUME TypeAndNumbers, TypeAndNumbers', NEW w \in Workers, HodoInv(w), GemInv(w),
           hodoenergy'[w] = hodoenergy[w], hodoposition'[w] = hodoposition[w],
           gemana'[w] = gemana[w], vChamber'[w] = vChamber[w],
           vEneDep'[w] = vEneDep[w], vPaddle'[w] = vPaddle[w],
           evtID'[w] = evtID[w], next_event' >= next_event, pc'[w] = pc[w]
    PROVE  HodoInv(w)' /\ GemInv(w)'
<1>1. pc[w] \in {"track", "end"} =>
          vEneDep[w] \subseteq {evtID[w]} /\ vPaddle[w] \subseteq {evtID[w]}
  BY DEF HodoInv
<1> QED
  BY <1>1, Untouched

(* The end of an event adds one entry to both hodoscope trees.               *)
LEMMA Filled ==
    ASSUME TypeAndNumbers, NEW w \in Workers, HodoInv(w), pc[w] = "end",
           FillHodo(w), pc'[w] = "idle", next_event' = next_event
    PROVE  /\ HodoInv(w)'
           /\ Len(hodoenergy'[w]) = Len(hodoenergy[w]) + 1
           /\ hodoenergy'[w][Len(hodoenergy'[w])].id = evtID[w]
           /\ \A k \in 1 .. Len(hodoenergy[w]) : hodoenergy'[w][k] = hodoenergy[w][k]
<1> DEFINE ene == hodoenergy[w]  pos == hodoposition[w]
           e == [id |-> evtID[w], hits |-> vEneDep[w]]
           p == [id |-> evtID[w], hits |-> vPaddle[w]]
<1>1. /\ evtID[w] \in Int /\ evtID[w] < next_event /\ next_event \in Int
  BY LadAssumption DEF TypeAndNumbers, TypeOK, Numbered, InEvent
<1>2. ene \in Seq(HodoEntry) /\ pos \in Seq(HodoEntry)
  BY DEF TypeAndNumbers, TypeOK, HodoEntry
<1>3. hodoenergy'[w] = Append(ene, e) /\ hodoposition'[w] = Append(pos, p)
  BY DEF FillHodo, HodoFill, TypeAndNumbers, TypeOK
<1>4. /\ vEneDep[w] \subseteq {evtID[w]} /\ vPaddle[w] \subseteq {evtID[w]}
      /\ Len(ene) = Len(pos)
      /\ \A k \in 1 .. Len(ene) : ene[k].id < evtID[w]
  BY DEF HodoInv, InEvent
<1>5. /\ Len(hodoenergy'[w]) = Len(ene) + 1 /\ Len(hodoposition'[w]) = Len(ene) + 1
      /\ Len(ene) \in Nat
      /\ hodoenergy'[w][Len(ene) + 1] = e /\ hodoposition'[w][Len(ene) + 1] = p
      /\ \A k \in 1 .. Len(ene) : hodoenergy'[w][k] = ene[k] /\ hodoposition'[w][k] = pos[k]
  BY <1>2, <1>3, <1>4
<1>6. \A k \in 1 .. Len(ene) + 1 : k \in 1 .. Len(ene) \/ k = Len(ene) + 1
  BY <1>5
<1>7. HodoInv(w)'
  <2>1. Len(hodoenergy'[w]) = Len(hodoposition'[w])
    BY <1>5
  <2>2. ASSUME NEW k \in 1 .. Len(hodoenergy'[w])
        PROVE  /\ hodoenergy'[w][k].id = hodoposition'[w][k].id
               /\ hodoenergy'[w][k].hits \subseteq {hodoenergy'[w][k].id}
               /\ hodoposition'[w][k].hits \subseteq {hodoenergy'[w][k].id}
               /\ k > 1 => hodoenergy'[w][k - 1].id < hodoenergy'[w][k].id
               /\ hodoenergy'[w][k].id < next_event'
    <3>1. CASE k \in 1 .. Len(ene)
      <4>1. k > 1 => k - 1 \in 1 .. Len(ene)
        BY <1>5, <3>1
      <4> QED
        BY <1>5, <3>1, <4>1 DEF HodoInv
    <3>2. CASE k = Len(ene) + 1
      <4>1. k > 1 => k - 1 \in 1 .. Len(ene)
        BY <1>5, <3>2
      <4>2. hodoenergy'[w][k] = e /\ hodoposition'[w][k] = p
        BY <1>5, <3>2
      <4>3. k > 1 => hodoenergy'[w][k - 1].id < evtID[w]
        BY <1>4, <1>5, <4>1
      <4>4. e.id = evtID[w] /\ p.id = evtID[w] /\ e.hits \subseteq {evtID[w]}
            /\ p.hits \subseteq {evtID[w]}
        BY <1>4
      <4> QED
        BY <1>1, <4>2, <4>3, <4>4
    <3> QED
      BY <1>5, <1>6, <2>2, <3>1, <3>2
  <2> QED
    BY <2>1, <2>2 DEF HodoInv, InEvent
<1> QED
  BY <1>5, <1>7

LEMMA NextEventInt == TypeAndNumbers => next_event \in Int
  BY LadAssumption DEF TypeAndNumbers, TypeOK

Trees == \A w \in Workers : HodoInv(w) /\ GemInv(w)

LEMMA InitTrees == Init => Trees
  BY DEF Init, Trees, HodoInv, GemInv, InEvent

(* The steps of a worker leave the trees of the others alone...              *)
LEMMA StepOthers ==
    ASSUME IInv, TypeAndNumbers', NEW w \in Workers, Worker(w),
           NEW x \in Workers, x # w
    PROVE  HodoInv(x)' /\ GemInv(x)'
<1>1. TypeAndNumbers /\ HodoInv(x) /\ GemInv(x) /\ next_event \in Int
  BY NextEventInt DEF IInv
<1>2. next_event' >= next_event
  BY <1>1 DEF Worker, Book, TakeEvent, ReadEntry, NoSample, PastTheEnd, ElectronVertex, RecoilVertex,
         BeginOfEvent, Track, EndOfEvent, EndOfEventMissing, EndOfRun
<1>3. pc'[x] = pc[x] /\ evtID'[x] = evtID[x]
  BY DEF Worker, Book, TakeEvent, ReadEntry, NoSample, PastTheEnd, ElectronVertex, RecoilVertex,
         BeginOfEvent, Track, EndOfEvent, EndOfEventMissing, EndOfRun, IInv,
         TypeAndNumbers, TypeOK
<1>4. vEneDep'[x] = vEneDep[x] /\ vPaddle'[x] = vPaddle[x] /\ vChamber'[x] = vChamber[x]
  BY DEF Worker, Book, TakeEvent, ReadEntry, NoSample, PastTheEnd, ElectronVertex, RecoilVertex,
         BeginOfEvent, AtBegin, Track, EndOfEvent, AfterFillGEM, EndOfEventMissing,
         EndOfRun, IInv, TypeAndNumbers, TypeOK
<1>5. /\ hodoenergy'[x] = hodoenergy[x] /\ hodoposition'[x] = hodoposition[x]
      /\ gemana'[x] = gemana[x]
  BY DEF Worker, Book, TakeEvent, ReadEntry, NoSample, PastTheEnd, ElectronVertex, RecoilVertex,
         BeginOfEvent, Track, EndOfEvent, FillHodo, HodoFill, EndOfEventMissing,
         EndOfRun, IInv, TypeAndNumbers, TypeOK
<1> QED
  BY <1>1, <1>2, <1>3, <1>4, <1>5, UntouchedByOther

(* ... and keep what holds of its own, ...                                   *)
LEMMA StepOwn ==
    ASSUME IInv, TypeAndNumbers', NEW w \in Workers, Worker(w)
    PROVE  HodoInv(w)' /\ GemInv(w)'
<1>0. TypeAndNumbers /\ HodoInv(w) /\ GemInv(w) /\ next_event \in Int /\ next_event >= next_event
  BY NextEventInt DEF IInv
<1>1. CASE Book(w) \/ EndOfRun(w) \/ ReadEntry(w) \/ NoSample(w) \/ PastTheEnd(w)
           \/ ElectronVertex(w) \/ RecoilVertex(w)
  <2>1. /\ UNCHANGED <<evtID, next_event, trees, vChamber>>
        /\ pc'[w] \in InEvent => pc[w] \in InEvent
        /\ pc'[w] \notin {"track", "end"}
    BY <1>0, <1>1 DEF Book, EndOfRun, ReadEntry, NoSample, PastTheEnd, ElectronVertex, RecoilVertex,
       InEvent, TypeAndNumbers, TypeOK
  <2> QED
    BY <1>0, <2>1, Untouched
<1>2. CASE TakeEvent(w)
  <2>1. /\ UNCHANGED <<hits, trees>> /\ evtID'[w] = next_event
        /\ next_event' = next_event + 1 /\ pc'[w] = "read"
    BY <1>2 DEF TakeEvent, TypeAndNumbers, TypeOK, IInv
  <2>2. \A k \in 1 .. Len(hodoenergy[w]) : hodoenergy[w][k].id < next_event
    BY <1>0 DEF HodoInv
  <2>3. \A k \in 1 .. Len(hodoenergy[w]) : hodoenergy[w][k].id \in Int
    BY <1>0, EntryIds
  <2>4. HodoInv(w)'
    BY <1>0, <2>1, <2>2, <2>3 DEF HodoInv
  <2>5. GemInv(w)'
    BY <1>0, <2>1 DEF GemInv
  <2> QED
    BY <2>4, <2>5
<1>3. CASE BeginOfEvent(w)
  <2>1. /\ UNCHANGED <<evtID, next_event, trees, vChamber>>
        /\ pc[w] \in InEvent
        /\ vEneDep'[w] = {} /\ vPaddle'[w] = {}
    BY <1>0, <1>3 DEF BeginOfEvent, AtBegin, InEvent, TypeAndNumbers, TypeOK
  <2> QED
    BY <1>0, <2>1, Untouched
<1>4. CASE Track(w)
  <2>1. /\ UNCHANGED <<evtID, next_event, trees, vChamber>>
        /\ pc[w] = "track"
    BY <1>4 DEF Track
  <2>2. vEneDep[w] \subseteq {evtID[w]} /\ vPaddle[w] \subseteq {evtID[w]}
    BY <1>0, <2>1 DEF HodoInv
  <2>3. vEneDep'[w] \subseteq {evtID[w]} /\ vPaddle'[w] \subseteq {evtID[w]}
    BY <1>0, <1>4, <2>2 DEF Track, TypeAndNumbers, TypeOK
  <2> QED
    BY <1>0, <2>1, <2>3, Untouched DEF InEvent
<1>5. CASE EndOfEvent(w)
  <2>1. pc[w] = "end" /\ FillHodo(w) /\ pc'[w] = "idle" /\ next_event' = next_event
    BY <1>0, <1>5 DEF EndOfEvent, TypeAndNumbers, TypeOK
  <2>2. PICK g \in SUBSET {evtID[w]} :
            /\ gemana' = [gemana EXCEPT ![w] = Append(@, vChamber[w] \cup g)]
            /\ vChamber' = AfterFillGEM(w, vChamber[w] \cup g)
    BY <1>5 DEF EndOfEvent
  <2>3. /\ gemana'[w] = Append(gemana[w], vChamber[w] \cup g) /\ vChamber'[w] = {}
        /\ gemana[w] \in Seq(SUBSET EventIds)
        /\ Len(hodoenergy[w]) \in Nat
    BY <1>0, <2>2 DEF AfterFillGEM, TypeAndNumbers, TypeOK
  <2>4. /\ Len(gemana'[w]) = Len(gemana[w]) + 1 /\ Len(gemana[w]) \in Nat
        /\ gemana'[w][Len(gemana[w]) + 1] = vChamber[w] \cup g
        /\ \A k \in 1 .. Len(gemana[w]) : gemana'[w][k] = gemana[w][k]
    BY <2>3
  <2>5. /\ HodoInv(w)'
        /\ Len(hodoenergy'[w]) = Len(hodoenergy[w]) + 1
        /\ hodoenergy'[w][Len(hodoenergy'[w])].id = evtID[w]
        /\ \A k \in 1 .. Len(hodoenergy[w]) : hodoenergy'[w][k] = hodoenergy[w][k]
    BY <1>0, <2>1, Filled
  <2>6. GemInv(w)'
    <3>1. Len(gemana'[w]) <= Len(hodoenergy'[w])
      BY <1>0, <2>3, <2>4, <2>5 DEF GemInv
    <3>2. ASSUME Len(gemana'[w]) = Len(hodoenergy'[w]), NEW k \in 1 .. Len(gemana'[w])
          PROVE  gemana'[w][k] \subseteq {hodoenergy'[w][k].id}
      <4>1. Len(gemana[w]) = Len(hodoenergy[w])
        BY <2>3, <2>4, <2>5, <3>2
      <4>2. CASE k \in 1 .. Len(gemana[w])
        BY <1>0, <2>4, <2>5, <4>1, <4>2 DEF GemInv
      <4>3. CASE k = Len(gemana[w]) + 1
        BY <1>0, <2>2, <2>4, <2>5, <4>1, <4>3 DEF GemInv
      <4> QED
        BY <2>4, <3>2, <4>2, <4>3
    <3> QED
      BY <2>3, <3>1, <3>2 DEF GemInv
  <2> QED
    BY <2>5, <2>6
<1>6. CASE EndOfEventMissing(w)
  <2>1. /\ pc[w] = "end" /\ FillHodo(w) /\ pc'[w] = "idle" /\ next_event' = next_event
        /\ gemana' = gemana
    BY <1>0, <1>6 DEF EndOfEventMissing, TypeAndNumbers, TypeOK
  <2>2. HodoInv(w)' /\ Len(hodoenergy'[w]) = Len(hodoenergy[w]) + 1
    BY <1>0, <2>1, Filled
  <2>3. Len(gemana[w]) \in Nat /\ Len(hodoenergy[w]) \in Nat
    BY <1>0 DEF TypeAndNumbers, TypeOK
  <2>4. GemInv(w)'
    BY <1>0, <2>1, <2>2, <2>3 DEF GemInv
  <2> QED
    BY <2>2, <2>4
<1> QED
  BY <1>1, <1>2, <1>3, <1>4, <1>5, <1>6 DEF Worker

(* ... lose no event, ...                                                    *)
LEMMA StepHandled ==
    ASSUME IInv, NEW w \in Workers, Worker(w)
    PROVE  Handled'
<1>0. /\ TypeAndNumbers /\ HodoInv(w) /\ next_event \in Int
      /\ hodoenergy \in [Workers -> Seq(HodoEntry)]
      /\ evtID \in [Workers -> EventIds \cup {NoEntry}]
      /\ pc \in [Workers -> {"book", "idle", "read", "electron", "recoil", "begin",
                             "track", "end", "over"}]
  BY NextEventInt DEF IInv, TypeAndNumbers, TypeOK, HodoEntry
<1>1. CASE TakeEvent(w)
  <2>1. /\ hodoenergy' = hodoenergy /\ next_event' = next_event + 1 /\ pc[w] = "idle"
        /\ pc'[w] = "read" /\ evtID'[w] = next_event
        /\ \A x \in Workers : x # w => pc'[x] = pc[x] /\ evtID'[x] = evtID[x]
    BY <1>0, <1>1 DEF TakeEvent
  <2>2. ASSUME NEW e \in 0 .. next_event' - 1 PROVE Recorded(e)' \/ InHand(e)'
    <3>1. CASE e = next_event
      BY <2>1, <3>1 DEF InHand, InEvent
    <3>2. CASE e # next_event
      <4>1. Recorded(e) \/ InHand(e)
        BY <1>0, <2>1, <2>2, <3>2 DEF IInv, Handled
      <4>2. Recorded(e) => Recorded(e)'
        BY <2>1 DEF Recorded
      <4>3. InHand(e) => InHand(e)'
        BY <2>1 DEF InHand, InEvent
      <4> QED
        BY <4>1, <4>2, <4>3
    <3> QED
      BY <3>1, <3>2
  <2> QED
    BY <2>2 DEF Handled
<1>2. CASE EndOfEvent(w) \/ EndOfEventMissing(w)
  <2>1. /\ pc[w] = "end" /\ FillHodo(w) /\ next_event' = next_event /\ evtID' = evtID
        /\ pc'[w] = "idle" /\ \A x \in Workers : x # w => pc'[x] = pc[x]
    BY <1>0, <1>2 DEF EndOfEvent, EndOfEventMissing
  <2>2. /\ Len(hodoenergy'[w]) = Len(hodoenergy[w]) + 1
        /\ hodoenergy'[w][Len(hodoenergy'[w])].id = evtID[w]
        /\ \A k \in 1 .. Len(hodoenergy[w]) : hodoenergy'[w][k] = hodoenergy[w][k]
        /\ Len(hodoenergy[w]) \in Nat
    BY <1>0, <2>1, Filled
  <2>3. \A x \in Workers : x # w => hodoenergy'[x] = hodoenergy[x]
    BY <1>0, <2>1 DEF FillHodo, HodoFill
  <2>4. ASSUME NEW e, e = evtID[w] PROVE Recorded(e)'
    <3>1. Len(hodoenergy'[w]) \in 1 .. Len(hodoenergy'[w])
      BY <2>2
    <3> QED
      BY <2>1, <2>2, <2>4, <3>1 DEF Recorded
  <2>5. ASSUME NEW e \in 0 .. next_event' - 1 PROVE Recorded(e)' \/ InHand(e)'
    <3>1. Recorded(e) \/ InHand(e)
      BY <2>1, <2>5 DEF IInv, Handled
    <3>2. ASSUME Recorded(e) PROVE Recorded(e)'
      <4>1. PICK x \in Workers : \E k \in 1 .. Len(hodoenergy[x]) : hodoenergy[x][k].id = e
        BY <3>2 DEF Recorded
      <4>2. PICK k \in 1 .. Len(hodoenergy[x]) : hodoenergy[x][k].id = e
        BY <4>1
      <4>3. k \in 1 .. Len(hodoenergy'[x]) /\ hodoenergy'[x][k] = hodoenergy[x][k]
        BY <2>2, <2>3, <4>2
      <4> QED
        BY <4>2, <4>3 DEF Recorded
    <3>3. ASSUME InHand(e) PROVE Recorded(e)' \/ InHand(e)'
      <4>1. PICK x \in Workers : pc[x] \in InEvent /\ evtID[x] = e
        BY <3>3 DEF InHand
      <4>2. CASE x = w
        BY <2>4, <4>1, <4>2
      <4>3. CASE x # w
        BY <2>1, <4>1, <4>3 DEF InHand
      <4> QED
        BY <4>2, <4>3
    <3> QED
      BY <3>1, <3>2, <3>3
  <2> QED
    BY <2>5 DEF Handled
<1>3. CASE ~TakeEvent(w) /\ ~EndOfEvent(w) /\ ~EndOfEventMissing(w)
  <2>1. /\ UNCHANGED <<hodoenergy, evtID, next_event>>
        /\ \A x \in Workers : pc[x] \in InEvent => pc'[x] \in InEvent
    BY <1>0, <1>3 DEF Worker, Book, ReadEntry, NoSample, PastTheEnd, ElectronVertex,
       RecoilVertex, BeginOfEvent, Track, EndOfRun, InEvent
  <2>2. \A e : (Recorded(e) => Recorded(e)') /\ (InHand(e) => InHand(e)')
    BY <2>1 DEF Recorded, InHand
  <2> QED
    BY <2>1, <2>2 DEF IInv, Handled
<1> QED
  BY <1>1, <1>2, <1>3

(* ... read nothing from a sample that is not there, and end before they     *)
(* close their file, ...                                                     *)
LEMMA StepUnread ==
    ASSUME IInv, NEW w \in Workers, Worker(w)
    PROVE  Unread' /\ SavedAtTheEnd'
<1>0. /\ Unread /\ SavedAtTheEnd /\ saved \subseteq Workers
      /\ pc \in [Workers -> {"book", "idle", "read", "electron", "recoil", "begin",
                             "track", "end", "over"}]
  BY DEF IInv, TypeAndNumbers, TypeOK
<1>1. Unread'
  <2>1. SUFFICES ASSUME dis_file' # "tree", NEW x \in Workers
                 PROVE  hodoenergy'[x] = <<>> /\ pc'[x] \in {"book", "idle", "read", "over"}
    BY DEF Unread
  <2>2. dis_file' = dis_file
    BY DEF Worker, Book, TakeEvent, ReadEntry, NoSample, PastTheEnd, ElectronVertex, RecoilVertex,
       BeginOfEvent, Track, EndOfEvent, EndOfEventMissing, EndOfRun
  <2>3. \A y \in Workers : hodoenergy[y] = <<>> /\ pc[y] \in {"book", "idle", "read", "over"}
    BY <1>0, <2>1, <2>2 DEF Unread
  <2>4. pc[w] \in {"book", "idle", "read", "over"}
    BY <2>3
  <2>5. Book(w) \/ TakeEvent(w) \/ NoSample(w) \/ PastTheEnd(w) \/ EndOfRun(w)
    BY <2>1, <2>2, <2>4 DEF Worker, ReadEntry, ElectronVertex, RecoilVertex,
       BeginOfEvent, Track, EndOfEvent, EndOfEventMissing
  <2>6. hodoenergy' = hodoenergy
    BY <2>5 DEF Book, TakeEvent, NoSample, PastTheEnd, EndOfRun
  <2>7. pc'[x] \in {"book", "idle", "read", "over"}
    BY <1>0, <2>3, <2>5 DEF Book, TakeEvent, NoSample, PastTheEnd, EndOfRun
  <2> QED
    BY <2>3, <2>6, <2>7
<1>2. SavedAtTheEnd'
  <2>1. CASE EndOfRun(w)
    BY <1>0, <2>1 DEF EndOfRun, SavedAtTheEnd
  <2>2. CASE ~EndOfRun(w)
    <3>1. saved' = saved /\ pc[w] # "over" /\ \A x \in Workers : x # w => pc'[x] = pc[x]
      BY <1>0, <2>2 DEF Worker, Book, TakeEvent, ReadEntry, NoSample, PastTheEnd, ElectronVertex,
         RecoilVertex, BeginOfEvent, Track, EndOfEvent, EndOfEventMissing
    <3> QED
      BY <1>0, <3>1 DEF SavedAtTheEnd
  <2> QED
    BY <2>1, <2>2
<1> QED
  BY <1>1, <1>2

(* ... and abort with all of the sample handed out.                          *)
LEMMA StepFatal ==
    ASSUME IInv, Handled', NEW w \in Workers, Worker(w)
    PROVE  BreaksOffAfterTheSample'
<1>0. /\ saved \subseteq Workers /\ nEntries \in Int /\ next_event \in Int
      /\ Unread /\ SavedAtTheEnd
  BY LadAssumption, NextEventInt DEF IInv, TypeAndNumbers, TypeOK
<1>1. CASE PastTheEnd(w)
  <2>1. /\ evtID[w] \in 0 .. next_event - 1 /\ evtID[w] >= nEntries /\ pc[w] = "read"
        /\ UNCHANGED <<run, next_event, saved>> /\ dis_file = "tree"
    BY <1>1 DEF PastTheEnd, OutOfRange, IInv, TypeAndNumbers, Numbered, InEvent
  <2>2. w \notin saved'
    BY <1>0, <2>1 DEF SavedAtTheEnd
  <2>3. next_event' > nEntries'
    BY <1>0, <2>1
  <2>4. \A e \in 0 .. nEntries' - 1 : Recorded(e)' \/ InHand(e)'
    <3>1. 0 .. nEntries' - 1 \subseteq 0 .. next_event' - 1
      BY <1>0, <2>1, <2>3
    <3> QED
      BY <3>1 DEF Handled
  <2> QED
    BY <2>1, <2>2, <2>3, <2>4 DEF BreaksOffAfterTheSample
<1>2. CASE NoSample(w)
  <2>1. /\ pc[w] = "read" /\ UNCHANGED <<run, saved, hodoenergy>> /\ dis_file # "tree"
    BY <1>2 DEF NoSample
  <2>2. w \notin saved'
    BY <1>0, <2>1 DEF SavedAtTheEnd
  <2>3. \A x \in Workers : hodoenergy'[x] = <<>>
    BY <1>0, <2>1 DEF Unread
  <2> QED
    BY <2>1, <2>2, <2>3 DEF BreaksOffAfterTheSample
<1>3. CASE ~PastTheEnd(w) /\ ~NoSample(w)
  <2>1. alive' = "yes"
    BY <1>3 DEF Worker, Book, TakeEvent, ReadEntry, ElectronVertex, RecoilVertex,
       BeginOfEvent, Track, EndOfEvent, EndOfEventMissing, EndOfRun
  <2> QED
    BY <2>1 DEF BreaksOffAfterTheSample
<1> QED
  BY <1>1, <1>2, <1>3

(* The inductive invariant, for any number of workers.                       *)
THEOREM InductiveInvariant == Spec => []IInv
<1>1. Init => IInv
  <2> SUFFICES ASSUME Init PROVE IInv
    OBVIOUS
  <2>1. TypeAndNumbers /\ Trees
    BY InitTypes, InitTrees
  <2>2. Handled /\ Unread /\ SavedAtTheEnd /\ BreaksOffAfterTheSample
    BY DEF Init, Handled, Unread, SavedAtTheEnd, BreaksOffAfterTheSample
  <2> QED
    BY <2>1, <2>2 DEF IInv, Trees
<1>2. IInv /\ [Next]_vars => IInv'
  <2> SUFFICES ASSUME IInv, [Next]_vars PROVE IInv'
    OBVIOUS
  <2>1. TypeAndNumbers'
    BY StepTypes DEF IInv
  <2>2. ASSUME NEW w \in Workers, Worker(w) PROVE IInv'
    <3>1. ASSUME NEW x \in Workers PROVE HodoInv(x)' /\ GemInv(x)'
      BY <2>1, <2>2, StepOthers, StepOwn
    <3> QED
      BY <2>1, <2>2, <3>1, StepHandled, StepUnread, StepFatal DEF IInv
  <2>3. CASE UNCHANGED vars
    <3>1. \A w \in Workers : HodoInv(w)' /\ GemInv(w)'
      BY <2>3 DEF vars, IInv, HodoInv, GemInv
    <3>2. Handled'
      BY <2>3 DEF vars, IInv, Handled, Recorded, InHand
    <3>3. Unread' /\ SavedAtTheEnd' /\ BreaksOffAfterTheSample'
      BY <2>3 DEF vars, IInv, Unread, SavedAtTheEnd, BreaksOffAfterTheSample, Recorded, InHand
    <3> QED
      BY <2>1, <3>1, <3>2, <3>3 DEF IInv
  <2> QED
    BY <2>2, <2>3 DEF Next, Terminated
<1> QED
  BY <1>1, <1>2, PTL DEF Spec

(* The hodoscope trees of every worker stay in step and hold, event by       *)
(* event, hits of that event only: the vectors are per worker and cleared.   *)
THEOREM HodoTreesAreAligned == Spec => []HodoEntriesHoldOwnHits
<1>1. IInv => HodoEntriesHoldOwnHits
  BY DEF IInv, HodoInv, HodoEntriesHoldOwnHits
<1> QED
  BY <1>1, InductiveInvariant, PTL

(* GEM entries that lost step with the hodoscope trees show by the number of *)
(* entries, whatever collections were missing and when.                      *)
THEOREM MisalignmentShows == Spec => []MisalignedGemShows
<1>1. IInv => MisalignedGemShows
  <2> SUFFICES ASSUME IInv, NEW w \in Workers, NEW k \in 1 .. Len(gemana[w]),
                      ~(gemana[w][k] \subseteq {hodoenergy[w][k].id})
               PROVE  Len(gemana[w]) < Len(hodoenergy[w])
    BY DEF MisalignedGemShows
  <2>1. Len(gemana[w]) \in Nat /\ Len(hodoenergy[w]) \in Nat
    BY DEF IInv, TypeAndNumbers, TypeOK
  <2> QED
    BY <2>1 DEF IInv, GemInv
<1> QED
  BY <1>1, InductiveInvariant, PTL

(* However the workers share out the events, and whichever of them meets the *)
(* fatal exception: the sample was simulated to its end, or never opened.    *)
THEOREM AbortsWithTheSampleDone == Spec => []BreaksOffAfterTheSample
<1>1. IInv => BreaksOffAfterTheSample
  BY DEF IInv
<1> QED
  BY <1>1, InductiveInvariant, PTL

------------------------------------------------------------------------------
(* With a single worker the static buffers of DISgen are as good as its own: *)
(* between the reading of an entry and the last vertex made from it, no      *)
(* other entry is read.                                                      *)
OneWorker == \A v, w \in Workers : v = w

BufferInv ==
    OneWorker =>
        /\ \A w \in Workers : pc[w] \in {"electron", "recoil"} => buffer = evtID[w]
        /\ PrimariesFromOwnEntry

LEMMA VertexEntry ==
    ASSUME TypeAndNumbers, NEW w \in Workers, pc[w] \in InEvent
    PROVE  /\ evtID[w] \in Int
           /\ evtID[w] + 1 \in 1 .. Len(primaries)
           /\ Len(primaries) \in Nat
  BY LadAssumption DEF TypeAndNumbers, TypeOK, Numbered

LEMMA PrimaryType ==
    ASSUME TypeAndNumbers, NEW k \in 1 .. Len(primaries)
    PROVE  primaries[k] \in [electron : Entries, recoil : Entries]
<1> DEFINE R == [electron : Entries, recoil : Entries]
<1>1. primaries \in Seq(R)
  BY DEF TypeAndNumbers, TypeOK
<1>2. primaries[k] \in R
  <2> HIDE DEF R
  <2> QED
    BY <1>1
<1> QED
  BY <1>2

LEMMA StepPrimaries ==
    ASSUME TypeAndNumbers, OneWorker, BufferInv, NEW w \in Workers, Worker(w)
    PROVE  BufferInv'
<1> USE LadAssumption
<1>0. /\ \A x \in Workers : x = w
      /\ pc \in [Workers -> {"book", "idle", "read", "electron", "recoil", "begin",
                             "track", "end", "over"}]
      /\ evtID \in [Workers -> EventIds \cup {NoEntry}]
  BY DEF OneWorker, TypeAndNumbers, TypeOK
<1>1. CASE \/ Book(w) \/ NoSample(w) \/ PastTheEnd(w) \/ BeginOfEvent(w) \/ Track(w) \/ EndOfEvent(w)
           \/ EndOfEventMissing(w) \/ EndOfRun(w)
  <2>1. /\ UNCHANGED <<primaries, unknown, buffer, evtID>>
        /\ pc'[w] \in {"electron", "recoil"} => pc[w] \in {"electron", "recoil"}
    BY <1>0, <1>1 DEF Book, NoSample, PastTheEnd, BeginOfEvent, Track, EndOfEvent,
       EndOfEventMissing, EndOfRun
  <2> QED
    BY <1>0, <2>1 DEF BufferInv, PrimariesFromOwnEntry
<1>2. CASE TakeEvent(w)
  <2>1. /\ primaries' = Append(primaries, [electron |-> NoEntry, recoil |-> NoEntry])
        /\ unknown' = unknown /\ pc'[w] = "read"
    BY <1>0, <1>2 DEF TakeEvent
  <2>2. primaries \in Seq([electron : Entries, recoil : Entries])
    BY DEF TypeAndNumbers, TypeOK
  <2>3. NoEntry \notin unknown
    BY DEF TypeAndNumbers, TypeOK, NoEntry
  <2>4. PrimariesFromOwnEntry'
    <3>1. ASSUME NEW k \in 1 .. Len(primaries')
          PROVE  primaries'[k] = IF k \in 1 .. Len(primaries) THEN primaries[k]
                                 ELSE [electron |-> NoEntry, recoil |-> NoEntry]
      BY <2>1, <2>2
    <3> QED
      BY <2>1, <2>3, <3>1 DEF BufferInv, PrimariesFromOwnEntry
  <2> QED
    BY <1>0, <2>1, <2>4 DEF BufferInv
<1>3. CASE ReadEntry(w)
  <2>1. /\ UNCHANGED <<primaries, unknown, evtID>> /\ buffer' = evtID[w]
    BY <1>3 DEF ReadEntry, EntryOf
  <2> QED
    BY <1>0, <2>1 DEF BufferInv, PrimariesFromOwnEntry
<1>4. CASE ElectronVertex(w)
  <2>1. /\ UNCHANGED <<unknown, buffer, evtID>> /\ buffer = evtID[w] /\ pc[w] = "electron"
        /\ primaries' = [primaries EXCEPT ![evtID[w] + 1].electron = buffer]
    BY <1>4 DEF ElectronVertex, BufferInv
  <2>2. /\ evtID[w] \in Int /\ evtID[w] + 1 \in 1 .. Len(primaries)
        /\ Len(primaries) \in Nat
    BY <2>1, VertexEntry DEF InEvent
  <2>3. Len(primaries') = Len(primaries)
    BY <2>1, <2>2, PrimariesType DEF TypeAndNumbers, TypeOK
  <2>4. ASSUME NEW k \in 1 .. Len(primaries')
        PROVE  /\ primaries'[k].electron \in {k - 1, NoEntry}
               /\ primaries'[k].recoil \in {k - 1, NoEntry} \ unknown
    <3>1. primaries[k] \in [electron : Entries, recoil : Entries]
      BY <2>3, PrimaryType
    <3>2. /\ primaries[k].electron \in {k - 1, NoEntry}
          /\ primaries[k].recoil \in {k - 1, NoEntry} \ unknown
      BY <2>3 DEF BufferInv, PrimariesFromOwnEntry
    <3>3. /\ primaries'[k].recoil = primaries[k].recoil
          /\ primaries'[k].electron = IF k = evtID[w] + 1 THEN evtID[w]
                                      ELSE primaries[k].electron
      BY <2>1, <2>2, <2>3, <3>1, SeqIsFunction DEF TypeAndNumbers, TypeOK
    <3> QED
      BY <2>2, <3>2, <3>3
  <2> QED
    BY <1>0, <2>1, <2>4 DEF BufferInv, PrimariesFromOwnEntry
<1>5. CASE RecoilVertex(w)
  <2>1. /\ UNCHANGED <<unknown, buffer, evtID>> /\ buffer = evtID[w] /\ pc[w] = "recoil"
        /\ primaries' = IF buffer \in unknown THEN primaries
                        ELSE [primaries EXCEPT ![evtID[w] + 1].recoil = buffer]
        /\ pc'[w] = "begin"
    BY <1>0, <1>5 DEF RecoilVertex, BufferInv
  <2>2. /\ evtID[w] \in Int /\ evtID[w] + 1 \in 1 .. Len(primaries)
        /\ Len(primaries) \in Nat
    BY <2>1, VertexEntry DEF InEvent
  <2>3. Len(primaries') = Len(primaries)
    BY <2>1, <2>2, PrimariesType DEF TypeAndNumbers, TypeOK
  <2>4. ASSUME NEW k \in 1 .. Len(primaries')
        PROVE  /\ primaries'[k].electron \in {k - 1, NoEntry}
               /\ primaries'[k].recoil \in {k - 1, NoEntry} \ unknown
    <3>1. primaries[k] \in [electron : Entries, recoil : Entries]
      BY <2>3, PrimaryType
    <3>2. /\ primaries[k].electron \in {k - 1, NoEntry}
          /\ primaries[k].recoil \in {k - 1, NoEntry} \ unknown
      BY <2>3 DEF BufferInv, PrimariesFromOwnEntry
    <3>3. /\ primaries'[k].electron = primaries[k].electron
          /\ primaries'[k].recoil = IF k = evtID[w] + 1 /\ evtID[w] \notin unknown
                                    THEN evtID[w] ELSE primaries[k].recoil
      BY <2>1, <2>2, <2>3, <3>1, SeqIsFunction DEF TypeAndNumbers, TypeOK
    <3> QED
      BY <2>2, <3>2, <3>3
  <2> QED
    BY <1>0, <2>1, <2>4 DEF BufferInv, PrimariesFromOwnEntry
<1> QED
  BY <1>1, <1>2, <1>3, <1>4, <1>5 DEF Worker

(* With one worker, event e is simulated from entry e of the DIS file.       *)
THEOREM OneWorkerPrimaries == Spec => [](OneWorker => PrimariesFromOwnEntry)
<1> DEFINE Inv == TypeAndNumbers /\ BufferInv
<1>1. Init => Inv
  BY InitTypes DEF Init, BufferInv, PrimariesFromOwnEntry
<1>2. Inv /\ [Next]_vars => Inv'
  <2> SUFFICES ASSUME Inv, [Next]_vars PROVE Inv'
    OBVIOUS
  <2>1. CASE ~OneWorker
    BY <2>1, StepTypes DEF BufferInv
  <2>2. CASE OneWorker /\ (\E w \in Workers : Worker(w))
    BY <2>2, StepTypes, StepPrimaries
  <2>3. CASE UNCHANGED vars
    BY <2>3, StepTypes DEF vars, BufferInv, PrimariesFromOwnEntry
  <2> QED
    BY <2>1, <2>2, <2>3 DEF Next, Terminated
<1>3. Inv => (OneWorker => PrimariesFromOwnEntry)
  BY DEF BufferInv
<1> QED
  BY <1>1, <1>2, <1>3, PTL DEF Spec

-----------------------------------------------------------------------------
(* Induction over numbers, as a fact about sets, and the functions defined by *)
(* recursion it gives.                                                       *)
HIDE DEF run, trees, hits, Go

\* A nonempty set of numbers has a least member.
LEMMA Least ==
    ASSUME NEW S \in SUBSET Nat, S # {}
    PROVE  \E x \in S : \A y \in S : x <= y
<1>1. PICK x \in S : \A y \in S : ~(<<y, x>> \in OpToRel(<, Nat))
    BY NatLessThanWellFounded, WFMin
<1>2. ASSUME NEW y \in S PROVE x <= y
    <2>1. ~(<<y, x>> \in OpToRel(<, Nat))
        BY <1>1
    <2>2. ~(y < x)
        BY <2>1 DEF OpToRel
    <2> QED BY <2>2
<1> QED
    BY <1>2

\* A set with 0 and with the successor of each of its numbers has all numbers.
LEMMA Induct ==
    ASSUME NEW S, 0 \in S, \A n \in Nat : n \in S => n + 1 \in S
    PROVE  Nat \subseteq S
<1> DEFINE T == Nat \ S
<1> SUFFICES ASSUME T # {} PROVE FALSE
    OBVIOUS
<1>1. PICK x \in T : \A y \in T : x <= y
    <2> HIDE DEF T
    <2> QED BY Least, T \subseteq Nat DEF T
<1>2. x \in Nat /\ x \notin S
    OBVIOUS
<1>3. x # 0 /\ x - 1 \in Nat
    BY <1>2
<1>4. x - 1 \in T
    BY <1>2, <1>3, (x - 1) + 1 = x
<1> QED
    BY <1>1, <1>2, <1>3, <1>4

\* What holds at the start and from each place to the next holds at every place.
LEMMA InductTo ==
    ASSUME NEW n \in Nat, NEW S, 0 \in S, \A k \in 0 .. n - 1 : k \in S => k + 1 \in S
    PROVE  \A k \in 0 .. n : k \in S
<1> DEFINE T == {k \in Nat : k \in 0 .. n => k \in S}
<1>1. 0 \in T
    OBVIOUS
<1>2. ASSUME NEW k \in Nat, k \in T PROVE k + 1 \in T
    BY <1>2
<1>3. Nat \subseteq T
    <2> HIDE DEF T
    <2> QED BY <1>1, <1>2, Induct
<1> QED
    BY <1>3

\* A function may be defined by its first value and the step to each next one.
Follows(f, n, a, step) == f[0] = a /\ \A k \in 1 .. n : f[k] = step[k][f[k - 1]]

LEMMA Recursion ==
    ASSUME NEW n \in Nat, NEW A, NEW a \in A, NEW step \in [1 .. n -> [A -> A]]
    PROVE  \E f \in [0 .. n -> A] : Follows(f, n, a, step)
<1> DEFINE P(m) == \E f \in [0 .. m -> A] :
               f[0] = a /\ \A k \in 1 .. m : f[k] = step[k][f[k - 1]]
           S == {m \in 0 .. n : P(m)}
<1>1. 0 \in S
    <2> DEFINE f == [k \in 0 .. 0 |-> a]
    <2>1. f \in [0 .. 0 -> A] /\ f[0] = a /\ \A k \in 1 .. 0 : f[k] = step[k][f[k - 1]]
        OBVIOUS
    <2>2. P(0)
        <3> HIDE DEF f
        <3> QED BY <2>1
    <2> HIDE DEF P
    <2> QED BY <2>2
<1>2. ASSUME NEW m \in 0 .. n - 1, m \in S PROVE m + 1 \in S
    <2>1. PICK f \in [0 .. m -> A] :
               f[0] = a /\ \A k \in 1 .. m : f[k] = step[k][f[k - 1]]
        BY <1>2
    <2> DEFINE g == [k \in 0 .. m + 1 |-> IF k = m + 1 THEN step[m + 1][f[m]] ELSE f[k]]
    <2>2. m + 1 \in 1 .. n /\ m \in 0 .. m /\ m \in Nat
        OBVIOUS
    <2>3. step[m + 1][f[m]] \in A
        BY <2>1, <2>2
    <2>4. g \in [0 .. m + 1 -> A]
        BY <2>1, <2>3
    <2>5. ASSUME NEW k \in 1 .. m + 1 PROVE g[k] = step[k][g[k - 1]]
        <3>1. CASE k = m + 1
            <4>1. m \in 0 .. m + 1 /\ m # m + 1 /\ k - 1 = m
                BY <2>2, <3>1
            <4> QED BY <3>1, <4>1
        <3>2. CASE k # m + 1
            <4>1. k \in 1 .. m /\ k - 1 \in 0 .. m /\ k - 1 # m + 1 /\ k - 1 \in 0 .. m + 1
                BY <2>2, <3>2
            <4> QED BY <2>1, <3>2, <4>1
        <3> QED BY <3>1, <3>2
    <2>6. g[0] = a
        BY <2>1, <2>2
    <2>7. P(m + 1)
        <3> HIDE DEF g
        <3> QED BY <2>4, <2>5, <2>6
    <2> HIDE DEF P
    <2> QED BY <2>2, <2>7
<1>3. \A k \in 0 .. n : k \in S
    <2> HIDE DEF S
    <2> QED BY <1>1, <1>2, InductTo
<1> QED
    BY <1>3 DEF Follows

-----------------------------------------------------------------------------
(* Sequences put one after the other: where each of them begins.             *)
Places(off, seqs, all) ==
  /\ off[0] = 0 /\ off[Len(seqs)] = Len(all)
  /\ \A k \in 1 .. Len(seqs) :
        /\ off[k] = off[k - 1] + Len(seqs[k])
        /\ \A i \in 1 .. Len(seqs[k]) : all[off[k - 1] + i] = seqs[k][i]

\* Both parts of a concatenation are found in it.
LEMMA ConcatAt ==
  ASSUME NEW S, NEW s \in Seq(S), NEW t \in Seq(S)
  PROVE  /\ Len(s \o t) = Len(s) + Len(t)
         /\ \A i \in 1 .. Len(s) : (s \o t)[i] = s[i]
         /\ \A i \in 1 .. Len(t) : (s \o t)[Len(s) + i] = t[i]
<1>1. Len(s) \in Nat /\ Len(t) \in Nat
  OBVIOUS
<1>2. ASSUME NEW i \in 1 .. Len(t) PROVE (s \o t)[Len(s) + i] = t[i]
  <2>1. Len(s) + i \in 1 .. Len(s) + Len(t) /\ ~(Len(s) + i <= Len(s)) /\ (Len(s) + i) - Len(s) = i
    BY <1>1
  <2> QED BY <2>1, ConcatProperties
<1> QED
  BY <1>1, <1>2, ConcatProperties

LEMMA FlattenPlaces ==
  ASSUME NEW S, NEW n \in Nat, NEW seqs \in [1 .. n -> Seq(S)]
  PROVE  /\ FlattenSeq(seqs) \in Seq(S)
         /\ \E off \in [0 .. n -> Nat] : Places(off, seqs, FlattenSeq(seqs))
<1> DEFINE step == [k \in 1 .. n |-> [x \in Seq(S) |-> IF k = 1 THEN seqs[k] ELSE x \o seqs[k]]]
<1>0. n \in Nat /\ <<>> \in Seq(S) /\ (\A k \in 1 .. n : seqs[k] \in Seq(S)) /\ Len(seqs) = n
  <2>1. seqs \in Seq(Seq(S)) /\ DOMAIN seqs = 1 .. n
    BY SeqDef
  <2> QED BY <2>1, LenProperties
<1>1. step \in [1 .. n -> [Seq(S) -> Seq(S)]]
  BY <1>0
<1>2. PICK h \in [0 .. n -> Seq(S)] : Follows(h, n, <<>>, step)
  <2> HIDE DEF step
  <2> QED BY <1>0, <1>1, Recursion, Zenon
<1>3. h[0] = <<>> /\ \A k \in 1 .. n : h[k] = IF k = 1 THEN seqs[k] ELSE h[k - 1] \o seqs[k]
  <2>1. ASSUME NEW k \in 1 .. n PROVE h[k] = IF k = 1 THEN seqs[k] ELSE h[k - 1] \o seqs[k]
    <3>1. k - 1 \in 0 .. n
      BY <1>0
    <3>2. h[k - 1] \in Seq(S)
      BY <3>1
    <3>3. h[k] = step[k][h[k - 1]]
      <4> HIDE DEF step
      <4> QED BY <1>2 DEF Follows
    <3> QED BY <3>2, <3>3
  <2> QED BY <1>2, <2>1 DEF Follows
<1> HIDE DEF step
<1> DEFINE f == [k \in 1 .. n |-> h[k]]
<1>4. f = [k \in 1 .. n |-> IF k = 1 THEN seqs[k] ELSE f[k - 1] \o seqs[k]]
  <2>1. ASSUME NEW k \in 1 .. n
        PROVE  f[k] = IF k = 1 THEN seqs[k] ELSE f[k - 1] \o seqs[k]
    <3>1. k # 1 => k - 1 \in 1 .. n
      BY <1>0
    <3> QED BY <1>3, <3>1
  <2> QED BY <2>1
<1> DEFINE g == CHOOSE flatten : flatten = [k \in 1 .. n |-> IF k = 1 THEN seqs[k]
                                                ELSE flatten[k - 1] \o seqs[k]]
<1>5. g = [k \in 1 .. n |-> IF k = 1 THEN seqs[k] ELSE g[k - 1] \o seqs[k]]
  <2> HIDE DEF f
  <2> QED BY <1>4
<1> DEFINE A == {k \in 0 .. n : k = 0 \/ g[k] = h[k]}
<1>6. \A k \in 0 .. n : k \in A
  <2> HIDE DEF g
  <2>1. 0 \in A
    BY <1>0
  <2>2. ASSUME NEW k \in 0 .. n - 1, k \in A PROVE k + 1 \in A
    <3>1. k + 1 \in 0 .. n /\ k + 1 \in 1 .. n /\ (k + 1) - 1 = k /\ (k # 0 => k + 1 # 1)
      BY <1>0
    <3>2. g[k + 1] = IF k + 1 = 1 THEN seqs[k + 1] ELSE g[k] \o seqs[k + 1]
      BY <1>5, <3>1
    <3>3. h[k + 1] = IF k + 1 = 1 THEN seqs[k + 1] ELSE h[k] \o seqs[k + 1]
      BY <1>3, <3>1
    <3> QED BY <2>2, <3>1, <3>2, <3>3
  <2> HIDE DEF A
  <2> QED BY <1>0, <2>1, <2>2, InductTo
<1>7. FlattenSeq(seqs) = h[n]
  <2>1. CASE n = 0
    <3>1. seqs = <<>>
      BY <2>1
    <3> QED BY <1>0, <1>3, <2>1, <3>1 DEF FlattenSeq
  <2>2. CASE n # 0
    <3>1. FlattenSeq(seqs) = g[n]
      BY <1>0, <2>2 DEF FlattenSeq
    <3>2. n \in 0 .. n
      BY <1>0
    <3> HIDE DEF g
    <3> QED BY <1>6, <2>2, <3>1, <3>2
  <2> QED BY <2>1, <2>2
<1> HIDE DEF g, A
<1>8. \A k \in 1 .. n : h[k] = h[k - 1] \o seqs[k]
  <2> SUFFICES ASSUME NEW k \in 1 .. n PROVE h[k] = h[k - 1] \o seqs[k]
    OBVIOUS
  <2>1. CASE k = 1
    <3>1. h[k] = seqs[k] /\ h[k - 1] = <<>> /\ seqs[k] \in Seq(S)
      BY <1>0, <1>3, <2>1
    <3> QED BY <3>1
  <2>2. CASE k # 1
    BY <1>3, <2>2
  <2> QED BY <2>1, <2>2
<1> DEFINE off == [k \in 0 .. n |-> Len(h[k])]
<1>9. off \in [0 .. n -> Nat] /\ off[0] = 0
  BY <1>0, <1>3
<1>10. \A k \in 1 .. n : off[k] = off[k - 1] + Len(seqs[k])
  <2> SUFFICES ASSUME NEW k \in 1 .. n PROVE off[k] = off[k - 1] + Len(seqs[k])
    OBVIOUS
  <2>1. k \in 0 .. n /\ k - 1 \in 0 .. n /\ seqs[k] \in Seq(S)
    BY <1>0
  <2>2. h[k] = h[k - 1] \o seqs[k] /\ h[k - 1] \in Seq(S) /\ h[k] \in Seq(S)
    BY <1>8, <2>1
  <2>3. Len(h[k]) = Len(h[k - 1]) + Len(seqs[k])
    BY <2>1, <2>2
  <2> QED BY <2>1, <2>3
<1> DEFINE Has(m) == \A k \in 1 .. m : \A i \in 1 .. Len(seqs[k]) :
                         off[k - 1] + i \in 1 .. off[m] /\ h[m][off[k - 1] + i] = seqs[k][i]
           B == {m \in 0 .. n : Has(m)}
<1>11. \A m \in 0 .. n : m \in B
  <2>1. 0 \in B
    BY <1>0
  <2>2. ASSUME NEW m \in 0 .. n - 1, m \in B PROVE m + 1 \in B
    <3>0. m + 1 \in 0 .. n /\ m + 1 \in 1 .. n /\ (m + 1) - 1 = m /\ m \in 0 .. n
      BY <1>0
    <3>1. /\ h[m] \in Seq(S) /\ seqs[m + 1] \in Seq(S)
          /\ h[m + 1] = h[m] \o seqs[m + 1]
          /\ off[m + 1] = off[m] + Len(seqs[m + 1]) /\ off[m] = Len(h[m]) /\ off[m] \in Nat
      BY <1>0, <1>8, <1>9, <1>10, <3>0
    <3> SUFFICES ASSUME NEW k \in 1 .. m + 1, NEW i \in 1 .. Len(seqs[k])
                 PROVE  /\ off[k - 1] + i \in 1 .. off[m + 1]
                        /\ h[m + 1][off[k - 1] + i] = seqs[k][i]
      BY <3>0
    <3>2. k \in 1 .. n /\ k - 1 \in 0 .. n /\ seqs[k] \in Seq(S) /\ off[k - 1] \in Nat
      <4>1. k \in 1 .. n /\ k - 1 \in 0 .. n
        BY <1>0, <3>0
      <4> HIDE DEF off
      <4> QED BY <1>0, <1>9, <4>1
    <3> HIDE DEF off
    <3>5. PICK a : a = h[m]
      OBVIOUS
    <3>6. PICK b : b = seqs[m + 1]
      OBVIOUS
    <3>7. /\ a \in Seq(S) /\ b \in Seq(S) /\ h[m + 1] = a \o b /\ Len(b) \in Nat
          /\ off[m + 1] = Len(a) + Len(b) /\ off[m] = Len(a) /\ Len(a) \in Nat
      BY <3>1, <3>5, <3>6
    <3>8. /\ \A p \in 1 .. Len(a) : h[m + 1][p] = a[p]
          /\ \A p \in 1 .. Len(b) : h[m + 1][Len(a) + p] = b[p]
      BY <3>7, ConcatAt
    <3>3. CASE k = m + 1
      <4>1. off[k - 1] = Len(a) /\ i \in 1 .. Len(b) /\ b[i] = seqs[k][i]
        BY <3>0, <3>3, <3>6, <3>7
      <4>3. \A x, y \in Nat : i \in 1 .. y => x + i \in 1 .. x + y
        OBVIOUS
      <4>2. Len(a) + i \in 1 .. Len(a) + Len(b)
        BY <3>7, <4>1, <4>3
      <4> QED BY <3>7, <3>8, <4>1, <4>2
    <3>4. CASE k # m + 1
      <4>1. k \in 1 .. m
        BY <3>4
      <4>2. off[k - 1] + i \in 1 .. Len(a) /\ a[off[k - 1] + i] = seqs[k][i]
        BY <2>2, <3>5, <3>7, <4>1
      <4>3. \A p \in 1 .. Len(a) : p \in 1 .. Len(a) + Len(b)
        BY <3>7
      <4> QED BY <3>7, <3>8, <4>2, <4>3
    <3> QED BY <3>3, <3>4
  <2> HIDE DEF B
  <2> QED BY <1>0, <2>1, <2>2, InductTo
<1>12. Places(off, seqs, h[n])
  <2>1. n \in 0 .. n
    BY <1>0
  <2>2. Has(n)
    BY <1>11, <2>1
  <2>3. off[n] = Len(h[n])
    BY <2>1
  <2> HIDE DEF off
  <2> QED BY <1>0, <1>9, <1>10, <2>2, <2>3 DEF Places
<1> HIDE DEF off
<1> QED
  BY <1>0, <1>7, <1>9, <1>12

-----------------------------------------------------------------------------
(* The LUND reader.                                                          *)
FileLine == [first : Int, columns : Int, particle : G!Particle \union {"none"}]
Stream == [ahead : Seq(FileLine), eof : BOOLEAN, fail : BOOLEAN, line : FileLine]

LEMMA BlankIs == G!Blank \in FileLine /\ G!Blank.first = -1 /\ G!Blank.columns = 0
  BY DEF G!Blank, FileLine

\* getline leaves a stream a stream.
LEMMA GetLineType ==
  ASSUME NEW s \in Stream
  PROVE  G!GetLine(s) \in Stream
<1>1. CASE s.eof \/ s.fail
  BY <1>1 DEF G!GetLine, Stream
<1>2. CASE ~s.eof /\ ~s.fail /\ s.ahead = <<>>
  BY <1>2, BlankIs DEF G!GetLine, Stream
<1>3. CASE ~s.eof /\ ~s.fail /\ s.ahead # <<>>
  <2>1. Head(s.ahead) \in FileLine /\ Tail(s.ahead) \in Seq(FileLine)
    BY <1>3, HeadTailProperties DEF Stream
  <2>2. (Len(s.ahead) = 1 /\ ~lund.newline) \in BOOLEAN
    OBVIOUS
  <2> QED BY <1>3, <2>1, <2>2 DEF G!GetLine, Stream
<1> QED
  BY <1>1, <1>2, <1>3

\* The stream t is s with n of its lines read.
FurtherOn(s, n, t) ==
  /\ Len(t.ahead) = Len(s.ahead) - n
  /\ \A k \in 1 .. Len(s.ahead) - n : t.ahead[k] = s.ahead[n + k]
  /\ ~t.fail
  /\ t.eof <=> n > 0 /\ n = Len(s.ahead) /\ ~lund.newline

\* One more line of a stream that has one.
LEMMA GetLineIs ==
  ASSUME NEW s \in Stream, ~s.eof, ~s.fail, s.ahead # <<>>
  PROVE  /\ G!GetLine(s).line = s.ahead[1]
         /\ FurtherOn(s, 1, G!GetLine(s))
<1>1. s.ahead \in Seq(FileLine) /\ Len(s.ahead) \in Nat /\ Len(s.ahead) # 0
  BY DEF Stream
<1>2. /\ Head(s.ahead) = s.ahead[1] /\ Len(Tail(s.ahead)) = Len(s.ahead) - 1
      /\ \A k \in 1 .. Len(s.ahead) - 1 : Tail(s.ahead)[k] = s.ahead[k + 1]
  BY <1>1, HeadTailProperties
<1>3. /\ G!GetLine(s).line = Head(s.ahead)
      /\ G!GetLine(s).ahead = Tail(s.ahead)
      /\ G!GetLine(s).fail = s.fail
      /\ G!GetLine(s).eof <=> Len(s.ahead) = 1 /\ ~lund.newline
  BY DEF G!GetLine, Stream
<1>4. \A k \in 1 .. Len(s.ahead) - 1 : Tail(s.ahead)[k] = s.ahead[1 + k]
  BY <1>1, <1>2
<1> QED
  BY <1>1, <1>2, <1>3, <1>4 DEF FurtherOn

\* k lines were asked for, with st.s and st.got as the outcome.
Read(s, k, st) ==
  /\ st.s \in Stream /\ st.got \in Seq(FileLine) /\ Len(st.got) = k
  /\ \A j \in 1 .. k :
        /\ j <= Len(s.ahead) => st.got[j] = s.ahead[j]
        /\ j = Len(s.ahead) + 1 /\ lund.newline => st.got[j] = G!Blank
  /\ k <= Len(s.ahead) => FurtherOn(s, k, st.s)

LEMMA ReadOne ==
  ASSUME NEW s \in Stream, ~s.eof, ~s.fail, NEW k \in Nat, NEW st, Read(s, k, st),
         NEW next, next = G!GetLine(st.s),
         NEW new, new = [s |-> next, got |-> Append(st.got, next.line)]
  PROVE  Read(s, k + 1, new)
<1>0. s.ahead \in Seq(FileLine) /\ Len(s.ahead) \in Nat
  BY DEF Stream
<1>1. /\ st.s \in Stream /\ st.got \in Seq(FileLine) /\ Len(st.got) = k
      /\ st.s.ahead \in Seq(FileLine) /\ Len(st.s.ahead) \in Nat
  BY DEF Read, Stream
<1>2. next \in Stream /\ next.line \in FileLine
  BY <1>1, GetLineType DEF Stream
<1>3. /\ new.s = next /\ new.got = Append(st.got, next.line)
      /\ new.got \in Seq(FileLine) /\ Len(new.got) = k + 1 /\ new.got[k + 1] = next.line
      /\ \A j \in 1 .. k : new.got[j] = st.got[j]
  BY <1>1, <1>2, AppendProperties
<1>4. ASSUME k + 1 <= Len(s.ahead) PROVE next.line = s.ahead[k + 1] /\ FurtherOn(s, k + 1, next)
  <2>1. FurtherOn(s, k, st.s)
    BY <1>0, <1>4 DEF Read
  <2>2. /\ Len(st.s.ahead) = Len(s.ahead) - k /\ ~st.s.eof /\ ~st.s.fail
        /\ st.s.ahead[1] = s.ahead[k + 1] /\ st.s.ahead # <<>>
    BY <1>0, <1>1, <1>4, <2>1 DEF FurtherOn
  <2>3. next.line = st.s.ahead[1] /\ FurtherOn(st.s, 1, next)
    BY <1>1, <2>2, GetLineIs
  <2>4. Len(next.ahead) = Len(s.ahead) - (k + 1)
    BY <1>0, <2>2, <2>3 DEF FurtherOn
  <2>5. ASSUME NEW j \in 1 .. Len(s.ahead) - (k + 1) PROVE next.ahead[j] = s.ahead[k + 1 + j]
    <3>1. j \in 1 .. Len(st.s.ahead) - 1 /\ 1 + j \in 1 .. Len(s.ahead) - k /\ k + (1 + j) = k + 1 + j
      BY <1>0, <2>2
    <3>2. next.ahead[j] = st.s.ahead[1 + j]
      BY <2>3, <3>1 DEF FurtherOn
    <3>3. st.s.ahead[1 + j] = s.ahead[k + (1 + j)]
      BY <2>1, <3>1 DEF FurtherOn
    <3> QED BY <3>1, <3>2, <3>3
  <2>6. ~next.fail /\ (next.eof <=> Len(st.s.ahead) = 1 /\ ~lund.newline)
    BY <2>3 DEF FurtherOn
  <2>7. next.eof <=> k + 1 > 0 /\ k + 1 = Len(s.ahead) /\ ~lund.newline
    BY <1>0, <2>2, <2>6
  <2> QED BY <2>2, <2>3, <2>4, <2>5, <2>6, <2>7 DEF FurtherOn
<1>5. ASSUME k + 1 = Len(s.ahead) + 1, lund.newline PROVE next.line = G!Blank
  <2>1. FurtherOn(s, k, st.s) /\ k = Len(s.ahead)
    BY <1>0, <1>5 DEF Read
  <2>2. st.s.ahead = <<>> /\ ~st.s.eof /\ ~st.s.fail
    BY <1>0, <1>1, <1>5, <2>1 DEF FurtherOn
  <2> QED BY <1>1, <2>2 DEF G!GetLine, Stream
<1>6. ASSUME NEW j \in 1 .. k + 1
      PROVE  /\ j <= Len(s.ahead) => new.got[j] = s.ahead[j]
             /\ j = Len(s.ahead) + 1 /\ lund.newline => new.got[j] = G!Blank
  <2>1. CASE j \in 1 .. k
    BY <1>3, <2>1 DEF Read
  <2>2. CASE j = k + 1
    BY <1>3, <1>4, <1>5, <2>2
  <2>3. j \in 1 .. k \/ j = k + 1
    OBVIOUS
  <2> QED BY <2>1, <2>2, <2>3
<1> QED
  BY <1>2, <1>3, <1>4, <1>6 DEF Read

(* What is read of a good stream when n lines are announced.                 *)
LEMMA ReadParticlesIs ==
  ASSUME NEW s \in Stream, ~s.eof, ~s.fail, NEW n \in Nat
  PROVE  Read(s, n, G!ReadParticles(s, n))
<1> DEFINE A == [s : Stream, got : Seq(FileLine)]
           start == [s |-> s, got |-> <<>>]
           One(x) == [s |-> G!GetLine(x.s), got |-> Append(x.got, G!GetLine(x.s).line)]
           step == [k \in 1 .. n |-> [x \in A |-> One(x)]]
<1>1. start \in A
  OBVIOUS
<1>2. ASSUME NEW x \in A PROVE One(x) \in A
  <2>1. x.s \in Stream /\ x.got \in Seq(FileLine)
    OBVIOUS
  <2>2. G!GetLine(x.s) \in Stream /\ G!GetLine(x.s).line \in FileLine
    BY <2>1, GetLineType DEF Stream
  <2>3. Append(x.got, G!GetLine(x.s).line) \in Seq(FileLine)
    BY <2>1, <2>2
  <2> QED BY <2>2, <2>3
<1>3. step \in [1 .. n -> [A -> A]]
  <2> HIDE DEF A, One
  <2> QED BY <1>2
<1>4. PICK f \in [0 .. n -> A] : Follows(f, n, start, step)
  <2> HIDE DEF A, step, start
  <2> QED BY <1>1, <1>3, Recursion, Zenon
<1>5. f = [k \in 0 .. n |-> IF k = 0 THEN [s |-> s, got |-> G!Clear(held)]
             ELSE [s |-> G!GetLine(f[k - 1].s),
                   got |-> Append(f[k - 1].got, G!GetLine(f[k - 1].s).line)]]
  <2>1. ASSUME NEW k \in 0 .. n, k # 0 PROVE f[k] = One(f[k - 1])
    <3>1. k \in 1 .. n /\ k - 1 \in 0 .. n
      BY <2>1
    <3>2. f[k - 1] \in A
      BY <3>1
    <3>3. f[k] = step[k][f[k - 1]]
      <4> HIDE DEF step, A
      <4> QED BY <1>4, <3>1 DEF Follows
    <3> HIDE DEF A, One
    <3> QED BY <3>1, <3>2, <3>3
  <2>2. f[0] = [s |-> s, got |-> G!Clear(held)]
    <3> HIDE DEF step, A
    <3> QED BY <1>4 DEF Follows, G!Clear
  <2> HIDE DEF A, step
  <2> QED BY <2>1, <2>2
<1> HIDE DEF A, start, step
<1> DEFINE r == CHOOSE read : read = [k \in 0 .. n |->
                   IF k = 0 THEN [s |-> s, got |-> G!Clear(held)]
                   ELSE [s |-> G!GetLine(read[k - 1].s),
                         got |-> Append(read[k - 1].got, G!GetLine(read[k - 1].s).line)]]
<1>6. r = [k \in 0 .. n |-> IF k = 0 THEN [s |-> s, got |-> G!Clear(held)]
             ELSE [s |-> G!GetLine(r[k - 1].s),
                   got |-> Append(r[k - 1].got, G!GetLine(r[k - 1].s).line)]]
  BY <1>5
<1>7. G!ReadParticles(s, n) = r[n]
  BY DEF G!ReadParticles
<1> HIDE DEF r
<1> DEFINE T == {k \in 0 .. n : Read(s, k, r[k])}
<1>8. 0 \in T
  <2>1. r[0].s = s /\ r[0].got = <<>>
    BY <1>6 DEF G!Clear
  <2>2. s.ahead \in Seq(FileLine)
    BY DEF Stream
  <2> QED BY <2>1, <2>2 DEF Read, FurtherOn
<1>9. ASSUME NEW k \in 0 .. n - 1, k \in T PROVE k + 1 \in T
  <2>1. k + 1 \in 0 .. n /\ k + 1 # 0 /\ (k + 1) - 1 = k /\ k \in Nat
    OBVIOUS
  <2>2. r[k + 1] = [s |-> G!GetLine(r[k].s), got |-> Append(r[k].got, G!GetLine(r[k].s).line)]
    BY <1>6, <2>1
  <2>3. Read(s, k + 1, r[k + 1])
    BY <1>9, <2>1, <2>2, ReadOne
  <2> QED BY <2>1, <2>3
<1>10. \A k \in 0 .. n : k \in T
  <2> HIDE DEF T
  <2> QED BY <1>8, <1>9, InductTo
<1> QED
  BY <1>7, <1>10

Announced == [says : Nat, particles : Seq(G!Particle)]
AllLines == FlattenSeq([k \in 1 .. Len(lund.records) |-> G!Lines(lund.records[k])])

LEMMA LinesAre ==
  ASSUME NEW r \in Announced
  PROVE  /\ G!Lines(r) \in Seq(FileLine)
         /\ Len(G!Lines(r)) = 1 + Len(r.particles)
         /\ G!Lines(r)[1] = G!Header(r.says)
         /\ \A i \in 1 .. Len(r.particles) :
               G!Lines(r)[1 + i] = [first |-> i, columns |-> 14, particle |-> r.particles[i]]
<1> DEFINE a == <<G!Header(r.says)>>
           b == [k \in 1 .. Len(r.particles) |->
                    [first |-> k, columns |-> 14, particle |-> r.particles[k]]]
<1>1. r.says \in Nat /\ r.particles \in Seq(G!Particle) /\ Len(r.particles) \in Nat
  BY DEF Announced
<1>2. G!Header(r.says) \in FileLine
  BY <1>1 DEF G!Header, FileLine
<1>3. \A k \in 1 .. Len(r.particles) : b[k] \in FileLine
  BY <1>1 DEF FileLine
<1>4. a \in Seq(FileLine) /\ Len(a) = 1 /\ a[1] = G!Header(r.says)
  BY <1>2
<1>5. b \in Seq(FileLine) /\ Len(b) = Len(r.particles)
  <2> HIDE DEF b
  <2>1. b \in [1 .. Len(r.particles) -> FileLine]
    BY <1>1, <1>3 DEF b
  <2> QED BY <1>1, <2>1, SeqDef
<1>6. G!Lines(r) = a \o b
  BY DEF G!Lines
<1>7. \A i \in 1 .. Len(r.particles) :
         b[i] = [first |-> i, columns |-> 14, particle |-> r.particles[i]]
  OBVIOUS
<1> HIDE DEF a, b
<1>8. /\ Len(a \o b) = 1 + Len(b)
      /\ (a \o b)[1] = a[1]
      /\ \A i \in 1 .. Len(b) : (a \o b)[1 + i] = b[i]
  <2>1. 1 \in 1 .. Len(a)
    BY <1>4
  <2> QED BY <1>4, <1>5, <2>1, ConcatAt
<1>9. a \o b \in Seq(FileLine)
  BY <1>4, <1>5
<1> QED
  BY <1>4, <1>5, <1>6, <1>7, <1>8, <1>9

\* Record k of the file begins after off[k - 1] lines.
Starts(off) ==
  LET n == Len(lund.records) IN
  /\ off \in [0 .. n -> Nat] /\ off[0] = 0 /\ off[n] = Len(AllLines)
  /\ \A k \in 1 .. n :
        LET r == lund.records[k] IN
        /\ off[k] = off[k - 1] + 1 + Len(r.particles)
        /\ AllLines[off[k - 1] + 1] = G!Header(r.says)
        /\ \A i \in 1 .. Len(r.particles) :
              AllLines[off[k - 1] + 1 + i]
              = [first |-> i, columns |-> 14, particle |-> r.particles[i]]

IsFile ==
  lund \in [exists : BOOLEAN, cut : Nat, newline : BOOLEAN, records : Seq(Announced)]

LEMMA FileIs ==
  ASSUME IsFile
  PROVE  /\ AllLines \in Seq(FileLine)
         /\ G!LinesOf(lund) \in Seq(FileLine)
         /\ Len(G!LinesOf(lund)) <= Len(AllLines)
         /\ lund.cut = 0 => Len(G!LinesOf(lund)) = Len(AllLines)
         /\ \A k \in 1 .. Len(G!LinesOf(lund)) : G!LinesOf(lund)[k] = AllLines[k]
         /\ \E off : Starts(off)
<1> DEFINE n == Len(lund.records)
           seqs == [k \in 1 .. n |-> G!Lines(lund.records[k])]
<1>1. /\ n \in Nat /\ lund.cut \in Nat
      /\ \A k \in 1 .. n : lund.records[k] \in Announced
  BY DEF IsFile
<1>2. seqs \in [1 .. n -> Seq(FileLine)]
  BY <1>1, LinesAre
<1>3. AllLines = FlattenSeq(seqs)
  BY DEF AllLines
<1>4. Len(seqs) = n
  <2>1. seqs \in Seq(Seq(FileLine)) /\ DOMAIN seqs = 1 .. n
    <3> HIDE DEF seqs
    <3> QED BY <1>1, <1>2, SeqDef
  <2> HIDE DEF seqs
  <2> QED BY <1>1, <2>1, LenProperties
<1>5. PICK off \in [0 .. n -> Nat] : Places(off, seqs, AllLines)
  <2> HIDE DEF seqs, n
  <2> QED BY <1>1, <1>2, <1>3, FlattenPlaces
<1>6. AllLines \in Seq(FileLine) /\ Len(AllLines) \in Nat
  <2> HIDE DEF seqs, n
  <2>1. AllLines \in Seq(FileLine)
    BY <1>1, <1>2, <1>3, FlattenPlaces
  <2> QED BY <2>1
<1>7. Starts(off)
  <2>1. ASSUME NEW k \in 1 .. n
        PROVE  /\ off[k] = off[k - 1] + 1 + Len(lund.records[k].particles)
               /\ AllLines[off[k - 1] + 1] = G!Header(lund.records[k].says)
               /\ \A i \in 1 .. Len(lund.records[k].particles) :
                     AllLines[off[k - 1] + 1 + i]
                     = [first |-> i, columns |-> 14, particle |-> lund.records[k].particles[i]]
    <3>1. PICK r \in Announced : r = lund.records[k]
      BY <1>1
    <3>2. PICK ls : ls = G!Lines(r)
      OBVIOUS
    <3>3. seqs[k] = ls
      BY <3>1, <3>2
    <3>4. /\ ls \in Seq(FileLine) /\ Len(ls) = 1 + Len(r.particles) /\ ls[1] = G!Header(r.says)
          /\ \A i \in 1 .. Len(r.particles) :
                ls[1 + i] = [first |-> i, columns |-> 14, particle |-> r.particles[i]]
          /\ Len(r.particles) \in Nat
      BY <3>2, LinesAre DEF Announced
    <3>5. PICK o \in Nat : o = off[k - 1]
      BY <1>1
    <3> HIDE DEF seqs, n
    <3>6. /\ off[k] = o + Len(ls)
          /\ \A i \in 1 .. Len(ls) : AllLines[o + i] = ls[i]
      BY <1>4, <1>5, <3>3, <3>5 DEF Places
    <3>7. off[k] = o + 1 + Len(r.particles)
      <4>1. o + (1 + Len(r.particles)) = o + 1 + Len(r.particles)
        <5>1. \A a, b \in Nat : a + (1 + b) = a + 1 + b
          OBVIOUS
        <5> QED BY <3>4, <5>1, Zenon
      <4> QED BY <3>4, <3>6, <4>1
    <3>8. AllLines[o + 1] = G!Header(r.says)
      <4>1. 1 \in 1 .. Len(ls)
        BY <3>4
      <4> QED BY <3>4, <3>6, <4>1
    <3>9. ASSUME NEW i \in 1 .. Len(r.particles)
          PROVE  AllLines[o + 1 + i] = [first |-> i, columns |-> 14, particle |-> r.particles[i]]
      <4>1. 1 + i \in 1 .. 1 + Len(r.particles) /\ o + (1 + i) = o + 1 + i
        BY <3>4
      <4> QED BY <3>4, <3>6, <4>1
    <3> QED BY <3>1, <3>5, <3>7, <3>8, <3>9
  <2>2. off[0] = 0 /\ off[n] = Len(AllLines)
    <3> HIDE DEF seqs, n
    <3> QED BY <1>4, <1>5 DEF Places
  <2> QED BY <2>1, <2>2 DEF Starts
<1>8. G!LinesOf(lund) = SubSeq(AllLines, 1, Len(AllLines) - lund.cut)
  BY DEF G!LinesOf, AllLines
<1>9. /\ G!LinesOf(lund) \in Seq(FileLine)
      /\ Len(G!LinesOf(lund)) <= Len(AllLines)
      /\ lund.cut = 0 => Len(G!LinesOf(lund)) = Len(AllLines)
      /\ \A k \in 1 .. Len(G!LinesOf(lund)) : G!LinesOf(lund)[k] = AllLines[k]
  <2>1. PICK m \in Int : m = Len(AllLines) - lund.cut
    BY <1>1, <1>6
  <2>2. /\ SubSeq(AllLines, 1, m) \in Seq(FileLine)
        /\ Len(SubSeq(AllLines, 1, m)) = IF 1 <= m THEN m - 1 + 1 ELSE 0
        /\ \A k \in 1 .. m - 1 + 1 : SubSeq(AllLines, 1, m)[k] = AllLines[1 + k - 1]
    BY <1>1, <1>6, <2>1, SubSeqProperties
  <2>3. /\ m <= Len(AllLines) /\ (lund.cut = 0 => m = Len(AllLines))
        /\ \A k \in 1 .. m : k \in 1 .. m - 1 + 1 /\ 1 + k - 1 = k
    BY <1>1, <1>6, <2>1
  <2> QED BY <1>6, <1>8, <2>1, <2>2, <2>3
<1> QED
  BY <1>6, <1>7, <1>9

\* No record is without a line.
LEMMA StartsGrow ==
  ASSUME IsFile, NEW off, Starts(off)
  PROVE  \A j \in 0 .. Len(lund.records) :
            off[j] + (Len(lund.records) - j) <= off[Len(lund.records)]
<1> DEFINE n == Len(lund.records)
           T == {i \in 0 .. n : off[n - i] + i <= off[n]}
<1>1. n \in Nat /\ \A j \in 0 .. n : off[j] \in Nat
  <2>1. lund.records \in Seq(Announced)
    BY DEF IsFile
  <2>2. off \in [0 .. n -> Nat]
    BY DEF Starts
  <2> QED BY <2>1, <2>2
<1>2. \A k \in 1 .. n : off[k - 1] + 1 <= off[k]
  <2> SUFFICES ASSUME NEW k \in 1 .. n PROVE off[k - 1] + 1 <= off[k]
    OBVIOUS
  <2>1. lund.records[k] \in Announced
    BY DEF IsFile
  <2>2. Len(lund.records[k].particles) \in Nat
    BY <2>1 DEF Announced
  <2>3. k - 1 \in 0 .. n /\ off[k - 1] \in Nat
    BY <1>1
  <2>4. off[k] = off[k - 1] + 1 + Len(lund.records[k].particles)
    BY DEF Starts
  <2> QED BY <2>2, <2>3, <2>4
<1> HIDE DEF n
<1>3. 0 \in T
  BY <1>1
<1>4. ASSUME NEW i \in 0 .. n - 1, i \in T PROVE i + 1 \in T
  <2>1. n - i \in 1 .. n /\ (n - i) - 1 = n - (i + 1) /\ n - (i + 1) \in 0 .. n /\ n - i \in 0 .. n
        /\ i + 1 \in 0 .. n /\ n \in 0 .. n
    BY <1>1
  <2>2. off[n - (i + 1)] + 1 <= off[n - i] /\ off[n - i] + i <= off[n]
    BY <1>2, <1>4, <2>1
  <2>3. off[n - (i + 1)] \in Nat /\ off[n - i] \in Nat /\ off[n] \in Nat
    BY <1>1, <2>1
  <2>4. off[n - (i + 1)] + (i + 1) <= off[n]
    BY <2>2, <2>3
  <2> QED BY <2>1, <2>4
<1>5. \A i \in 0 .. n : i \in T
  <2> HIDE DEF T
  <2> QED BY <1>1, <1>3, <1>4, InductTo
<1>6. ASSUME NEW j \in 0 .. n PROVE off[j] + (n - j) <= off[n]
  <2>1. n - j \in 0 .. n /\ n - (n - j) = j
    BY <1>1
  <2>2. off[n - (n - j)] + (n - j) <= off[n]
    BY <1>5, <2>1
  <2> QED BY <2>1, <2>2
<1> QED
  BY <1>6 DEF n

\* The headers tell the truth, and a file cut short was cut after the end of a line.
Trusted ==
  /\ \A k \in DOMAIN lund.records : lund.records[k].says = Len(lund.records[k].particles)
  /\ lund.cut = 0 \/ lund.newline

\* The stream has all lines ahead but those of the records of the events so far.
Reached(off) ==
  /\ Starts(off)
  /\ off[EventID + 1] + Len(cur_file.ahead) = Len(G!LinesOf(lund))
  /\ \A k \in 1 .. Len(cur_file.ahead) :
        cur_file.ahead[k] = AllLines[off[EventID + 1] + k]

\* Between two events the reader has read the records of the events so far.
Position ==
  IF lund.exists
  THEN /\ EventID + 1 \in 0 .. Len(lund.records)
       /\ cur_file \in Stream /\ ~cur_file.fail
       /\ cur_file.eof <=> EventID >= 0 /\ cur_file.ahead = <<>> /\ ~lund.newline
       /\ \E off : Reached(off)
  ELSE cur_file \in Stream /\ cur_file.fail /\ ~cur_file.eof

LundInv ==
  /\ IsFile /\ runs \in Nat
  /\ EventID \in Int /\ EventID >= -1
  /\ runs = 0 => EventID = -1 /\ run_length = 0
  /\ G!LundEventsAreTheirRecords
  /\ GeneratorCase = G!LundCase /\ Trusted /\ runs # 0 /\ ended = "no" => Position

\* The reader opens its file at the first record.
LEMMA OpenPosition ==
  ASSUME IsFile, cur_file' = G!OpenFile, EventID' = -1, UNCHANGED lund
  PROVE  Position'
<1>1. CASE ~lund.exists
  <2>1. cur_file' = [ahead |-> <<>>, eof |-> FALSE, fail |-> TRUE, line |-> G!Blank]
    BY <1>1 DEF G!OpenFile
  <2>2. cur_file' \in Stream
    BY <2>1, BlankIs DEF Stream
  <2> QED BY <1>1, <2>1, <2>2 DEF Position
<1>2. CASE lund.exists
  <2>1. /\ cur_file'.ahead = G!LinesOf(lund) /\ ~cur_file'.eof /\ ~cur_file'.fail
        /\ cur_file' = [ahead |-> G!LinesOf(lund), eof |-> FALSE, fail |-> FALSE,
                        line |-> G!Blank]
    BY <1>2 DEF G!OpenFile
  <2>2. cur_file' \in Stream
    BY <2>1, FileIs, BlankIs DEF Stream
  <2>3. PICK off : Starts(off)
    BY FileIs
  <2>4. off[0] = 0
    BY <2>3 DEF Starts
  <2>5. PICK ls \in Seq(FileLine) : ls = G!LinesOf(lund)
    BY FileIs
  <2>6. \A k \in 1 .. Len(ls) : ls[k] = AllLines[off[0] + k]
    <3>1. \A k \in 1 .. Len(ls) : off[0] + k = k
      BY <2>4
    <3>2. \A k \in 1 .. Len(ls) : ls[k] = AllLines[k]
      BY <2>5, FileIs
    <3> QED BY <3>1, <3>2
  <2>7. off[0] + Len(ls) = Len(ls)
    BY <2>4, <2>5
  <2>8. Starts(off)'
    BY <2>3 DEF Starts, AllLines
  <2>9. AllLines' = AllLines /\ G!LinesOf(lund)' = G!LinesOf(lund)
    BY DEF AllLines
  <2>10. 0 \in 0 .. Len(lund.records)
    <3>1. lund.records \in Seq(Announced)
      BY DEF IsFile
    <3> QED BY <3>1
  <2>11. EventID' + 1 = 0 /\ ~(EventID' >= 0)
    OBVIOUS
  <2>12. Reached(off)'
    BY <2>1, <2>5, <2>6, <2>7, <2>8, <2>9, <2>11 DEF Reached
  <2> QED BY <1>2, <2>1, <2>2, <2>10, <2>11, <2>12 DEF Position
<1> QED
  BY <1>1, <1>2

(* An event from a LUND file.                                                *)
LEMMA LundStep ==
  ASSUME LundInv, GeneratorCase = G!LundCase, G!LUND, Trusted, ended = "no", runs # 0,
         EventID' = EventID + 1, UNCHANGED <<GeneratorCase, lund, runs, run_length>>
  PROVE  LundInv'
<1> DEFINE n == Len(lund.records)
           header == G!GetLine([cur_file EXCEPT !.line = G!Blank])
           again == [header EXCEPT !.line = G!Blank]
           r == G!ReadParticles(again, header.line.first)
           isRecord == ~header.eof /\ header.line.first # -1
           tooShort == \E k \in 1 .. Len(r.got) : r.got[k].columns < 14
           e == EventID'
<1>0. /\ IsFile /\ Position /\ runs \in Nat /\ EventID \in Int /\ e \in Int /\ e >= 0
      /\ lund.records \in Seq(Announced) /\ n \in Nat
  BY DEF LundInv, IsFile
<1>1. /\ ended' = IF header.eof THEN "exit"
                  ELSE IF ~isRecord THEN "invalid_argument"
                  ELSE IF tooShort THEN "out_of_range" ELSE "no"
      /\ vertices' = IF ended' # "no" THEN <<>>
                     ELSE SelectSeq([k \in 1 .. Len(r.got) |-> r.got[k].particle], G!Known)
      /\ cur_file' = IF isRecord THEN r.s ELSE header
  BY DEF G!LUND
<1>2. SUFFICES
        /\ ended' = "no" =>
              /\ e + 1 \in 1 .. n
              /\ vertices' = SelectSeq(lund.records[e + 1].particles, G!Known)
              /\ Position'
        /\ ended' = "exit" /\ lund.cut = 0 =>
              e = n \/ (lund.records[n].particles = <<>> /\ ~lund.newline)
  <2>1. IsFile' /\ Trusted' = Trusted /\ LundInv
    BY <1>0 DEF IsFile, Trusted
  <2>2. DOMAIN lund.records = 1 .. n
    BY <1>0
  <2> HIDE DEF header, again, r, isRecord, tooShort
  <2>3. G!LundEventsAreTheirRecords'
    BY <1>2, <2>2 DEF G!LundEventsAreTheirRecords
  <2> QED BY <1>0, <1>2, <2>1, <2>3 DEF LundInv
<1>3. CASE ~lund.exists
  <2>1. cur_file \in Stream /\ cur_file.fail /\ ~cur_file.eof
    BY <1>0, <1>3 DEF Position
  <2>2. ~header.eof /\ header.line.first = -1
    <3>1. header = [[cur_file EXCEPT !.line = G!Blank] EXCEPT !.fail = TRUE]
      BY <2>1 DEF G!GetLine
    <3> HIDE DEF header
    <3>2. header.eof = cur_file.eof /\ header.line = G!Blank
      BY <2>1, <3>1 DEF Stream
    <3> QED BY <2>1, <3>2, BlankIs
  <2>3. ended' = "invalid_argument"
    <3> HIDE DEF header, r
    <3> QED BY <1>1, <2>2
  <2> QED BY <2>3
<1>4. CASE lund.exists
  <2>0. PICK off : /\ Starts(off)
                   /\ off[e] + Len(cur_file.ahead) = Len(G!LinesOf(lund))
                   /\ \A k \in 1 .. Len(cur_file.ahead) :
                         cur_file.ahead[k] = AllLines[off[e] + k]
    BY <1>0, <1>4 DEF Position, Reached
  <2> DEFINE s == [cur_file EXCEPT !.line = G!Blank]
  <2>1. /\ e \in 0 .. n /\ cur_file \in Stream /\ ~cur_file.fail
        /\ cur_file.eof => cur_file.ahead = <<>> /\ ~lund.newline
    BY <1>0, <1>4 DEF Position
  <2>2. /\ s \in Stream /\ s.ahead = cur_file.ahead /\ s.eof = cur_file.eof /\ ~s.fail
        /\ s.line = G!Blank
    BY <2>1, BlankIs DEF Stream
  <2>3. PICK rest \in Seq(FileLine) : rest = cur_file.ahead
    BY <2>1 DEF Stream
  <2>4. PICK all \in Nat, some \in Nat :
           /\ all = Len(AllLines) /\ some = Len(G!LinesOf(lund))
           /\ some <= all /\ (lund.cut = 0 => some = all)
    BY <1>0, FileIs
  <2>5. /\ \A j \in 0 .. n : off[j] \in Nat /\ off[j] + (n - j) <= all
        /\ off[n] = all /\ off[e] + Len(rest) = some
    <3>1. \A j \in 0 .. n : off[j] + (n - j) <= off[n]
      BY <1>0, <2>0, StartsGrow
    <3>2. off \in [0 .. n -> Nat] /\ off[n] = Len(AllLines)
      BY <2>0 DEF Starts
    <3> QED BY <2>0, <2>3, <2>4, <3>1, <3>2
  <2> HIDE DEF s
  <2>6. CASE rest = <<>>
    <3>1. header.eof
      <4>1. header = G!GetLine(s) /\ s.ahead = <<>> /\ ~s.fail
        BY <2>2, <2>3, <2>6 DEF s
      <4> HIDE DEF header
      <4> QED BY <2>2, <4>1 DEF G!GetLine, Stream
    <3>2. lund.cut = 0 => e = n
      <4>1. Len(rest) = 0
        BY <2>6
      <4> HIDE DEF e, n
      <4>2. e \in Int /\ n \in Nat /\ off[e] \in Nat /\ off[e] + (n - e) <= all /\ e <= n
        BY <1>0, <2>1, <2>5
      <4> QED BY <2>4, <2>5, <4>1, <4>2
    <3>3. ended' = "exit"
      <4> HIDE DEF header, r
      <4> QED BY <1>1, <3>1
    <3> QED BY <3>2, <3>3
  <2>7. CASE rest # <<>>
    <3> DEFINE k == e + 1
               m == Len(lund.records[k].particles)
    <3>0. Len(rest) \in Nat /\ Len(rest) >= 1 /\ s.ahead = rest /\ ~s.eof /\ header = G!GetLine(s)
      BY <2>1, <2>2, <2>3, <2>7 DEF s
    <3>1. header.line = rest[1] /\ FurtherOn(s, 1, header) /\ header \in Stream
      <4> HIDE DEF header
      <4> QED BY <2>2, <2>7, <3>0, GetLineIs, GetLineType
    <3> HIDE DEF header, s
    <3>2. k \in 1 .. n /\ k \in 0 .. n /\ k - 1 = e
      <4>1. off[e] # off[n]
        BY <2>1, <2>4, <2>5, <3>0
      <4> HIDE DEF n
      <4> QED BY <1>0, <2>1, <4>1
    <3>3. /\ lund.records[k] \in Announced /\ m \in Nat /\ lund.records[k].says = m
          /\ lund.records[k].particles \in Seq(G!Particle)
      <4>1. lund.records[k] \in Announced
        BY <1>0, <3>2
      <4>2. k \in DOMAIN lund.records
        BY <1>0, <3>2
      <4> QED BY <4>1, <4>2 DEF Trusted, Announced
    <3>4. /\ off[k] = off[e] + 1 + m
          /\ AllLines[off[e] + 1] = G!Header(lund.records[k].says)
          /\ \A i \in 1 .. m : AllLines[off[e] + 1 + i]
                = [first |-> i, columns |-> 14, particle |-> lund.records[k].particles[i]]
      BY <2>0, <3>2 DEF Starts
    <3> HIDE DEF k, m
    <3>5. PICK a \in Nat, c \in Nat : a = off[e] /\ c = Len(rest)
      BY <2>1, <2>5, <3>0
    <3>6. a + c = some /\ c >= 1 /\ off[k] = a + 1 + m /\ a + 1 + m + (n - k) <= all /\ n - k >= 0
      BY <1>0, <2>1, <2>5, <3>0, <3>2, <3>4, <3>5
    <3>11. PICK p \in Nat, d \in Nat : p = m /\ d = n - k /\ (d = 0 => k = n)
      <4>1. n - k \in Nat /\ (n - k = 0 => k = n)
        <5> HIDE DEF n
        <5> QED BY <1>0, <3>2
      <4> QED BY <3>3, <4>1
    <3>12. a + c = some /\ c >= 1 /\ a + 1 + p + d <= all
      BY <3>6, <3>11
    <3>7. \A i \in 1 .. c : rest[i] = AllLines[a + i]
      BY <2>0, <2>3, <3>5
    <3>8. header.line.first = m
      <4>1. 1 \in 1 .. c
        BY <3>6
      <4>2. header.line = G!Header(lund.records[k].says)
        BY <3>1, <3>4, <3>5, <3>7, <4>1
      <4> QED BY <3>3, <4>2 DEF G!Header
    <3>9. CASE header.eof
      <4>1. c = 1 /\ ~lund.newline
        BY <3>0, <3>1, <3>5, <3>9 DEF FurtherOn
      <4>2. some = all
        BY <2>4, <4>1 DEF Trusted
      <4>3. m = 0 /\ k = n
        <5>1. p = 0 /\ d = 0
          BY <2>4, <3>12, <4>1, <4>2
        <5> QED BY <3>11, <5>1
      <4>4. lund.records[n].particles = <<>>
        BY <3>3, <4>3 DEF m
      <4>5. ended' = "exit"
        <5> HIDE DEF r
        <5> QED BY <1>1, <3>9
      <4> QED BY <4>1, <4>4, <4>5
    <3>10. CASE ~header.eof
      <4>1. header.line.first # -1
        BY <3>3, <3>8
      <4>2. /\ again \in Stream /\ again.ahead = header.ahead /\ ~again.eof /\ ~again.fail
        BY <3>1, <3>10, BlankIs DEF FurtherOn, Stream
      <4>3. r = G!ReadParticles(again, m)
        BY <3>8
      <4> HIDE DEF again, r
      <4>4. Read(again, m, r)
        BY <3>3, <4>2, <4>3, ReadParticlesIs
      <4>5. /\ Len(again.ahead) = c - 1
            /\ \A i \in 1 .. c - 1 : again.ahead[i] = AllLines[a + 1 + i]
        <5>1. \A i \in 1 .. c - 1 : 1 + i \in 1 .. c /\ a + (1 + i) = a + 1 + i
          BY <3>5
        <5>2. Len(again.ahead) = c - 1 /\ \A i \in 1 .. c - 1 : again.ahead[i] = rest[1 + i]
          BY <3>0, <3>1, <3>5, <4>2 DEF FurtherOn
        <5> QED BY <3>7, <5>1, <5>2
      <4>6. Len(r.got) = m /\ c - 1 \in Nat
        BY <3>6, <4>4 DEF Read
      <4>7. CASE m > c - 1
        <5>1. lund.newline
          <6>1. p > c - 1
            BY <3>11, <4>7
          <6>2. some # all
            BY <2>4, <3>12, <6>1
          <6> QED BY <2>4, <6>2 DEF Trusted
        <5>2. c \in 1 .. m /\ c = (c - 1) + 1
          <6>1. p > c - 1
            BY <3>11, <4>7
          <6>2. c \in 1 .. p /\ c = (c - 1) + 1
            BY <3>12, <6>1
          <6> QED BY <3>11, <6>2
        <5>3. r.got[c].columns < 14
          <6>1. r.got[c] = G!Blank
            BY <4>4, <4>5, <5>1, <5>2 DEF Read
          <6> QED BY <6>1, BlankIs
        <5>4. tooShort
          BY <4>6, <5>2, <5>3
        <5> HIDE DEF tooShort
        <5>5. ended' = "out_of_range"
          BY <1>1, <3>10, <4>1, <5>4
        <5> QED BY <5>5
      <4>8. CASE m <= c - 1
        <5>1. ASSUME NEW i \in 1 .. m
              PROVE  /\ r.got[i].columns = 14
                     /\ r.got[i].particle = lund.records[k].particles[i]
          <6>1. i \in 1 .. c - 1 /\ i <= Len(again.ahead)
            BY <3>3, <4>5, <4>6, <4>8
          <6>2. r.got[i] = AllLines[a + 1 + i]
            BY <4>4, <4>5, <6>1 DEF Read
          <6>3. r.got[i] = [first |-> i, columns |-> 14,
                            particle |-> lund.records[k].particles[i]]
            BY <3>4, <3>5, <6>2
          <6> QED BY <6>3
        <5>2. ~tooShort
          BY <4>6, <5>1
        <5> HIDE DEF tooShort
        <5>3. ended' = "no" /\ cur_file' = r.s
          BY <1>1, <3>10, <4>1, <5>2
        <5>4. vertices' = SelectSeq([i \in 1 .. Len(r.got) |-> r.got[i].particle], G!Known)
          BY <1>1, <5>3
        <5>5. [i \in 1 .. Len(r.got) |-> r.got[i].particle] = lund.records[k].particles
          <6>1. DOMAIN lund.records[k].particles = 1 .. m
            BY <3>3 DEF m
          <6>2. lund.records[k].particles = [i \in 1 .. m |-> lund.records[k].particles[i]]
            BY <3>3, <6>1
          <6> QED BY <4>6, <5>1, <6>2
        <5>6. FurtherOn(again, m, cur_file') /\ cur_file' \in Stream
          BY <4>4, <4>5, <4>8, <5>3 DEF Read
        <5>7. Position'
          <6>1. PICK q \in Seq(FileLine) : q = cur_file'.ahead
            BY <5>6 DEF Stream
          <6>2. Len(q) = c - 1 - p /\ \A i \in 1 .. c - 1 - p : q[i] = again.ahead[p + i]
            BY <3>11, <4>5, <5>6, <6>1 DEF FurtherOn
          <6>3. p <= c - 1
            BY <3>11, <4>8
          <6>4. a + 1 + p + Len(q) = some /\ off[k] = a + 1 + p
            BY <3>6, <3>11, <3>12, <6>2, <6>3
          <6>5. ASSUME NEW i \in 1 .. Len(q) PROVE q[i] = AllLines[off[k] + i]
            <7>1. i \in 1 .. c - 1 - p /\ p + i \in 1 .. c - 1 /\ a + 1 + (p + i) = a + 1 + p + i
              BY <6>2, <6>3
            <7>2. q[i] = AllLines[a + 1 + (p + i)]
              BY <4>5, <6>2, <7>1
            <7> QED BY <6>4, <7>1, <7>2
          <6>6. cur_file'.eof <=> q = <<>> /\ ~lund.newline
            <7>1. cur_file'.eof <=> p > 0 /\ p = c - 1 /\ ~lund.newline
              BY <3>11, <4>5, <5>6 DEF FurtherOn
            <7>2. q = <<>> <=> p = c - 1
              BY <6>1, <6>2, <6>3
            <7>3. ~(c = 1 /\ ~lund.newline)
              BY <3>0, <3>1, <3>5, <3>10 DEF FurtherOn
            <7> QED BY <6>3, <7>1, <7>2, <7>3
          <6>7. ~cur_file'.fail
            BY <5>6 DEF FurtherOn
          <6>8. Starts(off)'
            BY <2>0 DEF Starts, AllLines
          <6>9. AllLines' = AllLines /\ G!LinesOf(lund)' = G!LinesOf(lund)
            BY DEF AllLines
          <6>10. k = EventID' + 1 /\ EventID' >= 0 /\ k \in 0 .. Len(lund.records)
            BY <1>0, <3>2 DEF k
          <6>11. Reached(off)'
            BY <2>4, <6>1, <6>4, <6>5, <6>8, <6>9, <6>10 DEF Reached
          <6>12. lund' = lund /\ cur_file' \in Stream
            BY <5>6
          <6>13. cur_file'.eof <=> EventID' >= 0 /\ cur_file'.ahead = <<>> /\ ~lund'.newline
            BY <6>1, <6>6, <6>10, <6>12
          <6> QED BY <1>4, <6>7, <6>10, <6>11, <6>12, <6>13 DEF Position
        <5> QED BY <3>2, <5>3, <5>4, <5>5, <5>7 DEF k
      <4> QED BY <3>3, <4>6, <4>7, <4>8
    <3> QED BY <3>9, <3>10
  <2> QED BY <2>6, <2>7
<1> QED
  BY <1>3, <1>4

LEMMA LundInit == G!Init => LundInv
<1> SUFFICES ASSUME G!Init PROVE LundInv
  OBVIOUS
<1>1. IsFile
  BY InputsAssumption DEF G!Init, G!GeneratorsAssumption, IsFile, Announced
<1> QED
  BY <1>1 DEF G!Init, LundInv, G!LundEventsAreTheirRecords

LEMMA LundKept ==
  ASSUME LundInv, UNCHANGED G!vars
  PROVE  LundInv'
<1>1. /\ UNCHANGED <<GeneratorCase, lund, runs, run_length, EventID, cur_file, vertices, ended>>
  BY DEF G!vars
<1>2. Position => Position'
  <2>1. AllLines' = AllLines /\ G!LinesOf(lund') = G!LinesOf(lund)
    BY <1>1 DEF AllLines
  <2>2. ASSUME NEW off, Reached(off) PROVE Reached(off)'
    <3>1. Starts(off)'
      BY <1>1, <2>1, <2>2 DEF Reached, Starts
    <3> QED BY <1>1, <2>1, <2>2, <3>1 DEF Reached
  <2> QED BY <1>1, <2>2 DEF Position
<1>3. Trusted' = Trusted /\ (IsFile => IsFile')
  BY <1>1 DEF Trusted, IsFile
<1>4. G!LundEventsAreTheirRecords => G!LundEventsAreTheirRecords'
  BY <1>1 DEF G!LundEventsAreTheirRecords
<1> QED
  BY <1>1, <1>2, <1>3, <1>4 DEF LundInv

LEMMA LundNext == LundInv /\ [G!Next]_(G!vars) => LundInv'
<1> SUFFICES ASSUME LundInv, [G!Next]_(G!vars) PROVE LundInv'
  OBVIOUS
<1>1. CASE G!BeginOfRunAction
  <2>1. /\ UNCHANGED <<GeneratorCase, lund, ended>>
        /\ EventID' = -1 /\ runs' = runs + 1 /\ ended = "no"
    BY <1>1 DEF G!BeginOfRunAction
  <2>2. IsFile' /\ runs' \in Nat /\ runs' # 0 /\ Trusted' = Trusted
    BY <2>1 DEF LundInv, IsFile, Trusted
  <2>3. GeneratorCase = G!LundCase => Position'
    <3> SUFFICES ASSUME GeneratorCase = G!LundCase PROVE Position'
      OBVIOUS
    <3>1. cur_file' = G!OpenFile
      BY <1>1 DEF G!BeginOfRunAction
    <3> QED BY <2>1, <3>1, OpenPosition DEF LundInv
  <2>4. G!LundEventsAreTheirRecords'
    BY <2>1 DEF G!LundEventsAreTheirRecords
  <2> QED BY <2>1, <2>2, <2>3, <2>4 DEF LundInv
<1>2. CASE G!GeneratePrimaries
  <2>1. /\ UNCHANGED <<GeneratorCase, lund, runs, run_length>>
        /\ EventID' = EventID + 1 /\ ended = "no" /\ EventID + 1 < run_length
    BY <1>2 DEF G!GeneratePrimaries
  <2>2. runs # 0
    BY <2>1 DEF LundInv
  <2>3. CASE GeneratorCase = G!LundCase /\ Trusted
    <3>1. G!LUND
      BY <1>2, <2>3 DEF G!GeneratePrimaries, G!LundCase, G!ScanCase, G!RasterCase, G!OtherCase
    <3> QED BY <2>1, <2>2, <2>3, <3>1, LundStep
  <2>4. CASE ~(GeneratorCase = G!LundCase /\ Trusted)
    <3>1. IsFile' /\ Trusted' = Trusted /\ EventID' \in Int /\ EventID' >= -1
      BY <2>1 DEF LundInv, IsFile, Trusted
    <3>2. G!LundEventsAreTheirRecords'
      <4>1. ~(GeneratorCase' = G!LundCase /\ Trusted')
        BY <2>1, <2>4, <3>1
      <4> QED BY <4>1 DEF G!LundEventsAreTheirRecords, Trusted
    <3> QED BY <2>1, <2>2, <2>4, <3>1, <3>2 DEF LundInv
  <2> QED BY <2>3, <2>4
<1>3. CASE UNCHANGED G!vars
  BY <1>3, LundKept
<1> QED
  BY <1>1, <1>2, <1>3 DEF G!Next

(* Whatever the LUND file, with its headers telling the truth and not cut in *)
(* the middle of a line: event n has the vertices of the known particles of  *)
(* record n, and the program exits where the records end.                    *)
THEOREM LundEventsAreRecords ==
  G!Spec => []LundEventsAreTheirRecords
<1>1. LundInv => LundEventsAreTheirRecords
  BY DEF LundInv, LundEventsAreTheirRecords
<1> QED
  BY <1>1, LundInit, LundNext, PTL DEF G!Spec

-----------------------------------------------------------------------------
(* The scan.                                                                 *)

\* Events 20 q to 20 q + 19 are those of one bar.
LEMMA Twenty ==
  ASSUME NEW e \in Nat, NEW q \in Nat, NEW i \in 0 .. 19, e = 20 * q + i
  PROVE  e \div 20 = q /\ e % 20 = i
OBVIOUS

\* The place of the event after one in its bar and its wall.
LEMMA NextPlace ==
  ASSUME NEW e \in Nat
  PROVE  /\ e % 220 \in 0 .. 219 /\ (e % 220) \div 20 \in 0 .. 10 /\ (e % 220) % 20 = e % 20
         /\ (e + 1) % 220 = 0 => e % 220 = 219
         /\ (e + 1) % 220 # 0 => (e + 1) % 220 = (e % 220) + 1
OBVIOUS

LEMMA NextBar ==
  ASSUME NEW m \in 0 .. 219
  PROVE  /\ m % 20 = 19 => (m + 1) \div 20 = m \div 20 + 1
         /\ m % 20 # 19 => (m + 1) \div 20 = m \div 20
OBVIOUS

\* The tangents of the directions, as the generator adds them up.
LEMMA Tangents ==
  ASSUME NEW w \in 0 .. 1, NEW k \in 0 .. 6
  PROVE  G!Tangent(w, k) = IF w = 0 THEN <<0, 1261, 2526, 3800, 5087, 6393, 7722>>[k + 1]
                           ELSE <<0, 1073, 2148, 3229, 4318, 5418, 6533>>[k + 1]
<1> DEFINE t == (G!BarWidth * G!TanScale) \div G!WallDist(w)
           Sum(x) == ((x + t) * G!TanScale) \div (G!TanScale - (x * t) \div G!TanScale)
           T == IF w = 0 THEN <<0, 1261, 2526, 3800, 5087, 6393, 7722>>
                ELSE <<0, 1073, 2148, 3229, 4318, 5418, 6533>>
           f == [j \in 0 .. 6 |-> T[j + 1]]
<1>1. t = IF w = 0 THEN 1261 ELSE 1073
  BY DEF G!BarWidth, G!TanScale, G!WallDist
<1>2. \A j \in 1 .. 6 : T[j + 1] = Sum(T[j])
  <2>1. \A j \in 1 .. 6 : j \in {1, 2, 3, 4, 5, 6}
    OBVIOUS
  <2>2. CASE w = 0
    <3>1. t = 1261
      BY <1>1, <2>2
    <3> HIDE DEF t
    <3> QED BY <2>1, <2>2, <3>1 DEF G!TanScale
  <2>3. CASE w = 1
    <3>1. t = 1073
      BY <1>1, <2>3
    <3> HIDE DEF t
    <3> QED BY <2>1, <2>3, <3>1 DEF G!TanScale
  <2> QED BY <2>2, <2>3
<1>3. T[1] = 0
  OBVIOUS
<1> HIDE DEF T, t
<1>4. f = [j \in 0 .. 6 |-> IF j = 0 THEN 0 ELSE Sum(f[j - 1])]
  <2>1. ASSUME NEW j \in 0 .. 6, j # 0 PROVE f[j] = Sum(f[j - 1])
    <3>1. j \in 1 .. 6 /\ j - 1 \in 0 .. 6 /\ (j - 1) + 1 = j
      BY <2>1
    <3> HIDE DEF Sum
    <3> QED BY <1>2, <3>1
  <2>2. f[0] = 0
    BY <1>3
  <2> HIDE DEF f, Sum
  <2>3. f = [j \in 0 .. 6 |-> f[j]]
    BY DEF f
  <2> QED BY <2>1, <2>2, <2>3
<1> DEFINE g == CHOOSE tan : tan = [j \in 0 .. 6 |-> IF j = 0 THEN 0 ELSE Sum(tan[j - 1])]
<1>5. g = [j \in 0 .. 6 |-> IF j = 0 THEN 0 ELSE Sum(g[j - 1])]
  <2> HIDE DEF f, Sum
  <2> QED BY <1>4
<1>6. G!Tangent(w, k) = g[k]
  <2>1. ~(k < 0)
    OBVIOUS
  <2> QED BY <2>1 DEF G!Tangent, t
<1> HIDE DEF g
<1>7. \A j \in 0 .. 6 : g[j] = T[j + 1]
  <2> DEFINE A == {j \in 0 .. 6 : g[j] = T[j + 1]}
  <2>1. 0 \in A
    BY <1>3, <1>5
  <2>2. ASSUME NEW j \in 0 .. 6 - 1, j \in A PROVE j + 1 \in A
    <3>1. j + 1 \in 0 .. 6 /\ j + 1 # 0 /\ (j + 1) - 1 = j /\ j + 1 \in 1 .. 6
      OBVIOUS
    <3>2. g[j + 1] = Sum(g[j]) /\ g[j] = T[j + 1]
      <4> HIDE DEF Sum
      <4> QED BY <1>5, <2>2, <3>1
    <3>3. T[(j + 1) + 1] = Sum(T[j + 1])
      <4> HIDE DEF Sum
      <4> QED BY <1>2, <3>1
    <3> HIDE DEF Sum
    <3> QED BY <3>1, <3>2, <3>3
  <2> HIDE DEF A
  <2>3. \A j \in 0 .. 6 : j \in A
    BY <2>1, <2>2, InductTo
  <2> QED BY <2>3 DEF A
<1> QED
  BY <1>6, <1>7 DEF T

\* The direction for bar 10 - q of a wall meets it in both of the layers.
LEMMA DirectionMeetsBar ==
  ASSUME NEW w \in 0 .. 1, NEW q \in 0 .. 10, NEW layer \in 0 .. 1
  PROVE  G!Across(w, layer, q - 5) - G!BarAt(10 - q)
            \in 0 - G!BarWidth \div 2 .. G!BarWidth \div 2
<1> DEFINE Far == G!WallDist(w) + layer * G!WallSeparation
           off == G!Across(w, layer, q - 5) - G!BarAt(10 - q)
<1>1. G!BarAt(10 - q) = (q - 5) * 2206 + 5 /\ G!BarWidth \div 2 = 1100
  BY DEF G!BarAt, G!Pitch, G!BarWidth
<1>2. Far \in {52300, 56360, 61500, 65560} /\ (w = 0 <=> Far \in {52300, 56360})
  BY DEF G!WallDist, G!WallSeparation
<1>3. CASE q >= 5
  <2>1. q - 5 \in {0, 1, 2, 3, 4, 5}
    BY <1>3
  <2>2. PICK T \in Int : T = G!Tangent(w, q - 5) /\
           IF w = 0 THEN <<q - 5, T>> \in {<<0, 0>>, <<1, 1261>>, <<2, 2526>>, <<3, 3800>>,
                                           <<4, 5087>>, <<5, 6393>>}
           ELSE <<q - 5, T>> \in {<<0, 0>>, <<1, 1073>>, <<2, 2148>>, <<3, 3229>>,
                                  <<4, 4318>>, <<5, 5418>>}
    <3>1. q - 5 \in 0 .. 6
      BY <2>1
    <3> QED BY <2>1, <3>1, Tangents
  <2>3. off = (Far * T) \div 30000 - ((q - 5) * 2206 + 5)
    BY <1>1, <2>2 DEF G!Across, G!DistanceTo, G!TanScale
  <2> HIDE DEF Far, off
  <2>4. off \in -1100 .. 1100
    <3>1. CASE w = 0
      <4>1. Far \in {52300, 56360} /\ <<q - 5, T>> \in {<<0, 0>>, <<1, 1261>>, <<2, 2526>>, <<3, 3800>>,
                                                 <<4, 5087>>, <<5, 6393>>}
        BY <1>2, <2>2, <3>1
      <4> QED BY <2>3, <4>1
    <3>2. CASE w # 0
      <4>1. Far \in {61500, 65560} /\ <<q - 5, T>> \in {<<0, 0>>, <<1, 1073>>, <<2, 2148>>, <<3, 3229>>,
                                                 <<4, 4318>>, <<5, 5418>>}
        BY <1>2, <2>2, <3>2
      <4> QED BY <2>3, <4>1
    <3> QED BY <3>1, <3>2
  <2>5. off \in 0 - G!BarWidth \div 2 .. G!BarWidth \div 2
    BY <2>4 DEF G!BarWidth
  <2> QED BY <2>5 DEF off
<1>4. CASE q < 5
  <2>1. q - 5 \in {-1, -2, -3, -4, -5} /\ 0 - (q - 5) \in 0 .. 6 /\ q - 5 < 0
    BY <1>4
  <2>2. PICK T \in Int : T = G!Tangent(w, q - 5) /\
           IF w = 0 THEN <<q - 5, T>> \in {<<-1, -1261>>, <<-2, -2526>>, <<-3, -3800>>,
                                           <<-4, -5087>>, <<-5, -6393>>}
           ELSE <<q - 5, T>> \in {<<-1, -1073>>, <<-2, -2148>>, <<-3, -3229>>,
                                  <<-4, -4318>>, <<-5, -5418>>}
    <3>1. G!Tangent(w, q - 5) = 0 - G!Tangent(w, 0 - (q - 5))
      BY <2>1 DEF G!Tangent
    <3> QED BY <2>1, <3>1, Tangents
  <2>3. off = (Far * T) \div 30000 - ((q - 5) * 2206 + 5)
    BY <1>1, <2>2 DEF G!Across, G!DistanceTo, G!TanScale
  <2> HIDE DEF Far, off
  <2>4. off \in -1100 .. 1100
    <3>1. CASE w = 0
      <4>1. Far \in {52300, 56360} /\ <<q - 5, T>> \in {<<-1, -1261>>, <<-2, -2526>>, <<-3, -3800>>,
                                                 <<-4, -5087>>, <<-5, -6393>>}
        BY <1>2, <2>2, <3>1
      <4> QED BY <2>3, <4>1
    <3>2. CASE w # 0
      <4>1. Far \in {61500, 65560} /\ <<q - 5, T>> \in {<<-1, -1073>>, <<-2, -2148>>, <<-3, -3229>>,
                                                 <<-4, -4318>>, <<-5, -5418>>}
        BY <1>2, <2>2, <3>2
      <4> QED BY <2>3, <4>1
    <3> QED BY <3>1, <3>2
  <2>5. off \in 0 - G!BarWidth \div 2 .. G!BarWidth \div 2
    BY <2>4 DEF G!BarWidth
  <2> QED BY <2>5 DEF off
<1> QED
  BY <1>3, <1>4

\* The same for the bars of a wall, from one side to the other.
LEMMA Directions ==
  ASSUME NEW w \in 0 .. 1, NEW q \in 0 .. 10
  PROVE  G!Tangent(w, q - 5) =
            IF w = 0
            THEN <<-6393, -5087, -3800, -2526, -1261, 0, 1261, 2526, 3800, 5087, 6393>>[q + 1]
            ELSE <<-5418, -4318, -3229, -2148, -1073, 0, 1073, 2148, 3229, 4318, 5418>>[q + 1]
<1>1. CASE q >= 5
  <2>1. q - 5 \in 0 .. 6 /\ q \in {5, 6, 7, 8, 9, 10}
    BY <1>1
  <2> QED BY <2>1, Tangents
<1>2. CASE q < 5
  <2>1. 0 - (q - 5) \in 0 .. 6 /\ q \in {0, 1, 2, 3, 4} /\ q - 5 < 0
    BY <1>2
  <2>2. G!Tangent(w, q - 5) = 0 - G!Tangent(w, 0 - (q - 5))
    BY <2>1 DEF G!Tangent
  <2> QED BY <2>1, <2>2, Tangents
<1> QED
  BY <1>1, <1>2

\* How far a ray goes to a bar: its steepest direction that is claimed to meet the
\* bar leaves it below the end.
LEMMA Reaches ==
  ASSUME NEW w \in 0 .. 1, NEW q \in 0 .. 10, NEW layer \in 0 .. 1
  PROVE  /\ G!Reach(w, layer, q - 5) \in Nat
         /\ w = 0 => G!Reach(w, layer, q - 5) * 9931 < 30000 * (G!HalfLength(10 - q) - 1)
         /\ w = 1 => G!Reach(w, layer, q - 5) * 8694 < 30000 * (G!HalfLength(10 - q) - 1)
<1>1. G!HalfLength(10 - q) = <<22255, 21965, 21680, 21390, 21100, 20815, 20525, 20240, 19950,
                               19665, 19375>>[q + 1]
  <2>1. q \in {0, 1, 2, 3, 4, 5, 6, 7, 8, 9, 10}
    OBVIOUS
  <2> QED BY <2>1 DEF G!HalfLength, G!Barlength
<1>2. PICK Far \in Int : Far = G!DistanceTo(w, layer) /\
         IF w = 0 THEN Far \in {52300, 56360} ELSE Far \in {61500, 65560}
  BY DEF G!DistanceTo, G!WallDist, G!WallSeparation
<1>3. PICK T \in Int : T = G!Tangent(w, q - 5) /\
         T = IF w = 0
             THEN <<-6393, -5087, -3800, -2526, -1261, 0, 1261, 2526, 3800, 5087, 6393>>[q + 1]
             ELSE <<-5418, -4318, -3229, -2148, -1073, 0, 1073, 2148, 3229, 4318, 5418>>[q + 1]
  <2>1. q \in {0, 1, 2, 3, 4, 5, 6, 7, 8, 9, 10}
    OBVIOUS
  <2> QED BY <2>1, Directions
<1>4. PICK A \in Int : A = (Far * T) \div 30000
  BY <1>2, <1>3
<1>5. G!Reach(w, layer, q - 5) = Far + (A * A) \div (2 * Far) + 1
  BY <1>2, <1>3, <1>4 DEF G!Reach, G!Across, G!TanScale
<1>6. PICK H \in Int : H = G!HalfLength(10 - q) /\
         H = <<22255, 21965, 21680, 21390, 21100, 20815, 20525, 20240, 19950, 19665,
               19375>>[q + 1]
  <2>1. q \in {0, 1, 2, 3, 4, 5, 6, 7, 8, 9, 10}
    OBVIOUS
  <2> QED BY <1>1, <2>1
<1> DEFINE R == Far + (A * A) \div (2 * Far) + 1
<1>7. CASE w = 0
  <2>1. ASSUME NEW F \in {52300, 56360}, Far = F
        PROVE  R \in Nat /\ R * 9931 < 30000 * (H - 1)
    <3>1. q \in {0, 1, 2, 3, 4, 5, 6, 7, 8, 9, 10}
      OBVIOUS
    <3>2. CASE F = 52300
      <4>1. CASE q \in {0, 1, 2, 3}
        BY <1>3, <1>4, <1>6, <1>7, <2>1, <3>2, <4>1
      <4>2. CASE q \in {4, 5, 6, 7}
        BY <1>3, <1>4, <1>6, <1>7, <2>1, <3>2, <4>2
      <4>3. CASE q \in {8, 9, 10}
        BY <1>3, <1>4, <1>6, <1>7, <2>1, <3>2, <4>3
      <4> QED BY <3>1, <4>1, <4>2, <4>3
    <3>3. CASE F = 56360
      <4>1. CASE q \in {0, 1, 2, 3}
        BY <1>3, <1>4, <1>6, <1>7, <2>1, <3>3, <4>1
      <4>2. CASE q \in {4, 5, 6, 7}
        BY <1>3, <1>4, <1>6, <1>7, <2>1, <3>3, <4>2
      <4>3. CASE q \in {8, 9, 10}
        BY <1>3, <1>4, <1>6, <1>7, <2>1, <3>3, <4>3
      <4> QED BY <3>1, <4>1, <4>2, <4>3
    <3> QED BY <3>2, <3>3
  <2> QED BY <1>2, <1>5, <1>6, <1>7, <2>1
<1>8. CASE w = 1
  <2>1. ASSUME NEW F \in {61500, 65560}, Far = F
        PROVE  R \in Nat /\ R * 8694 < 30000 * (H - 1)
    <3>1. q \in {0, 1, 2, 3, 4, 5, 6, 7, 8, 9, 10}
      OBVIOUS
    <3>2. CASE F = 61500
      <4>1. CASE q \in {0, 1, 2, 3}
        BY <1>3, <1>4, <1>6, <1>8, <2>1, <3>2, <4>1
      <4>2. CASE q \in {4, 5, 6, 7}
        BY <1>3, <1>4, <1>6, <1>8, <2>1, <3>2, <4>2
      <4>3. CASE q \in {8, 9, 10}
        BY <1>3, <1>4, <1>6, <1>8, <2>1, <3>2, <4>3
      <4> QED BY <3>1, <4>1, <4>2, <4>3
    <3>3. CASE F = 65560
      <4>1. CASE q \in {0, 1, 2, 3}
        BY <1>3, <1>4, <1>6, <1>8, <2>1, <3>3, <4>1
      <4>2. CASE q \in {4, 5, 6, 7}
        BY <1>3, <1>4, <1>6, <1>8, <2>1, <3>3, <4>2
      <4>3. CASE q \in {8, 9, 10}
        BY <1>3, <1>4, <1>6, <1>8, <2>1, <3>3, <4>3
      <4> QED BY <3>1, <4>1, <4>2, <4>3
    <3> QED BY <3>2, <3>3
  <2> QED BY <1>2, <1>5, <1>6, <1>8, <2>1
<1> QED
  BY <1>7, <1>8

\* No direction of the first ones passes over the end of its bar.
LEMMA StaysBelowTheEnd ==
  ASSUME NEW w \in 0 .. 1, NEW q \in 0 .. 10, NEW layer \in 0 .. 1, NEW i \in 0 .. 19,
         NEW direction, direction.theta = q - 5, direction.phi = i, i < G!OntoTheBar(w)
  PROVE  G!Up(w, layer, direction) <= G!HalfLength(10 - q)
<1>1. PICK R \in Nat : R = G!Reach(w, layer, q - 5)
  BY Reaches
<1>2. PICK P \in Nat : P = G!PhiTangent[i + 1] /\ IF w = 0 THEN P <= 9931 ELSE P <= 8694
  BY DEF G!OntoTheBar, G!PhiTangent
<1>3. PICK H \in Int : H = G!HalfLength(10 - q)
  <2>1. 10 - q + 1 \in 1 .. 11
    OBVIOUS
  <2> QED BY <2>1 DEF G!HalfLength, G!Barlength
<1>4. R * P < 30000 * (H - 1)
  <2>1. CASE w = 0
    <3>1. R * P <= R * 9931
      BY <1>1, <1>2, <2>1
    <3> QED BY <1>1, <1>3, <2>1, <3>1, Reaches
  <2>2. CASE w = 1
    <3>1. R * P <= R * 8694
      BY <1>1, <1>2, <2>2
    <3> QED BY <1>1, <1>3, <2>2, <3>1, Reaches
  <2> QED BY <2>1, <2>2
<1>5. PICK N \in Nat : N = R * P
  BY <1>1, <1>2
<1>6. G!Up(w, layer, direction) = N \div 30000 + 1
  BY <1>1, <1>2, <1>5 DEF G!Up, G!TanScale
<1> QED
  BY <1>3, <1>4, <1>5, <1>6

ScanInv ==
  /\ EventID \in Int /\ EventID >= -1
  /\ GeneratorCase = G!ScanCase /\ EventID >= 0 =>
        /\ StepEventTheta = ((EventID % 220) + 1) \div 20
        /\ gun.wall = G!WhichWall(EventID)
        /\ gun.theta = (EventID % 220) \div 20 - 5
        /\ gun.phi = EventID % 20

LEMMA ScanStep ==
  ASSUME ScanInv, GeneratorCase = G!ScanCase, EventID' = EventID + 1,
         G!ScanLAD(EventID + 1), UNCHANGED GeneratorCase
  PROVE  ScanInv'
<1> DEFINE e == EventID + 1
           step == IF e % 220 = 0 THEN 0 ELSE StepEventTheta
<1>1. e \in Nat /\ EventID \in Int /\ EventID >= -1
  BY DEF ScanInv
<1>2. /\ gun' = [wall |-> G!WhichWall(e), theta |-> step - 5, phi |-> e % 20]
      /\ StepEventTheta' = G!NextTheta(e, step)
  BY DEF G!ScanLAD
<1>3. /\ e % 220 \in 0 .. 219 /\ (e % 220) % 20 = e % 20
      /\ e % 20 = 19 => ((e % 220) + 1) \div 20 = (e % 220) \div 20 + 1
      /\ e % 20 # 19 => ((e % 220) + 1) \div 20 = (e % 220) \div 20
  <2>1. e % 220 \in 0 .. 219 /\ (e % 220) % 20 = e % 20
    BY <1>1, NextPlace
  <2> QED BY <2>1, NextBar
<1>4. step = (e % 220) \div 20
  <2>1. CASE e % 220 = 0
    BY <2>1
  <2>2. CASE e % 220 # 0
    <3>1. EventID # -1
      BY <2>2
    <3>2. EventID \in Nat
      BY <1>1, <3>1
    <3>3. e % 220 = (EventID % 220) + 1
      BY <2>2, <3>2, NextPlace
    <3> QED BY <2>2, <3>2, <3>3 DEF ScanInv
  <2> QED BY <2>1, <2>2
<1> HIDE DEF step, e
<1>5. StepEventTheta' = ((e % 220) + 1) \div 20
  BY <1>2, <1>3, <1>4 DEF G!NextTheta
<1> QED
  BY <1>1, <1>2, <1>4, <1>5 DEF ScanInv, e

LEMMA ScanNext == ScanInv /\ [G!Next]_(G!vars) => ScanInv'
<1> SUFFICES ASSUME ScanInv, [G!Next]_(G!vars) PROVE ScanInv'
  OBVIOUS
<1>1. CASE G!BeginOfRunAction
  BY <1>1 DEF G!BeginOfRunAction, ScanInv
<1>2. CASE G!GeneratePrimaries
  <2>1. EventID' = EventID + 1 /\ UNCHANGED GeneratorCase
    BY <1>2 DEF G!GeneratePrimaries
  <2>2. CASE GeneratorCase = G!ScanCase
    <3>1. G!ScanLAD(EventID + 1)
      BY <1>2, <2>2 DEF G!GeneratePrimaries, G!LundCase, G!ScanCase, G!RasterCase, G!OtherCase
    <3> QED BY <2>1, <2>2, <3>1, ScanStep
  <2>3. CASE GeneratorCase # G!ScanCase
    BY <2>1, <2>3 DEF ScanInv
  <2> QED BY <2>2, <2>3
<1>3. CASE UNCHANGED G!vars
  BY <1>3 DEF G!vars, ScanInv
<1> QED
  BY <1>1, <1>2, <1>3 DEF G!Next

(* However long the runs of a scan, and however many of them: every event    *)
(* meets the bar it is the turn of, in both layers of its wall, below its    *)
(* end but for the last events of its turn.                                  *)
THEOREM ScanMeetsBars == G!Spec => []ScanMeetsEveryBar
<1>1. G!Init => ScanInv
  BY DEF G!Init, ScanInv
<1>2. ScanInv => ScanMeetsEveryBar
  <2> SUFFICES ASSUME ScanInv, GeneratorCase = G!ScanCase, EventID >= 0, NEW layer \in 0 .. 1
               PROVE  /\ G!Across(gun.wall, layer, gun.theta)
                            - G!BarAt(10 - (EventID % 220) \div 20)
                         \in 0 - G!BarWidth \div 2 .. G!BarWidth \div 2
                      /\ EventID % 20 < G!OntoTheBar(gun.wall) =>
                            G!Up(gun.wall, layer, gun)
                               <= G!HalfLength(10 - (EventID % 220) \div 20)
    BY DEF ScanMeetsEveryBar, G!ScanMeetsEveryBar
  <2>1. PICK q \in 0 .. 10 : q = (EventID % 220) \div 20
    <3>1. EventID \in Nat
      BY DEF ScanInv
    <3> QED BY <3>1, NextPlace
  <2>2. gun.wall \in 0 .. 1 /\ gun.theta = q - 5
    BY <2>1 DEF ScanInv, G!WhichWall
  <2>3. PICK i \in 0 .. 19 : i = EventID % 20 /\ gun.phi = i
    BY DEF ScanInv
  <2>4. i < G!OntoTheBar(gun.wall) => G!Up(gun.wall, layer, gun) <= G!HalfLength(10 - q)
    BY <2>2, <2>3, StaysBelowTheEnd
  <2> QED BY <2>1, <2>2, <2>3, <2>4, DirectionMeetsBar
<1> QED
  BY <1>1, <1>2, ScanNext, PTL DEF G!Spec

------------------------------------------------------------------------------
(* LadDetector: hits name their bar.                                         *)
-----------------------------------------------------------------------------
(* A set of numbers in order.                                                *)
Below(S, a) == {b \in S : b < a}

LEMMA IsBelow == ASSUME NEW S, NEW a, NEW b PROVE b \in Below(S, a) <=> b \in S /\ b < a
BY DEF Below

LEMMA BelowSize ==
  ASSUME NEW S \in SUBSET Int, IsFiniteSet(S), NEW a \in S
  PROVE  /\ IsFiniteSet(Below(S, a)) /\ Cardinality(Below(S, a)) \in 0 .. Cardinality(S) - 1
         /\ Cardinality(S) \in Nat
<1>0. Below(S, a) \subseteq S
  BY IsBelow
<1>1. Below(S, a) \subseteq S /\ a \notin Below(S, a)
  <2>1. ~(a < a)
    OBVIOUS
  <2> QED BY <1>0, <2>1, IsBelow
<1>2. IsFiniteSet(Below(S, a)) /\ Cardinality(Below(S, a)) <= Cardinality(S)
      /\ Cardinality(Below(S, a)) # Cardinality(S)
  BY <1>1, FS_Subset
<1>3. Cardinality(Below(S, a)) \in Nat /\ Cardinality(S) \in Nat
  BY <1>2, FS_CardinalityType
<1> QED
  BY <1>2, <1>3

\* Of two members the lesser has fewer below it.
LEMMA BelowGrows ==
  ASSUME NEW S \in SUBSET Int, IsFiniteSet(S), NEW a \in S, NEW b \in S
  PROVE  a < b <=> Cardinality(Below(S, a)) < Cardinality(Below(S, b))
<1>1. /\ IsFiniteSet(Below(S, a)) /\ Cardinality(Below(S, a)) \in Nat
      /\ IsFiniteSet(Below(S, b)) /\ Cardinality(Below(S, b)) \in Nat
  BY BelowSize
<1>2. ASSUME a < b PROVE Cardinality(Below(S, a)) < Cardinality(Below(S, b))
  <2>1. Below(S, a) \subseteq Below(S, b) /\ a \in Below(S, b) /\ a \notin Below(S, a)
    <3>1. \A x \in S : x < a => x < b
      BY <1>2
    <3>2. ~(a < a)
      OBVIOUS
    <3> QED BY <1>2, <3>1, <3>2, IsBelow
  <2>2. Below(S, a) # Below(S, b)
    BY <2>1
  <2>3. /\ Cardinality(Below(S, a)) <= Cardinality(Below(S, b))
        /\ Cardinality(Below(S, a)) # Cardinality(Below(S, b))
    BY <1>1, <2>1, <2>2, FS_Subset
  <2> QED BY <1>1, <2>3
<1>3. ASSUME ~(a < b) PROVE ~(Cardinality(Below(S, a)) < Cardinality(Below(S, b)))
  <2>1. Below(S, b) \subseteq Below(S, a)
    <3>1. \A x \in S : x < b => x < a
      BY <1>3
    <3> QED BY <3>1, IsBelow
  <2>2. Cardinality(Below(S, b)) <= Cardinality(Below(S, a))
    BY <1>1, <2>1, FS_Subset
  <2> QED BY <1>1, <2>2
<1> QED
  BY <1>2, <1>3

LEMMA HasLeast ==
  ASSUME NEW S \in SUBSET Int, IsFiniteSet(S), S # {}
  PROVE  \E a \in S : \A b \in S : a <= b
<1> DEFINE R == {Cardinality(Below(S, a)) : a \in S}
<1>1. R \in SUBSET Nat /\ R # {}
  <2>1. \A a \in S : Cardinality(Below(S, a)) \in Nat
    BY BelowSize
  <2> QED BY <2>1
<1>2. PICK r \in R : \A x \in R : r <= x
  <2> HIDE DEF R
  <2> QED BY <1>1, Least
<1>3. PICK a \in S : r = Cardinality(Below(S, a))
  BY <1>2
<1>4. ASSUME NEW b \in S PROVE a <= b
  <2>1. ~(b < a)
    <3>1. Cardinality(Below(S, b)) \in R /\ Cardinality(Below(S, b)) \in Nat /\ r \in Nat
      BY <1>1
    <3>2. ~(Cardinality(Below(S, b)) < r)
      BY <1>2, <3>1
    <3> QED BY <1>3, <3>2, BelowGrows
  <2> QED BY <2>1
<1> QED
  BY <1>4

\* As many members as a number less than all have some member above them.
LEMMA HasRank ==
  ASSUME NEW S \in SUBSET Int, IsFiniteSet(S), NEW k \in 0 .. Cardinality(S) - 1
  PROVE  \E a \in S : Cardinality(Below(S, a)) = k
<1> DEFINE n == Cardinality(S)
           T == {i \in 0 .. n - 1 : \E a \in S : Cardinality(Below(S, a)) = i}
<1>1. n \in Nat /\ n - 1 \in Nat
  <2>1. n \in Nat
    BY FS_CardinalityType
  <2> HIDE DEF n
  <2> QED BY <2>1 DEF n
<1>2. 0 \in T
  <2>1. S # {}
    BY <1>1, FS_EmptySet
  <2>2. PICK a \in S : \A b \in S : a <= b
    BY <2>1, HasLeast
  <2>3. Below(S, a) = {}
    <3>1. \A b \in S : ~(b < a)
      BY <2>2
    <3> QED BY <3>1, IsBelow
  <2>4. Cardinality(Below(S, a)) = 0
    BY <2>3, FS_EmptySet
  <2> HIDE DEF n
  <2> QED BY <1>1, <2>4
<1>3. ASSUME NEW i \in 0 .. n - 1 - 1, i \in T PROVE i + 1 \in T
  <2>1. PICK a \in S : Cardinality(Below(S, a)) = i
    BY <1>3
  <2> DEFINE X == {b \in S : b > a}
             Y == Below(S, a) \cup {a}
  <2>2. IsFiniteSet(Below(S, a)) /\ a \notin Below(S, a)
    BY BelowSize DEF Below
  <2>3. IsFiniteSet(Y) /\ Cardinality(Y) = i + 1
    BY <2>1, <2>2, FS_AddElement
  <2>4. X # {}
    <3> SUFFICES ASSUME X = {} PROVE FALSE
      OBVIOUS
    <3>1. S = Y
      <4>1. \A b \in S : b < a \/ b = a
        OBVIOUS
      <4>2. \A b : b \in S => b \in Y
        BY <4>1, IsBelow
      <4>3. \A b : b \in Y => b \in S
        BY IsBelow
      <4> HIDE DEF Y
      <4> QED BY <4>2, <4>3
    <3>2. i + 1 = n
      BY <2>3, <3>1
    <3> HIDE DEF n
    <3> QED BY <1>1, <1>3, <3>2
  <2>5. X \in SUBSET Int /\ IsFiniteSet(X)
    BY FS_Subset
  <2>6. PICK c \in X : \A b \in X : c <= b
    <3> HIDE DEF X
    <3> QED BY <2>4, <2>5, HasLeast
  <2>7. Below(S, c) = Y
    <3>1. \A b \in S : b < c <=> b < a \/ b = a
      BY <2>6
    <3> QED BY <3>1, IsBelow
  <2>8. Cardinality(Below(S, c)) = i + 1 /\ c \in S
    BY <2>3, <2>7
  <2>9. i + 1 \in 0 .. n - 1
    <3> HIDE DEF n
    <3> QED BY <1>1
  <2> QED BY <2>8, <2>9
<1>4. \A i \in 0 .. n - 1 : i \in T
  <2> HIDE DEF n, T
  <2> QED BY <1>1, <1>2, <1>3, InductTo
<1> QED
  BY <1>4

LEMMA InOrderIs ==
  ASSUME NEW S \in SUBSET Int, IsFiniteSet(S), NEW order, order = InOrder(S)
  PROVE  /\ Cardinality(S) \in Nat
         /\ order \in [1 .. Cardinality(S) -> S] /\ Len(order) = Cardinality(S)
         /\ \A j, k \in 1 .. Cardinality(S) : j < k => order[j] < order[k]
<1>1. Cardinality(S) \in Nat
  BY FS_CardinalityType
<1>2. ASSUME NEW k \in 1 .. Cardinality(S)
      PROVE  order[k] \in S /\ Cardinality(Below(S, order[k])) = k - 1
  <2>1. k - 1 \in 0 .. Cardinality(S) - 1
    BY <1>1
  <2>2. \E a \in S : Cardinality(Below(S, a)) = k - 1
    BY <2>1, HasRank
  <2>3. \E a \in S : Cardinality(Below(S, a)) = k - 1
    BY <2>2
  <2>4. k \in 1 .. Cardinality(S)
    OBVIOUS
  <2>5. order[k] = CHOOSE a \in S : Cardinality(Below(S, a)) = k - 1
    BY <2>4 DEF InOrder, Below
  <2>6. order[k] \in S /\ Cardinality(Below(S, order[k])) = k - 1
    BY <2>3, <2>5
  <2> QED BY <2>6
<1>3. order = [k \in 1 .. Cardinality(S) |-> order[k]]
  <2> DEFINE At(k) == CHOOSE a \in S : Cardinality({b \in S : b < a}) = k - 1
  <2>2. order = [k \in 1 .. Cardinality(S) |-> At(k)]
    BY DEF InOrder
  <2> HIDE DEF At
  <2>1. order = [k \in 1 .. Cardinality(S) |-> order[k]]
    BY <2>2
  <2> QED BY <2>1
<1>4. order \in [1 .. Cardinality(S) -> S]
  BY <1>2, <1>3
<1>5. Len(order) = Cardinality(S)
  <2>1. order \in Seq(S) /\ DOMAIN order = 1 .. Cardinality(S)
    BY <1>1, <1>4, SeqDef
  <2> QED BY <1>1, <2>1, LenProperties
<1>6. ASSUME NEW j \in 1 .. Cardinality(S), NEW k \in 1 .. Cardinality(S), j < k
      PROVE  order[j] < order[k]
  <2>1. Cardinality(Below(S, order[j])) < Cardinality(Below(S, order[k]))
    BY <1>2, <1>6
  <2> QED BY <1>2, <2>1, BelowGrows
<1> QED
  BY <1>1, <1>4, <1>5, <1>6


-----------------------------------------------------------------------------
(* The volumes of a wall.                                                    *)
Pieces == {"KaptonPhy", "LeadPlatePhy", "AlumSheetsPhy", "Bar_phy"}

\* What a piece of bar pp is, and where, in the frame of its wall.
IsPiece(v, pp) ==
  /\ v.at[1] = 434398 - 86842 * pp /\ v.at[2] = 0 /\ v.half[2] = HalfLength(pp)
  /\ \/ /\ v.name = "KaptonPhy" /\ v.mother = "SciWall"
        /\ v.at[3] = 0 /\ v.half[1] = 43421 /\ v.half[3] = 10139
     \/ /\ v.name = "LeadPlatePhy" /\ v.mother = "KaptonPhy"
        /\ v.at[3] = -10020 /\ v.half[1] = 43307 /\ v.half[3] = 25
     \/ /\ v.name = "AlumSheetsPhy" /\ v.mother = "KaptonPhy"
        /\ v.at[3] = 25 /\ v.half[1] = 43317 /\ v.half[3] = 10020
     \/ /\ v.name = "Bar_phy" /\ v.mother = "AlumSheetsPhy"
        /\ v.at[3] = 25 /\ v.half[1] = 43307 /\ v.half[3] = 10000

IsWall(v) ==
  /\ v.name = "SciWall" /\ v.mother = "World"
  /\ v.at[1] = 0 /\ v.at[2] = 0 /\ v.at[3] = 0
  /\ v.half[1] = 479599 /\ v.half[2] = HalfLength(10) + 1968 /\ v.half[3] = 11968

LEMMA PieceIs ==
  ASSUME NEW w, NEW l, NEW pp \in 0 .. 10, NEW v \in BarVolumes(w, l, pp)
  PROVE  IsPiece(v, pp) /\ v.copy = CopyNumber(w, l, pp) /\ v.bar = <<w, l, pp>>
<1>1. WallWidth = 959199 /\ Pitch = 86842
  BY DEF WallWidth, Pitch, NoOfBars, AluminumThick, KaptonThick, BarWidth, Centimetre
<1> QED
  BY <1>1 DEF BarVolumes, IsPiece, AluminumThick, KaptonThick, BarWidth,
              Centimetre, LeadThick, BarThick

LEMMA Lengths ==
  ASSUME NEW pp \in 0 .. 10
  PROVE  /\ HalfLength(pp) \in Int /\ HalfLength(10) \in Int
         /\ 700000 <= HalfLength(pp) /\ HalfLength(pp) <= HalfLength(10)
         /\ HalfLength(10) <= 900000
BY SMT DEF HalfLength, Barlength

\* Bar pp of a layer of a wall, a direction of its line, its centre, and the
\* volumes that line meets.
Low(v, i) == v.at[i] - v.half[i]
High(v, i) == v.at[i] + v.half[i]
IsMet(v, i, c) == \A j \in Coords \ {i} : Abs(c[j] - v.at[j]) < v.half[j]
Met(volumes, i, c) ==
  {v \in volumes : \A j \in Coords \ {i} : Abs(c[j] - v.at[j]) < v.half[j]}

LEMMA VolumeIs ==
  ASSUME NEW w, NEW l, NEW v \in WallVolumes(w, l)
  PROVE  \/ IsWall(v)
         \/ \E pp \in 0 .. 10 :
               IsPiece(v, pp) /\ v.copy = CopyNumber(w, l, pp) /\ v.bar = <<w, l, pp>>
<1>1. CASE \E pp \in 0 .. 10 : v \in BarVolumes(w, l, pp)
  BY SMT, <1>1, PieceIs
<1>2. CASE ~\E pp \in 0 .. 10 : v \in BarVolumes(w, l, pp)
  <2>1. WallWidth = 959199 /\ NoOfBars = 11
    BY SMT DEF WallWidth, NoOfBars, AluminumThick, KaptonThick, BarWidth, Centimetre
  <2>2. /\ WallWidth \div 2 = 479599 /\ WallThick \div 2 = 11968
        /\ WallLength \div 2 = HalfLength(10) + 1968
    <3>1. WallThick \div 2 = 11968
      BY SMT DEF WallThick, BarThick, Centimetre
    <3>2. PICK h \in Int : h = HalfLength(10)
      <4>1. 10 \in 0 .. 10
        OBVIOUS
      <4> QED BY SMT, <4>1, Lengths
    <3>3. (2 * h + 3937) \div 2 = h + 1968
      BY SMT
    <3>4. WallLength = 2 * h + 3937
      BY SMT, <2>1, <3>2 DEF WallLength, Centimetre
    <3> QED BY SMT, <2>1, <3>1, <3>2, <3>3, <3>4
  <2>3. v = [name |-> "SciWall", copy |-> w + l + w, bar |-> <<w, l, -1>>, mother |-> "World",
             at |-> <<0, 0, 0>>, half |-> <<479599, HalfLength(10) + 1968, 11968>>]
    BY SMT, <1>2, <2>1, <2>2 DEF WallVolumes
  <2> QED BY SMT, <2>3 DEF IsWall
<1> QED
  BY <1>1, <1>2

LEMMA WallIsThere ==
  ASSUME NEW w, NEW l
  PROVE  \E v \in WallVolumes(w, l) : IsWall(v)
<1> DEFINE v == [name |-> "SciWall", copy |-> w + l + w, bar |-> <<w, l, -1>>, mother |-> "World",
                 at |-> <<0, 0, 0>>,
                 half |-> <<WallWidth \div 2, WallLength \div 2, WallThick \div 2>>]
<1>1. v \in WallVolumes(w, l) /\ v.name = "SciWall"
  BY SMT DEF WallVolumes
<1>2. \A pp \in 0 .. 10 : ~IsPiece(v, pp)
  BY SMT, <1>1 DEF IsPiece
<1> HIDE DEF v
<1> QED
  BY SMT, <1>1, <1>2, VolumeIs

LEMMA CentreIs ==
  ASSUME NEW w, NEW l, NEW pp \in 0 .. 10
  PROVE  LET c == BarCentre(w, l, pp)
         IN  c[1] = 434398 - 86842 * pp /\ c[2] = 0 /\ c[3] = 25
<1>1. \E v \in BarVolumes(w, l, pp) : v.name = "Bar_phy"
  BY SMT DEF BarVolumes
<1> DEFINE v == CHOOSE u \in BarVolumes(w, l, pp) : u.name = "Bar_phy"
<1>2. /\ v \in BarVolumes(w, l, pp) /\ v.name = "Bar_phy"
      /\ v.at = BarCentre(w, l, pp)
  <2>1. v.at = BarCentre(w, l, pp)
    BY DEF BarCentre
  <2> QED BY <1>1, <2>1
<1> HIDE DEF v
<1>3. IsPiece(v, pp)
  BY SMT, <1>2, PieceIs
<1> QED
  BY SMT, <1>2, <1>3 DEF IsPiece

\* The face of no volume lies inside a bar, and no bar begins where one ends.
ApartAt(u, b, i) ==
  /\ ~(Low(b, i) < Low(u, i) /\ Low(u, i) < High(b, i))
  /\ ~(Low(b, i) < High(u, i) /\ High(u, i) < High(b, i))
  /\ u.name = "Bar_phy" => Low(u, i) # High(b, i)

LEMMA ApartAcross ==
  ASSUME NEW u, NEW b, NEW r \in 0 .. 10, IsPiece(b, r), b.name = "Bar_phy",
         IsWall(u) \/ \E q \in 0 .. 10 : IsPiece(u, q)
  PROVE  ApartAt(u, b, 1)
<1>1. CASE IsWall(u)
  BY SMT, <1>1 DEF IsWall, IsPiece, ApartAt, Low, High
<1>2. CASE \E q \in 0 .. 10 : IsPiece(u, q)
  <2>1. PICK q \in 0 .. 10 : IsPiece(u, q)
    BY <1>2
  <2>2. PICK h \in {43421, 43307, 43317} :
           /\ u.half[1] = h /\ u.at[1] = 434398 - 86842 * q
           /\ u.name = "Bar_phy" => h = 43307
    BY SMT, <2>1 DEF IsPiece
  <2>3. b.half[1] = 43307 /\ b.at[1] = 434398 - 86842 * r
    BY SMT DEF IsPiece
  <2> QED BY SMT, <2>2, <2>3 DEF ApartAt, Low, High
<1> QED
  BY <1>1, <1>2

LEMMA ApartThrough ==
  ASSUME NEW u, NEW b, NEW r \in 0 .. 10, IsPiece(b, r), b.name = "Bar_phy",
         IsWall(u) \/ \E q \in 0 .. 10 : IsPiece(u, q)
  PROVE  ApartAt(u, b, 3)
<1>1. b.at[3] = 25 /\ b.half[3] = 10000
  BY SMT DEF IsPiece
<1>2. CASE IsWall(u)
  BY SMT, <1>1, <1>2 DEF IsWall, ApartAt, Low, High
<1>3. CASE \E q \in 0 .. 10 : IsPiece(u, q)
  BY SMT, <1>1, <1>3 DEF IsPiece, ApartAt, Low, High
<1> QED
  BY <1>2, <1>3

LEMMA ApartAlong ==
  ASSUME NEW u, NEW b, NEW pp \in 0 .. 10, IsPiece(b, pp), b.name = "Bar_phy",
         IsWall(u) \/ IsPiece(u, pp)
  PROVE  ApartAt(u, b, 2)
<1>1. PICK h, m \in Int : /\ h = HalfLength(pp) /\ m = HalfLength(10)
                          /\ 700000 <= h /\ h <= m
  BY SMT, Lengths
<1>2. b.at[2] = 0 /\ b.half[2] = h
  BY SMT, <1>1 DEF IsPiece
<1>3. CASE IsWall(u)
  BY SMT, <1>1, <1>2, <1>3 DEF IsWall, ApartAt, Low, High
<1>4. CASE IsPiece(u, pp)
  BY SMT, <1>1, <1>2, <1>4 DEF IsPiece, ApartAt, Low, High
<1> QED
  BY <1>3, <1>4

\* A line along bar pp meets pieces of no other bar.
LEMMA MetAlong ==
  ASSUME NEW v, NEW q \in 0 .. 10, IsPiece(v, q), NEW pp \in 0 .. 10, NEW c,
         c[1] = 434398 - 86842 * pp, IsMet(v, 2, c)
  PROVE  q = pp
<1>1. Abs(c[1] - v.at[1]) < v.half[1]
  BY SMT DEF IsMet, Coords
<1>2. PICK h \in {43421, 43307, 43317} : v.half[1] = h /\ v.at[1] = 434398 - 86842 * q
  BY SMT DEF IsPiece
<1> QED
  BY SMT, <1>1, <1>2 DEF Abs

LEMMA MetAreApart ==
  ASSUME NEW w, NEW l, NEW pp \in 0 .. 10, NEW i \in Coords, NEW c,
         c = BarCentre(w, l, pp),
         NEW u \in Met(WallVolumes(w, l), i, c), NEW b \in Met(WallVolumes(w, l), i, c),
         b.name = "Bar_phy"
  PROVE  ApartAt(u, b, i)
<1>1. /\ u \in WallVolumes(w, l) /\ IsMet(u, i, c)
      /\ b \in WallVolumes(w, l) /\ IsMet(b, i, c)
  BY DEF Met, IsMet
<1>2. PICK r \in 0 .. 10 : IsPiece(b, r)
  <2>1. ~IsWall(b)
    BY SMT DEF IsWall
  <2> QED BY <1>1, <2>1, VolumeIs
<1>3. IsWall(u) \/ \E q \in 0 .. 10 : IsPiece(u, q)
  BY <1>1, VolumeIs
<1>4. CASE i = 1
  BY <1>2, <1>3, <1>4, ApartAcross
<1>5. CASE i = 3
  BY <1>2, <1>3, <1>5, ApartThrough
<1>6. CASE i = 2
  <2>1. c[1] = 434398 - 86842 * pp
    BY CentreIs
  <2>2. r = pp
    BY SMT, <1>1, <1>2, <1>6, <2>1, MetAlong
  <2>3. IsWall(u) \/ IsPiece(u, pp)
    BY SMT, <1>1, <1>3, <1>6, <2>1, MetAlong
  <2> QED BY SMT, <1>2, <1>6, <2>2, <2>3, ApartAlong
<1> QED
  BY SMT, <1>4, <1>5, <1>6 DEF Coords

\* Everything is inside the wall, and the line meets the wall.
LEMMA MetInWall ==
  ASSUME NEW w, NEW l, NEW pp \in 0 .. 10, NEW i \in Coords, NEW c,
         c = BarCentre(w, l, pp)
  PROVE  \E s \in Met(WallVolumes(w, l), i, c) :
            /\ s.name = "SciWall"
            /\ \A v \in Met(WallVolumes(w, l), i, c) :
                  /\ Low(v, i) \in Int /\ High(v, i) \in Int /\ Low(v, i) < High(v, i)
                  /\ Low(s, i) <= Low(v, i) /\ High(v, i) <= High(s, i)
                  /\ -1000000 <= Low(v, i) /\ High(v, i) <= 1000000
<1>1. PICK s \in WallVolumes(w, l) : IsWall(s)
  BY WallIsThere
<1>2. PICK m \in Int : m = HalfLength(10) /\ 700000 <= m /\ m <= 900000
  <2>1. 10 \in 0 .. 10
    OBVIOUS
  <2> QED BY SMT, <2>1, Lengths
<1>3. s \in Met(WallVolumes(w, l), i, c)
  <2>1. c[1] = 434398 - 86842 * pp /\ c[2] = 0 /\ c[3] = 25
    BY CentreIs
  <2>2. \A j \in Coords : Abs(c[j] - s.at[j]) < s.half[j]
    BY SMT, <1>1, <1>2, <2>1 DEF IsWall, Coords, Abs
  <2> QED BY <1>1, <2>2 DEF Met
<1>4. ASSUME NEW v \in Met(WallVolumes(w, l), i, c)
      PROVE  /\ Low(v, i) \in Int /\ High(v, i) \in Int /\ Low(v, i) < High(v, i)
             /\ Low(s, i) <= Low(v, i) /\ High(v, i) <= High(s, i)
             /\ -1000000 <= Low(v, i) /\ High(v, i) <= 1000000
  <2>1. v \in WallVolumes(w, l)
    BY DEF Met
  <2>2. CASE IsWall(v)
    BY SMT, <1>1, <1>2, <2>2 DEF IsWall, Low, High, Coords
  <2>3. ASSUME NEW q \in 0 .. 10, IsPiece(v, q)
        PROVE  /\ Low(v, i) \in Int /\ High(v, i) \in Int /\ Low(v, i) < High(v, i)
               /\ Low(s, i) <= Low(v, i) /\ High(v, i) <= High(s, i)
               /\ -1000000 <= Low(v, i) /\ High(v, i) <= 1000000
    <3>1. PICK h \in Int : h = HalfLength(q) /\ 700000 <= h /\ h <= m
      BY SMT, <1>2, Lengths
    <3>2. CASE i = 1
      BY SMT, <1>1, <2>3, <3>2 DEF IsWall, IsPiece, Low, High
    <3>3. CASE i = 2
      BY SMT, <1>1, <1>2, <2>3, <3>1, <3>3 DEF IsWall, IsPiece, Low, High
    <3>4. CASE i = 3
      BY SMT, <1>1, <2>3, <3>4 DEF IsWall, IsPiece, Low, High
    <3> QED BY SMT, <3>2, <3>3, <3>4 DEF Coords
  <2>4. IsWall(v) \/ \E q \in 0 .. 10 : IsPiece(v, q)
    BY <2>1, VolumeIs
  <2> QED BY SMT, <2>2, <2>3, <2>4
<1>5. s.name = "SciWall"
  BY SMT, <1>1 DEF IsWall
<1> QED
  BY SMT, <1>3, <1>4, <1>5

-----------------------------------------------------------------------------
(* The cells of a line through a bar.                                        *)
Faces(met, i) == {Low(v, i) : v \in met} \cup {High(v, i) : v \in met}
Covering(met, i, faces, k) == {v \in met : Low(v, i) <= faces[k] /\ faces[k + 1] <= High(v, i)}
Innermost(vs) == CHOOSE v \in vs : \A u \in vs : u.mother # v.name

LEMMA NamesAre ==
  ASSUME NEW w, NEW l, NEW v \in WallVolumes(w, l)
  PROVE  \/ v.name = "SciWall" /\ v.mother = "World"
         \/ v.name = "KaptonPhy" /\ v.mother = "SciWall"
         \/ v.name = "LeadPlatePhy" /\ v.mother = "KaptonPhy"
         \/ v.name = "AlumSheetsPhy" /\ v.mother = "KaptonPhy"
         \/ v.name = "Bar_phy" /\ v.mother = "AlumSheetsPhy"
BY SMT, VolumeIs DEF IsWall, IsPiece

LEMMA InnermostIs ==
  ASSUME NEW w, NEW l, NEW vs \in SUBSET WallVolumes(w, l), vs # {}
  PROVE  Innermost(vs) \in vs
<1> DEFINE Deepest(v) == \A u \in vs : u.mother # v.name
           Nested(v) == \/ v.name = "SciWall" /\ v.mother = "World"
                        \/ v.name = "KaptonPhy" /\ v.mother = "SciWall"
                        \/ v.name = "LeadPlatePhy" /\ v.mother = "KaptonPhy"
                        \/ v.name = "AlumSheetsPhy" /\ v.mother = "KaptonPhy"
                        \/ v.name = "Bar_phy" /\ v.mother = "AlumSheetsPhy"
<1>1. \A v \in vs : Nested(v)
  <2> SUFFICES ASSUME NEW v \in vs PROVE Nested(v)
    OBVIOUS
  <2>1. v \in WallVolumes(w, l)
    OBVIOUS
  <2> QED BY <2>1, NamesAre
<1>2. \E v \in vs : Deepest(v)
  <2>1. CASE \E v \in vs : v.name \in {"Bar_phy", "LeadPlatePhy"}
    BY SMT, <1>1, <2>1
  <2>2. CASE /\ \A v \in vs : v.name \notin {"Bar_phy", "LeadPlatePhy"}
             /\ \E v \in vs : v.name = "AlumSheetsPhy"
    BY SMT, <1>1, <2>2
  <2>3. CASE /\ \A v \in vs : v.name \notin {"Bar_phy", "LeadPlatePhy", "AlumSheetsPhy"}
             /\ \E v \in vs : v.name = "KaptonPhy"
    BY SMT, <1>1, <2>3
  <2>4. CASE \A v \in vs : v.name \notin {"Bar_phy", "LeadPlatePhy", "AlumSheetsPhy", "KaptonPhy"}
    BY SMT, <1>1, <2>4
  <2> QED BY <2>1, <2>2, <2>3, <2>4
<1>3. \E v \in vs : \A u \in vs : u.mother # v.name
  BY <1>2
<1> QED
  BY <1>3 DEF Innermost

LEMMA CellsAre ==
  ASSUME NEW volumes, NEW i, NEW c, NEW met, met = Met(volumes, i, c),
         NEW faces, faces = InOrder(Faces(met, i))
  PROVE  CellsAlong(volumes, i, c) =
            [k \in 1 .. Len(faces) - 1 |-> Innermost(Covering(met, i, faces, k))]
BY DEF CellsAlong, Met, Faces, Covering, Innermost, Low, High

\* Between two of its neighbouring faces the line is in one of the volumes it
\* meets; in two bars one after the other it never is.
NoBarAfterBar(cells) ==
  \A k \in 1 .. Len(cells) - 1 : ~(cells[k].name = "Bar_phy" /\ cells[k + 1].name = "Bar_phy")

LEMMA FacesAre ==
  ASSUME NEW w, NEW l, NEW pp \in 0 .. 10, NEW i \in Coords, NEW c, NEW met,
         c = BarCentre(w, l, pp), met = Met(WallVolumes(w, l), i, c)
  PROVE  Faces(met, i) \in SUBSET Int /\ IsFiniteSet(Faces(met, i))
<1>1. PICK lo, hi \in Int :
         \A v \in met : /\ Low(v, i) \in Int /\ High(v, i) \in Int /\ Low(v, i) < High(v, i)
                        /\ lo <= Low(v, i) /\ High(v, i) <= hi
  <2>1. \E lo, hi \in Int : lo = -1000000 /\ hi = 1000000
    BY SMT
  <2> QED BY SMT, <2>1, MetInWall
<1>2. \A v \in met : Low(v, i) \in lo .. hi /\ High(v, i) \in lo .. hi
  BY <1>1
<1>3. Faces(met, i) \in SUBSET (lo .. hi)
  BY <1>2 DEF Faces
<1>4. IsFiniteSet(lo .. hi)
  BY FS_Interval
<1>5. IsFiniteSet(Faces(met, i))
  BY <1>3, <1>4, FS_Subset
<1>6. \A x \in lo .. hi : x \in Int
  OBVIOUS
<1> QED
  BY <1>3, <1>5, <1>6

LEMMA WallCells ==
  ASSUME NEW w, NEW l, NEW pp \in 0 .. 10, NEW i \in Coords
  PROVE  LET cells == CellsAlong(WallVolumes(w, l), i, BarCentre(w, l, pp))
         IN  cells \in Seq(WallVolumes(w, l)) /\ NoBarAfterBar(cells)
<1>1. PICK c : c = BarCentre(w, l, pp)
  OBVIOUS
<1>2. PICK met : met = Met(WallVolumes(w, l), i, c)
  OBVIOUS
<1>3. PICK faces : faces = InOrder(Faces(met, i))
  OBVIOUS
<1>4. PICK n \in Nat :
         /\ faces \in [1 .. n -> Faces(met, i)] /\ Len(faces) = n
         /\ \A j, k \in 1 .. n : j < k => faces[j] < faces[k]
  BY <1>1, <1>2, <1>3, FacesAre, InOrderIs
<1>5. PICK cells : /\ cells = CellsAlong(WallVolumes(w, l), i, c)
                   /\ cells = [k \in 1 .. n - 1 |-> Innermost(Covering(met, i, faces, k))]
  BY <1>2, <1>3, <1>4, CellsAre
<1>6. \A k \in 1 .. n : faces[k] \in Int
  BY <1>1, <1>2, <1>4, FacesAre
<1>7. PICK s \in met : \A v \in met : /\ Low(s, i) <= Low(v, i) /\ High(v, i) <= High(s, i)
                                      /\ Low(v, i) \in Int /\ High(v, i) \in Int
                                      /\ Low(v, i) < High(v, i)
  BY SMT, <1>1, <1>2, MetInWall
<1>8. ASSUME NEW k \in 1 .. n - 1
      PROVE  cells[k] \in Covering(met, i, faces, k)
  <2>1. k \in 1 .. n /\ k + 1 \in 1 .. n
    BY <1>4
  <2>2. \A j \in 1 .. n : Low(s, i) <= faces[j] /\ faces[j] <= High(s, i)
    <3> SUFFICES ASSUME NEW j \in 1 .. n PROVE Low(s, i) <= faces[j] /\ faces[j] <= High(s, i)
      OBVIOUS
    <3>1. faces[j] \in Faces(met, i)
      BY <1>4
    <3>2. PICK v \in met : faces[j] = Low(v, i) \/ faces[j] = High(v, i)
      BY <3>1 DEF Faces
    <3>3. /\ Low(s, i) <= Low(v, i) /\ High(v, i) <= High(s, i) /\ Low(v, i) < High(v, i)
          /\ Low(v, i) \in Int /\ High(v, i) \in Int /\ Low(s, i) \in Int /\ High(s, i) \in Int
      BY <1>7
    <3> QED BY <3>2, <3>3
  <2>3. s \in Covering(met, i, faces, k)
    BY <2>1, <2>2 DEF Covering
  <2>4. Covering(met, i, faces, k) \in SUBSET WallVolumes(w, l)
    BY <1>2 DEF Covering, Met
  <2>5. Innermost(Covering(met, i, faces, k)) \in Covering(met, i, faces, k)
    BY <2>3, <2>4, InnermostIs
  <2> QED BY <1>5, <2>5
<1>9. /\ \A k \in 1 .. n - 1 : cells[k] \in WallVolumes(w, l)
      /\ n - 1 \in Int
  BY <1>2, <1>8 DEF Covering, Met
<1>10. cells \in Seq(WallVolumes(w, l)) /\ (n - 1 \in Nat => Len(cells) = n - 1)
       /\ (n - 1 \notin Nat => Len(cells) = 0)
  <2>1. cells \in [1 .. n - 1 -> WallVolumes(w, l)]
    BY <1>5, <1>9
  <2>2. CASE n - 1 \in Nat
    <3>1. PICK m \in Nat : m = n - 1
      BY <2>2
    <3>2. cells \in [1 .. m -> WallVolumes(w, l)]
      BY <2>1, <3>1
    <3>3. cells \in Seq(WallVolumes(w, l)) /\ DOMAIN cells = 1 .. m
      BY <3>2, SeqDef
    <3>4. Len(cells) = m
      BY <3>3, LenProperties
    <3> QED BY <2>2, <3>1, <3>3, <3>4
  <2>3. CASE n - 1 \notin Nat
    <3>1. n = 0
      BY <2>3
    <3>2. cells \in [1 .. 0 -> WallVolumes(w, l)]
      BY <2>1, <3>1
    <3>3. cells \in Seq(WallVolumes(w, l)) /\ DOMAIN cells = 1 .. 0
      BY <3>2, SeqDef
    <3>4. Len(cells) = 0
      BY <3>3, LenProperties
    <3> QED BY <2>3, <3>3, <3>4
  <2> QED BY <2>2, <2>3
<1>11. NoBarAfterBar(cells)
  <2> SUFFICES ASSUME NEW k \in 1 .. Len(cells) - 1,
                      cells[k].name = "Bar_phy", cells[k + 1].name = "Bar_phy"
               PROVE  FALSE
    BY DEF NoBarAfterBar
  <2>1. k \in 1 .. n - 1 /\ k + 1 \in 1 .. n - 1 /\ k + 2 \in 1 .. n /\ k + 1 \in 1 .. n /\ k \in 1 .. n
        /\ (k + 1) + 1 = k + 2
    BY <1>4, <1>10
  <2>2. PICK b, u : b = cells[k] /\ u = cells[k + 1]
    OBVIOUS
  <2>3. /\ b \in met /\ Low(b, i) <= faces[k] /\ faces[k + 1] <= High(b, i)
        /\ u \in met /\ Low(u, i) <= faces[k + 1] /\ faces[k + 2] <= High(u, i)
        /\ b.name = "Bar_phy" /\ u.name = "Bar_phy"
    BY <1>8, <2>1, <2>2 DEF Covering
  <2>4. faces[k] < faces[k + 1] /\ faces[k + 1] < faces[k + 2]
    BY <1>4, <2>1
  <2>5. PICK v \in met : faces[k + 1] = Low(v, i) \/ faces[k + 1] = High(v, i)
    <3>1. faces[k + 1] \in Faces(met, i)
      BY <1>4, <2>1
    <3> QED BY <3>1 DEF Faces
  <2>6. ApartAt(v, b, i) /\ ApartAt(v, u, i) /\ ApartAt(u, b, i)
    BY <1>1, <1>2, <2>3, <2>5, MetAreApart
  <2>7. PICK x, y, z, bl, bh, ul, uh \in Int :
           /\ x = faces[k] /\ y = faces[k + 1] /\ z = faces[k + 2]
           /\ bl = Low(b, i) /\ bh = High(b, i) /\ ul = Low(u, i) /\ uh = High(u, i)
    BY <1>6, <1>7, <2>1, <2>3
  <2>8. /\ bl <= x /\ x < y /\ y <= bh /\ ul <= y /\ y < z /\ z <= uh
        /\ ~(bl < y /\ y < bh) /\ ~(ul < y /\ y < uh) /\ ul # bh
    BY <2>3, <2>4, <2>5, <2>6, <2>7 DEF ApartAt
  <2>9. y = bh /\ y = ul
    BY <2>8
  <2> QED BY <2>8, <2>9
<1> QED
  BY <1>1, <1>5, <1>10, <1>11

-----------------------------------------------------------------------------
(* The lines tracks follow, and what is in them.                             *)
GemLines == UNION {{GemCells(g)[n] : n \in DOMAIN GemCells(g)} : g \in 0 .. 1}
InWalls == UNION {WallVolumes(w, l) : w \in 0 .. 2, l \in 0 .. 1}
Cells == {World} \cup InWalls \cup GemLines

\* All cells of a chamber are its layers.
LEMMA GemLayers ==
  ASSUME NEW g, NEW n, n = Len(gempz)
  PROVE  /\ DOMAIN GemCells(g) = 1 .. n
         /\ GemCells(g) = [k \in 1 .. n |-> GemCells(g)[k]]
         /\ \A k \in 1 .. n : GemCells(g)[k].name = "GemLayer"
<1> DEFINE depth(k) == IF Dot(GemRotation[3], GemAt(g)) < 0
                       THEN 0 - LayerAt(k) ELSE LayerAt(k)
           order == InOrder({depth(k) : k \in Layers})
           layer(k) == CHOOSE j \in Layers : depth(j) = order[k]
<1>1. GemCells(g) = [k \in 1 .. n |-> [name |-> "GemLayer", copy |-> 0, plane |-> g,
                                         layer |-> layer(k)]]
  BY DEF GemCells
<1> HIDE DEF layer
<1> QED
  BY <1>1

\* The copy number of a bar decodes to the bar.
LEMMA CopiesDecode ==
  ASSUME NEW w \in 0 .. 2, NEW l \in 0 .. 1, NEW pp \in 0 .. 10
  PROVE  /\ CopyNumber(w, l, pp) \in Nat
         /\ paddle(CopyNumber(w, l, pp)) = <<w, l, pp>>
<1>1. PICK n \in Nat : n = w * 10000 + l * 100 + pp
  OBVIOUS
<1>2. n \div 10000 = w /\ (n % 10000) \div 100 = l /\ n % 100 = pp
  BY SMT, <1>1
<1> QED
  BY <1>1, <1>2 DEF CopyNumber, paddle

LEMMA CellIs ==
  ASSUME NEW cell \in Cells, cell.name = "Bar_phy"
  PROVE  cell.bar \in Bars /\ cell.copy \in Nat /\ paddle(cell.copy) = cell.bar
<1>1. cell # World
  BY DEF World
<1>2. cell \notin GemLines
  <2> SUFFICES ASSUME NEW g \in 0 .. 1, NEW n \in DOMAIN GemCells(g), cell = GemCells(g)[n]
               PROVE  FALSE
    BY DEF GemLines
  <2>1. PICK m : m = Len(gempz)
    OBVIOUS
  <2>2. cell.name = "GemLayer"
    BY <2>1, GemLayers
  <2> QED BY <2>2
<1>3. PICK w \in 0 .. 2, l \in 0 .. 1 : cell \in WallVolumes(w, l)
  BY <1>1, <1>2 DEF Cells, InWalls
<1>4. ~IsWall(cell)
  BY SMT DEF IsWall
<1>5. PICK pp \in 0 .. 10 : cell.copy = CopyNumber(w, l, pp) /\ cell.bar = <<w, l, pp>>
  BY <1>3, <1>4, VolumeIs
<1>6. <<w, l, pp>> \in Bars
  BY DEF Bars
<1> QED
  BY <1>5, <1>6, CopiesDecode

IsLine(c) ==
  /\ c \in Seq(Cells) /\ NoBarAfterBar(c)
  /\ Len(c) > 0 /\ c[1].name # "Bar_phy" /\ c[Len(c)].name # "Bar_phy"

\* A line and its reverse, from the world into the world.
LEMMA WorldAround ==
  ASSUME NEW c \in Seq(Cells), NoBarAfterBar(c)
  PROVE  IsLine(<<World>> \o c \o <<World>>)
<1>1. World \in Cells /\ World.name # "Bar_phy"
  BY DEF Cells, World
<1>2. PICK n \in Nat : n = Len(c)
  OBVIOUS
<1>3. PICK a : a = <<World>> \o c
  OBVIOUS
<1>4. /\ a \in Seq(Cells) /\ Len(a) = n + 1 /\ a[1] = World
      /\ \A k \in 1 .. n : a[k + 1] = c[k]
  BY <1>1, <1>2, <1>3
<1>5. PICK b : b = a \o <<World>>
  OBVIOUS
<1>6. /\ b \in Seq(Cells) /\ Len(b) = n + 2 /\ b[n + 2] = World
      /\ \A k \in 1 .. n + 1 : b[k] = a[k]
  BY <1>1, <1>4, <1>5
<1>7. ASSUME NEW k \in 1 .. Len(b) - 1, b[k].name = "Bar_phy", b[k + 1].name = "Bar_phy"
      PROVE  FALSE
  <2>1. k \in 1 .. n + 1
    BY <1>6
  <2>2. k # n + 1
    BY <1>1, <1>6, <1>7
  <2>3. k # 1
    BY <1>1, <1>2, <1>4, <1>6, <1>7
  <2>4. k - 1 \in 1 .. n /\ k \in 1 .. n /\ k + 1 \in 1 .. n + 1 /\ (k - 1) + 1 = k
    BY <2>1, <2>2, <2>3
  <2>5. b[k] = c[k - 1] /\ b[k + 1] = c[k]
    BY <1>4, <1>6, <2>4
  <2>6. k - 1 \in 1 .. Len(c) - 1
    BY <1>2, <2>4
  <2> QED BY <1>7, <2>4, <2>5, <2>6 DEF NoBarAfterBar
<1>8. NoBarAfterBar(b)
  BY <1>7 DEF NoBarAfterBar
<1>9. b[1] = World /\ b[Len(b)] = World /\ Len(b) > 0
  <2>1. 1 \in 1 .. n + 1
    BY <1>2
  <2> QED BY <1>2, <1>4, <1>6, <2>1
<1>10. IsLine(b)
  BY <1>1, <1>6, <1>8, <1>9 DEF IsLine
<1> QED
  BY <1>3, <1>5, <1>10

LEMMA ReverseIs ==
  ASSUME NEW c, IsLine(c)
  PROVE  IsLine(Reverse(c))
<1>1. PICK n \in Nat : n = Len(c) /\ n > 0
  BY DEF IsLine
<1>2. PICK r : r = [i \in 1 .. n |-> c[(n - i) + 1]]
  OBVIOUS
<1>3. r = Reverse(c)
  BY <1>1, <1>2 DEF Reverse
<1>4. \A i \in 1 .. n : (n - i) + 1 \in 1 .. n /\ r[i] = c[(n - i) + 1]
  BY <1>1, <1>2
<1>5. \A i \in 1 .. n : c[i] \in Cells
  BY <1>1 DEF IsLine
<1>6. r \in [1 .. n -> Cells]
  BY <1>2, <1>4, <1>5
<1>7. r \in Seq(Cells) /\ DOMAIN r = 1 .. n
  BY <1>6, SeqDef
<1>8. Len(r) = n
  BY <1>7, LenProperties
<1>9. ASSUME NEW k \in 1 .. Len(r) - 1, r[k].name = "Bar_phy", r[k + 1].name = "Bar_phy"
      PROVE  FALSE
  <2>1. k \in 1 .. n /\ k + 1 \in 1 .. n /\ (n - (k + 1)) + 1 = n - k /\ n - k \in 1 .. n - 1
    BY <1>8
  <2>2. r[k] = c[(n - k) + 1] /\ r[k + 1] = c[n - k]
    BY <1>4, <2>1
  <2> QED BY <1>1, <1>9, <2>1, <2>2 DEF IsLine, NoBarAfterBar
<1>10. r[1] = c[n] /\ r[n] = c[1]
  <2>1. 1 \in 1 .. n /\ n \in 1 .. n /\ (n - 1) + 1 = n /\ (n - n) + 1 = 1
    BY <1>1
  <2> QED BY <1>4, <2>1
<1> QED
  BY <1>1, <1>3, <1>7, <1>8, <1>9, <1>10 DEF IsLine, NoBarAfterBar

LEMMA GemCellsAre ==
  ASSUME NEW g \in 0 .. 1
  PROVE  GemCells(g) \in Seq(Cells) /\ NoBarAfterBar(GemCells(g))
         /\ \A k \in 1 .. Len(GemCells(g)) : GemCells(g)[k].name # "Bar_phy"
<1>1. gempz \in Seq(Int)
  BY DEF gempz
<1>2. PICK n \in Nat : n = Len(gempz)
  BY <1>1
<1>3. PICK c : c = GemCells(g)
  OBVIOUS
<1>4. DOMAIN c = 1 .. n /\ c = [k \in 1 .. n |-> c[k]]
      /\ \A k \in 1 .. n : c[k].name = "GemLayer"
  BY <1>2, <1>3, GemLayers
<1>5. \A k \in 1 .. n : c[k] \in Cells
  <2> DEFINE layers == {GemCells(g)[j] : j \in DOMAIN GemCells(g)}
  <2>1. \A k \in 1 .. n : c[k] \in layers
    BY <1>3, <1>4
  <2>2. layers \subseteq GemLines
    BY DEF GemLines
  <2> HIDE DEF layers
  <2> QED BY <2>1, <2>2 DEF Cells
<1>6. c \in [1 .. n -> Cells]
  BY <1>4, <1>5
<1>7. c \in Seq(Cells)
  BY <1>6, SeqDef
<1>8. Len(c) = n
  BY <1>4, <1>7, LenProperties
<1>9. \A k \in 1 .. Len(c) : c[k].name # "Bar_phy"
  BY <1>4, <1>8
<1>10. NoBarAfterBar(c)
  <2>1. \A k \in 1 .. Len(c) - 1 : k \in 1 .. Len(c)
    BY <1>8
  <2> QED BY <1>9, <2>1 DEF NoBarAfterBar
<1> QED
  BY <1>3, <1>7, <1>9, <1>10

\* The lines of tracks through the walls.
WallLine(w, l, pp, i) ==
  <<World>> \o CellsAlong(WallVolumes(w, l), i, BarCentre(w, l, pp)) \o <<World>>

LEMMA WallTracksAre ==
  WallTracks = {WallLine(w, l, pp, i) :
                    w \in 0 .. 1, l \in 0 .. 1, pp \in Probed, i \in Coords}
                   \cup {WallLine(2, 0, pp, i) : pp \in Probed, i \in Coords}
BY DEF WallTracks, WallLine

\* Each is a line through the middle of a bar, from the world into the world.
LEMMA WallLines ==
  ASSUME NEW line \in WallTracks
  PROVE  \E w \in 0 .. 2, l \in 0 .. 1, pp \in 0 .. 10, i \in Coords :
            line = <<World>> \o CellsAlong(WallVolumes(w, l), i, BarCentre(w, l, pp))
                      \o <<World>>
<1>1. Probed \subseteq 0 .. 10
  BY DetectorAssumption
<1>2. 0 .. 1 \subseteq 0 .. 2 /\ 2 \in 0 .. 2 /\ 0 \in 0 .. 1
  OBVIOUS
<1>3. \/ \E w \in 0 .. 1, l \in 0 .. 1, pp \in Probed, i \in Coords : line = WallLine(w, l, pp, i)
      \/ \E pp \in Probed, i \in Coords : line = WallLine(2, 0, pp, i)
  BY WallTracksAre
<1>4. \E w \in 0 .. 2, l \in 0 .. 1, pp \in 0 .. 10, i \in Coords : line = WallLine(w, l, pp, i)
  <2>1. CASE \E w \in 0 .. 1, l \in 0 .. 1, pp \in Probed, i \in Coords :
                line = WallLine(w, l, pp, i)
    BY <1>1, <1>2, <2>1
  <2>2. CASE \E pp \in Probed, i \in Coords : line = WallLine(2, 0, pp, i)
    BY <1>1, <1>2, <2>2
  <2> QED BY <1>3, <2>1, <2>2
<1> QED BY <1>4 DEF WallLine

\* The lines of tracks: through the walls and through the chambers.
LEMMA TracksAre ==
  ASSUME NEW line \in WallTracks \cup {GemTrack}
  PROVE  IsLine(line)
<1>1. CASE line = GemTrack
  <2>1. PICK a, b : a = GemCells(0) /\ b = GemCells(1)
    OBVIOUS
  <2>2. /\ a \in Seq(Cells) /\ NoBarAfterBar(a) /\ b \in Seq(Cells) /\ NoBarAfterBar(b)
        /\ \A k \in 1 .. Len(a) : a[k].name # "Bar_phy"
        /\ \A k \in 1 .. Len(b) : b[k].name # "Bar_phy"
    <3>1. 0 \in 0 .. 1 /\ 1 \in 0 .. 1
      OBVIOUS
    <3> QED BY <2>1, <3>1, GemCellsAre
  <2>3. World \in Cells /\ World.name # "Bar_phy"
    BY DEF Cells, World
  <2>4. PICK t : t = a \o <<World>>
    OBVIOUS
  <2>5. t \in Seq(Cells) /\ \A k \in 1 .. Len(t) : t[k].name # "Bar_phy"
    BY <2>2, <2>3, <2>4
  <2>6. PICK u : u = t \o b
    OBVIOUS
  <2>7. u \in Seq(Cells) /\ \A k \in 1 .. Len(u) : u[k].name # "Bar_phy"
    BY <2>2, <2>5, <2>6
  <2>8. NoBarAfterBar(u)
    <3>1. \A k \in 1 .. Len(u) - 1 : k \in 1 .. Len(u)
      BY <2>7
    <3> QED BY <2>7, <3>1 DEF NoBarAfterBar
  <2>9. IsLine(<<World>> \o u \o <<World>>)
    BY <2>7, <2>8, WorldAround
  <2>10. GemTrack = <<World>> \o u \o <<World>>
    BY <2>1, <2>2, <2>3, <2>4, <2>5, <2>6 DEF GemTrack
  <2> QED BY <1>1, <2>9, <2>10
<1>2. CASE line \in WallTracks
  <2>1. PICK w \in 0 .. 2, l \in 0 .. 1, pp \in 0 .. 10, i \in Coords :
           line = <<World>> \o CellsAlong(WallVolumes(w, l), i, BarCentre(w, l, pp))
                     \o <<World>>
    BY <1>2, WallLines
  <2>2. PICK c : c = CellsAlong(WallVolumes(w, l), i, BarCentre(w, l, pp))
    OBVIOUS
  <2>3. c \in Seq(WallVolumes(w, l)) /\ NoBarAfterBar(c)
    BY <2>2, WallCells
  <2>4. WallVolumes(w, l) \subseteq Cells
    BY DEF Cells, InWalls
  <2>5. c \in Seq(Cells)
    BY <2>3, <2>4
  <2> QED BY <2>1, <2>2, <2>3, <2>5, WorldAround
<1> QED
  BY <1>1, <1>2

-----------------------------------------------------------------------------
(* The hits of a track.                                                      *)
Named(pads) == [k \in 1 .. Len(pads) |-> paddle(pads[k])]
InBar(c) == Len(c) > 0 /\ c[1].name = "Bar_phy"
Times(s, b) == {k \in DOMAIN s : s[k] = b}

\* What lies ahead of a track.
AheadOK(c) == c \in Seq(Cells) /\ NoBarAfterBar(c) /\ (Len(c) > 0 => c[Len(c)].name # "Bar_phy")

\* The bars with steps in the books, with the one the track is in, if it is in
\* one, are those it has entered.
EnteredOK(c, pads, bars) ==
  /\ pads \in Seq(Nat) /\ bars \in Seq(Bars) /\ Named(pads) \in Seq(Bars)
  /\ bars = IF InBar(c) THEN Append(Named(pads), c[1].bar) ELSE Named(pads)
EnergyOK(pads, energy) ==
  /\ energy \in [Bars -> Nat]
  /\ \A b \in Bars : /\ IsFiniteSet(Times(Named(pads), b))
                       /\ energy[b] = Cardinality(Times(Named(pads), b))
PositionsOK(positions, bars) ==
  /\ positions \in Seq(Nat)
  /\ \A k \in 1 .. Len(positions) : \E j \in 1 .. Len(bars) : paddle(positions[k]) = bars[j]

HitsInv ==
  /\ AheadOK(track.cells) /\ EnteredOK(track.cells, vPadNum, entered)
  /\ EnergyOK(vPadNum, EnergyAbsBar) /\ PositionsOK(paddles, entered)

\* A track that has just begun has none.
LEMMA NoHits ==
  ASSUME NEW c, ~InBar(c)
  PROVE  EnteredOK(c, <<>>, <<>>) /\ EnergyOK(<<>>, NoEnergy) /\ PositionsOK(<<>>, <<>>)
<1>1. Named(<<>>) = <<>> /\ DOMAIN Named(<<>>) = {}
  BY DEF Named
<1>0. <<>> \in Seq(Nat) /\ <<>> \in Seq(Bars)
  OBVIOUS
<1>2. EnteredOK(c, <<>>, <<>>)
  BY Zenon, <1>0, <1>1 DEF EnteredOK
<1>3. EnergyOK(<<>>, NoEnergy)
  <2>1. \A b : Times(Named(<<>>), b) = {}
    BY <1>1 DEF Times
  <2> QED BY <2>1, FS_EmptySet DEF EnergyOK, NoEnergy
<1>4. PositionsOK(<<>>, <<>>)
  BY DEF PositionsOK
<1> QED
  BY <1>2, <1>3, <1>4

LEMMA HitsInit == DetectorInit => HitsInv
<1> SUFFICES ASSUME DetectorInit PROVE HitsInv
  OBVIOUS
<1>1. PICK c : c = track.cells /\ c = <<>>
  BY DEF DetectorInit, NoTrack
<1>2. AheadOK(c) /\ ~InBar(c)
  BY <1>1 DEF AheadOK, InBar, NoBarAfterBar
<1>3. EnteredOK(c, <<>>, <<>>) /\ EnergyOK(<<>>, NoEnergy) /\ PositionsOK(<<>>, <<>>)
  BY <1>2, NoHits
<1> QED
  BY <1>1, <1>2, <1>3 DEF DetectorInit, HitsInv

LEMMA EventBegins ==
  ASSUME BeginOfEventAction
  PROVE  HitsInv'
<1>1. PICK line, c :
         /\ line \in WallTracks \cup {GemTrack}
         /\ track'.cells = c /\ c \in {line, Reverse(line)}
  BY DEF BeginOfEventAction
<1>2. IsLine(c)
  BY <1>1, TracksAre, ReverseIs
<1>3. AheadOK(c) /\ ~InBar(c)
  BY <1>2 DEF AheadOK, InBar, IsLine
<1>4. EnteredOK(c, <<>>, <<>>) /\ EnergyOK(<<>>, NoEnergy) /\ PositionsOK(<<>>, <<>>)
  BY <1>3, NoHits
<1> QED
  BY <1>1, <1>3, <1>4 DEF BeginOfEventAction, HitsInv

\* A set of places with one more place in it.
LEMMA OneMore ==
  ASSUME NEW s, NEW B, s \in Seq(B), NEW x \in B, NEW b \in B, IsFiniteSet(Times(s, b))
  PROVE  /\ IsFiniteSet(Times(Append(s, x), b))
         /\ Cardinality(Times(Append(s, x), b)) =
               IF x = b THEN Cardinality(Times(s, b)) + 1 ELSE Cardinality(Times(s, b))
<1>1. PICK n \in Nat : n = Len(s)
  OBVIOUS
<1>2. PICK t : t = Append(s, x)
  OBVIOUS
<1>3. /\ DOMAIN s = 1 .. n /\ DOMAIN t = 1 .. n + 1 /\ t[n + 1] = x
      /\ \A k \in 1 .. n : t[k] = s[k]
  BY <1>1, <1>2
<1>4. \A k : k \in 1 .. n + 1 <=> k \in 1 .. n \/ k = n + 1
  BY <1>1
<1>5. CASE x = b
  <2>1. Times(t, b) = Times(s, b) \cup {n + 1}
    BY <1>3, <1>4, <1>5 DEF Times
  <2>2. n + 1 \notin Times(s, b)
    BY <1>3 DEF Times
  <2> QED BY <1>2, <1>5, <2>1, <2>2, FS_AddElement
<1>6. CASE x # b
  <2>1. Times(t, b) = Times(s, b)
    BY <1>3, <1>4, <1>6 DEF Times
  <2> QED BY <1>2, <1>6, <2>1
<1> QED
  BY <1>5, <1>6

\* What a step does to the books.
Booked(pre, next, pads, bars, energy, positions, pads1, bars1, energy1, positions1) ==
  /\ IF pre.name = "Bar_phy"
     THEN /\ pads1 = Append(pads, pre.copy)
          /\ energy1 = [energy EXCEPT ![paddle(pre.copy)] = @ + 1]
     ELSE pads1 = pads /\ energy1 = energy
  /\ \/ positions1 = positions
     \/ /\ positions1 = Append(positions, next.copy)
        /\ pre.name # "Bar_phy" /\ next.name = "Bar_phy"
  /\ bars1 = IF pre.name # "Bar_phy" /\ next.name = "Bar_phy"
             THEN Append(bars, next.bar) ELSE bars

\* The books get the bar a track was in, and the bar it goes into.
LEMMA BookTheStep ==
  ASSUME NEW c, NEW pads, NEW bars, NEW energy, NEW positions, AheadOK(c), Len(c) > 1,
         EnteredOK(c, pads, bars), EnergyOK(pads, energy), PositionsOK(positions, bars),
         NEW pre, NEW next, pre = c[1], next = c[2],
         NEW pads1, NEW bars1, NEW energy1, NEW positions1,
         Booked(pre, next, pads, bars, energy, positions, pads1, bars1, energy1, positions1)
  PROVE  /\ AheadOK(Tail(c)) /\ EnteredOK(Tail(c), pads1, bars1)
         /\ EnergyOK(pads1, energy1) /\ PositionsOK(positions1, bars1)
<1> USE DEF Booked
<1>1. PICK n \in Nat : n = Len(c) /\ n > 1
  BY DEF AheadOK
<1>2. PICK d : d = Tail(c)
  OBVIOUS
<1>3. d \in Seq(Cells) /\ Len(d) = n - 1 /\ \A k \in 1 .. n - 1 : d[k] = c[k + 1]
  BY <1>1, <1>2 DEF AheadOK
<1>4. pre \in Cells /\ next \in Cells /\ d[1] = next /\ Len(d) > 0
      /\ ~(pre.name = "Bar_phy" /\ next.name = "Bar_phy")
  <2>1. 1 \in 1 .. n /\ 2 \in 1 .. n /\ 1 \in 1 .. n - 1 /\ 1 + 1 = 2
    BY <1>1
  <2>2. pre \in Cells /\ next \in Cells
    BY <1>1, <2>1 DEF AheadOK
  <2>3. d[1] = next
    BY <1>3, <2>1
  <2>4. ~(c[1].name = "Bar_phy" /\ c[1 + 1].name = "Bar_phy")
    BY <1>1, <2>1 DEF AheadOK, NoBarAfterBar
  <2> QED BY <1>1, <1>3, <2>1, <2>2, <2>3, <2>4
<1>5. AheadOK(d)
  <2>1. NoBarAfterBar(d)
    <3> SUFFICES ASSUME NEW k \in 1 .. Len(d) - 1
                 PROVE  ~(d[k].name = "Bar_phy" /\ d[k + 1].name = "Bar_phy")
      BY DEF NoBarAfterBar
    <3>1. k \in 1 .. n - 1 /\ k + 1 \in 1 .. n - 1 /\ k + 1 \in 1 .. Len(c) - 1
      BY <1>1, <1>3
    <3>2. d[k] = c[k + 1] /\ d[k + 1] = c[(k + 1) + 1]
      BY <1>3, <3>1
    <3> QED BY <3>1, <3>2 DEF AheadOK, NoBarAfterBar
  <2>2. d[Len(d)] = c[Len(c)]
    <3>1. n - 1 \in 1 .. n - 1 /\ (n - 1) + 1 = n
      BY <1>1
    <3> QED BY <1>1, <1>3, <3>1
  <2>3. c[Len(c)].name # "Bar_phy"
    BY <1>1 DEF AheadOK
  <2> QED BY <1>3, <2>1, <2>2, <2>3 DEF AheadOK
<1>6. pads \in Seq(Nat) /\ bars \in Seq(Bars) /\ Named(pads) \in Seq(Bars)
  BY DEF EnteredOK
<1>7. Len(c) > 0 /\ (InBar(c) <=> pre.name = "Bar_phy") /\ (InBar(d) <=> next.name = "Bar_phy")
  BY <1>1, <1>4 DEF InBar
<1>8. CASE pre.name = "Bar_phy"
  <2>1. /\ pre.bar \in Bars /\ pre.copy \in Nat /\ paddle(pre.copy) = pre.bar
        /\ next.name # "Bar_phy" /\ bars1 = bars /\ positions1 = positions
        /\ pads1 = Append(pads, pre.copy) /\ energy1 = [energy EXCEPT ![pre.bar] = @ + 1]
    BY <1>4, <1>8, CellIs
  <2>2. Named(pads1) = Append(Named(pads), pre.bar) /\ pads1 \in Seq(Nat)
    BY <1>6, <2>1 DEF Named
  <2>3. bars = Append(Named(pads), pre.bar)
    BY <1>7, <1>8 DEF EnteredOK
  <2>4. EnteredOK(d, pads1, bars1)
    BY <1>6, <1>7, <2>1, <2>2, <2>3 DEF EnteredOK
  <2>5. EnergyOK(pads1, energy1)
    <3>1. energy \in [Bars -> Nat] /\ energy1 \in [Bars -> Nat]
      BY <2>1 DEF EnergyOK
    <3>2. ASSUME NEW b \in Bars
          PROVE  /\ IsFiniteSet(Times(Named(pads1), b))
                 /\ energy1[b] = Cardinality(Times(Named(pads1), b))
      <4>1. /\ IsFiniteSet(Times(Named(pads), b))
            /\ energy[b] = Cardinality(Times(Named(pads), b))
        BY DEF EnergyOK
      <4>2. /\ IsFiniteSet(Times(Named(pads1), b))
            /\ Cardinality(Times(Named(pads1), b)) =
                  IF pre.bar = b THEN Cardinality(Times(Named(pads), b)) + 1
                  ELSE Cardinality(Times(Named(pads), b))
        BY <1>6, <2>1, <2>2, <4>1, OneMore
      <4>3. energy1[b] = IF pre.bar = b THEN energy[b] + 1 ELSE energy[b]
        BY <2>1, <3>1
      <4> QED BY <4>1, <4>2, <4>3
    <3> QED BY <3>1, <3>2 DEF EnergyOK
  <2> QED BY <1>2, <1>5, <2>1, <2>4, <2>5
<1>9. CASE pre.name # "Bar_phy"
  <2>1. pads1 = pads /\ energy1 = energy /\ bars = Named(pads)
    BY <1>7, <1>9 DEF EnteredOK
  <2>2. EnergyOK(pads1, energy1)
    BY <2>1
  <2>3. CASE next.name = "Bar_phy"
    <3>1. /\ next.bar \in Bars /\ next.copy \in Nat /\ paddle(next.copy) = next.bar
          /\ bars1 = Append(bars, next.bar)
      BY <1>4, <1>9, <2>3, CellIs
    <3>2. EnteredOK(d, pads1, bars1)
      BY <1>4, <1>6, <1>7, <2>1, <2>3, <3>1 DEF EnteredOK
    <3>0. Len(bars) \in Nat
      BY <1>6, LenProperties
    <3>7. PICK m \in Nat : m = Len(bars)
      BY <3>0
    <3>3. /\ m \in Nat /\ m = Len(bars) /\ Len(bars1) = m + 1 /\ bars1[m + 1] = next.bar
          /\ \A j \in 1 .. m : bars1[j] = bars[j]
      BY <1>6, <3>7, <3>1
    <3>4. PICK p \in Nat : p = Len(positions) /\ positions \in Seq(Nat)
      BY DEF PositionsOK
    <3>5. ASSUME NEW k \in 1 .. p PROVE \E j \in 1 .. m + 1 : paddle(positions[k]) = bars1[j]
      <4>1. PICK j \in 1 .. m : paddle(positions[k]) = bars[j]
        BY <3>3, <3>4 DEF PositionsOK
      <4>2. j \in 1 .. m + 1
        BY <3>3
      <4> QED BY <3>3, <4>1, <4>2
    <3>6. PositionsOK(positions1, bars1)
      <4>1. CASE positions1 = positions
        BY <3>3, <3>4, <3>5, <4>1 DEF PositionsOK
      <4>2. CASE positions1 = Append(positions, next.copy)
        <5>1. /\ positions1 \in Seq(Nat) /\ Len(positions1) = p + 1
              /\ positions1[p + 1] = next.copy
              /\ \A k \in 1 .. p : positions1[k] = positions[k]
          BY <3>1, <3>4, <4>2
        <5>2. \A k \in 1 .. p + 1 : k \in 1 .. p \/ k = p + 1
          BY <3>4
        <5>3. m + 1 \in 1 .. m + 1
          BY <3>3
        <5>4. ASSUME NEW k \in 1 .. p + 1
              PROVE  \E j \in 1 .. m + 1 : paddle(positions1[k]) = bars1[j]
          BY <3>1, <3>3, <3>5, <5>1, <5>2, <5>3
        <5> QED BY <3>3, <5>1, <5>4 DEF PositionsOK
      <4> QED BY <4>1, <4>2
    <3> QED BY <1>2, <1>5, <2>2, <3>2, <3>6
  <2>4. CASE next.name # "Bar_phy"
    <3>1. bars1 = bars /\ positions1 = positions
      BY <2>4
    <3>2. EnteredOK(d, pads1, bars1)
      BY <1>6, <1>7, <2>1, <2>4, <3>1 DEF EnteredOK
    <3> QED BY <1>2, <1>5, <2>2, <3>1, <3>2
  <2> QED BY <2>3, <2>4
<1> QED
  BY <1>8, <1>9

LEMMA HitsStep ==
  ASSUME HitsInv, UserSteppingAction
  PROVE  HitsInv'
<1>1. PICK c : c = track.cells /\ Len(c) > 1
  BY DEF UserSteppingAction
<1>2. PICK pre, next : pre = c[1] /\ next = c[2]
  OBVIOUS
<1>3. track'.cells = Tail(c)
  BY <1>1 DEF UserSteppingAction
<1>4. StepAnalysis(pre, next)
  BY <1>1, <1>2 DEF UserSteppingAction
<1>5. IF pre.name = "Bar_phy"
      THEN /\ vPadNum' = Append(vPadNum, pre.copy)
           /\ EnergyAbsBar' = [EnergyAbsBar EXCEPT ![paddle(pre.copy)] = @ + 1]
      ELSE vPadNum' = vPadNum /\ EnergyAbsBar' = EnergyAbsBar
  BY <1>4 DEF StepAnalysis
<1>6. \/ paddles' = paddles
      \/ /\ paddles' = Append(paddles, next.copy)
         /\ pre.name # "Bar_phy" /\ next.name = "Bar_phy"
  BY <1>4 DEF StepAnalysis, BarEntrance, Entry
<1>7. entered' = IF pre.name # "Bar_phy" /\ next.name = "Bar_phy"
                 THEN Append(entered, next.bar) ELSE entered
  BY <1>4 DEF StepAnalysis, Entry
<1>8. /\ AheadOK(c) /\ EnteredOK(c, vPadNum, entered)
      /\ EnergyOK(vPadNum, EnergyAbsBar) /\ PositionsOK(paddles, entered)
  BY <1>1 DEF HitsInv
<1>9. /\ AheadOK(Tail(c)) /\ EnteredOK(Tail(c), vPadNum', entered')
      /\ EnergyOK(vPadNum', EnergyAbsBar') /\ PositionsOK(paddles', entered')
  <2>1. PICK pads, bars, energy, positions :
           pads = vPadNum /\ bars = entered /\ energy = EnergyAbsBar /\ positions = paddles
    OBVIOUS
  <2>2. PICK pads1, bars1, energy1, positions1 :
           /\ pads1 = vPadNum' /\ bars1 = entered'
           /\ energy1 = EnergyAbsBar' /\ positions1 = paddles'
    OBVIOUS
  <2>3. Booked(pre, next, pads, bars, energy, positions, pads1, bars1, energy1, positions1)
    BY <1>5, <1>6, <1>7, <2>1, <2>2 DEF Booked
  <2>4. /\ AheadOK(c) /\ EnteredOK(c, pads, bars)
        /\ EnergyOK(pads, energy) /\ PositionsOK(positions, bars)
    BY <1>8, <2>1
  <2>5. /\ AheadOK(Tail(c)) /\ EnteredOK(Tail(c), pads1, bars1)
        /\ EnergyOK(pads1, energy1) /\ PositionsOK(positions1, bars1)
    BY Zenon, <1>1, <1>2, <2>3, <2>4, BookTheStep
  <2> QED BY <2>2, <2>5
<1> QED
  BY <1>3, <1>9 DEF HitsInv

LEMMA HitsNext ==
  HitsInv /\ [DetectorNext]_(detector_vars) => HitsInv'
<1> SUFFICES ASSUME HitsInv, [DetectorNext]_(detector_vars) PROVE HitsInv'
  OBVIOUS
<1>1. CASE BeginOfEventAction
  BY <1>1, EventBegins
<1>2. CASE UserSteppingAction
  BY <1>2, HitsStep
<1>3. CASE LeaveTheWorld
  <2>1. PICK c : c = track.cells /\ Len(c) = 1 /\ track'.cells = <<>>
    BY <1>3 DEF LeaveTheWorld
  <2>2. ~InBar(c) /\ ~InBar(<<>>) /\ AheadOK(<<>>)
    BY <2>1 DEF HitsInv, AheadOK, InBar, NoBarAfterBar
  <2>3. UNCHANGED <<vPadNum, paddles, EnergyAbsBar, entered>>
    BY <1>3 DEF LeaveTheWorld, detector_hits
  <2>4. EnteredOK(<<>>, vPadNum, entered)
    BY <2>1, <2>2 DEF HitsInv, EnteredOK
  <2> QED BY <2>1, <2>2, <2>3, <2>4 DEF HitsInv
<1>4. CASE UNCHANGED <<track, vPadNum, paddles, EnergyAbsBar, entered>>
  BY <1>4 DEF HitsInv
<1>5. CASE ReadLine \/ EndOfFile
  BY <1>4, <1>5 DEF ReadLine, EndOfFile, detector_hits
<1>6. CASE BuildPanel \/ BuildGEM \/ ConstructSDandField
  BY <1>4, <1>6 DEF BuildPanel, BuildGEM, ConstructSDandField, detector_hits
<1>7. CASE UNCHANGED detector_vars
  BY <1>4, <1>7 DEF detector_vars, detector_hits
<1> QED
  BY <1>1, <1>2, <1>3, <1>5, <1>6, <1>7 DEF DetectorNext

(* Whatever LAD.ini says and wherever tracks aim: a step in a bar is booked  *)
(* under that bar, once, and hodoposition names no bar the track was not in. *)
THEOREM StepsAreInTheirBars ==
  DetectorSpec => []HitsNameTheirBar
<1>1. HitsInv => HitsNameTheirBar
  <2> SUFFICES ASSUME HitsInv PROVE HitsNameTheirBar
    OBVIOUS
  <2>1. PICK named : named = Named(vPadNum)
    OBVIOUS
  <2>2. /\ named \in Seq(Bars) /\ entered \in Seq(Bars)
        /\ entered = named \/ \E x : entered = Append(named, x)
    BY <2>1 DEF HitsInv, EnteredOK
  <2>3. PICK n \in Nat : n = Len(named)
    BY <2>2
  <2>4. /\ Len(entered) - n \in 0 .. 1
        /\ \A k \in 1 .. n : entered[k] = named[k]
    BY <2>2, <2>3
  <2>5. named = SubSeq(entered, 1, n)
    BY <2>2, <2>3, <2>4
  <2>6. ASSUME NEW b \in Bars
        PROVE  EnergyAbsBar[b] = Cardinality({k \in DOMAIN named : named[k] = b})
    <3>1. EnergyAbsBar[b] = Cardinality(Times(named, b))
      BY <2>1 DEF HitsInv, EnergyOK
    <3> QED BY <3>1 DEF Times
  <2>7. ASSUME NEW k \in 1 .. Len(paddles) PROVE paddle(paddles[k]) \in ToSet(entered)
    <3>1. PICK j \in 1 .. Len(entered) : paddle(paddles[k]) = entered[j]
      BY DEF HitsInv, PositionsOK
    <3> QED BY <2>2, <3>1 DEF ToSet
  <2> QED BY <2>1, <2>3, <2>4, <2>5, <2>6, <2>7 DEF HitsNameTheirBar, Named
<1> QED
  BY <1>1, HitsInit, HitsNext, PTL DEF DetectorSpec

-----------------------------------------------------------------------------
(* The layers of a chamber.                                                  *)
N == Len(gempz)

LEMMA GempzIs ==
  N = 24 /\ \A k \in 1 .. 24 : gempz[k] \in Nat /\ gempz[k] > 0
<1>1. N = 24
  BY DEF N, gempz
<1>2. ASSUME NEW k \in 1 .. 24 PROVE gempz[k] \in Nat /\ gempz[k] > 0
  <2>1. CASE k <= 8
    BY <2>1 DEF gempz
  <2>2. CASE k > 8 /\ k <= 16
    BY <2>2 DEF gempz
  <2>3. CASE k > 16
    BY <2>3 DEF gempz
  <2> QED BY <2>1, <2>2, <2>3
<1> QED
  BY <1>1, <1>2

LEMMA ThicknessIs ==
  /\ Thickness[0] = 0
  /\ \A k \in 0 .. 24 : Thickness[k] \in Nat
  /\ \A k \in 1 .. 24 : Thickness[k] = Thickness[k - 1] + gempz[k]
<1> DEFINE step == [k \in 1 .. 24 |-> [x \in Nat |-> x + gempz[k]]]
<1>1. step \in [1 .. 24 -> [Nat -> Nat]]
  <2>1. \A k \in 1 .. 24 : gempz[k] \in Nat
    BY GempzIs
  <2> QED BY <2>1
<1>2. PICK f \in [0 .. 24 -> Nat] : Follows(f, 24, 0, step)
  <2>1. 24 \in Nat /\ 0 \in Nat
    OBVIOUS
  <2> HIDE DEF step
  <2> QED BY <1>1, <2>1, Recursion, Zenon
<1>3. ASSUME NEW k \in 1 .. 24 PROVE f[k] = f[k - 1] + gempz[k]
  <2>1. f[k] = step[k][f[k - 1]]
    <3> HIDE DEF step
    <3> QED BY <1>2 DEF Follows
  <2>2. f[k - 1] \in Nat
    OBVIOUS
  <2> QED BY <2>1, <2>2
<1>4. f[0] = 0
  BY <1>2 DEF Follows
<1> HIDE DEF step
<1>5. f = [k \in 0 .. N |-> IF k = 0 THEN 0 ELSE f[k - 1] + gempz[k]]
  <2>1. N = 24
    BY GempzIs
  <2>2. \A k \in 0 .. 24 : k # 0 => k \in 1 .. 24
    OBVIOUS
  <2> QED BY <1>3, <1>4, <2>1, <2>2
<1>6. Thickness = CHOOSE g : g = [k \in 0 .. N |-> IF k = 0 THEN 0 ELSE g[k - 1] + gempz[k]]
  BY DEF Thickness, N
<1>7. Thickness = [k \in 0 .. N |-> IF k = 0 THEN 0 ELSE Thickness[k - 1] + gempz[k]]
  BY <1>5, <1>6, Zenon
<1>8. N = 24
  BY GempzIs
<1>9. Thickness[0] = 0
  <2>1. 0 \in 0 .. N
    BY <1>8
  <2> QED BY <1>7, <2>1
<1>10. \A k \in 1 .. 24 : Thickness[k] = Thickness[k - 1] + gempz[k]
  <2>1. \A k \in 1 .. 24 : k \in 0 .. N /\ k # 0
    BY <1>8
  <2> QED BY <1>7, <2>1
<1>11. \A k \in 0 .. 24 : k \in {j \in 0 .. 24 : Thickness[j] \in Nat}
  <2>1. 0 \in {j \in 0 .. 24 : Thickness[j] \in Nat}
    BY <1>9
  <2>2. ASSUME NEW j \in 0 .. 24 - 1, Thickness[j] \in Nat PROVE Thickness[j + 1] \in Nat
    <3>1. j + 1 \in 1 .. 24 /\ (j + 1) - 1 = j
      OBVIOUS
    <3>2. gempz[j + 1] \in Nat
      BY <3>1, GempzIs
    <3> QED BY <1>10, <2>2, <3>1, <3>2
  <2>3. 24 \in Nat
    OBVIOUS
  <2> QED BY <2>1, <2>2, <2>3, InductTo
<1> QED
  BY <1>9, <1>10, <1>11

LEMMA ThicknessGrows ==
  ASSUME NEW j \in 0 .. 24, NEW k \in 0 .. 24, j <= k
  PROVE  Thickness[j] <= Thickness[k]
<1> DEFINE S == {i \in Nat : j + i <= 24 => Thickness[j] <= Thickness[j + i]}
<1>1. 0 \in S
  <2>1. Thickness[j] \in Nat /\ j + 0 = j
    BY ThicknessIs
  <2> QED BY <2>1
<1>2. ASSUME NEW i \in Nat, i \in S PROVE i + 1 \in S
  <2> SUFFICES ASSUME j + (i + 1) <= 24 PROVE Thickness[j] <= Thickness[j + (i + 1)]
    OBVIOUS
  <2>1. j + (i + 1) \in 1 .. 24 /\ (j + (i + 1)) - 1 = j + i /\ j + i \in 0 .. 24 /\ j + i <= 24
    OBVIOUS
  <2>2. Thickness[j + (i + 1)] = Thickness[j + i] + gempz[j + (i + 1)]
    BY <2>1, ThicknessIs
  <2>3. /\ Thickness[j] \in Nat /\ Thickness[j + i] \in Nat /\ gempz[j + (i + 1)] \in Nat
    BY <2>1, ThicknessIs, GempzIs
  <2>4. Thickness[j] <= Thickness[j + i]
    BY <1>2, <2>1
  <2> QED BY <2>2, <2>3, <2>4
<1>3. Nat \subseteq S
  <2> HIDE DEF S
  <2> QED BY <1>1, <1>2, Induct
<1>4. k - j \in Nat /\ j + (k - j) = k
  OBVIOUS
<1> QED
  BY <1>3, <1>4

\* Twice the distance of a layer from the middle, counted from the cover.
Depth(k) == 2 * Thickness[k] + gempz[k + 1] - Thickness[24]

LEMMA LayerIs ==
  ASSUME NEW k \in 0 .. 23
  PROVE  /\ k \in Layers /\ LayerAt(k) = 0 - Depth(k) /\ Depth(k) \in Int
         /\ Thickness[k] \in Nat /\ Thickness[k + 1] \in Nat
         /\ gempz[k + 1] \in Nat /\ gempz[k + 1] > 0
         /\ Thickness[k + 1] = Thickness[k] + gempz[k + 1]
<1>1. Len(gempz) = 24
  BY GempzIs DEF N
<1>2. k \in 0 .. 24 /\ k + 1 \in 1 .. 24 /\ k + 1 \in 0 .. 24 /\ (k + 1) - 1 = k /\ 24 \in 0 .. 24
  OBVIOUS
<1>3. /\ Thickness[k] \in Nat /\ Thickness[k + 1] \in Nat /\ Thickness[24] \in Nat
      /\ Thickness[k + 1] = Thickness[k] + gempz[k + 1]
  BY <1>2, ThicknessIs
<1>4. gempz[k + 1] \in Nat /\ gempz[k + 1] > 0
  BY <1>2, GempzIs
<1>5. k \in Layers
  BY <1>1 DEF Layers
<1>6. LayerAt(k) = (0 - 1) * (2 * Thickness[k] + gempz[k + 1] - Thickness[24])
  BY <1>1 DEF LayerAt, sign, gempzsum
<1> QED
  BY <1>3, <1>4, <1>5, <1>6 DEF Depth

\* A layer ends where a deeper one has not begun.
LEMMA DepthRises ==
  ASSUME NEW j \in 0 .. 23, NEW k \in 0 .. 23, j < k
  PROVE  Depth(j) + gempz[j + 1] <= Depth(k) - gempz[k + 1] /\ Depth(j) < Depth(k)
<1>1. j + 1 \in 0 .. 24 /\ k \in 0 .. 24 /\ j + 1 <= k
  OBVIOUS
<1>2. Thickness[j + 1] <= Thickness[k]
  BY <1>1, ThicknessGrows
<1>3. PICK s : s = Thickness[24]
  OBVIOUS
<1>4. /\ Depth(j) = 2 * Thickness[j] + gempz[j + 1] - s
      /\ Depth(k) = 2 * Thickness[k] + gempz[k + 1] - s /\ s \in Nat
  BY <1>3, ThicknessIs DEF Depth
<1>5. /\ Thickness[j] \in Nat /\ Thickness[j + 1] \in Nat /\ gempz[j + 1] \in Nat
      /\ gempz[j + 1] > 0 /\ Thickness[j + 1] = Thickness[j] + gempz[j + 1]
  BY LayerIs
<1>6. Thickness[k] \in Nat /\ gempz[k + 1] \in Nat /\ gempz[k + 1] > 0
  BY LayerIs
<1>7. 2 * Thickness[j + 1] <= 2 * Thickness[k]
  BY <1>2, <1>5, <1>6
<1> QED
  BY <1>4, <1>5, <1>6, <1>7

LEMMA LayersNest ==
  /\ \A k \in Layers : Abs(LayerAt(k)) + gempz[k + 1] <= gempzsum
  /\ \A j, k \in Layers :
        j # k => Abs(LayerAt(j) - LayerAt(k)) >= gempz[j + 1] + gempz[k + 1]
<1>1. Layers = 0 .. 23 /\ gempzsum = Thickness[24]
  BY GempzIs DEF Layers, gempzsum, N
<1>2. ASSUME NEW k \in 0 .. 23
      PROVE  Abs(LayerAt(k)) + gempz[k + 1] <= gempzsum
  <2>1. PICK s \in Nat : s = Thickness[24] /\ s = gempzsum
    BY <1>1, ThicknessIs
  <2>2. Thickness[k + 1] <= s
    <3>1. k + 1 \in 0 .. 24 /\ 24 \in 0 .. 24 /\ k + 1 <= 24
      OBVIOUS
    <3> QED BY <2>1, <3>1, ThicknessGrows
  <2>3. LayerAt(k) = 0 - (2 * Thickness[k] + gempz[k + 1] - s)
    BY <2>1, LayerIs DEF Depth
  <2> QED BY <2>1, <2>2, <2>3, LayerIs DEF Abs
<1>3. ASSUME NEW j \in 0 .. 23, NEW k \in 0 .. 23, j # k
      PROVE  Abs(LayerAt(j) - LayerAt(k)) >= gempz[j + 1] + gempz[k + 1]
  <2>1. /\ LayerAt(j) = 0 - Depth(j) /\ Depth(j) \in Int /\ gempz[j + 1] \in Nat
        /\ LayerAt(k) = 0 - Depth(k) /\ Depth(k) \in Int /\ gempz[k + 1] \in Nat
    BY LayerIs
  <2>2. CASE j < k
    <3>1. Depth(j) + gempz[j + 1] <= Depth(k) - gempz[k + 1] /\ Depth(j) < Depth(k)
      BY <2>2, DepthRises
    <3> QED BY <2>1, <3>1 DEF Abs
  <2>3. CASE k < j
    <3>1. Depth(k) + gempz[k + 1] <= Depth(j) - gempz[j + 1] /\ Depth(k) < Depth(j)
      BY <2>3, DepthRises
    <3> QED BY <2>1, <3>1 DEF Abs
  <2> QED BY <1>3, <2>2, <2>3
<1> QED
  BY <1>1, <1>2, <1>3

\* The values of a function that rises are in order where they stand.
LEMMA RisingInOrder ==
  ASSUME NEW n \in Nat, NEW f \in [0 .. n - 1 -> Int],
         \A j, k \in 0 .. n - 1 : j < k => f[j] < f[k],
         NEW S, S = {f[k] : k \in 0 .. n - 1}
  PROVE  \A k \in 0 .. n - 1 : InOrder(S)[k + 1] = f[k]
<1> DEFINE First(k) == {f[j] : j \in 0 .. k - 1}
           T == {k \in Nat : k <= n => IsFiniteSet(First(k)) /\ Cardinality(First(k)) = k}
<1>1. 0 \in T
  <2>1. First(0) = {}
    OBVIOUS
  <2> HIDE DEF First
  <2> QED BY <2>1, FS_EmptySet
<1>2. ASSUME NEW k \in Nat, k \in T PROVE k + 1 \in T
  <2> SUFFICES ASSUME k + 1 <= n
               PROVE  IsFiniteSet(First(k + 1)) /\ Cardinality(First(k + 1)) = k + 1
    OBVIOUS
  <2>1. IsFiniteSet(First(k)) /\ Cardinality(First(k)) = k
    BY <1>2
  <2>2. First(k + 1) = First(k) \cup {f[k]}
    <3>1. 0 .. (k + 1) - 1 = (0 .. k - 1) \cup {k}
      OBVIOUS
    <3> QED BY <3>1
  <2>3. f[k] \notin First(k)
    <3>1. \A j \in 0 .. k - 1 : f[j] < f[k] /\ f[j] \in Int /\ f[k] \in Int
      OBVIOUS
    <3> QED BY <3>1
  <2>4. PICK p, x : p = First(k) /\ x = f[k]
    OBVIOUS
  <2>5. IsFiniteSet(p) /\ Cardinality(p) = k /\ First(k + 1) = p \cup {x} /\ x \notin p
    BY <2>1, <2>2, <2>3, <2>4
  <2> HIDE DEF First
  <2>6. IsFiniteSet(p \cup {x}) /\ Cardinality(p \cup {x}) = k + 1
    BY <2>5, FS_AddElement
  <2> QED BY <2>5, <2>6
<1>3. \A k \in 0 .. n : IsFiniteSet(First(k)) /\ Cardinality(First(k)) = k
  <2>1. Nat \subseteq T
    <3> HIDE DEF T
    <3> QED BY <1>1, <1>2, Induct
  <2> HIDE DEF First
  <2> QED BY <2>1
<1>4. S = First(n)
  OBVIOUS
<1>5. ASSUME NEW k \in 0 .. n - 1 PROVE Below(S, f[k]) = First(k)
  <2>1. \A j \in 0 .. n - 1 : f[j] < f[k] <=> j \in 0 .. k - 1
    OBVIOUS
  <2>2. \A x : x \in Below(S, f[k]) <=> \E j \in 0 .. n - 1 : x = f[j] /\ f[j] < f[k]
    BY IsBelow
  <2>3. \A j \in 0 .. k - 1 : j \in 0 .. n - 1
    OBVIOUS
  <2>4. \A x : x \in First(k) <=> \E j \in 0 .. k - 1 : x = f[j]
    OBVIOUS
  <2> HIDE DEF First
  <2>5. \A x : x \in Below(S, f[k]) <=> x \in First(k)
    BY <2>1, <2>2, <2>3, <2>4
  <2>6. Below(S, f[k]) \subseteq First(k) /\ First(k) \subseteq Below(S, f[k])
    BY <2>5
  <2> QED BY <2>6
<1> HIDE DEF First
<1>6. ASSUME NEW k \in 0 .. n - 1 PROVE Cardinality(Below(S, f[k])) = k
  <2>1. k \in 0 .. n
    OBVIOUS
  <2> QED BY <1>3, <1>5, <2>1
<1>7. Cardinality(S) = n
  <2>1. n \in 0 .. n
    OBVIOUS
  <2> QED BY <1>3, <1>4, <2>1
<1>8. ASSUME NEW k \in 0 .. n - 1 PROVE InOrder(S)[k + 1] = f[k]
  <2>1. k + 1 \in 1 .. Cardinality(S) /\ (k + 1) - 1 = k
    BY <1>7
  <2>2. InOrder(S)[k + 1] = CHOOSE a \in S : Cardinality(Below(S, a)) = k
    <3>1. InOrder(S)[k + 1] = CHOOSE a \in S : Cardinality(Below(S, a)) = (k + 1) - 1
      BY <2>1 DEF InOrder, Below
    <3> QED BY <2>1, <3>1
  <2>3. f[k] \in S /\ Cardinality(Below(S, f[k])) = k
    BY <1>6
  <2>4. \A a \in S : Cardinality(Below(S, a)) = k => a = f[k]
    <3> SUFFICES ASSUME NEW a \in S, Cardinality(Below(S, a)) = k PROVE a = f[k]
      OBVIOUS
    <3>1. PICK j \in 0 .. n - 1 : a = f[j]
      OBVIOUS
    <3>2. Cardinality(Below(S, a)) = j
      BY <1>6, <3>1
    <3> QED BY <3>1, <3>2
  <2> QED BY <2>2, <2>3, <2>4
<1> QED
  BY <1>8

\* A track from the target meets the layers of a chamber from the cover on.
LEMMA GemCellIs ==
  ASSUME NEW g \in 0 .. 1
  PROVE  /\ GemCells(g) \in Seq(Cells) /\ N = Len(GemCells(g))
         /\ \A k \in 0 .. 23 :
               GemCells(g)[k + 1] = [name |-> "GemLayer", copy |-> 0, plane |-> g, layer |-> k]
<1>1. N = Len(gempz) /\ N = 24
  BY GempzIs DEF N
<1>2. Layers = 0 .. 23
  BY <1>1 DEF Layers
<1>3. Dot(GemRotation[3], GemAt(g)) < 0
  <2>1. GemRotation[3] = <<-3993, 0, 3009>>
    BY DEF GemRotation, RotateY
  <2>2. PICK x, z \in Int : GemAt(g) = <<x, 0, 0 - z>> /\ x > 0 /\ z > 0
    <3> DEFINE d == 39370 + 7874 * g
    <3>1. d \in Nat /\ d > 10
      OBVIOUS
    <3>2. GemAt(g) = <<(d * 3993) \div 5000, 0, 0 - (d * 3009) \div 5000>>
      BY DEF GemAt, Unit
    <3> HIDE DEF d
    <3>3. (d * 3993) \div 5000 \in Int /\ (d * 3993) \div 5000 > 0
      BY <3>1
    <3>4. (d * 3009) \div 5000 \in Int /\ (d * 3009) \div 5000 > 0
      BY <3>1
    <3> QED BY <3>2, <3>3, <3>4
  <2>3. Dot(<<-3993, 0, 3009>>, <<x, 0, 0 - z>>) = 0 - 3993 * x - 3009 * z
    BY DEF Dot
  <2> QED BY <2>1, <2>2, <2>3
<1> DEFINE depth(k) == IF Dot(GemRotation[3], GemAt(g)) < 0
                       THEN 0 - LayerAt(k) ELSE LayerAt(k)
           order == InOrder({depth(k) : k \in Layers})
           layer(n) == CHOOSE j \in Layers : depth(j) = order[n]
<1>4. GemCells(g) = [n \in 1 .. N |-> [name |-> "GemLayer", copy |-> 0, plane |-> g,
                                         layer |-> layer(n)]]
  BY <1>1 DEF GemCells
<1> DEFINE f == [k \in 0 .. 23 |-> Depth(k)]
<1>5. \A k \in 0 .. 23 : depth(k) = f[k] /\ f[k] \in Int
  BY <1>3, LayerIs
<1>6. \A k \in 0 .. 23 : order[k + 1] = f[k]
  <2>1. PICK n \in Nat : n = 24 /\ n - 1 = 23
    OBVIOUS
  <2>2. f \in [0 .. n - 1 -> Int]
    BY <1>5, <2>1
  <2>3. \A j, k \in 0 .. n - 1 : j < k => f[j] < f[k]
    BY <2>1, DepthRises
  <2> HIDE DEF f
  <2>4. {depth(k) : k \in Layers} = {f[k] : k \in 0 .. n - 1}
    BY <1>2, <1>5, <2>1
  <2> HIDE DEF depth
  <2>5. \A k \in 0 .. n - 1 : InOrder({f[j] : j \in 0 .. n - 1})[k + 1] = f[k]
    BY <2>2, <2>3, RisingInOrder
  <2> QED BY <2>1, <2>4, <2>5
<1>7. ASSUME NEW k \in 0 .. 23 PROVE layer(k + 1) = k
  <2>1. \A j \in 0 .. 23 : f[j] = f[k] => j = k
    <3>1. \A j \in 0 .. 23 : j < k => f[j] < f[k]
      BY DepthRises
    <3>2. \A j \in 0 .. 23 : k < j => f[k] < f[j]
      BY DepthRises
    <3> HIDE DEF f
    <3> QED BY <1>5, <3>1, <3>2
  <2> HIDE DEF f, depth, order
  <2> QED BY <1>2, <1>5, <1>6, <2>1
<1>8. ASSUME NEW k \in 0 .. 23
      PROVE  GemCells(g)[k + 1]
               = [name |-> "GemLayer", copy |-> 0, plane |-> g, layer |-> k]
  <2>1. k + 1 \in 1 .. N
    BY <1>1
  <2> HIDE DEF layer
  <2> QED BY <1>4, <1>7, <2>1
<1>9. GemCells(g) \in Seq(Cells)
  BY GemCellsAre
<1>10. DOMAIN GemCells(g) = 1 .. N
  BY <1>4
<1> QED
  BY <1>1, <1>8, <1>9, <1>10, LenProperties

Plane(m) == IF m < 26 THEN 0 ELSE 1
Layer(m) == IF m < 26 THEN m - 2 ELSE m - 27

\* Two sequences end to end.
IsJoin(s, a, b, m, n, B) ==
  /\ s \in Seq(B) /\ m + n = Len(s) /\ m + n \in Nat
  /\ \A k \in 1 .. m : s[k] = a[k]
  /\ \A k \in 1 .. n : s[m + k] = b[k]

LEMMA EndToEnd ==
  ASSUME NEW B, NEW m \in Nat, NEW n \in Nat, NEW a \in Seq(B), NEW b \in Seq(B),
         m = Len(a), n = Len(b), NEW s, s = a \o b
  PROVE  IsJoin(s, a, b, m, n, B)
<1>1. s \in Seq(B) /\ m + n = Len(s)
  OBVIOUS
<1>2. \A k \in 1 .. m + n : s[k] = IF k <= m THEN a[k] ELSE b[k - m]
  OBVIOUS
<1>3. ASSUME NEW k \in 1 .. m PROVE s[k] = a[k]
  BY <1>2
<1>4. ASSUME NEW k \in 1 .. n PROVE s[m + k] = b[k]
  <2>1. m + k \in 1 .. m + n /\ ~(m + k <= m) /\ (m + k) - m = k
    OBVIOUS
  <2> QED BY <1>2, <2>1
<1> QED
  BY <1>1, <1>3, <1>4 DEF IsJoin

\* The world, a chamber, the world, the other chamber and the world.
Between(w, a, b) == <<w>> \o a \o <<w>> \o b \o <<w>>

StandBetween(s, w, a, b, n, B) ==
  /\ s \in Seq(B) /\ Len(s) = n + n + 3
  /\ s[1] = w /\ s[n + 2] = w /\ s[n + n + 3] = w
  /\ \A k \in 1 .. n : s[k + 1] = a[k] /\ s[n + 2 + k] = b[k]

LEMMA TwoChambers ==
  ASSUME NEW B, NEW w \in B, NEW a \in Seq(B), NEW b \in Seq(B), NEW n \in Nat,
         n = Len(a), n = Len(b), NEW s, s = Between(w, a, b)
  PROVE  StandBetween(s, w, a, b, n, B)
<1>0. \E x \in Seq(B), i \in Nat : x = <<w>> /\ i = Len(x) /\ x[1] = w /\ i = 1
  <2>1. <<w>> \in Seq(B) /\ Len(<<w>>) = 1 /\ <<w>>[1] = w /\ 1 \in Nat
    OBVIOUS
  <2> QED BY <2>1
<1>a. PICK x \in Seq(B), i \in Nat : x = <<w>> /\ i = Len(x) /\ x[1] = w /\ i = 1
  BY <1>0
<1>1. PICK t : t = x \o a
  OBVIOUS
<1>3. PICK u : u = t \o x
  OBVIOUS
<1>5. PICK v : v = u \o b
  OBVIOUS
<1>6. i = Len(x)
  BY <1>a
<1>b. IsJoin(t, x, a, i, n, B)
  BY <1>1, <1>6, EndToEnd, Zenon
<1>2. /\ t \in Seq(B) /\ i + n \in Nat /\ i + n = Len(t)
      /\ \A k \in 1 .. i : t[k] = x[k]
      /\ \A k \in 1 .. n : t[i + k] = a[k]
  BY <1>b DEF IsJoin
<1>c. IsJoin(u, t, x, i + n, i, B)
  BY <1>2, <1>3, <1>6, EndToEnd, Zenon
<1>4. /\ u \in Seq(B) /\ i + n + i \in Nat /\ i + n + i = Len(u)
      /\ \A k \in 1 .. i + n : u[k] = t[k]
      /\ \A k \in 1 .. i : u[i + n + k] = x[k]
  BY <1>c DEF IsJoin
<1>d. IsJoin(v, u, b, i + n + i, n, B)
  BY <1>4, <1>5, EndToEnd, Zenon
<1>7. /\ v \in Seq(B) /\ i + n + i + n \in Nat /\ i + n + i + n = Len(v)
      /\ \A k \in 1 .. i + n + i : v[k] = u[k]
      /\ \A k \in 1 .. n : v[i + n + i + k] = b[k]
  BY <1>d DEF IsJoin
<1>e. IsJoin(s, v, x, i + n + i + n, i, B)
  <2>2. s = v \o x
    BY <1>a, <1>1, <1>3, <1>5, Zenon DEF Between
  <2> QED BY <1>6, <1>7, <2>2, EndToEnd, Zenon
<1>8. /\ s \in Seq(B) /\ i + n + i + n + i = Len(s) /\ \A k \in 1 .. i + n + i + n : s[k] = v[k]
      /\ \A k \in 1 .. i : s[i + n + i + n + k] = x[k]
  BY <1>e DEF IsJoin
<1>9. i = 1 /\ x[1] = w
  BY <1>a
<1>10. s[1] = w
  <2>1. 1 \in 1 .. i /\ 1 \in 1 .. i + n /\ 1 \in 1 .. i + n + i /\ 1 \in 1 .. i + n + i + n
    BY <1>9
  <2> QED BY <1>2, <1>4, <1>7, <1>8, <1>9, <2>1
<1>11. s[n + 2] = w
  <2>1. 1 \in 1 .. i /\ i + n + 1 \in 1 .. i + n + i /\ i + n + 1 \in 1 .. i + n + i + n
        /\ i + n + 1 = n + 2
    BY <1>9
  <2>2. u[i + n + 1] = w
    BY <1>4, <1>9, <2>1
  <2>3. s[i + n + 1] = w
    BY <1>7, <1>8, <2>1, <2>2
  <2> QED BY <2>1, <2>3
<1>12. s[n + n + 3] = w
  <2>1. 1 \in 1 .. i /\ i + n + i + n + 1 = n + n + 3
    BY <1>9
  <2>2. s[i + n + i + n + 1] = x[1]
    BY <1>8, <2>1
  <2> QED BY <1>9, <2>1, <2>2
<1>13. ASSUME NEW k \in 1 .. n PROVE s[k + 1] = a[k] /\ s[n + 2 + k] = b[k]
  <2>1. /\ i + k \in 1 .. i + n /\ i + k \in 1 .. i + n + i /\ i + k \in 1 .. i + n + i + n
        /\ i + n + i + k \in 1 .. i + n + i + n
        /\ i + k = k + 1 /\ i + n + i + k = n + 2 + k
    BY <1>9
  <2>4. s[i + k] = v[i + k] /\ v[i + k] = u[i + k]
    BY <1>7, <1>8, <2>1
  <2>5. u[i + k] = t[i + k] /\ t[i + k] = a[k]
    BY <1>2, <1>4, <2>1
  <2>2. s[i + k] = a[k]
    BY <2>4, <2>5
  <2>3. s[i + n + i + k] = b[k]
    BY <1>7, <1>8, <2>1
  <2> QED BY <2>1, <2>2, <2>3
<1>14. Len(s) = n + n + 3
  BY <1>8, <1>9
<1> QED
  BY <1>8, <1>10, <1>11, <1>12, <1>13, <1>14 DEF StandBetween

CellOfGems(cell, m) ==
  \/ cell.name # "GemLayer" /\ m \in {1, 26, 51}
  \/ /\ m \notin {1, 26, 51} /\ cell.name = "GemLayer"
     /\ cell.plane = Plane(m) /\ cell.layer = Layer(m)

\* The line of a track through the chambers, cell by cell.
LEMMA GemTrackIs ==
  /\ GemTrack \in Seq(Cells) /\ Len(GemTrack) = 51
  /\ \A m \in 1 .. 51 : CellOfGems(GemTrack[m], m)
<1>1. PICK a, b, s : a = GemCells(0) /\ b = GemCells(1) /\ s = GemTrack
  OBVIOUS
<1>2. PICK n \in Nat : n = N
  BY GempzIs
<1>3. /\ a \in Seq(Cells) /\ n = Len(a) /\ b \in Seq(Cells) /\ n = Len(b)
      /\ \A k \in 0 .. 23 : /\ a[k + 1].name = "GemLayer" /\ a[k + 1].plane = 0 /\ a[k + 1].layer = k
                            /\ b[k + 1].name = "GemLayer" /\ b[k + 1].plane = 1 /\ b[k + 1].layer = k
  <2>1. /\ a \in Seq(Cells) /\ n = Len(a)
        /\ \A k \in 0 .. 23 :
              a[k + 1] = [name |-> "GemLayer", copy |-> 0, plane |-> 0, layer |-> k]
    <3>1. 0 \in 0 .. 1
      OBVIOUS
    <3> QED BY <1>1, <1>2, <3>1, GemCellIs, Zenon
  <2>2. /\ b \in Seq(Cells) /\ n = Len(b)
        /\ \A k \in 0 .. 23 :
              b[k + 1] = [name |-> "GemLayer", copy |-> 0, plane |-> 1, layer |-> k]
    <3>1. 1 \in 0 .. 1
      OBVIOUS
    <3> QED BY <1>1, <1>2, <3>1, GemCellIs, Zenon
  <2>3. ASSUME NEW k \in 0 .. 23
        PROVE  /\ a[k + 1].name = "GemLayer" /\ a[k + 1].plane = 0 /\ a[k + 1].layer = k
               /\ b[k + 1].name = "GemLayer" /\ b[k + 1].plane = 1 /\ b[k + 1].layer = k
    <3>1. a[k + 1] = [name |-> "GemLayer", copy |-> 0, plane |-> 0, layer |-> k]
      BY <2>1
    <3>2. b[k + 1] = [name |-> "GemLayer", copy |-> 0, plane |-> 1, layer |-> k]
      BY <2>2
    <3>3. a[k + 1].name = "GemLayer" /\ a[k + 1].plane = 0 /\ a[k + 1].layer = k
      BY <3>1
    <3>4. b[k + 1].name = "GemLayer" /\ b[k + 1].plane = 1 /\ b[k + 1].layer = k
      BY <3>2
    <3> QED BY <3>3, <3>4
  <2> QED BY <2>1, <2>2, <2>3
<1>4. World \in Cells /\ World.name # "GemLayer"
  BY DEF Cells, World
<1>5. s = Between(World, a, b)
  BY <1>1, Zenon DEF GemTrack, Between
<1>6. /\ s \in Seq(Cells) /\ Len(s) = n + n + 3
      /\ s[1] = World /\ s[n + 2] = World /\ s[n + n + 3] = World
      /\ \A k \in 1 .. n : s[k + 1] = a[k] /\ s[n + 2 + k] = b[k]
  <2>1. PICK w : w = World
    OBVIOUS
  <2>2. w \in Cells /\ s = Between(w, a, b)
    BY <1>4, <1>5, <2>1
  <2>3. a \in Seq(Cells) /\ n = Len(a) /\ b \in Seq(Cells) /\ n = Len(b)
    BY <1>3
  <2>4. StandBetween(s, w, a, b, n, Cells)
    BY <2>2, <2>3, TwoChambers, Zenon
  <2> QED BY <2>1, <2>4 DEF StandBetween
<1>7. n = 24
  BY <1>2, GempzIs
<1>8. /\ Len(s) = 51 /\ s[1] = World /\ s[26] = World /\ s[51] = World
      /\ \A k \in 1 .. 24 : s[k + 1] = a[k] /\ s[k + 26] = b[k]
  BY <1>6, <1>7
<1>9. ASSUME NEW m \in 1 .. 51, m \notin {1, 26, 51}
      PROVE  s[m].name = "GemLayer" /\ s[m].plane = Plane(m) /\ s[m].layer = Layer(m)
  <2>1. CASE m < 26
    <3>1. m - 2 \in 0 .. 23 /\ (m - 2) + 1 \in 1 .. 24 /\ ((m - 2) + 1) + 1 = m
      BY <1>9, <2>1
    <3>2. s[m] = a[(m - 2) + 1]
      BY <1>8, <3>1
    <3> QED BY <1>3, <2>1, <3>1, <3>2 DEF Plane, Layer
  <2>2. CASE ~(m < 26)
    <3>1. m - 27 \in 0 .. 23 /\ (m - 27) + 1 \in 1 .. 24 /\ ((m - 27) + 1) + 26 = m
      BY <1>9, <2>2
    <3>2. s[m] = b[(m - 27) + 1]
      BY <1>8, <3>1
    <3> QED BY <1>3, <2>2, <3>1, <3>2 DEF Plane, Layer
  <2> QED BY <2>1, <2>2
<1>10. ASSUME NEW m \in 1 .. 51 PROVE CellOfGems(s[m], m)
  BY <1>4, <1>8, <1>9 DEF CellOfGems
<1> QED
  BY <1>1, <1>6, <1>8, <1>10

-----------------------------------------------------------------------------
(* GEM hits.                                                                 *)
NoLayer(c) == \A k \in 1 .. Len(c) : c[k].name # "GemLayer"

LEMMA NoLayersInWalls ==
  ASSUME NEW line \in WallTracks
  PROVE  NoLayer(line)
<1>1. PICK w \in 0 .. 2, l \in 0 .. 1, pp \in 0 .. 10, i \in Coords :
         line = <<World>> \o CellsAlong(WallVolumes(w, l), i, BarCentre(w, l, pp))
                   \o <<World>>
  BY WallLines
<1>2. PICK c, x : c = CellsAlong(WallVolumes(w, l), i, BarCentre(w, l, pp)) /\ x = World
  OBVIOUS
<1>3. c \in Seq(WallVolumes(w, l))
  BY <1>2, WallCells
<1>4. PICK B : B = WallVolumes(w, l) \cup {x}
  OBVIOUS
<1>5. \A v \in B : v.name # "GemLayer"
  <2>1. \A v \in WallVolumes(w, l) : v.name # "GemLayer"
    BY NamesAre
  <2>2. x.name # "GemLayer"
    BY <1>2 DEF World
  <2> QED BY <1>4, <2>1, <2>2
<1>6. line \in Seq(B)
  <2>1. c \in Seq(B) /\ x \in B
    BY <1>3, <1>4
  <2>2. line = <<x>> \o c \o <<x>>
    BY <1>1, <1>2
  <2> QED BY <2>1, <2>2
<1> QED
  BY <1>5, <1>6 DEF NoLayer

\* The sensitive layers while the detector is built, and with the beam on.
Detector1 == "/chamber1"
Detector2 == "/chamber2"
ChambersOK ==
  /\ phase \in {"read", "hodo", "gem", "sd", "beam"}
  /\ phase \in {"read", "hodo"} => log_sd = <<>>
  /\ phase = "gem" => \/ ww = 0 /\ log_sd = <<>>
                      \/ ww = 1 /\ log_sd = <<<<0, 5>>>>
  /\ phase = "sd" => log_sd = <<<<0, 5>>, <<1, 5>>>>
  /\ phase = "beam" => /\ DOMAIN chambers = {<<0, 5>>, <<1, 5>>}
                       /\ chambers[<<0, 5>>] = Detector1 /\ chambers[<<1, 5>>] = Detector2
  /\ track.cells # <<>> => phase = "beam"

\* A hit of each chamber; the hits a track from the target has made in front of
\* the m-th cell of its line.
HitOf(g) == [det |-> IF g = 1 THEN Detector1 ELSE Detector2, copy |-> g]
HitsBefore(m, charged) ==
  IF ~charged \/ m <= 7 THEN <<>> ELSE IF m <= 32 THEN <<HitOf(1)>> ELSE <<HitOf(1), HitOf(2)>>

GemHitsOK(made, outward) ==
  /\ made \in Seq({HitOf(1), HitOf(2)})
  /\ outward => \A k \in 2 .. Len(made) : made[k - 1].copy < made[k].copy

AheadOfGems(c, made, charged) ==
  \E m \in 1 .. 51 : /\ Len(c) = 52 - m /\ \A k \in 1 .. 52 - m : c[k] = GemTrack[(m - 1) + k]
                     /\ made = HitsBefore(m, charged)

GemsInv ==
  /\ track \in [cells : Seq(Cells), charged : BOOLEAN, outward : BOOLEAN]
  /\ ChambersOK
  /\ GemHitsOK(gemHits, track.outward)
  /\ track.outward => NoLayer(track.cells) \/ AheadOfGems(track.cells, gemHits, track.charged)

LEMMA HitsBeforeOK ==
  ASSUME NEW m, NEW charged, NEW outward
  PROVE  GemHitsOK(HitsBefore(m, charged), outward)
<1>1. HitOf(1).copy = 1 /\ HitOf(2).copy = 2
  BY DEF HitOf
<1> DEFINE B == {HitOf(1), HitOf(2)}
<1>2. PICK x, y \in B : x = HitOf(1) /\ y = HitOf(2)
  OBVIOUS
<1>3. HitsBefore(m, charged) \in {<<>>, <<x>>, <<x, y>>}
  BY <1>2 DEF HitsBefore
<1>4. \A s \in {<<>>, <<x>>, <<x, y>>} :
         s \in Seq(B) /\ \A k \in 2 .. Len(s) : s[k - 1].copy < s[k].copy
  <2>1. x.copy < y.copy
    BY <1>1, <1>2
  <2> HIDE DEF B
  <2>2. <<>> \in Seq(B) /\ 2 .. Len(<<>>) = {}
    OBVIOUS
  <2>3. <<x>> \in Seq(B) /\ 2 .. Len(<<x>>) = {}
    OBVIOUS
  <2>4. <<x, y>> \in Seq(B) /\ 2 .. Len(<<x, y>>) = {2}
        /\ <<x, y>>[1] = x /\ <<x, y>>[2] = y /\ 2 - 1 = 1
    OBVIOUS
  <2>5. \A k \in 2 .. Len(<<x, y>>) : <<x, y>>[k - 1].copy < <<x, y>>[k].copy
    BY <2>1, <2>4
  <2> QED BY <2>2, <2>3, <2>4, <2>5
<1> QED
  BY <1>3, <1>4 DEF GemHitsOK

\* What ProcessHits makes of a step through a cell.
Sensitive(chs) ==
  /\ DOMAIN chs = {<<0, 5>>, <<1, 5>>}
  /\ chs[<<0, 5>>] = Detector1 /\ chs[<<1, 5>>] = Detector2
Processed(cell, made, made1, charged, chs) ==
  IF cell.name = "GemLayer" /\ charged /\ <<cell.plane, cell.layer>> \in DOMAIN chs
  THEN made1 = Append(made, [det |-> chs[<<cell.plane, cell.layer>>], copy |-> cell.plane + 1])
  ELSE made1 = made

LEMMA LayerMakesHit ==
  ASSUME NEW cell, NEW made, NEW made1, NEW charged, NEW chs,
         Sensitive(chs), Processed(cell, made, made1, charged, chs)
  PROVE  \/ made1 = made
         \/ /\ made1 = Append(made, HitOf(1))
            /\ cell.name = "GemLayer" /\ charged /\ cell.plane = 0 /\ cell.layer = 5
         \/ /\ made1 = Append(made, HitOf(2))
            /\ cell.name = "GemLayer" /\ charged /\ cell.plane = 1 /\ cell.layer = 5
<1>1. HitOf(1) = [det |-> Detector1, copy |-> 1] /\ HitOf(2) = [det |-> Detector2, copy |-> 2]
  BY DEF HitOf
<1>2. CASE cell.name = "GemLayer" /\ charged /\ <<cell.plane, cell.layer>> \in DOMAIN chs
  <2>1. made1 = Append(made, [det |-> chs[<<cell.plane, cell.layer>>], copy |-> cell.plane + 1])
    BY <1>2 DEF Processed
  <2>2. CASE cell.plane = 0 /\ cell.layer = 5
    <3>1. chs[<<cell.plane, cell.layer>>] = Detector1 /\ cell.plane + 1 = 1
      BY <2>2 DEF Sensitive
    <3> QED BY <1>1, <1>2, <2>1, <2>2, <3>1
  <2>3. CASE cell.plane = 1 /\ cell.layer = 5
    <3>1. chs[<<cell.plane, cell.layer>>] = Detector2 /\ cell.plane + 1 = 2
      BY <2>3 DEF Sensitive
    <3> QED BY <1>1, <1>2, <2>1, <2>3, <3>1
  <2>4. \/ cell.plane = 0 /\ cell.layer = 5
        \/ cell.plane = 1 /\ cell.layer = 5
    <3>1. \/ <<cell.plane, cell.layer>> = <<0, 5>>
          \/ <<cell.plane, cell.layer>> = <<1, 5>>
      BY <1>2 DEF Sensitive
    <3> QED BY <3>1
  <2> QED BY <2>2, <2>3, <2>4
<1>3. CASE ~(cell.name = "GemLayer" /\ charged /\ <<cell.plane, cell.layer>> \in DOMAIN chs)
  BY <1>3 DEF Processed
<1> QED
  BY <1>2, <1>3

LEMMA TwoHits ==
  ASSUME NEW x, NEW y
  PROVE  Append(<<x>>, y) = <<x, y>>
<1> DEFINE B == {x, y}
<1>1. x \in B /\ y \in B
  OBVIOUS
<1> HIDE DEF B
<1>a. <<x>> \in Seq(B) /\ <<x, y>> \in Seq(B)
  BY <1>1
<1>2. PICK s \in Seq(B), t \in Seq(B) : s = <<x>> /\ t = <<x, y>>
  BY <1>a, Zenon
<1>3. Len(s) = 1 /\ s[1] = x
  BY <1>2
<1>4. Len(t) = 2 /\ t[1] = x /\ t[2] = y
  BY <1>2
<1>5. PICK u : u = Append(s, y)
  OBVIOUS
<1>6. u \in Seq(B) /\ Len(u) = 2 /\ u[1] = x /\ u[2] = y
  <2>1. PICK n \in Nat : n = Len(s)
    OBVIOUS
  <2>2. /\ u \in Seq(B) /\ Len(u) = n + 1 /\ u[n + 1] = y
        /\ \A i \in 1 .. n : u[i] = s[i]
    BY <1>1, <1>5, <2>1, AppendProperties
  <2>3. n = 1
    BY <1>3, <2>1
  <2>4. Len(u) = 2 /\ u[2] = y /\ u[1] = s[1]
    BY <2>2, <2>3
  <2> QED BY <1>3, <2>2, <2>4
<1>7. \A i \in 1 .. Len(u) : u[i] = t[i]
  BY <1>4, <1>6
<1>8. u = t
  BY <1>4, <1>6, <1>7, SeqEqual
<1> QED
  BY <1>2, <1>5, <1>8

\* A step of a track from the target through the chambers.
LEMMA StepThroughGems ==
  ASSUME NEW c \in Seq(Cells), Len(c) > 1, NEW made, NEW made1, NEW charged \in BOOLEAN, NEW chs,
         Sensitive(chs), Processed(c[1], made, made1, charged, chs),
         AheadOfGems(c, made, charged)
  PROVE  AheadOfGems(Tail(c), made1, charged)
<1>1. PICK m \in 1 .. 51 :
         /\ Len(c) = 52 - m /\ \A k \in 1 .. 52 - m : c[k] = GemTrack[(m - 1) + k]
         /\ made = HitsBefore(m, charged)
  BY DEF AheadOfGems
<1>2. m \in 1 .. 50 /\ m + 1 \in 1 .. 51 /\ 52 - (m + 1) = (52 - m) - 1 /\ 1 \in 1 .. 52 - m
  BY <1>1
<1>3. c[1] = GemTrack[m]
  BY <1>1, <1>2
<1>4. /\ Len(Tail(c)) = 52 - (m + 1)
      /\ \A k \in 1 .. 52 - (m + 1) : Tail(c)[k] = GemTrack[((m + 1) - 1) + k]
  <2>1. PICK n \in Nat : n = Len(c)
    OBVIOUS
  <2>2. Len(Tail(c)) = n - 1 /\ \A k \in 1 .. n - 1 : Tail(c)[k] = c[k + 1]
    BY <2>1
  <2>3. ASSUME NEW k \in 1 .. n - 1 PROVE c[k + 1] = GemTrack[((m + 1) - 1) + k]
    <3>1. n = 52 - m
      BY <1>1, <2>1
    <3>2. k + 1 \in 1 .. 52 - m /\ (m - 1) + (k + 1) = ((m + 1) - 1) + k
      BY <1>2, <3>1
    <3> QED BY <1>1, <3>2
  <2>4. n - 1 = 52 - (m + 1)
    BY <1>1, <1>2, <2>1
  <2> QED BY <2>2, <2>3, <2>4
<1>5. made1 = HitsBefore(m + 1, charged)
  <2>1. c[1].name = "GemLayer" => c[1].plane = Plane(m) /\ c[1].layer = Layer(m)
    <3>1. m \in 1 .. 51
      BY <1>2
    <3>2. CellOfGems(c[1], m)
      BY <1>3, <3>1, GemTrackIs
    <3> QED BY <3>2 DEF CellOfGems
  <2>2. m = 7 \/ m = 32 => c[1].name = "GemLayer"
    <3>1. ASSUME m \notin {1, 26, 51} PROVE c[1].name = "GemLayer"
      <4>1. m \in 1 .. 51
        BY <1>2
      <4>2. CellOfGems(c[1], m)
        BY <1>3, <4>1, GemTrackIs
      <4> QED BY <3>1, <4>2 DEF CellOfGems
    <3>2. m = 7 \/ m = 32 => m \notin {1, 26, 51}
      OBVIOUS
    <3> QED BY <3>1, <3>2
  <2>3. /\ c[1].name = "GemLayer" /\ c[1].plane = 0 /\ c[1].layer = 5 => m = 7
        /\ c[1].name = "GemLayer" /\ c[1].plane = 1 /\ c[1].layer = 5 => m = 32
    BY <1>2, <2>1 DEF Plane, Layer
  <2>4. /\ m = 7 => c[1].plane = 0 /\ c[1].layer = 5
        /\ m = 32 => c[1].plane = 1 /\ c[1].layer = 5
    BY <2>1, <2>2 DEF Plane, Layer
  <2>5. CASE charged /\ m = 7
    <3>1. made1 = Append(<<>>, HitOf(1))
      <4>1. made = <<>>
        BY <1>1, <2>5 DEF HitsBefore
      <4>2. c[1].name = "GemLayer" /\ c[1].plane = 0 /\ c[1].layer = 5
        BY <2>2, <2>4, <2>5
      <4>3. <<c[1].plane, c[1].layer>> = <<0, 5>> /\ c[1].plane + 1 = 1
        BY <4>2
      <4>4. HitOf(1) = [det |-> Detector1, copy |-> 1]
        BY DEF HitOf
      <4> QED BY <2>5, <4>1, <4>2, <4>3, <4>4 DEF Processed, Sensitive
    <3>2. HitsBefore(m + 1, charged) = <<HitOf(1)>>
      BY <2>5 DEF HitsBefore
    <3> QED BY <3>1, <3>2
  <2>6. CASE charged /\ m = 32
    <3>1. made1 = Append(<<HitOf(1)>>, HitOf(2))
      <4>1. made = <<HitOf(1)>>
        BY <1>1, <2>6 DEF HitsBefore
      <4>2. c[1].name = "GemLayer" /\ c[1].plane = 1 /\ c[1].layer = 5
        BY <2>2, <2>4, <2>6
      <4>3. <<c[1].plane, c[1].layer>> = <<1, 5>> /\ c[1].plane + 1 = 2
        BY <4>2
      <4>4. HitOf(2) = [det |-> Detector2, copy |-> 2]
        BY DEF HitOf
      <4> QED BY <2>6, <4>1, <4>2, <4>3, <4>4 DEF Processed, Sensitive
    <3>2. HitsBefore(m + 1, charged) = <<HitOf(1), HitOf(2)>>
      BY <2>6 DEF HitsBefore
    <3> QED BY <3>1, <3>2, TwoHits
  <2>7. CASE ~charged \/ (m # 7 /\ m # 32)
    <3>1. made1 = made
      BY <2>3, <2>7, LayerMakesHit
    <3>2. HitsBefore(m + 1, charged) = HitsBefore(m, charged)
      BY <1>2, <2>7 DEF HitsBefore
    <3> QED BY <1>1, <3>1, <3>2
  <2> QED BY <2>5, <2>6, <2>7
<1> QED
  BY <1>2, <1>4, <1>5 DEF AheadOfGems

\* A hit more, of a track that does not come from the target.
LEMMA HitsStayOK ==
  ASSUME NEW made, NEW made1, NEW outward, GemHitsOK(made, outward), ~outward,
         made1 \in {made, Append(made, HitOf(1)), Append(made, HitOf(2))}
  PROVE  GemHitsOK(made1, outward)
<1>1. PICK B, x, y : x = HitOf(1) /\ y = HitOf(2) /\ B = {x, y}
  OBVIOUS
<1>2. made \in Seq(B) /\ x \in B /\ y \in B
  BY <1>1 DEF GemHitsOK
<1>3. made1 \in Seq(B)
  BY <1>1, <1>2
<1> QED
  BY <1>1, <1>3 DEF GemHitsOK

LEMMA GemInit == DetectorInit => GemsInv
<1> SUFFICES ASSUME DetectorInit PROVE GemsInv
  OBVIOUS
<1>1. track = [cells |-> <<>>, charged |-> FALSE, outward |-> TRUE] /\ gemHits = <<>>
  BY DEF DetectorInit, NoTrack
<1>2. phase = "read" /\ log_sd = <<>>
  BY DEF DetectorInit
<1>3. ChambersOK
  BY <1>1, <1>2 DEF ChambersOK
<1>4. GemHitsOK(<<>>, TRUE)
  <2>1. HitsBefore(1, FALSE) = <<>>
    BY DEF HitsBefore
  <2> QED BY <2>1, HitsBeforeOK
<1>5. NoLayer(<<>>)
  BY DEF NoLayer
<1>6. track \in [cells : Seq(Cells), charged : BOOLEAN, outward : BOOLEAN]
  BY <1>1
<1>7. track.outward = TRUE /\ track.cells = <<>>
  BY <1>1
<1> QED
  BY <1>1, <1>3, <1>4, <1>5, <1>6, <1>7 DEF GemsInv

LEMMA FromTheFirst == \A k \in Int : (1 - 1) + k = k
OBVIOUS

LEMMA GemBegins ==
  ASSUME GemsInv, BeginOfEventAction
  PROVE  GemsInv'
<1>1. PICK line \in WallTracks \cup {GemTrack}, charged \in BOOLEAN, outward \in BOOLEAN :
         track' = [cells |-> IF outward THEN line ELSE Reverse(line),
                   charged |-> charged, outward |-> outward]
  BY Zenon DEF BeginOfEventAction
<1>2. PICK c : c = IF outward THEN line ELSE Reverse(line)
  OBVIOUS
<1>3. track' = [cells |-> c, charged |-> charged, outward |-> outward]
  BY <1>1, <1>2
<1>4. c \in Seq(Cells)
  BY <1>1, <1>2, TracksAre, ReverseIs DEF IsLine
<1>5. track'.cells = c /\ track'.charged = charged /\ track'.outward = outward
      /\ track' \in [cells : Seq(Cells), charged : BOOLEAN, outward : BOOLEAN]
  BY <1>3, <1>4
<1>6. gemHits' = <<>> /\ phase = "beam" /\ phase' = phase /\ log_sd' = log_sd
      /\ chambers' = chambers
  BY DEF BeginOfEventAction, build
<1>7. ChambersOK'
  BY <1>6 DEF GemsInv, ChambersOK
<1>8. HitsBefore(1, charged) = <<>>
  BY DEF HitsBefore
<1>9. GemHitsOK(<<>>, outward)
  BY <1>8, HitsBeforeOK
<1>10. ASSUME outward PROVE NoLayer(c) \/ AheadOfGems(c, <<>>, charged)
  <2>1. CASE line \in WallTracks
    BY <1>2, <1>10, <2>1, NoLayersInWalls
  <2>2. CASE line = GemTrack
    <3>1. c = GemTrack
      BY <1>2, <1>10, <2>2
    <3>2. Len(c) = 52 - 1 /\ \A k \in 1 .. 52 - 1 : c[k] = GemTrack[(1 - 1) + k]
      <4>1. Len(c) = 51
        BY <3>1, GemTrackIs
      <4>2. ASSUME NEW k \in 1 .. 52 - 1 PROVE (1 - 1) + k = k
        BY FromTheFirst
      <4>3. 52 - 1 = 51
        OBVIOUS
      <4> QED BY <3>1, <4>1, <4>2, <4>3
    <3>3. 1 \in 1 .. 51
      OBVIOUS
    <3> QED BY <1>8, <3>2, <3>3 DEF AheadOfGems
  <2> QED BY <1>1, <2>1, <2>2
<1> QED
  BY <1>5, <1>6, <1>7, <1>9, <1>10 DEF GemsInv

LEMMA GemStep ==
  ASSUME GemsInv, UserSteppingAction
  PROVE  GemsInv'
<1>1. PICK c \in Seq(Cells), charged \in BOOLEAN, outward \in BOOLEAN :
         track = [cells |-> c, charged |-> charged, outward |-> outward]
  BY DEF GemsInv
<1>2. track.cells = c /\ track.charged = charged /\ track.outward = outward
  BY <1>1
<1>3. Len(c) > 1
  BY <1>2 DEF UserSteppingAction
<1>4. track' = [cells |-> Tail(c), charged |-> charged, outward |-> outward]
  BY <1>1 DEF UserSteppingAction
<1>5. track'.cells = Tail(c) /\ track'.charged = charged /\ track'.outward = outward
  BY <1>4
<1>6. Tail(c) \in Seq(Cells)
  BY <1>3
<1>7. PICK made, made1, chs : made = gemHits /\ made1 = gemHits' /\ chs = chambers
  OBVIOUS
<1>8. phase = "beam" /\ UNCHANGED <<phase, log_sd, chambers>>
  <2>1. c # <<>>
    BY <1>3
  <2> QED BY <1>2, <2>1 DEF GemsInv, ChambersOK, UserSteppingAction, build
<1>9. Sensitive(chs)
  BY <1>7, <1>8 DEF GemsInv, ChambersOK, Sensitive
<1>10. Processed(c[1], made, made1, charged, chs)
  <2>1. ProcessHits(c[1])
    BY <1>2 DEF UserSteppingAction
  <2> QED BY <1>2, <1>7, <2>1 DEF ProcessHits, HitNumber, Processed
<1>11. ChambersOK'
  BY <1>8 DEF GemsInv, ChambersOK
<1>12. GemHitsOK(made, outward) /\ (outward => NoLayer(c) \/ AheadOfGems(c, made, charged))
  BY <1>2, <1>7 DEF GemsInv
<1>13. /\ GemHitsOK(made1, outward)
       /\ outward => NoLayer(Tail(c)) \/ AheadOfGems(Tail(c), made1, charged)
  <2>1. CASE ~outward
    <3>1. made1 \in {made, Append(made, HitOf(1)), Append(made, HitOf(2))}
      BY <1>9, <1>10, LayerMakesHit
    <3> QED BY <1>12, <2>1, <3>1, HitsStayOK
  <2>2. CASE outward /\ NoLayer(c)
    <3>1. 1 \in 1 .. Len(c)
      BY <1>3
    <3>2. made1 = made
      BY <1>10, <2>2, <3>1 DEF NoLayer, Processed
    <3>3. NoLayer(Tail(c))
      <4>1. PICK n \in Nat : n = Len(c)
        OBVIOUS
      <4>2. n > 1 /\ Len(Tail(c)) = n - 1 /\ \A k \in 1 .. n - 1 : Tail(c)[k] = c[k + 1]
        BY <1>3, <4>1
      <4>3. \A k \in 1 .. n - 1 : k + 1 \in 1 .. n
        OBVIOUS
      <4> QED BY <2>2, <4>1, <4>2, <4>3 DEF NoLayer
    <3> QED BY <1>12, <3>2, <3>3
  <2>3. CASE outward /\ AheadOfGems(c, made, charged)
    <3>1. AheadOfGems(Tail(c), made1, charged)
      BY <1>3, <1>9, <1>10, <2>3, StepThroughGems, Zenon
    <3>2. \E m : made1 = HitsBefore(m, charged)
      BY <3>1 DEF AheadOfGems
    <3>3. GemHitsOK(made1, outward)
      BY <3>2, HitsBeforeOK
    <3> QED BY <3>1, <3>3
  <2> QED BY <1>12, <2>1, <2>2, <2>3
<1> QED
  BY <1>4, <1>5, <1>6, <1>7, <1>11, <1>13 DEF GemsInv

LEMMA GemNext ==
  GemsInv /\ [DetectorNext]_(detector_vars) => GemsInv'
<1> SUFFICES ASSUME GemsInv, [DetectorNext]_(detector_vars) PROVE GemsInv'
  OBVIOUS
<1>1. CASE BeginOfEventAction
  BY <1>1, GemBegins
<1>2. CASE UserSteppingAction
  BY <1>2, GemStep
<1>3. CASE LeaveTheWorld
  <2>1. PICK c \in Seq(Cells), charged \in BOOLEAN, outward \in BOOLEAN :
           track = [cells |-> c, charged |-> charged, outward |-> outward]
    BY DEF GemsInv
  <2>2. track' = [cells |-> <<>>, charged |-> charged, outward |-> outward]
    BY <1>3, <2>1 DEF LeaveTheWorld
  <2>3. UNCHANGED <<phase, ww, log_sd, chambers, gemHits>>
    BY <1>3 DEF LeaveTheWorld, build, detector_hits
  <2>4. track'.cells = <<>> /\ track'.outward = track.outward
        /\ track' \in [cells : Seq(Cells), charged : BOOLEAN, outward : BOOLEAN]
    BY <2>1, <2>2
  <2>5. ChambersOK'
    BY <2>3, <2>4 DEF GemsInv, ChambersOK
  <2>6. NoLayer(<<>>)
    BY DEF NoLayer
  <2> QED BY <2>3, <2>4, <2>5, <2>6 DEF GemsInv
<1>4. ASSUME UNCHANGED <<track, gemHits>>, ChambersOK' PROVE GemsInv'
  BY <1>4 DEF GemsInv
<1>5. CASE ReadLine \/ EndOfFile \/ BuildPanel
  <2>1. UNCHANGED <<track, gemHits, log_sd>>
    BY <1>5 DEF ReadLine, EndOfFile, BuildPanel, detector_hits
  <2>2. phase \in {"read", "hodo"} /\ phase' \in {"read", "hodo", "gem"}
        /\ (phase' = "gem" => ww' = 0)
    BY <1>5 DEF ReadLine, EndOfFile, BuildPanel
  <2>3. ChambersOK'
    BY <2>1, <2>2 DEF GemsInv, ChambersOK
  <2> QED BY <1>4, <2>1, <2>3
<1>6. CASE BuildGEM
  <2>1. UNCHANGED <<track, gemHits>> /\ phase = "gem" /\ log_sd' = Append(log_sd, <<ww, 5>>)
        /\ IF ww < 1 THEN ww' = ww + 1 /\ phase' = phase ELSE ww' = 0 /\ phase' = "sd"
    BY <1>6 DEF BuildGEM, detector_hits, nplanes, driftLayer
  <2>2. CASE ww = 0 /\ log_sd = <<>>
    <3>1. log_sd' = <<<<0, 5>>>> /\ ww' = 1 /\ phase' = "gem"
      BY <2>1, <2>2
    <3>2. ChambersOK'
      BY <2>1, <3>1 DEF GemsInv, ChambersOK
    <3> QED BY <1>4, <2>1, <3>2
  <2>3. CASE ww = 1 /\ log_sd = <<<<0, 5>>>>
    <3>1. log_sd' = <<<<0, 5>>, <<1, 5>>>>
      <4>1. PICK x, y : x = <<0, 5>> /\ y = <<1, 5>>
        OBVIOUS
      <4>2. log_sd' = Append(<<x>>, y)
        BY <2>1, <2>3, <4>1
      <4> QED BY <4>1, <4>2, TwoHits
    <3>2. phase' = "sd"
      BY <2>1, <2>3
    <3>3. ChambersOK'
      BY <2>1, <3>1, <3>2 DEF GemsInv, ChambersOK
    <3> QED BY <1>4, <2>1, <3>3
  <2> QED BY <2>1, <2>2, <2>3 DEF GemsInv, ChambersOK
<1>7. CASE ConstructSDandField
  <2>1. UNCHANGED <<track, gemHits>> /\ phase = "sd" /\ phase' = "beam"
    BY <1>7 DEF ConstructSDandField, detector_hits
  <2>2. log_sd[1] = <<0, 5>> /\ log_sd[2] = <<1, 5>>
    BY <2>1 DEF GemsInv, ChambersOK
  <2>3. chambers' = [sd \in {<<0, 5>>, <<1, 5>>} |->
                        IF sd = <<0, 5>> THEN Detector1 ELSE Detector2]
    BY <1>7, <2>2 DEF ConstructSDandField, Detector1, Detector2
  <2>4. DOMAIN chambers' = {<<0, 5>>, <<1, 5>>} /\ chambers'[<<0, 5>>] = Detector1
        /\ chambers'[<<1, 5>>] = Detector2
    <3>1. <<0, 5>> # <<1, 5>>
      OBVIOUS
    <3> QED BY <2>3, <3>1
  <2>5. ChambersOK'
    BY <2>1, <2>4 DEF GemsInv, ChambersOK
  <2> QED BY <1>4, <2>1, <2>5
<1>8. CASE UNCHANGED detector_vars
  <2>1. UNCHANGED <<track, gemHits, phase, log_sd, ww, chambers>>
    BY <1>8 DEF detector_vars, build, detector_hits
  <2>2. ChambersOK'
    BY <2>1 DEF GemsInv, ChambersOK
  <2> QED BY <1>4, <2>1, <2>2
<1> QED
  BY <1>1, <1>2, <1>3, <1>5, <1>6, <1>7, <1>8 DEF DetectorNext

(* Whatever LAD.ini says: a GEM hit carries the number of its chamber, whose *)
(* detector made it, and a track from the target makes them in that order.   *)
THEOREM GemHitsAreOfTheirPlane ==
  DetectorSpec => []GemHitsNameTheirPlane
<1>1. GemsInv => GemHitsNameTheirPlane
  <2> SUFFICES ASSUME GemsInv, NEW k \in 1 .. Len(gemHits)
               PROVE  /\ gemHits[k].copy \in 1 .. 2
                      /\ gemHits[k].det = <<"/chamber1", "/chamber2">>[gemHits[k].copy]
                      /\ track.outward /\ k > 1 => gemHits[k - 1].copy < gemHits[k].copy
    BY DEF GemHitsNameTheirPlane, nplanes
  <2>1. GemHitsOK(gemHits, track.outward)
    BY DEF GemsInv
  <2>2. gemHits \in Seq({HitOf(1), HitOf(2)})
    BY <2>1 DEF GemHitsOK
  <2>3. gemHits[k] = HitOf(1) \/ gemHits[k] = HitOf(2)
    BY <2>2
  <2>4. HitOf(1) = [det |-> "/chamber1", copy |-> 1] /\ HitOf(2) = [det |-> "/chamber2", copy |-> 2]
    BY DEF HitOf, Detector1, Detector2
  <2>5. gemHits[k].copy \in 1 .. 2
        /\ gemHits[k].det = <<"/chamber1", "/chamber2">>[gemHits[k].copy]
    BY <2>3, <2>4
  <2>6. ASSUME track.outward, k > 1 PROVE gemHits[k - 1].copy < gemHits[k].copy
    <3>1. k \in 2 .. Len(gemHits)
      BY <2>6
    <3> QED BY <2>1, <2>6, <3>1 DEF GemHitsOK
  <2> QED BY <2>5, <2>6
<1> QED
  BY <1>1, GemInit, GemNext, PTL DEF DetectorSpec

(* Whatever LAD.ini says: a track from the target is in the drift gap of a   *)
(* chamber before it is in any of its foils and its readout.                 *)
THEOREM DriftGapComesFirst ==
  DetectorSpec => []DriftGapFacesTheTarget
<1>1. GemsInv => DriftGapFacesTheTarget
  <2> SUFFICES ASSUME GemsInv, track.cells # <<>>, track.outward,
                      track.cells[1].name = "GemLayer", track.cells[1].layer = 5,
                      NEW f \in Foils \cup Readout
               PROVE  \E k \in 2 .. Len(track.cells) :
                         /\ track.cells[k].name = "GemLayer"
                         /\ track.cells[k].plane = track.cells[1].plane
                         /\ track.cells[k].layer = f
    BY DEF DriftGapFacesTheTarget, driftLayer
  <2>1. PICK c \in Seq(Cells) : c = track.cells
    BY DEF GemsInv
  <2>2. ~NoLayer(c)
    <3>1. 1 \in 1 .. Len(c)
      BY <2>1
    <3> QED BY <2>1, <3>1 DEF NoLayer
  <2>3. PICK m \in 1 .. 51 :
           Len(c) = 52 - m /\ \A k \in 1 .. 52 - m : c[k] = GemTrack[(m - 1) + k]
    BY <2>1, <2>2 DEF GemsInv, AheadOfGems
  <2>4. c[1] = GemTrack[m]
    <3>1. 1 \in 1 .. 52 - m /\ (m - 1) + 1 = m
      OBVIOUS
    <3> QED BY <2>3, <3>1
  <2>5. m \notin {1, 26, 51} /\ c[1].plane = Plane(m) /\ c[1].layer = Layer(m)
    <3>1. CellOfGems(c[1], m)
      BY <2>4, GemTrackIs
    <3>2. c[1].name = "GemLayer"
      BY <2>1
    <3> QED BY <3>1, <3>2 DEF CellOfGems
  <2>6. m = 7 \/ m = 32
    <3>1. Layer(m) = 5
      BY <2>1, <2>5
    <3> QED BY <3>1 DEF Layer
  <2>7. f \in 6 .. 20
    BY DEF Foils, Readout
  <2>8. PICK k \in 2 .. 16 : k = f - 4
    BY <2>7
  <2>9. k \in 1 .. 52 - m /\ k \in 2 .. 52 - m /\ (m - 1) + k \in 1 .. 51
        /\ (m - 1) + k \notin {1, 26, 51}
    BY <2>6
  <2>10. c[k] = GemTrack[(m - 1) + k]
    BY <2>3, <2>9
  <2>11. c[k].name = "GemLayer" /\ c[k].plane = Plane((m - 1) + k) /\ c[k].layer = Layer((m - 1) + k)
    <3>1. CellOfGems(c[k], (m - 1) + k)
      BY <2>9, <2>10, GemTrackIs
    <3> QED BY <2>9, <3>1 DEF CellOfGems
  <2>12. Plane((m - 1) + k) = Plane(m) /\ Layer((m - 1) + k) = f
    BY <2>6, <2>7, <2>8 DEF Plane, Layer
  <2>13. k \in 2 .. Len(c)
    BY <2>3, <2>9
  <2> QED BY <2>1, <2>5, <2>11, <2>12, <2>13
<1> QED
  BY <1>1, GemInit, GemNext, PTL DEF DetectorSpec

-----------------------------------------------------------------------------
(* Volumes lie in their mothers, beside their sisters.                       *)
Lies(v, m) ==
  \A i \in Coords : Abs(v.at[i] - m.at[i]) + v.half[i] <= m.half[i]
Beside(v, u) ==
  \E i \in Coords : Abs(v.at[i] - u.at[i]) >= v.half[i] + u.half[i]

\* Each bar has its four pieces, one of each name.
Mothers == {"KaptonPhy", "AlumSheetsPhy"}
HasPiece(w, l, pp, name) ==
  \E m \in WallVolumes(w, l) : m.name = name /\ IsPiece(m, pp) /\ m.bar = <<w, l, pp>>

LEMMA PieceIsThere ==
  ASSUME NEW w, NEW l, NEW pp \in 0 .. 10, NEW name \in Mothers
  PROVE  HasPiece(w, l, pp, name)
<1>1. \E m \in BarVolumes(w, l, pp) : m.name = name
  BY DEF BarVolumes, Mothers
<1>2. PICK m \in BarVolumes(w, l, pp) : m.name = name
  BY <1>1
<1>3. IsPiece(m, pp) /\ m.bar = <<w, l, pp>>
  BY PieceIs
<1>4. m \in WallVolumes(w, l)
  <2>1. pp \in 0 .. NoOfBars - 1
    BY DEF NoOfBars
  <2>2. m \in UNION {BarVolumes(w, l, q) : q \in 0 .. NoOfBars - 1}
    BY <1>2, <2>1
  <2> QED BY <2>2 DEF WallVolumes
<1> QED
  BY <1>2, <1>3, <1>4 DEF HasPiece

LEMMA OneOfEachName ==
  ASSUME NEW w, NEW l, NEW pp, NEW u \in BarVolumes(w, l, pp),
         NEW v \in BarVolumes(w, l, pp), u.name = v.name
  PROVE  u = v
BY DEF BarVolumes

LEMMA VolumesAre ==
  ASSUME NEW w, NEW l, NEW v \in WallVolumes(w, l)
  PROVE  \/ IsWall(v) /\ \A u \in WallVolumes(w, l) : IsWall(u) => u = v
         \/ \E pp \in 0 .. 10 : v \in BarVolumes(w, l, pp)
<1> DEFINE wall == [name |-> "SciWall", copy |-> w + l + w, bar |-> <<w, l, -1>>, mother |-> "World",
                    at |-> <<0, 0, 0>>,
                    half |-> <<WallWidth \div 2, WallLength \div 2, WallThick \div 2>>]
<1>1. \A u \in WallVolumes(w, l) :
         u = wall \/ \E pp \in 0 .. 10 : u \in BarVolumes(w, l, pp)
  BY DEF WallVolumes, NoOfBars
<1> HIDE DEF wall
<1>2. \A pp \in 0 .. 10 : \A u \in BarVolumes(w, l, pp) : ~IsWall(u)
  <2> SUFFICES ASSUME NEW pp \in 0 .. 10, NEW u \in BarVolumes(w, l, pp) PROVE ~IsWall(u)
    OBVIOUS
  <2>1. IsPiece(u, pp)
    BY PieceIs
  <2> QED BY <2>1 DEF IsPiece, IsWall
<1>3. CASE v = wall
  <2>1. \A u \in WallVolumes(w, l) : IsWall(u) => u = v
    BY <1>1, <1>2, <1>3
  <2>2. PICK u \in WallVolumes(w, l) : IsWall(u)
    BY WallIsThere
  <2>3. IsWall(v)
    BY <2>1, <2>2
  <2> QED BY <2>1, <2>3
<1> QED
  BY <1>1, <1>3

\* A piece lies within its mother, which is of the same bar or the wall.
LEMMA PieceInMother ==
  ASSUME NEW w, NEW l, NEW pp \in 0 .. 10, NEW v, IsPiece(v, pp), v.bar = <<w, l, pp>>
  PROVE  \E m \in WallVolumes(w, l) :
            m.name = v.mother /\ (m.name = "SciWall" \/ m.bar = v.bar) /\ Lies(v, m)
<1>1. PICK h, t \in Int : h = HalfLength(pp) /\ t = HalfLength(10) /\ h <= t
  BY Lengths
<1>2. Coords = {1, 2, 3}
  BY DEF Coords
<1>3. CASE v.mother = "SciWall"
  <2>1. PICK m \in WallVolumes(w, l) : IsWall(m)
    BY WallIsThere
  <2>2. v.name = "KaptonPhy" /\ v.at[1] = 434398 - 86842 * pp /\ v.at[2] = 0 /\ v.at[3] = 0
        /\ v.half[1] = 43421 /\ v.half[2] = h /\ v.half[3] = 10139
    BY <1>1, <1>3 DEF IsPiece
  <2>3. m.name = "SciWall" /\ m.at[1] = 0 /\ m.at[2] = 0 /\ m.at[3] = 0
        /\ m.half[1] = 479599 /\ m.half[2] = t + 1968 /\ m.half[3] = 11968
    BY <1>1, <2>1 DEF IsWall
  <2>4. Lies(v, m)
    BY <1>1, <1>2, <2>2, <2>3 DEF Lies, Abs
  <2> QED BY <1>3, <2>3, <2>4
<1>4. CASE v.mother \in {"KaptonPhy", "AlumSheetsPhy"}
  <2>1. PICK m \in WallVolumes(w, l) :
           m.name = v.mother /\ IsPiece(m, pp) /\ m.bar = <<w, l, pp>>
    <3>1. PICK name \in Mothers : name = v.mother
      BY <1>4 DEF Mothers
    <3>2. HasPiece(w, l, pp, name)
      BY PieceIsThere, Zenon
    <3> QED BY <3>1, <3>2 DEF HasPiece
  <2>2. v.at[1] = 434398 - 86842 * pp /\ m.at[1] = 434398 - 86842 * pp
        /\ v.at[2] = 0 /\ m.at[2] = 0 /\ v.half[2] = h /\ m.half[2] = h
    BY <1>1, <2>1 DEF IsPiece
  <2>3. \/ /\ v.at[3] = -10020 /\ v.half[1] = 43307 /\ v.half[3] = 25
           /\ m.at[3] = 0 /\ m.half[1] = 43421 /\ m.half[3] = 10139
        \/ /\ v.at[3] = 25 /\ v.half[1] = 43317 /\ v.half[3] = 10020
           /\ m.at[3] = 0 /\ m.half[1] = 43421 /\ m.half[3] = 10139
        \/ /\ v.at[3] = 25 /\ v.half[1] = 43307 /\ v.half[3] = 10000
           /\ m.at[3] = 25 /\ m.half[1] = 43317 /\ m.half[3] = 10020
    BY <1>4, <2>1 DEF IsPiece
  <2>4. Lies(v, m)
    BY <1>1, <1>2, <2>2, <2>3 DEF Lies, Abs
  <2> QED BY <2>1, <2>4
<1> QED
  BY <1>3, <1>4 DEF IsPiece

\* Two pieces with the same mother are of two bars, or the lead plate and the
\* aluminum of one.
LEMMA SistersApart ==
  ASSUME NEW q \in 0 .. 10, NEW r \in 0 .. 10, NEW v, NEW u, IsPiece(v, q), IsPiece(u, r),
         u.mother = v.mother, q # r \/ u.name # v.name
  PROVE  Beside(v, u)
<1>1. CASE q # r
  <2>1. v.at[1] = 434398 - 86842 * q /\ u.at[1] = 434398 - 86842 * r
        /\ v.half[1] \in Int /\ v.half[1] <= 43421 /\ u.half[1] \in Int /\ u.half[1] <= 43421
    BY DEF IsPiece
  <2>2. Abs(v.at[1] - u.at[1]) >= v.half[1] + u.half[1]
    BY <1>1, <2>1 DEF Abs
  <2> QED BY <2>2 DEF Beside, Coords
<1>2. CASE u.name # v.name
  <2>1. \/ v.at[3] = -10020 /\ v.half[3] = 25 /\ u.at[3] = 25 /\ u.half[3] = 10020
        \/ u.at[3] = -10020 /\ u.half[3] = 25 /\ v.at[3] = 25 /\ v.half[3] = 10020
    BY <1>2 DEF IsPiece
  <2>2. Abs(v.at[3] - u.at[3]) >= v.half[3] + u.half[3]
    BY <2>1 DEF Abs
  <2> QED BY <2>2 DEF Beside, Coords
<1> QED
  BY <1>1, <1>2

LEMMA WallNests ==
  ASSUME NEW w, NEW l, NEW v \in WallVolumes(w, l)
  PROVE  /\ v.mother # "World" =>
               \E m \in WallVolumes(w, l) :
                  m.name = v.mother /\ (m.name = "SciWall" \/ m.bar = v.bar) /\ Lies(v, m)
         /\ \A u \in WallVolumes(w, l) \ {v} : u.mother = v.mother => Beside(v, u)
<1>1. CASE IsWall(v) /\ \A u \in WallVolumes(w, l) : IsWall(u) => u = v
  <2>1. v.mother = "World"
    BY <1>1 DEF IsWall
  <2>2. ASSUME NEW u \in WallVolumes(w, l) \ {v} PROVE u.mother # "World"
    <3>1. ~IsWall(u)
      BY <1>1
    <3>2. PICK pp \in 0 .. 10 : IsPiece(u, pp)
      BY <3>1, VolumeIs
    <3> QED BY <3>2 DEF IsPiece
  <2> QED BY <2>1, <2>2
<1>2. ASSUME NEW q \in 0 .. 10, v \in BarVolumes(w, l, q)
      PROVE  /\ \E m \in WallVolumes(w, l) :
                   m.name = v.mother /\ (m.name = "SciWall" \/ m.bar = v.bar) /\ Lies(v, m)
             /\ \A u \in WallVolumes(w, l) \ {v} : u.mother = v.mother => Beside(v, u)
  <2>1. IsPiece(v, q) /\ v.bar = <<w, l, q>>
    BY <1>2, PieceIs
  <2>2. v.mother # "World"
    BY <2>1 DEF IsPiece
  <2>3. ASSUME NEW u \in WallVolumes(w, l) \ {v}, u.mother = v.mother PROVE Beside(v, u)
    <3>1. ~IsWall(u)
      BY <2>2, <2>3 DEF IsWall
    <3>2. PICK r \in 0 .. 10 : u \in BarVolumes(w, l, r)
      BY <3>1, VolumesAre
    <3>3. IsPiece(u, r)
      BY <3>2, PieceIs
    <3>4. q # r \/ u.name # v.name
      BY <1>2, <2>3, <3>2, OneOfEachName
    <3> QED BY <2>1, <2>3, <3>3, <3>4, SistersApart
  <2> QED BY <2>1, <2>3, PieceInMother
<1> QED
  BY <1>1, <1>2, VolumesAre

(* The volumes of a wall and the layers of a chamber are where they can be:  *)
(* each within its mother and beside its sisters.                            *)
THEOREM WallsAndChambersNest ==
  DetectorSpec => []VolumesNest
<1>1. VolumesNest
  <2>1. ASSUME NEW wl, NEW v \in WallVolumes(wl[1], wl[2])
        PROVE  /\ v.mother # "World" =>
                     \E m \in WallVolumes(wl[1], wl[2]) :
                        /\ m.name = v.mother
                        /\ m.name = "SciWall" \/ m.bar = v.bar
                        /\ Lies(v, m)
               /\ \A u \in WallVolumes(wl[1], wl[2]) \ {v} :
                     u.mother = v.mother => Beside(v, u)
    <3>1. PICK w, l : w = wl[1] /\ l = wl[2]
      OBVIOUS
    <3>2. v \in WallVolumes(w, l)
      BY <3>1
    <3>3. /\ v.mother # "World" =>
               \E m \in WallVolumes(w, l) :
                  m.name = v.mother /\ (m.name = "SciWall" \/ m.bar = v.bar) /\ Lies(v, m)
          /\ \A u \in WallVolumes(w, l) \ {v} : u.mother = v.mother => Beside(v, u)
      BY <3>2, WallNests, Zenon
    <3> QED BY <3>1, <3>3
  <2> QED BY <2>1, LayersNest, Zenon DEF VolumesNest, Lies, Beside
<1> QED
  BY <1>1, PTL DEF DetectorSpec
==============================================================================
