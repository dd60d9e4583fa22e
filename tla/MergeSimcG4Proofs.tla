-------------------------- MODULE MergeSimcG4Proofs --------------------------
(***************************************************************************)
(* Proofs about MergeSimcG4, for trees of every length and any set of ids: *)
(* the merged rows pair events of equal id, and the macro implements the   *)
(* join of EventJoin.                                                      *)
(***************************************************************************)
EXTENDS MergeSimcG4, FiniteSetTheorems, TLAPS

IInv ==
    /\ TypeOK
    /\ RowsMatchEvents
    /\ IndexIsExact
    /\ WrittenIsComplete
    /\ pc \in {"index", "join", "done"} => SameEntryCounts
    /\ pc = "index" => i <= Len(hodoenergy) + 1
    /\ pc \in {"open", "index"} => simc_out = <<>>
    /\ pc = "open" => i = 1 /\ DOMAIN g4_entry_by_event_id = {}
    /\ pc = "join" => Len(simc_out) = i - 1 /\ i <= Len(h10) + 1
    /\ Len(simc_out) <= Len(h10)

USE DEF inputs, outputs

LEMMA InitTypeOK == Init => TypeOK
<1> SUFFICES ASSUME Init PROVE TypeOK
  OBVIOUS
<1>1. ASSUME NEW S, NEW s \in SeqUpTo(S) PROVE s \in Seq(S)
  <2>1. PICK n \in 0 .. MaxRows : s \in [1 .. n -> S]
    BY <1>1 DEF SeqUpTo
  <2> QED
    BY <2>1, MergeAssumption
<1>2. h10 \in Seq(Ids \cup {NotInteger}) /\ hodoenergy \in Seq(Ids)
  BY <1>1 DEF Init
<1>3. n_pos \in Nat /\ n_gem \in Nat
  BY MergeAssumption DEF Init
<1> QED
  BY <1>2, <1>3 DEF Init, TypeOK

LEMMA StepTypeOK == TypeOK /\ [Next]_vars => TypeOK'
<1> SUFFICES ASSUME TypeOK, [Next]_vars PROVE TypeOK'
  OBVIOUS
<1>0. Len(hodoenergy) \in Nat /\ Len(h10) \in Nat
  BY DEF TypeOK
<1>1. ASSUME Die PROVE TypeOK'
  BY <1>1 DEF TypeOK, Die, Entries
<1>2. CASE Open
  BY <1>1, <1>2 DEF Open, TypeOK, Entries
<1>3. CASE Index
  <2>1. CASE ~Duplicate(hodoenergy[i])
    <3>1. /\ pc = "index" /\ i \in Entries /\ i' = i + 1
          /\ g4_entry_by_event_id' = IndexWith(hodoenergy[i], i)
          /\ UNCHANGED <<inputs, pc, out, outputs>>
      BY <1>0, <1>3, <2>1 DEF Index, TypeOK, Entries
    <3>2. DOMAIN g4_entry_by_event_id' \subseteq Ids
      BY <3>1 DEF TypeOK, IndexWith, Entries
    <3>3. \A id \in DOMAIN g4_entry_by_event_id' : g4_entry_by_event_id'[id] \in Entries
      BY <3>1 DEF TypeOK, IndexWith
    <3> QED
      BY <3>1, <3>2, <3>3 DEF TypeOK, Entries
  <2>2. CASE Duplicate(hodoenergy[i])
    BY <1>1, <1>3, <2>2 DEF Index
  <2> QED
    BY <2>1, <2>2
<1>4. CASE CreateOutput
  BY <1>1, <1>4 DEF CreateOutput, TypeOK, Entries
<1>5. CASE JoinRow
  <2>1. CASE HasEntry(h10[i])
    <3>1. EntryOf(h10[i]) \in Nat
      BY <2>1 DEF HasEntry, EntryOf, TypeOK, Entries
    <3>2. /\ simc_out' \in Seq(Nat) /\ pos_out' \in Seq(Nat)
          /\ ene_out' \in Seq(Nat) /\ gem_out' \in Seq(Nat)
      <4>1. /\ i \in Nat
            /\ simc_out \in Seq(Nat) /\ pos_out \in Seq(Nat)
            /\ ene_out \in Seq(Nat) /\ gem_out \in Seq(Nat)
        BY DEF TypeOK
      <4>2. /\ simc_out' = Append(simc_out, i)
            /\ pos_out' = Append(pos_out, EntryOf(h10[i]))
            /\ ene_out' = Append(ene_out, EntryOf(h10[i]))
            /\ gem_out' = Append(gem_out, EntryOf(h10[i]))
        BY <1>5, <2>1 DEF JoinRow
      <4> QED
        BY <3>1, <4>1, <4>2
    <3>3. i' \in Nat \ {0} /\ UNCHANGED <<inputs, pc, g4_entry_by_event_id, out>>
      BY <1>5, <2>1 DEF JoinRow, TypeOK
    <3> QED
      BY <3>2, <3>3 DEF TypeOK, Entries
  <2>2. CASE ~HasEntry(h10[i])
    BY <1>1, <1>5, <2>2 DEF JoinRow, Unmatched
  <2> QED
    BY <2>1, <2>2
<1>6. CASE Write
  BY <1>6 DEF Write, TypeOK, Entries
<1>7. CASE UNCHANGED vars
  BY <1>7 DEF vars, TypeOK, Entries
<1> QED
  BY <1>2, <1>3, <1>4, <1>5, <1>6, <1>7 DEF Next, Terminated

(* Type correctness of the merge.                                            *)
THEOREM TypeCorrect == Spec => []TypeOK
  BY InitTypeOK, StepTypeOK, PTL DEF Spec

------------------------------------------------------------------------------
(* The strengthened invariant holds initially...                             *)
LEMMA InitIInv == Init => IInv
<1> SUFFICES ASSUME Init PROVE IInv
  OBVIOUS
<1>1. TypeOK
  BY InitTypeOK
<1>2. /\ pc = "open" /\ i = 1 /\ out # "written"
      /\ DOMAIN g4_entry_by_event_id = {}
      /\ simc_out = <<>> /\ pos_out = <<>> /\ ene_out = <<>> /\ gem_out = <<>>
  BY DEF Init
<1> QED
  BY <1>1, <1>2 DEF IInv, RowsMatchEvents, IndexIsExact, WrittenIsComplete

(* ... is kept by giving up, ...                                             *)
LEMMA DieIInv == IInv /\ TypeOK' /\ Die /\ pc # "done" => IInv'
<1> SUFFICES ASSUME IInv, TypeOK', Die, pc # "done" PROVE IInv'
  OBVIOUS
<1>1. pc' = "died" /\ UNCHANGED <<inputs, i, g4_entry_by_event_id, out, outputs>>
  BY DEF Die
<1>2. RowsMatchEvents'
  BY <1>1 DEF IInv, RowsMatchEvents, Entries
<1> QED
  BY <1>1, <1>2 DEF IInv, IndexIsExact, WrittenIsComplete

(* ... by the checks on the trees as a whole, ...                            *)
LEMMA OpenIInv == IInv /\ TypeOK' /\ Open => IInv'
<1> SUFFICES ASSUME IInv, TypeOK', Open PROVE IInv'
  OBVIOUS
<1>1. CASE Die
  BY <1>1, DieIInv DEF Open
<1>2. CASE pc' = "index" /\ SameEntryCounts
  <2>1. /\ UNCHANGED <<inputs, i, g4_entry_by_event_id, out, outputs>>
        /\ pc = "open" /\ i = 1 /\ simc_out = <<>>
        /\ DOMAIN g4_entry_by_event_id = {}
    BY <1>2 DEF Open, Die, IInv
  <2>2. RowsMatchEvents'
    BY <2>1 DEF IInv, RowsMatchEvents, Entries
  <2>3. Len(hodoenergy) \in Nat
    BY DEF IInv, TypeOK
  <2>4. IndexIsExact'
    BY <1>2, <2>1, <2>3 DEF IndexIsExact, Entries
  <2>5. WrittenIsComplete'
    BY <1>2, <2>1 DEF IInv, WrittenIsComplete
  <2> QED
    BY <1>2, <2>1, <2>2, <2>3, <2>4, <2>5 DEF IInv, SameEntryCounts
<1> QED
  BY <1>1, <1>2 DEF Open

(* ... by indexing one more entry, ...                                       *)
LEMMA IndexIInv == IInv /\ TypeOK' /\ Index => IInv'
<1> SUFFICES ASSUME IInv, TypeOK', Index PROVE IInv'
  OBVIOUS
<1>1. CASE Duplicate(hodoenergy[i])
  BY <1>1, DieIInv DEF Index
<1>2. CASE ~Duplicate(hodoenergy[i])
  <2> DEFINE id == hodoenergy[i]
  <2>1. /\ pc = "index" /\ i \in Entries /\ i' = i + 1 /\ i \in Nat
        /\ g4_entry_by_event_id' = IndexWith(id, i)
        /\ UNCHANGED <<inputs, pc, out, outputs>>
        /\ id \notin DOMAIN g4_entry_by_event_id
    BY <1>2 DEF Index, Duplicate, IInv, TypeOK, Entries
  <2>2. /\ DOMAIN g4_entry_by_event_id' = DOMAIN g4_entry_by_event_id \cup {id}
        /\ g4_entry_by_event_id'[id] = i
        /\ \A x \in DOMAIN g4_entry_by_event_id :
               g4_entry_by_event_id'[x] = g4_entry_by_event_id[x]
    BY <2>1 DEF IndexWith
  <2>3. RowsMatchEvents' /\ WrittenIsComplete'
    BY <2>1 DEF IInv, RowsMatchEvents, WrittenIsComplete, Entries
  <2>4. IndexIsExact'
    <3> DEFINE seen == {k \in Entries : k < i}
    <3>1. /\ DOMAIN g4_entry_by_event_id = {hodoenergy[k] : k \in seen}
          /\ \A k \in seen : g4_entry_by_event_id[hodoenergy[k]] = k
      BY <2>1 DEF IInv, IndexIsExact
    <3>2. {k \in Entries' : pc' # "index" \/ k < i'} = seen \cup {i}
      BY <2>1 DEF Entries
    <3>3. /\ DOMAIN g4_entry_by_event_id' = {hodoenergy[k] : k \in seen \cup {i}}
          /\ \A k \in seen \cup {i} : g4_entry_by_event_id'[hodoenergy[k]] = k
      BY <2>2, <3>1
    <3> QED
      BY <2>1, <3>2, <3>3 DEF IndexIsExact
  <2>5. Len(hodoenergy) \in Nat
    BY DEF IInv, TypeOK
  <2> QED
    BY <2>1, <2>3, <2>4, <2>5 DEF IInv, SameEntryCounts, Entries
<1> QED
  BY <1>1, <1>2

(* ... by creating the output once the index is complete, ...                *)
LEMMA CreateOutputIInv == IInv /\ TypeOK' /\ CreateOutput => IInv'
<1> SUFFICES ASSUME IInv, TypeOK', CreateOutput PROVE IInv'
  OBVIOUS
<1>1. CASE Die
  BY <1>1, DieIInv DEF CreateOutput
<1>2. CASE pc' = "join"
  <2>1. /\ pc = "index" /\ i > Len(hodoenergy) /\ i' = 1 /\ out' = "partial"
        /\ UNCHANGED <<inputs, g4_entry_by_event_id, outputs>>
        /\ simc_out = <<>>
    BY <1>2 DEF CreateOutput, Die, Indexed, IInv
  <2>2. Len(hodoenergy) \in Nat /\ Len(h10) \in Nat /\ i \in Nat
    BY DEF IInv, TypeOK
  <2>3. RowsMatchEvents' /\ WrittenIsComplete'
    BY <1>2, <2>1 DEF IInv, RowsMatchEvents, WrittenIsComplete, Entries
  <2>4. IndexIsExact'
    <3>1. {k \in Entries' : pc' # "index" \/ k < i'} = Entries
      BY <1>2, <2>1 DEF Entries
    <3>2. {k \in Entries : pc # "index" \/ k < i} = Entries
      BY <2>1, <2>2 DEF Entries
    <3> QED
      BY <2>1, <3>1, <3>2 DEF IInv, IndexIsExact
  <2> QED
    BY <1>2, <2>1, <2>2, <2>3, <2>4 DEF IInv, SameEntryCounts
<1> QED
  BY <1>1, <1>2 DEF CreateOutput

(* ... by joining one more row, ...                                          *)
LEMMA JoinRowIInv == IInv /\ TypeOK' /\ JoinRow => IInv'
<1> SUFFICES ASSUME IInv, TypeOK', JoinRow PROVE IInv'
  OBVIOUS
<1>1. CASE ~HasEntry(h10[i])
  BY <1>1, DieIInv DEF JoinRow, Unmatched
<1>2. CASE HasEntry(h10[i])
  <2> DEFINE entry == EntryOf(h10[i])
  <2>1. /\ simc_out' = Append(simc_out, i) /\ pos_out' = Append(pos_out, entry)
        /\ ene_out' = Append(ene_out, entry) /\ gem_out' = Append(gem_out, entry)
        /\ i' = i + 1 /\ pc = "join" /\ i <= Len(h10)
        /\ UNCHANGED <<inputs, pc, g4_entry_by_event_id, out>>
    BY <1>2 DEF JoinRow
  <2>2. /\ simc_out \in Seq(Nat) /\ pos_out \in Seq(Nat)
        /\ ene_out \in Seq(Nat) /\ gem_out \in Seq(Nat)
        /\ i \in Nat \ {0} /\ Len(h10) \in Nat /\ Len(hodoenergy) \in Nat
    BY DEF IInv, TypeOK
  <2>3. /\ Len(simc_out) = i - 1
        /\ Len(pos_out) = i - 1 /\ pos_out = ene_out /\ gem_out = ene_out
        /\ \A k \in 1 .. i - 1 :
               /\ simc_out[k] = k
               /\ ene_out[k] \in Entries /\ hodoenergy[ene_out[k]] = h10[k]
    BY <2>1, <2>2 DEF IInv, RowsMatchEvents
  <2>4. entry \in Entries /\ hodoenergy[entry] = h10[i]
    BY <1>2, <2>1 DEF IInv, IndexIsExact, HasEntry, EntryOf
  <2>5. n_pos = Len(hodoenergy) /\ n_gem = Len(hodoenergy)
    BY <2>1 DEF IInv, SameEntryCounts
  <2>6. Len(simc_out') = i /\ Len(pos_out') = i
    BY <2>1, <2>2, <2>3
  <2>7. \A k \in 1 .. i : simc_out'[k] = k
    BY <2>1, <2>2, <2>3
  <2>8. \A k \in 1 .. i : ene_out'[k] = IF k = i THEN entry ELSE ene_out[k]
    BY <2>1, <2>2, <2>3
  <2>9. \A k \in 1 .. i : ene_out'[k] \in Entries /\ hodoenergy[ene_out'[k]] = h10[k]
    BY <2>2, <2>3, <2>4, <2>8
  <2>10. RowsMatchEvents'
    <3>1. UNCHANGED <<Entries, hodoenergy, h10, n_pos, n_gem>>
      BY <2>1 DEF Entries
    <3>2. \A e \in Entries : e <= n_pos /\ e <= n_gem
      BY <2>5 DEF Entries
    <3>3. pos_out' = ene_out' /\ gem_out' = ene_out'
      BY <2>1, <2>3
    <3> QED
      BY <2>6, <2>7, <2>9, <3>1, <3>2, <3>3 DEF RowsMatchEvents
  <2>11. WrittenIsComplete' /\ IndexIsExact'
    BY <2>1 DEF IInv, WrittenIsComplete, IndexIsExact, Entries
  <2> QED
    BY <2>1, <2>2, <2>6, <2>10, <2>11 DEF IInv, SameEntryCounts
<1> QED
  BY <1>1, <1>2

(* ... and by writing the output.                                            *)
LEMMA WriteIInv == IInv /\ TypeOK' /\ Write => IInv'
<1> SUFFICES ASSUME IInv, TypeOK', Write PROVE IInv'
  OBVIOUS
<1>1. /\ pc = "join" /\ i > Len(h10) /\ out' = "written" /\ pc' = "done"
      /\ UNCHANGED <<inputs, i, g4_entry_by_event_id, outputs>>
  BY DEF Write
<1>2. Len(simc_out) = Len(h10)
  BY <1>1 DEF IInv, TypeOK
<1>3. RowsMatchEvents' /\ WrittenIsComplete' /\ IndexIsExact'
  BY <1>1, <1>2 DEF IInv, RowsMatchEvents, WrittenIsComplete, IndexIsExact, Entries
<1> QED
  BY <1>1, <1>3 DEF IInv, SameEntryCounts

LEMMA StepIInv == IInv /\ [Next]_vars => IInv'
<1> SUFFICES ASSUME IInv, [Next]_vars PROVE IInv'
  OBVIOUS
<1>1. TypeOK'
  BY StepTypeOK DEF IInv
<1>2. CASE UNCHANGED vars
  BY <1>1, <1>2 DEF vars, IInv, RowsMatchEvents, WrittenIsComplete,
                    IndexIsExact, Entries, SameEntryCounts
<1> QED
  BY <1>1, <1>2, OpenIInv, IndexIInv, CreateOutputIInv, JoinRowIInv, WriteIInv
     DEF Next, Terminated

(* The inductive invariant of the merge.                                     *)
THEOREM InductiveInvariant == Spec => []IInv
  BY InitIInv, StepIInv, PTL DEF Spec

(* Whatever the trees hold, a merged row pairs the electron and the recoil   *)
(* of one event id, in all four output trees.                                *)
THEOREM MergedRowsMatch == Spec => []RowsMatchEvents
<1>1. IInv => RowsMatchEvents
  BY DEF IInv
<1> QED
  BY <1>1, InductiveInvariant, PTL

(* A merged file that was written holds every SimC row.                      *)
THEOREM MergeIsComplete == Spec => []WrittenIsComplete
<1>1. IInv => WrittenIsComplete
  BY DEF IInv
<1> QED
  BY <1>1, InductiveInvariant, PTL

------------------------------------------------------------------------------
(* What an older output and a death depend on.                               *)
OutputStage ==
    /\ pc \in {"open", "index"} => out \in {"absent", "old"}
    /\ pc \in {"join", "done"} => out \in {"partial", "written"}

LEMMA OutputStageStep == OutputStage /\ [Next]_vars => OutputStage'
<1> SUFFICES ASSUME OutputStage, [Next]_vars PROVE OutputStage'
  OBVIOUS
<1>1. ASSUME Die PROVE OutputStage'
  BY <1>1 DEF OutputStage, Die
<1>2. CASE Open
  BY <1>1, <1>2 DEF OutputStage, Open
<1>3. CASE Index
  BY <1>1, <1>3 DEF OutputStage, Index
<1>4. CASE CreateOutput
  BY <1>1, <1>4 DEF OutputStage, CreateOutput
<1>5. CASE JoinRow
  BY <1>1, <1>5 DEF OutputStage, JoinRow, Unmatched
<1>6. CASE Write
  BY <1>6 DEF OutputStage, Write
<1>7. CASE UNCHANGED vars
  BY <1>7 DEF OutputStage, vars
<1> QED
  BY <1>2, <1>3, <1>4, <1>5, <1>6, <1>7 DEF Next, Terminated

LEMMA OutputStageHolds == Spec => []OutputStage
<1>1. Init => OutputStage
  BY DEF Init, OutputStage
<1> QED
  BY <1>1, OutputStageStep, PTL DEF Spec

(* An exact index of all entries has as many keys as there are entries.      *)
LEMMA IndexCounts ==
  ASSUME IInv, pc = "index", Indexed
  PROVE  Cardinality(DOMAIN g4_entry_by_event_id) = Len(hodoenergy)
<1> DEFINE keys == DOMAIN g4_entry_by_event_id
<1>1. Len(hodoenergy) \in Nat /\ i \in Nat /\ hodoenergy \in Seq(Ids)
  BY DEF IInv, TypeOK
<1>2. {k \in Entries : pc # "index" \/ k < i} = Entries
  BY <1>1 DEF Entries, Indexed
<1>3. /\ keys = {hodoenergy[k] : k \in Entries}
      /\ \A k \in Entries : g4_entry_by_event_id[hodoenergy[k]] = k
  BY <1>2 DEF IInv, IndexIsExact
<1>4. hodoenergy \in [1 .. Len(hodoenergy) -> keys]
  BY <1>1, <1>3 DEF Entries
<1>5. hodoenergy \in Bijection(1 .. Len(hodoenergy), keys)
  <2>1. \A a, b \in 1 .. Len(hodoenergy) : hodoenergy[a] = hodoenergy[b] => a = b
    BY <1>3 DEF Entries
  <2>2. \A t \in keys : \E s \in 1 .. Len(hodoenergy) : hodoenergy[s] = t
    BY <1>3 DEF Entries
  <2> HIDE DEF keys
  <2> QED
    BY <1>4, <2>1, <2>2 DEF Bijection, Injection, Surjection, IsInjective
<1>6. ExistsBijection(1 .. Len(hodoenergy), keys)
  BY <1>5 DEF ExistsBijection
<1> QED
  BY <1>1, <1>6, FS_CountingElements

(* An output of an earlier merge is only given up once the whole index was   *)
(* built without meeting an id twice.                                        *)
THEOREM OldOutputIsKept == Spec => OldOutputKeptUntilIndexed
<1>1. /\ IInv /\ OutputStage /\ [Next]_vars
      /\ out = "old" /\ out' # "old"
      => Cardinality(DOMAIN g4_entry_by_event_id) = Len(hodoenergy)
  <2> SUFFICES ASSUME IInv, OutputStage, [Next]_vars, out = "old", out' # "old"
               PROVE  Cardinality(DOMAIN g4_entry_by_event_id) = Len(hodoenergy)
    OBVIOUS
  <2>1. ~Die
    BY DEF Die
  <2>2. CASE CreateOutput
    BY <2>2, IndexCounts DEF CreateOutput
  <2>3. ~(Open \/ Index \/ JoinRow \/ Terminated \/ UNCHANGED vars)
    BY <2>1 DEF Open, Index, JoinRow, Unmatched, Terminated, vars
  <2>4. ~Write
    BY DEF Write, OutputStage
  <2> QED
    BY <2>2, <2>3, <2>4 DEF Next
<1>2. IInv /\ OutputStage /\ [Next]_vars =>
          [out = "old" /\ out' # "old" =>
               Cardinality(DOMAIN g4_entry_by_event_id) = Len(hodoenergy)]_vars
  BY <1>1
<1> QED
  BY <1>2, InductiveInvariant, OutputStageHolds, PTL
     DEF Spec, OldOutputKeptUntilIndexed

LEMMA DeathStep ==
    IInv /\ OutputStage /\ DiesForAReason /\ [Next]_vars => DiesForAReason'
<1> SUFFICES ASSUME IInv, OutputStage, DiesForAReason, [Next]_vars, pc' = "died"
             PROVE  DiesForAReason'
  BY DEF DiesForAReason
<1>0. Len(hodoenergy) \in Nat /\ i \in Nat \ {0} /\ h10 \in Seq(Ids \cup {NotInteger})
      /\ Len(h10) \in Nat /\ hodoenergy \in Seq(Ids)
  BY DEF IInv, TypeOK
<1>1. ASSUME Die PROVE UNCHANGED <<files, h10, hodoenergy, n_pos, n_gem, i, out>>
  BY <1>1 DEF Die
<1>2. CASE Open
  <2>1. Die /\ (files = "unreadable" \/ ~SameEntryCounts)
    BY <1>2 DEF Open, IInv, TypeOK
  <2> QED
    BY <1>1, <2>1 DEF DiesForAReason, SameEntryCounts
<1>3. CASE Index
  <2>1. Die /\ i \in Entries /\ pc = "index"
        /\ hodoenergy[i] \in DOMAIN g4_entry_by_event_id
    BY <1>0, <1>3 DEF Index, Duplicate, Entries
  <2>2. PICK k \in Entries : k < i /\ hodoenergy[k] = hodoenergy[i]
    BY <2>1 DEF IInv, IndexIsExact
  <2>3. \E j, l \in Entries : j # l /\ hodoenergy[j] = hodoenergy[l]
    BY <1>0, <2>1, <2>2
  <2> QED
    BY <1>1, <2>1, <2>3 DEF DiesForAReason, Entries
<1>4. CASE CreateOutput
  <2>1. Die /\ out # "partial" /\ Indexed
    BY <1>4 DEF CreateOutput, OutputStage
  <2> QED
    BY <1>1, <2>1 DEF DiesForAReason, Indexed
<1>5. CASE JoinRow
  <2>1. Die /\ i \in 1 .. Len(h10) /\ pc = "join" /\ ~HasEntry(h10[i])
    BY <1>0, <1>5 DEF JoinRow, Unmatched
  <2>2. DOMAIN g4_entry_by_event_id = {hodoenergy[k] : k \in Entries}
    BY <2>1 DEF IInv, IndexIsExact
  <2>3. ASSUME NEW j \in Entries PROVE hodoenergy[j] # h10[i]
    <3>1. hodoenergy[j] \in Ids
      BY <1>0, <2>3 DEF Entries
    <3>2. hodoenergy[j] \in DOMAIN g4_entry_by_event_id
      BY <2>2
    <3> QED
      BY <2>1, <3>1, <3>2, MergeAssumption DEF HasEntry
  <2> QED
    BY <1>1, <2>1, <2>3 DEF DiesForAReason, Entries
<1>6. CASE Write
  BY <1>6 DEF Write
<1>7. CASE UNCHANGED vars
  BY <1>7 DEF vars, DiesForAReason, SameEntryCounts, Indexed, Entries
<1> QED
  BY <1>2, <1>3, <1>4, <1>5, <1>6, <1>7 DEF Next, Terminated

(* A merge that gives up had unreadable or unequal trees, an id twice, a row *)
(* without an entry, or could not create its output.                         *)
THEOREM DeathHasAReason == Spec => []DiesForAReason
<1>1. Init => DiesForAReason
  BY DEF Init, DiesForAReason
<1> QED
  BY <1>1, DeathStep, InductiveInvariant, OutputStageHolds, PTL DEF Spec

------------------------------------------------------------------------------
(* The step that writes the output is the join: the index is without         *)
(* duplicates, and the entry of each row is the only one with its id.        *)
LEMMA WriteSucceeds == IInv /\ Write => Join!Succeed
<1> SUFFICES ASSUME IInv, Write PROVE Join!Succeed
  OBVIOUS
<1>1. /\ pc = "join" /\ pc' = "done" /\ i > Len(h10)
      /\ UNCHANGED <<inputs, outputs>>
  BY DEF Write
<1>2. /\ h10 \in Seq(Ids \cup {NotInteger}) /\ hodoenergy \in Seq(Ids)
      /\ simc_out \in Seq(Nat) /\ ene_out \in Seq(Nat) /\ i \in Nat
  BY DEF IInv, TypeOK
<1>3. /\ DOMAIN hodoenergy = 1 .. Len(hodoenergy)
      /\ DOMAIN h10 = 1 .. Len(h10) /\ Len(h10) \in Nat
      /\ DOMAIN simc_out = 1 .. Len(simc_out) /\ Len(simc_out) \in Nat
  BY <1>2
<1>4. Len(simc_out) = Len(h10)
  <2>1. Len(simc_out) = i - 1 /\ i <= Len(h10) + 1
    BY <1>1 DEF IInv
  <2> QED
    BY <1>1, <1>2, <1>3, <2>1
<1>5. \A j, k \in DOMAIN hodoenergy : hodoenergy[j] = hodoenergy[k] => j = k
  BY <1>1, <1>3 DEF IInv, IndexIsExact, Entries
<1>6. \A n \in DOMAIN h10 : /\ simc_out[n] = n
                            /\ ene_out[n] \in DOMAIN hodoenergy
                            /\ hodoenergy[ene_out[n]] = h10[n]
  BY <1>3, <1>4 DEF IInv, RowsMatchEvents, Entries
<1>7. \A n \in DOMAIN h10 : Join!Partners(h10[n]) = {ene_out[n]}
  BY <1>5, <1>6 DEF Join!Partners
<1>8. Join!Joinable
  BY <1>5, <1>7 DEF Join!Joinable
<1>9. \A n \in DOMAIN h10 : (CHOOSE k \in Join!Partners(h10[n]) : TRUE) = ene_out[n]
  BY <1>7
<1>10. Join!TheJoin = [k \in DOMAIN simc_out |-> [row |-> simc_out[k], entry |-> ene_out[k]]]
  BY <1>3, <1>4, <1>6, <1>9 DEF Join!TheJoin
<1> QED
  BY <1>1, <1>8, <1>10 DEF Join!Succeed

(* The merge implements the join of the two tables on the event id, for      *)
(* tables of every size: rows are lost neither silently nor in part.         *)
THEOREM MergeIsTheJoin == Spec => ImplementsJoin
<1>1. Init => Join!Init
  BY DEF Init, Join!Init
<1>2. IInv /\ [Next]_vars => [Join!Next]_(Join!vars)
  <2> SUFFICES ASSUME IInv, [Next]_vars PROVE [Join!Next]_(Join!vars)
    OBVIOUS
  <2>1. ASSUME Die, pc \in {"open", "index", "join"} PROVE Join!Fail
    BY <2>1 DEF Die, Join!Fail
  <2>2. ASSUME pc \in {"open", "index", "join"}, pc' \in {"open", "index", "join"},
               UNCHANGED inputs
        PROVE  UNCHANGED Join!vars
    BY <2>2 DEF Join!vars
  <2>3. CASE Open
    BY <2>1, <2>2, <2>3 DEF Open, Join!Next
  <2>4. CASE Index
    BY <2>1, <2>2, <2>4 DEF Index, Join!Next
  <2>5. CASE CreateOutput
    BY <2>1, <2>2, <2>5 DEF CreateOutput, Join!Next
  <2>6. CASE JoinRow
    BY <2>1, <2>2, <2>6 DEF JoinRow, Unmatched, Join!Next
  <2>7. CASE Write
    BY <2>7, WriteSucceeds DEF Join!Next
  <2>8. CASE UNCHANGED vars
    BY <2>8 DEF vars, Join!vars
  <2> QED
    BY <2>3, <2>4, <2>5, <2>6, <2>7, <2>8 DEF Next, Terminated
<1> QED
  BY <1>1, <1>2, InductiveInvariant, PTL DEF Spec, ImplementsJoin, Join!Spec
==============================================================================
