-------------------------- MODULE MakeRootTreeProofs --------------------------
(***************************************************************************)
(* Proofs about MakeRootTree, for rows of any width and streams of any     *)
(* length, cut off anywhere: the rows of the tree are the complete rows of *)
(* the stream.                                                             *)
(***************************************************************************)
EXTENDS MakeRootTree, TLAPS

(* Records read so far.                                                      *)
Read == (j - 1) * NtupleSize + (i - 1)

Whole(k) == [f \in 1 .. NtupleSize |-> Single(events[k])]

(* What a stream may be like, which no step changes.                         *)
StreamOK ==
    /\ Len(events) \in Nat
    /\ n_records <= Len(events) * NtupleSize

IInv ==
    /\ TypeOK
    /\ StreamOK
    /\ Read <= n_records
    /\ \A k \in 1 .. Len(tree) : tree[k] = Whole(k)
    /\ \A f \in 1 .. NtupleSize : f < i => ntup_out[f] = Single(events[j])
    /\ pc = "header" => j = 1 /\ i = 1
    /\ root = "written" <=> pc = "done"
    /\ pc = "done" => (i <= NtupleSize /\ AtEnd) \/ j > nev

USE DEF stream

------------------------------------------------------------------------------
(* Rows and their records.                                                   *)
LEMMA DivUnique ==
    ASSUME NEW n \in Nat \ {0}, NEW q \in Int, NEW r \in 0 .. n - 1
    PROVE  (q * n + r) \div n = q
  BY SMTT(60)

LEMMA Cancel ==
    ASSUME NEW n \in Nat \ {0}, NEW a \in Int, NEW b \in Int, a * n < b * n + n
    PROVE  a <= b
<1> SUFFICES ASSUME a >= b + 1 PROVE FALSE
  OBVIOUS
<1>1. PICK d \in Nat : a = b + 1 + d
  <2>1. a - b - 1 \in Nat
    OBVIOUS
  <2> QED
    BY <2>1
<1>2. a * n = b * n + n + d * n
  BY <1>1
<1>3. d * n >= 0
  OBVIOUS
<1> QED
  BY <1>2, <1>3

LEMMA SingleType == TreeAssumption => \A x \in Nat : Single(x) \in Nat
  BY DEF Single, TreeAssumption

(* The record read next belongs to the row that is put together.             *)
LEMMA RecordOfRow ==
    ASSUME TreeAssumption, TypeOK, i <= NtupleSize
    PROVE  Record(Position) = events[j]
<1>1. /\ NtupleSize \in Nat \ {0} /\ nev \in Nat
      /\ i - 1 \in 0 .. NtupleSize - 1 /\ j - 1 \in Int /\ j \in Int
  BY DEF TreeAssumption, TypeOK
<1>2. ((j - 1) * NtupleSize + (i - 1)) \div NtupleSize = j - 1
  BY <1>1, DivUnique
<1>3. Position - 1 = (j - 1) * NtupleSize + (i - 1)
  BY <1>1 DEF Position, TypeOK
<1> QED
  BY <1>1, <1>2, <1>3 DEF Record

------------------------------------------------------------------------------
LEMMA InitIInv == ASSUME TreeAssumption, Init PROVE IInv
<1>1. PICK n \in 0 .. MaxRows : events \in [1 .. n -> 0 .. MaxId]
  BY DEF Init
<1>2. n \in Nat /\ Len(events) = n /\ events \in Seq(Nat)
  BY <1>1 DEF TreeAssumption
<1>3. n_records \in Nat /\ n_records <= Len(events) * NtupleSize
  BY DEF Init
<1>4. /\ pc = "header" /\ j = 1 /\ i = 1 /\ tree = <<>> /\ root \in {"absent", "old"}
      /\ ntup_out \in [1 .. NtupleSize -> Nat] /\ header \in {"none", "size", "whole"}
  BY DEF Init
<1>5. j \in 1 .. nev + 1 /\ i \in 1 .. NtupleSize + 1
  BY <1>4 DEF TreeAssumption
<1>6. tree \in Seq([1 .. NtupleSize -> Nat]) /\ Len(tree) = 0
  BY <1>4
<1>7. TypeOK
  BY <1>2, <1>3, <1>4, <1>5, <1>6 DEF TypeOK
<1>8. Read <= n_records
  BY <1>3, <1>4 DEF Read, TreeAssumption
<1> QED
  BY <1>2, <1>3, <1>4, <1>6, <1>7, <1>8 DEF IInv, StreamOK

LEMMA HeaderIInv == ASSUME TreeAssumption, IInv, Header PROVE IInv'
<1>1. /\ UNCHANGED <<header, events, n_records, j, i, ntup_out, tree>>
      /\ pc' \in {"rows", "aborted"} /\ root' \in {root, "recreated"} /\ pc = "header"
  BY DEF Header
<1>2. root # "written"
  BY <1>1 DEF IInv
<1>3. TypeOK'
  BY <1>1 DEF IInv, TypeOK
<1> QED
  BY <1>1, <1>2, <1>3 DEF IInv, StreamOK, Read, Whole

LEMMA ReadRecordIInv == ASSUME TreeAssumption, IInv, ReadRecord PROVE IInv'
<1>1. /\ UNCHANGED <<header, events, n_records, pc, j, tree, root>>
      /\ pc = "rows" /\ i <= NtupleSize /\ i' = i + 1 /\ Position <= n_records
      /\ ntup_out' = [ntup_out EXCEPT ![i] = Single(events[j])]
  <2>1. Position \in Int /\ n_records \in Int
    BY DEF Position, IInv, TypeOK, TreeAssumption
  <2>2. i <= NtupleSize /\ TypeOK
    BY DEF ReadRecord, IInv
  <2>3. Record(Position) = events[j]
    BY <2>2, RecordOfRow
  <2> QED
    BY <2>1, <2>3 DEF ReadRecord, AtEnd
<1>2. /\ i \in 1 .. NtupleSize /\ j \in Nat \ {0} /\ NtupleSize \in Nat \ {0}
      /\ n_records \in Nat /\ Len(events) \in Nat /\ events \in Seq(Nat)
      /\ ntup_out \in [1 .. NtupleSize -> Nat]
  BY <1>1 DEF IInv, TypeOK, TreeAssumption
<1>3. (j - 1) * NtupleSize + i = Position /\ (j - 1) * NtupleSize \in Int
  BY <1>2 DEF Position
<1>4. Single(events[j]) \in Nat
  <2>1. (j - 1) * NtupleSize < Len(events) * NtupleSize
    <3>1. Position <= n_records /\ n_records <= Len(events) * NtupleSize
      BY <1>1 DEF IInv, StreamOK
    <3>2. Len(events) * NtupleSize \in Int /\ i >= 1 /\ i \in Int
      BY <1>2
    <3> DEFINE before == (j - 1) * NtupleSize
               all == Len(events) * NtupleSize
    <3>3. before \in Int /\ before + i = Position /\ all \in Int /\ n_records <= all
          /\ n_records \in Int
      BY <1>2, <1>3, <3>1, <3>2
    <3> HIDE DEF before, all
    <3>4. before < all
      BY <3>1, <3>2, <3>3
    <3> QED
      BY <3>4 DEF before, all
  <2>2. j * NtupleSize < Len(events) * NtupleSize + NtupleSize
    BY <1>2, <2>1
  <2>3. j <= Len(events)
    BY <1>2, <2>2, Cancel
  <2>4. events[j] \in Nat
    BY <1>2, <2>3
  <2> QED
    BY <2>4, SingleType
<1>5. TypeOK'
  <2>1. ntup_out' \in [1 .. NtupleSize -> Nat]
    BY <1>1, <1>2, <1>4
  <2>2. i' \in 1 .. NtupleSize + 1
    BY <1>1, <1>2
  <2> QED
    BY <1>1, <2>1, <2>2 DEF IInv, TypeOK
<1>6. Read' <= n_records'
  <2>1. Read' = (j - 1) * NtupleSize + i
    BY <1>1, <1>2 DEF Read
  <2> QED
    BY <1>1, <1>3, <2>1
<1>7. \A f \in 1 .. NtupleSize : f < i' => ntup_out'[f] = Single(events[j])
  BY <1>1, <1>2 DEF IInv
<1> QED
  BY <1>1, <1>5, <1>6, <1>7 DEF IInv, StreamOK, Whole

LEMMA FillIInv == ASSUME TreeAssumption, IInv, FillNTBranch PROVE IInv'
<1>1. /\ UNCHANGED <<header, events, n_records, pc, ntup_out, root>>
      /\ pc = "rows" /\ j <= nev /\ i > NtupleSize /\ i' = 1 /\ j' = j + 1
      /\ tree' = Append(tree, ntup_out)
  BY DEF FillNTBranch
<1>2. /\ i = NtupleSize + 1 /\ j \in 1 .. nev /\ NtupleSize \in Nat \ {0} /\ nev \in Nat
      /\ Len(tree) = j - 1 /\ tree \in Seq([1 .. NtupleSize -> Nat])
      /\ ntup_out \in [1 .. NtupleSize -> Nat]
  BY <1>1 DEF IInv, TypeOK, TreeAssumption
<1>3. ntup_out = Whole(j)
  <2>1. \A f \in 1 .. NtupleSize : ntup_out[f] = Single(events[j])
    BY <1>2 DEF IInv
  <2> QED
    BY <1>2, <2>1 DEF Whole
<1>4. /\ tree' \in Seq([1 .. NtupleSize -> Nat]) /\ Len(tree') = j
      /\ \A k \in 1 .. j : tree'[k] = IF k = j THEN ntup_out ELSE tree[k]
  BY <1>1, <1>2
<1>5. \A k \in 1 .. Len(tree') : tree'[k] = Whole(k)
  <2>1. \A k \in 1 .. j - 1 : tree[k] = Whole(k)
    BY <1>2 DEF IInv
  <2>2. TAKE k \in 1 .. Len(tree')
  <2>3. CASE k = j
    BY <1>3, <1>4, <2>3
  <2>4. CASE k # j
    <3>1. k \in 1 .. j - 1 /\ k \in 1 .. j
      BY <1>2, <1>4, <2>2, <2>4
    <3> QED
      BY <1>4, <2>1, <2>4, <3>1
  <2> QED
    BY <2>3, <2>4
<1>6. TypeOK'
  <2>1. j' \in 1 .. nev + 1 /\ i' \in 1 .. NtupleSize + 1 /\ Len(tree') + 1 = j'
    BY <1>1, <1>2, <1>4
  <2> QED
    BY <1>1, <1>4, <2>1 DEF IInv, TypeOK
<1>7. Read' = Read
  <2>1. j * NtupleSize = (j - 1) * NtupleSize + NtupleSize
    BY <1>2
  <2> QED
    BY <1>1, <1>2, <2>1 DEF Read
<1>8. \A f \in 1 .. NtupleSize : f < i' => ntup_out'[f] = Single(events'[j'])
  BY <1>1
<1>9. \A k : Whole(k)' = Whole(k)
  BY <1>1 DEF Whole
<1> QED
  BY <1>1, <1>5, <1>6, <1>7, <1>8, <1>9 DEF IInv, StreamOK

LEMMA RootNTOutpIInv == ASSUME TreeAssumption, IInv, RootNTOutp PROVE IInv'
<1>1. /\ UNCHANGED <<header, events, n_records, j, i, ntup_out, tree>>
      /\ pc' = "done" /\ root' = "written"
      /\ (i <= NtupleSize /\ AtEnd) \/ j > nev
  BY DEF RootNTOutp, RowsAtEnd
<1>2. TypeOK'
  BY <1>1 DEF IInv, TypeOK
<1>3. AtEnd' = AtEnd
  BY <1>1 DEF AtEnd, Position
<1> QED
  BY <1>1, <1>2, <1>3 DEF IInv, StreamOK, Read, Whole

LEMMA StepIInv == ASSUME TreeAssumption, IInv, [Next]_vars PROVE IInv'
<1>1. CASE UNCHANGED vars
  <2>1. TypeOK' /\ StreamOK' /\ Read' = Read /\ AtEnd' = AtEnd
    BY <1>1 DEF vars, IInv, TypeOK, StreamOK, Read, AtEnd, Position
  <2> QED
    BY <1>1, <2>1 DEF vars, IInv, Whole
<1> QED
  BY <1>1, HeaderIInv, ReadRecordIInv, FillIInv, RootNTOutpIInv DEF Next, Terminated

LEMMA InductiveInvariant == ASSUME TreeAssumption PROVE Spec => []IInv
  BY InitIInv, StepIInv, PTL DEF Spec

(* Type correctness of the converter.                                        *)
THEOREM TypeCorrect == ASSUME TreeAssumption PROVE Spec => []TypeOK
<1>1. IInv => TypeOK
  BY DEF IInv
<1> QED
  BY <1>1, InductiveInvariant, PTL

LEMMA InvariantIsWhole == ASSUME TreeAssumption, IInv PROVE RowsAreWhole
<1> DEFINE N == NtupleSize
<1>1. /\ N \in Nat \ {0} /\ nev \in Nat /\ n_records \in Nat /\ Len(events) \in Nat
      /\ j \in 1 .. nev + 1 /\ i \in 1 .. N + 1 /\ Len(tree) = j - 1
  BY DEF IInv, TypeOK, TreeAssumption, StreamOK
<1>2. (j - 1) * N \in Nat /\ (j - 1) * N + (i - 1) <= n_records
  BY <1>1 DEF IInv, Read
<1>3. Len(tree) <= Len(events)
  <2>1. (j - 1) * N < Len(events) * N + N
    BY <1>1, <1>2 DEF IInv, StreamOK
  <2> QED
    BY <1>1, <2>1, Cancel
<1>4. ASSUME root = "written"
      PROVE  Len(tree) = IF n_records \div N <= nev THEN n_records \div N ELSE nev
  <2>1. CASE i <= N /\ AtEnd
    <3>1. n_records = (j - 1) * N + (i - 1)
      BY <1>1, <1>2, <2>1 DEF AtEnd, Position
    <3>2. n_records \div N = j - 1
      BY <1>1, <2>1, <3>1, DivUnique
    <3> QED
      BY <1>1, <3>2
  <2>2. CASE j > nev
    <3>1. j - 1 = nev /\ nev * N <= n_records
      BY <1>1, <1>2, <2>2
    <3>2. n_records \div N \in Int /\ n_records < (n_records \div N) * N + N
      BY <1>1
    <3>3. nev <= n_records \div N
      BY <1>1, <3>1, <3>2, Cancel
    <3> QED
      BY <1>1, <3>1, <3>2, <3>3
  <2> QED
    BY <1>4, <2>1, <2>2 DEF IInv
<1> QED
  BY <1>3, <1>4 DEF IInv, RowsAreWhole, Whole

(* Wherever the stream of SimC breaks off, a row of the tree is a whole row  *)
(* of the stream, and a tree that was written has all of them up to nev.     *)
THEOREM TreeRowsAreWhole == ASSUME TreeAssumption PROVE Spec => []RowsAreWhole
  BY InvariantIsWhole, InductiveInvariant, PTL
==============================================================================
