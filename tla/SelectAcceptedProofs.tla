------------------------- MODULE SelectAcceptedProofs -------------------------
(***************************************************************************)
(* Proofs about SelectAccepted, for any spectrometers, files and trees:    *)
(* its types, and that each selected dat file is exactly the comments and  *)
(* the lines of the events in the tree of its own spectrometer.            *)
(***************************************************************************)
EXTENDS SelectAccepted, FiniteSetTheorems, TLAPS

(* The spectrometer being processed is one.                                  *)
LEMMA SpecIsSpectrometer ==
    ASSUME SelectAssumption, k \in 1 .. Len(Specs) + 1, k <= Len(Specs)
    PROVE  spec \in Spectrometers
<1>1. Specs \in Seq(Spectrometers)  BY DEF SelectAssumption
<1>2. k \in DOMAIN Specs  BY <1>1
<1> QED  BY <1>2 DEF spec, Spectrometers

(* The ids of a tree are ids, or the number that stands for none.            *)
LEMMA IdsOfType ==
    ASSUME NEW s \in Spectrometers, h10 \in [Spectrometers -> Seq(Ids)]
    PROVE  IdsOf(s) \subseteq Ids \cup {NoId}
<1>1. h10[s] \in Seq(Ids)  OBVIOUS
<1>2. \A n \in DOMAIN h10[s] : h10[s][n] \in Ids  BY <1>1
<1> QED  BY <1>2 DEF IdsOf

(* A line that is selected has an id of an event.                            *)
LEMMA SelectedId ==
    ASSUME NEW line \in Lines, IsSelected(line)
    PROVE  line.id \in Ids
BY DEF Lines, Line, IsSelected

(* Filling the histograms keeps them sequences of events.                    *)
LEMMA FilledType ==
    ASSUME NEW line \in Lines, NEW h \in [Q2 : Seq(Ids), Q2_root : Seq(Ids)]
    PROVE  Filled(h, line) \in [Q2 : Seq(Ids), Q2_root : Seq(Ids)]
<1>1. CASE IsSelected(line)
  <2>1. line.id \in Ids  BY <1>1, SelectedId
  <2>2. Append(h.Q2, line.id) \in Seq(Ids)  BY <2>1
  <2> QED  BY <1>1, <2>2 DEF Filled
<1>2. CASE ~IsSelected(line)  BY <1>2 DEF Filled
<1> QED  BY <1>1, <1>2

(* What the type invariant says of the sequences.                            *)
LEMMA SequenceFacts ==
    ASSUME SelectAssumption, TypeOK
    PROVE  /\ Len(Specs) \in Nat /\ Len(dat) \in Nat
           /\ k \in 1 .. Len(Specs) + 1 /\ i \in 1 .. Len(dat) + 1
           /\ \A n \in 1 .. Len(dat) : dat[n] \in Lines
           /\ \A s \in Spectrometers : h10[s] \in Seq(Ids)
           /\ \A s \in Spectrometers, line \in Lines :
                  Append(selected[s], line) \in Seq(Lines)
<1>1. Specs \in Seq(Spectrometers)  BY DEF SelectAssumption
<1>2. dat \in Seq(Lines)  BY DEF TypeOK
<1>3. h10 \in [Spectrometers -> Seq(Ids)]  BY DEF TypeOK
<1>4. selected \in [Spectrometers -> Seq(Lines)]  BY DEF TypeOK
<1>5. ASSUME NEW s \in Spectrometers, NEW line \in Lines
      PROVE  Append(selected[s], line) \in Seq(Lines)
  <2>1. selected[s] \in Seq(Lines)  BY <1>4
  <2> QED  BY <2>1
<1>6. \A n \in 1 .. Len(dat) : dat[n] \in Lines  BY <1>2
<1>7. \A s \in Spectrometers : h10[s] \in Seq(Ids)  BY <1>3
<1>8. Len(Specs) \in Nat /\ Len(dat) \in Nat  BY <1>1, <1>2
<1>9. k \in 1 .. Len(Specs) + 1 /\ i \in 1 .. Len(dat) + 1  BY DEF TypeOK
<1> QED  BY <1>5, <1>6, <1>7, <1>8, <1>9

LEMMA InitType ==
    ASSUME SelectAssumption, Init PROVE TypeOK
<1>1. Specs \in Seq(Spectrometers)  BY DEF SelectAssumption
<1>2. dat \in Seq(Lines)  BY DEF Init, Inputs
<1>3. ASSUME NEW s \in Spectrometers PROVE h10[s] \in Seq(Ids)
  <2>1. h10[s] \in UNION {[1 .. n -> Ids] : n \in 0 .. MaxRows}  BY DEF Init, Inputs
  <2>2. PICK n \in 0 .. MaxRows : h10[s] \in [1 .. n -> Ids]  BY <2>1
  <2> QED  BY <2>2
<1>4. h10 \in [Spectrometers -> Seq(Ids)]  BY <1>3 DEF Init, Inputs
<1>5. <<>> \in Seq(Ids) /\ <<>> \in Seq(Lines)  OBVIOUS
<1>6. Len(Specs) \in Nat /\ Len(dat) \in Nat  BY <1>1, <1>2
<1> QED  BY <1>2, <1>4, <1>5, <1>6 DEF Init, Inputs, Start, NoPlots, TypeOK

LEMMA NextType ==
    ASSUME SelectAssumption, TypeOK, [Next]_vars PROVE TypeOK'
<1> USE DEF inputs
<1>1. CASE ReadAcceptedIDs
  <2>1. spec \in Spectrometers  BY <1>1, SpecIsSpectrometer DEF ReadAcceptedIDs, TypeOK
  <2>2. acceptedIDs' \subseteq Ids \cup {NoId}
        BY <1>1, <2>1, IdsOfType DEF ReadAcceptedIDs, TypeOK
  <2>3. Len(Specs) \in Nat  BY SequenceFacts
  <2>4. k' \in 1 .. Len(Specs) + 1  BY <1>1, <2>3, SequenceFacts DEF ReadAcceptedIDs, Return
  <2> QED  BY <1>1, <2>2, <2>4 DEF ReadAcceptedIDs, Return, TypeOK
<1>2. CASE OpenFiles
  <2>1. spec \in Spectrometers  BY <1>2, SpecIsSpectrometer DEF OpenFiles, TypeOK
  <2>2. Len(Specs) \in Nat /\ Len(dat) \in Nat  BY SequenceFacts
  <2>3. k' \in 1 .. Len(Specs) + 1  BY <1>2, <2>2, SequenceFacts DEF OpenFiles, Return
  <2>4. i' \in 1 .. Len(dat') + 1  BY <1>2, <2>2, SequenceFacts DEF OpenFiles
  <2> QED  BY <1>2, <2>1, <2>3, <2>4 DEF OpenFiles, Return, TypeOK
<1>3. CASE FillRootKinematicsHistograms
  <2>1. spec \in Spectrometers
        BY <1>3, SpecIsSpectrometer DEF FillRootKinematicsHistograms, TypeOK
  <2>2. h10[spec] \in Seq(Ids) /\ <<>> \in Seq(Ids)  BY <2>1, SequenceFacts
  <2>3. [NoPlots EXCEPT !.Q2_root = h10[spec]] \in [Q2 : Seq(Ids), Q2_root : Seq(Ids)]
        BY <2>2 DEF NoPlots
  <2> QED  BY <1>3, <2>3 DEF FillRootKinematicsHistograms, TypeOK
<1>4. CASE ReadLine
  <2>1. spec \in Spectrometers  BY <1>4, SpecIsSpectrometer DEF ReadLine, TypeOK
  <2>2. Len(dat) \in Nat /\ i \in 1 .. Len(dat)
        BY <1>4, SequenceFacts DEF ReadLine
  <2>3. dat[i] \in Lines  BY <2>2, SequenceFacts
  <2>4. i' \in 1 .. Len(dat') + 1  BY <1>4, <2>2 DEF ReadLine, inputs
  <2>5. selected' \in [Spectrometers -> Seq(Lines)]
    <3>1. Append(selected[spec], dat[i]) \in Seq(Lines)  BY <2>1, <2>3, SequenceFacts
    <3> QED  BY <1>4, <3>1 DEF ReadLine, TypeOK
  <2>6. nSelectedEvents' \in [Spectrometers -> Nat]
    <3>1. nSelectedEvents \in [Spectrometers -> Nat]  BY DEF TypeOK
    <3>2. CASE IsSelected(dat[i])  BY <1>4, <2>1, <3>1, <3>2 DEF ReadLine
    <3>3. CASE ~IsSelected(dat[i])  BY <1>4, <3>1, <3>3 DEF ReadLine
    <3> QED  BY <3>2, <3>3
  <2>7. plots' \in [Spectrometers -> [Q2 : Seq(Ids), Q2_root : Seq(Ids)]]
    <3>1. Filled(plots[spec], dat[i]) \in [Q2 : Seq(Ids), Q2_root : Seq(Ids)]
          BY <2>1, <2>3, FilledType DEF TypeOK
    <3> QED  BY <1>4, <3>1 DEF ReadLine, TypeOK
  <2> QED  BY <1>4, <2>4, <2>5, <2>6, <2>7 DEF ReadLine, TypeOK
<1>5. CASE EndOfDat
  <2>1. spec \in Spectrometers  BY <1>5, SpecIsSpectrometer DEF EndOfDat, TypeOK
  <2>2. Len(Specs) \in Nat  BY SequenceFacts
  <2>3. k <= Len(Specs) /\ k' = k + 1  BY <1>5 DEF EndOfDat, Return
  <2>4. k' \in 1 .. Len(Specs) + 1  BY <2>2, <2>3, SequenceFacts
  <2> QED  BY <1>5, <2>1, <2>4 DEF EndOfDat, Return, TypeOK
<1>6. CASE UNCHANGED vars  BY <1>6 DEF vars, TypeOK
<1> QED  BY <1>1, <1>2, <1>3, <1>4, <1>5, <1>6 DEF Next, Terminated

(* The variables of the selection have their types, whatever the dat file,   *)
(* the trees and the spectrometers are.                                      *)
THEOREM TypeCorrect ==
    ASSUME SelectAssumption PROVE Spec => []TypeOK
<1>1. Init => TypeOK  BY InitType
<1>2. TypeOK /\ [Next]_vars => TypeOK'  BY NextType
<1> QED  BY <1>1, <1>2, PTL DEF Spec

(* While the lines of a spectrometer are read, acceptedIDs holds the ids of  *)
(* its own tree.                                                             *)
IdsAreOwn ==
    k <= Len(Specs) /\ pc # "ids" => acceptedIDs = IdsOf(spec)

(* A line of a selected dat file is a comment or an event of its own tree.   *)
OnlyOwnLines ==
    \A s \in Spectrometers : \A n \in 1 .. Len(selected[s]) :
        \/ selected[s][n].kind = "comment"
        \/ selected[s][n].kind = "event" /\ InTree(s, selected[s][n].id)

(* An event is accepted when it is in the tree: a tree without the branch    *)
(* gives only the number that stands for none, which no line has.            *)
LEMMA AcceptedIsInTree ==
    ASSUME SelectAssumption, TypeOK, IdsAreOwn, NEW line \in Lines,
           k <= Len(Specs), pc # "ids", IsSelected(line)
    PROVE  InTree(spec, line.id)
<1>1. line.id \in Ids /\ line.id \in Nat  BY SelectedId DEF SelectAssumption
<1>2. line.id \in IdsOf(spec)  BY DEF IdsAreOwn, IsSelected
<1>3. line.id # NoId  BY <1>1 DEF NoId
<1> QED  BY <1>2, <1>3 DEF IdsOf, InTree

LEMMA OwnNext ==
    ASSUME SelectAssumption, TypeOK, IdsAreOwn, OnlyOwnLines, [Next]_vars
    PROVE  IdsAreOwn' /\ OnlyOwnLines'
<1> USE DEF inputs
<1>0. selected' = selected /\ UNCHANGED inputs => OnlyOwnLines'
      BY DEF OnlyOwnLines, InTree
<1>1. CASE ReadAcceptedIDs
  <2>1. OnlyOwnLines'  BY <1>0, <1>1 DEF ReadAcceptedIDs
  <2>2. IdsAreOwn'  BY <1>1 DEF ReadAcceptedIDs, Return, IdsAreOwn, IdsOf, spec
  <2> QED  BY <2>1, <2>2
<1>2. CASE OpenFiles
  <2>1. OnlyOwnLines'  BY <1>0, <1>2 DEF OpenFiles
  <2>2. IdsAreOwn'  BY <1>2 DEF OpenFiles, Return, IdsAreOwn, IdsOf, spec
  <2> QED  BY <2>1, <2>2
<1>3. CASE FillRootKinematicsHistograms
  <2>1. OnlyOwnLines'  BY <1>0, <1>3 DEF FillRootKinematicsHistograms
  <2>2. IdsAreOwn'
        BY <1>3 DEF FillRootKinematicsHistograms, IdsAreOwn, IdsOf, spec
  <2> QED  BY <2>1, <2>2
<1>4. CASE ReadLine
  <2>1. IdsAreOwn'  BY <1>4 DEF ReadLine, IdsAreOwn, IdsOf, spec
  <2>2. CASE ~IsCopied(dat[i])  BY <1>0, <1>4, <2>1, <2>2 DEF ReadLine
  <2>3. CASE IsCopied(dat[i])
    <3>1. k <= Len(Specs) /\ pc # "ids"  BY <1>4 DEF ReadLine
    <3>2. spec \in Spectrometers  BY <3>1, SpecIsSpectrometer, SequenceFacts
    <3>3. dat[i] \in Lines  BY <1>4, SequenceFacts DEF ReadLine
    <3>4. \/ dat[i].kind = "comment"
          \/ dat[i].kind = "event" /\ InTree(spec, dat[i].id)
          BY <2>3, <3>1, <3>3, AcceptedIsInTree DEF IsCopied, IsSelected
    <3>5. ASSUME NEW s \in Spectrometers, NEW n \in 1 .. Len(selected'[s])
          PROVE  \/ selected'[s][n].kind = "comment"
                 \/ selected'[s][n].kind = "event" /\ InTree(s, selected'[s][n].id)
      <4>1. selected \in [Spectrometers -> Seq(Lines)]  BY DEF TypeOK
      <4>2. selected[s] \in Seq(Lines)  BY <4>1
      <4>3. selected' = [selected EXCEPT ![spec] = Append(@, dat[i])]
            BY <1>4, <2>3 DEF ReadLine
      <4>4. CASE s # spec
        <5>1. selected'[s] = selected[s]  BY <4>1, <4>3, <4>4
        <5> QED  BY <5>1 DEF OnlyOwnLines
      <4>5. CASE s = spec
        <5>1. selected'[s] = Append(selected[s], dat[i])  BY <3>2, <4>1, <4>3, <4>5
        <5>2. CASE n = Len(selected[s]) + 1
          <6>1. selected'[s][n] = dat[i]  BY <4>2, <5>1, <5>2
          <6> QED  BY <3>4, <4>5, <6>1
        <5>3. CASE n # Len(selected[s]) + 1
          <6>1. n \in 1 .. Len(selected[s])  BY <4>2, <5>1, <5>3
          <6>2. selected'[s][n] = selected[s][n]  BY <4>2, <5>1, <6>1
          <6> QED  BY <6>1, <6>2 DEF OnlyOwnLines
        <5> QED  BY <5>2, <5>3
      <4> QED  BY <4>4, <4>5
    <3>6. \A s, id : InTree(s, id)' <=> InTree(s, id)  BY <1>4 DEF ReadLine, InTree
    <3> QED  BY <2>1, <3>5, <3>6 DEF OnlyOwnLines
  <2> QED  BY <2>2, <2>3
<1>5. CASE EndOfDat
  <2>1. OnlyOwnLines'  BY <1>0, <1>5 DEF EndOfDat
  <2>2. IdsAreOwn'  BY <1>5 DEF EndOfDat, Return, IdsAreOwn
  <2> QED  BY <2>1, <2>2
<1>6. CASE UNCHANGED vars
  <2>1. OnlyOwnLines'  BY <1>0, <1>6 DEF vars
  <2>2. IdsAreOwn'  BY <1>6 DEF vars, IdsAreOwn, IdsOf, spec
  <2> QED  BY <2>1, <2>2
<1> QED  BY <1>1, <1>2, <1>3, <1>4, <1>5, <1>6 DEF Next, Terminated

(* No id of one spectrometer's tree lets a line into the selected dat file   *)
(* of the other, and a tree without the branch event_id selects nothing:     *)
(* readAcceptedIDs starts from an empty set.                                 *)
THEOREM SelectedAreOwn ==
    ASSUME SelectAssumption PROVE Spec => []OnlyOwnLines
<1> DEFINE IInv == TypeOK /\ IdsAreOwn /\ OnlyOwnLines
<1>1. Init => IInv
  <2> SUFFICES ASSUME Init PROVE IInv  OBVIOUS
  <2>1. TypeOK  BY InitType
  <2>2. IdsAreOwn  BY DEF Init, Start, IdsAreOwn
  <2>3. \A s \in Spectrometers : selected[s] = <<>>  BY DEF Init, Start
  <2>4. OnlyOwnLines  BY <2>3 DEF OnlyOwnLines
  <2> QED  BY <2>1, <2>2, <2>4
<1>2. IInv /\ [Next]_vars => IInv'  BY NextType, OwnNext
<1>3. IInv => OnlyOwnLines  OBVIOUS
<1> QED  BY <1>1, <1>2, <1>3, PTL DEF Spec
------------------------------------------------------------------------------
(* Ranks: in a finite set of line numbers the ranks are 1 .. its size, one   *)
(* for each, in the order of the lines.                                      *)
LEMMA RankRange ==
    ASSUME NEW K \in SUBSET Nat, IsFiniteSet(K), NEW n \in K
    PROVE  Rank(K, n) \in 1 .. Cardinality(K)
<1> DEFINE upto == {l \in K : l <= n}
<1>1. upto \in SUBSET K /\ n \in upto
  OBVIOUS
<1>2. IsFiniteSet(upto) /\ Cardinality(upto) <= Cardinality(K)
  BY <1>1, FS_Subset
<1>3. Cardinality(upto) \in Nat /\ Cardinality(K) \in Nat
  BY <1>2, FS_CardinalityType
<1>4. Cardinality(upto) # 0
  BY <1>1, <1>2, FS_EmptySet
<1>5. Rank(K, n) = Cardinality(upto)
  BY DEF Rank
<1> QED
  BY <1>2, <1>3, <1>4, <1>5

LEMMA RankOrder ==
    ASSUME NEW K \in SUBSET Nat, IsFiniteSet(K), NEW m \in K, NEW n \in K, m < n
    PROVE  Rank(K, m) < Rank(K, n)
<1> DEFINE lo == {l \in K : l <= m}
           hi == {l \in K : l <= n}
<1>1. hi \in SUBSET K /\ lo \in SUBSET hi /\ n \in hi /\ n \notin lo
  <2>1. m \in Nat /\ n \in Nat /\ \A l \in K : l \in Nat
    OBVIOUS
  <2>2. \A l \in lo : l \in hi
    BY <2>1
  <2>3. n \in hi /\ n \notin lo
    BY <2>1
  <2> QED
    BY <2>2, <2>3
<1>2. IsFiniteSet(hi)
  BY <1>1, FS_Subset
<1>3. Cardinality(lo) <= Cardinality(hi) /\ Cardinality(lo) # Cardinality(hi)
  BY <1>1, <1>2, FS_Subset
<1>4. IsFiniteSet(lo) /\ Cardinality(lo) \in Nat /\ Cardinality(hi) \in Nat
  BY <1>1, <1>2, FS_Subset, FS_CardinalityType
<1> QED
  BY <1>3, <1>4 DEF Rank

(* Every place of a list holds one of its lines.                             *)
LEMMA RankOnto ==
    ASSUME NEW K \in SUBSET Nat, IsFiniteSet(K), NEW r \in 1 .. Cardinality(K)
    PROVE  \E n \in K : Rank(K, n) = r
<1> DEFINE R == [n \in K |-> Rank(K, n)]
           places == 1 .. Cardinality(K)
<1>1. Cardinality(K) \in Nat
  BY FS_CardinalityType
<1>2. R \in [K -> places]
  BY RankRange
<1>3. ASSUME NEW m \in K, NEW n \in K, R[m] = R[n] PROVE m = n
  <2>1. Rank(K, m) = Rank(K, n) /\ Rank(K, m) \in Nat /\ Rank(K, n) \in Nat
    BY <1>1, <1>3, RankRange
  <2>2. ~(m < n) /\ ~(n < m)
    BY <2>1, RankOrder
  <2> QED
    BY <2>2
<1>4. R \in Injection(K, places)
  BY <1>2, <1>3 DEF Injection, IsInjective
<1>5. IsFiniteSet(places) /\ Cardinality(places) = Cardinality(K)
  BY <1>1, FS_Interval
<1>6. R \in Surjection(K, places)
  BY <1>4, <1>5, FS_Injection
<1> QED
  BY <1>6 DEF Surjection

(* What is copied line by line is the list of the lines copied.              *)
LEMMA ListsNothing ==
    ASSUME NEW lines PROVE Lists(<<>>, lines, {})
  BY FS_EmptySet DEF Lists

LEMMA ListsNextLine ==
    ASSUME NEW S, NEW list \in Seq(S), NEW lines, NEW m \in Nat \ {0}, NEW K \in SUBSET (1 .. m - 1),
           Lists(list, lines, K), lines[m] \in S
    PROVE  Lists(Append(list, lines[m]), lines, K \cup {m})
<1> DEFINE L == K \cup {m}
           longer == Append(list, lines[m])
<1>1. IsFiniteSet(1 .. m - 1)
  BY FS_Interval
<1>2. IsFiniteSet(K) /\ K \in SUBSET Nat /\ m \notin K
  <2>1. IsFiniteSet(K)
    BY <1>1, FS_Subset
  <2>2. \A l \in K : l \in Nat /\ l <= m - 1
    OBVIOUS
  <2> QED
    BY <2>1, <2>2
<1>3. IsFiniteSet(L) /\ Cardinality(L) = Cardinality(K) + 1 /\ Cardinality(K) \in Nat
  BY <1>2, FS_AddElement, FS_CardinalityType
<1>4. Len(list) = Cardinality(K)
  BY DEF Lists
<1>5. Len(longer) = Cardinality(L)
  BY <1>3, <1>4
<1>6. {l \in L : l <= m} = L
  <2>1. \A l \in L : l <= m
    OBVIOUS
  <2> QED
    BY <2>1
<1>7. longer[Rank(L, m)] = lines[m]
  <2>1. Rank(L, m) = Len(list) + 1
    BY <1>3, <1>4, <1>6 DEF Rank
  <2> QED
    BY <2>1
<1>8. ASSUME NEW n \in K PROVE longer[Rank(L, n)] = lines[n]
  <2>1. {l \in L : l <= n} = {l \in K : l <= n}
    OBVIOUS
  <2>2. Rank(L, n) = Rank(K, n)
    BY <2>1 DEF Rank
  <2>3. Rank(K, n) \in 1 .. Len(list)
    BY <1>2, <1>4, RankRange
  <2>4. longer[Rank(K, n)] = list[Rank(K, n)]
    BY <2>3
  <2> QED
    BY <2>2, <2>4 DEF Lists
<1> QED
  BY <1>5, <1>7, <1>8 DEF Lists

(* A list holds what its lines are, and nothing else.                        *)
LEMMA ListRange ==
    ASSUME NEW S, NEW list \in Seq(S), NEW lines, NEW K \in SUBSET Nat, IsFiniteSet(K),
           Lists(list, lines, K)
    PROVE  /\ \A x \in DOMAIN list : \E n \in K : list[x] = lines[n]
           /\ \A n \in K : \E x \in DOMAIN list : list[x] = lines[n]
<1>1. DOMAIN list = 1 .. Cardinality(K)
  BY DEF Lists
<1>2. ASSUME NEW x \in DOMAIN list PROVE \E n \in K : list[x] = lines[n]
  <2>1. PICK n \in K : Rank(K, n) = x
    BY <1>1, RankOnto
  <2> QED
    BY <2>1 DEF Lists
<1>3. ASSUME NEW n \in K PROVE \E x \in DOMAIN list : list[x] = lines[n]
  <2>1. Rank(K, n) \in DOMAIN list
    BY <1>1, RankRange
  <2> QED
    BY <2>1 DEF Lists
<1> QED
  BY <1>2, <1>3

(* Two sequences without repetition that have the same elements are equally  *)
(* long.                                                                     *)
LEMMA OnceSameLength ==
    ASSUME NEW S, NEW f \in Seq(S), NEW g \in Seq(S), Once(f), Once(g),
           {f[x] : x \in DOMAIN f} = {g[x] : x \in DOMAIN g}
    PROVE  Len(f) = Len(g)
<1>1. ASSUME NEW h \in Seq(S), Once(h)
      PROVE  Cardinality({h[x] : x \in DOMAIN h}) = Len(h)
  <2> DEFINE T == {h[x] : x \in 1 .. Len(h)}
             B == [x \in 1 .. Len(h) |-> h[x]]
  <2>1. Len(h) \in Nat /\ DOMAIN h = 1 .. Len(h)
    OBVIOUS
  <2>2. B \in Bijection(1 .. Len(h), T)
    BY <1>1, <2>1 DEF Once, Bijection, Injection, Surjection, IsInjective
  <2>3. ExistsBijection(1 .. Len(h), T)
    BY <2>2 DEF ExistsBijection
  <2>4. Cardinality(T) = Len(h)
    BY <2>1, <2>3, FS_CountingElements
  <2> QED
    BY <2>1, <2>4
<1> QED
  BY <1>1

------------------------------------------------------------------------------
(* How far the selection is: what the first m lines of the dat file have     *)
(* given to spectrometer s, and what is there once it is processed.          *)
Chosen(s, m) == {n \in 1 .. m : dat[n].kind = "event" /\ InTree(s, dat[n].id)}
Copied(s, m) == {n \in 1 .. m : dat[n].kind = "comment"} \cup Chosen(s, m)

Progress(s, m) ==
    /\ nSelectedEvents[s] = Cardinality(Chosen(s, m))
    /\ Lists(selected[s], dat, Copied(s, m))
    /\ Lists(plots[s].Q2, IdOfLine, Chosen(s, m))

Untouched(s) ==
    /\ selected[s] = <<>> /\ nSelectedEvents[s] = 0
    /\ plots[s] = NoPlots /\ output[s] = "none"

Missing(s) == h10[s] = <<>> \/ dat_access = "unreadable" \/ writable[s] = "no"

Result(s) ==
    /\ Missing(s) => Untouched(s)
    /\ ~Missing(s) =>
           /\ Progress(s, Len(dat))
           /\ plots[s].Q2_root = h10[s]
           /\ output[s] = IF nSelectedEvents[s] = 0 THEN "dat" ELSE "dat and pdf"

(* The spectrometers before the one at hand are done, those after it are not *)
(* begun, and its own lists hold the lines up to the one read next.          *)
ExactIInv ==
    /\ \A s \in Spectrometers : tree_access[s] = "none" => h10[s] = <<>>
    /\ \A n \in 1 .. Len(Specs) :
           /\ n < k => Result(Specs[n])
           /\ n > k => Untouched(Specs[n])
    /\ k <= Len(Specs) =>
           /\ pc \in {"ids", "open"} => Untouched(spec)
           /\ pc # "ids" => h10[spec] # <<>>
           /\ pc \in {"histograms", "lines"} => ~Missing(spec) /\ output[spec] = "dat"
           /\ pc = "histograms" => selected[spec] = <<>> /\ nSelectedEvents[spec] = 0 /\ i = 1
           /\ pc = "lines" => plots[spec].Q2_root = h10[spec] /\ Progress(spec, i - 1)

(* What is known of a spectrometer stays known while only others change.     *)
LEMMA ProgressKept ==
    ASSUME UNCHANGED inputs, NEW s, NEW m, selected'[s] = selected[s],
           nSelectedEvents'[s] = nSelectedEvents[s], plots'[s] = plots[s]
    PROVE  Progress(s, m) => Progress(s, m)'
<1>1. UNCHANGED <<dat, tree_access, h10>>
  BY DEF inputs
<1>2. Chosen(s, m)' = Chosen(s, m) /\ Copied(s, m)' = Copied(s, m)
  BY <1>1 DEF Chosen, Copied, InTree
<1> QED
  BY <1>1, <1>2 DEF Progress, Lists, IdOfLine

LEMMA OthersKept ==
    ASSUME UNCHANGED inputs, NEW s,
           selected'[s] = selected[s], nSelectedEvents'[s] = nSelectedEvents[s],
           plots'[s] = plots[s], output'[s] = output[s]
    PROVE  /\ Result(s) => Result(s)'
           /\ Untouched(s) => Untouched(s)'
           /\ Missing(s)' <=> Missing(s)
<1>1. UNCHANGED <<dat, dat_access, tree_access, h10, writable>>
  BY DEF inputs
<1>3. \A m : Progress(s, m) => Progress(s, m)'
  BY ProgressKept
<1>4. Untouched(s) => Untouched(s)'
  BY DEF Untouched
<1>5. Missing(s)' <=> Missing(s)
  BY <1>1 DEF Missing
<1>6. Result(s) => Result(s)'
  BY <1>1, <1>3, <1>4, <1>5 DEF Result
<1> QED
  BY <1>4, <1>5, <1>6

(* The next line, when it is chosen, copied or neither.                      *)
LEMMA NextLine ==
    ASSUME NEW s, NEW m \in 1 .. Len(dat)
    PROVE  /\ Chosen(s, m) = IF dat[m].kind = "event" /\ InTree(s, dat[m].id)
                             THEN Chosen(s, m - 1) \cup {m} ELSE Chosen(s, m - 1)
           /\ Copied(s, m) = IF \/ dat[m].kind = "comment"
                                \/ dat[m].kind = "event" /\ InTree(s, dat[m].id)
                             THEN Copied(s, m - 1) \cup {m} ELSE Copied(s, m - 1)
           /\ Chosen(s, m - 1) \in SUBSET (1 .. m - 1) /\ Copied(s, m - 1) \in SUBSET (1 .. m - 1)
<1>1. 1 .. m = (1 .. m - 1) \cup {m}
  OBVIOUS
<1> QED
  BY <1>1 DEF Chosen, Copied

LEMMA SelectedIsInTree ==
    ASSUME SelectAssumption, TypeOK, IdsAreOwn, NEW line \in Lines,
           k <= Len(Specs), pc # "ids"
    PROVE  IsSelected(line) <=> line.kind = "event" /\ InTree(spec, line.id)
<1>1. IsSelected(line) => line.kind = "event" /\ InTree(spec, line.id)
  BY AcceptedIsInTree DEF IsSelected
<1>2. line.kind = "event" /\ InTree(spec, line.id) => IsSelected(line)
  BY DEF IsSelected, InTree, IdsAreOwn, IdsOf
<1> QED
  BY <1>1, <1>2

LEMMA ReadLineProgress ==
    ASSUME SelectAssumption, TypeOK, IdsAreOwn, ReadLine,
           NEW s \in Spectrometers, s = spec, NEW m, m = i, Progress(s, m - 1)
    PROVE  Progress(s, m)' /\ plots'[s].Q2_root = plots[s].Q2_root
<1> DEFINE chosen == Chosen(s, m - 1)
           copied == Copied(s, m - 1)
           isChosen == dat[m].kind = "event" /\ InTree(s, dat[m].id)
           isCopied == dat[m].kind = "comment" \/ isChosen
<1>1. /\ k <= Len(Specs) /\ pc = "lines" /\ m \in 1 .. Len(dat) /\ m \in Nat \ {0}
      /\ dat[m] \in Lines /\ m \in DOMAIN dat
  <2>1. /\ k <= Len(Specs) /\ pc = "lines" /\ m \in 1 .. Len(dat) /\ m \in Nat \ {0}
    BY SequenceFacts DEF ReadLine
  <2>2. dat \in Seq(Lines)
    BY DEF TypeOK
  <2> QED
    BY <2>1, <2>2
<1>2. UNCHANGED <<dat, tree_access, h10>>
  BY DEF ReadLine, inputs
<1>3. IsSelected(dat[m]) <=> isChosen
  BY <1>1, SelectedIsInTree
<1>4. /\ chosen \in SUBSET (1 .. m - 1) /\ copied \in SUBSET (1 .. m - 1)
      /\ Chosen(s, m) = IF isChosen THEN chosen \cup {m} ELSE chosen
      /\ Copied(s, m) = IF isCopied THEN copied \cup {m} ELSE copied
  BY <1>1, NextLine
<1>5. Chosen(s, m)' = Chosen(s, m) /\ Copied(s, m)' = Copied(s, m)
  BY <1>2 DEF Chosen, Copied, InTree
<1>6. IdOfLine' = IdOfLine /\ IdOfLine[m] = dat[m].id
  BY <1>1, <1>2 DEF IdOfLine
<1>7. /\ selected[s] \in Seq(Lines) /\ plots[s].Q2 \in Seq(Ids)
      /\ nSelectedEvents[s] \in Nat
  <2>1. plots[s] \in [Q2 : Seq(Ids), Q2_root : Seq(Ids)]
    BY DEF TypeOK
  <2> QED
    BY <2>1 DEF TypeOK
<1>8. /\ Lists(selected[s], dat, copied) /\ Lists(plots[s].Q2, IdOfLine, chosen)
      /\ nSelectedEvents[s] = Cardinality(chosen)
  BY DEF Progress
<1>9. Lists(selected'[s], dat, Copied(s, m))
  <2>1. selected'[s] = IF isCopied THEN Append(selected[s], dat[m]) ELSE selected[s]
    BY <1>3 DEF ReadLine, IsCopied, TypeOK
  <2>2. CASE isCopied
    <3>1. Lists(Append(selected[s], dat[m]), dat, copied \cup {m})
      BY <1>1, <1>4, <1>7, <1>8, ListsNextLine
    <3> QED
      BY <1>4, <2>1, <2>2, <3>1
  <2>3. CASE ~isCopied
    BY <1>4, <1>8, <2>1, <2>3
  <2> QED
    BY <2>2, <2>3
<1>10. /\ plots'[s].Q2 = IF isChosen THEN Append(plots[s].Q2, dat[m].id) ELSE plots[s].Q2
       /\ plots'[s].Q2_root = plots[s].Q2_root
  <2>1. plots'[s] = Filled(plots[s], dat[m])
    BY DEF ReadLine, TypeOK
  <2>2. plots[s] \in [Q2 : Seq(Ids), Q2_root : Seq(Ids)]
    BY DEF TypeOK
  <2> QED
    BY <1>3, <2>1, <2>2 DEF Filled
<1>11. Lists(plots'[s].Q2, IdOfLine, Chosen(s, m))
  <2>1. CASE isChosen
    <3>1. dat[m].id \in Ids
      BY <1>1, <1>3, <2>1, SelectedId
    <3>2. Lists(Append(plots[s].Q2, IdOfLine[m]), IdOfLine, chosen \cup {m})
      BY <1>1, <1>4, <1>6, <1>7, <1>8, <3>1, ListsNextLine
    <3> QED
      BY <1>4, <1>6, <1>10, <2>1, <3>2
  <2>2. CASE ~isChosen
    BY <1>4, <1>8, <1>10, <2>2
  <2> QED
    BY <2>1, <2>2
<1>12. nSelectedEvents'[s] = Cardinality(Chosen(s, m))
  <2>1. nSelectedEvents'[s] = IF isChosen THEN nSelectedEvents[s] + 1 ELSE nSelectedEvents[s]
    BY <1>3 DEF ReadLine, TypeOK
  <2>2. IsFiniteSet(chosen) /\ m \notin chosen
    <3>1. IsFiniteSet(1 .. m - 1) /\ m \notin 1 .. m - 1
      BY <1>1, FS_Interval
    <3> QED
      BY <1>4, <3>1, FS_Subset
  <2>3. Cardinality(chosen \cup {m}) = Cardinality(chosen) + 1
    BY <2>2, FS_AddElement
  <2> QED
    BY <1>4, <1>8, <2>1, <2>3
<1>13. Progress(s, m)'
  <2>1. /\ Lists(selected'[s], dat', Copied(s, m)') /\ Lists(plots'[s].Q2, IdOfLine', Chosen(s, m)')
        /\ nSelectedEvents'[s] = Cardinality(Chosen(s, m)')
    BY <1>2, <1>5, <1>6, <1>9, <1>11, <1>12
  <2> QED
    BY <2>1 DEF Progress, Lists
<1> QED
  BY <1>10, <1>13

LEMMA ExactStep ==
    ASSUME SelectAssumption, TypeOK, IdsAreOwn, ExactIInv, [Next]_vars
    PROVE  ExactIInv'
<1> USE DEF inputs
<1>1. CASE UNCHANGED vars
  <2>1. UNCHANGED <<dat, dat_access, tree_access, h10, writable, k, pc, i, selected,
                    nSelectedEvents, plots, output>>
    BY <1>1 DEF vars
  <2>2. spec' = spec
    BY <2>1 DEF spec
  <2>3. \A s : /\ Result(s) => Result(s)'
               /\ Untouched(s) => Untouched(s)'
               /\ Missing(s)' <=> Missing(s)
    BY <2>1, OthersKept
  <2>4. \A s : Progress(s, i - 1) => Progress(s, i - 1)'
    <3> SUFFICES ASSUME NEW s, NEW m, m = i, Progress(s, m - 1) PROVE Progress(s, m - 1)'
      BY <2>1
    <3> QED
      BY <2>1, ProgressKept
  <2>5. ASSUME k <= Len(Specs), NEW s, s = spec
        PROVE  /\ pc' \in {"ids", "open"} => Untouched(s)'
               /\ pc' # "ids" => h10'[s] # <<>>
               /\ pc' \in {"histograms", "lines"} => ~Missing(s)' /\ output'[s] = "dat"
               /\ pc' = "histograms" => selected'[s] = <<>> /\ nSelectedEvents'[s] = 0 /\ i' = 1
               /\ pc' = "lines" => plots'[s].Q2_root = h10'[s] /\ Progress(s, i - 1)'
    BY <2>1, <2>3, <2>4, <2>5 DEF ExactIInv
  <2>6. \A n \in 1 .. Len(Specs) : /\ n < k' => Result(Specs[n])'
                                   /\ n > k' => Untouched(Specs[n])'
    BY <2>1, <2>3 DEF ExactIInv
  <2>7. \A s \in Spectrometers : tree_access'[s] = "none" => h10'[s] = <<>>
    BY <2>1 DEF ExactIInv
  <2>8. PICK s : s = spec
    OBVIOUS
  <2> QED
    BY <2>1, <2>2, <2>5, <2>6, <2>7, <2>8 DEF ExactIInv
<1>2. ASSUME k <= Len(Specs), UNCHANGED inputs,
             ReadAcceptedIDs \/ OpenFiles \/ FillRootKinematicsHistograms
                 \/ ReadLine \/ EndOfDat
      PROVE  ExactIInv'
  <2>1. PICK s \in Spectrometers : s = spec
    BY <1>2, SpecIsSpectrometer, SequenceFacts
  <2>2. /\ Len(Specs) \in Nat /\ k \in 1 .. Len(Specs) /\ i \in 1 .. Len(dat) + 1
        /\ Len(dat) \in Nat
    BY <1>2, SequenceFacts
  <2>3. \A n \in 1 .. Len(Specs) : n # k => Specs[n] # s
    <3>1. DOMAIN Specs = 1 .. Len(Specs)
      BY DEF SelectAssumption
    <3> QED
      BY <2>1, <2>2, <3>1 DEF SelectAssumption, spec
  <2>4. \A n \in 1 .. Len(Specs) : Specs[n] \in Spectrometers
    <3>1. DOMAIN Specs = 1 .. Len(Specs)
      BY DEF SelectAssumption
    <3> QED
      BY <3>1 DEF Spectrometers
  (* The other spectrometers.                                                *)
  <2>5. ASSUME NEW t \in Spectrometers, t # s
        PROVE  /\ selected'[t] = selected[t] /\ nSelectedEvents'[t] = nSelectedEvents[t]
               /\ plots'[t] = plots[t] /\ output'[t] = output[t]
    BY <1>2, <2>1, <2>5 DEF ReadAcceptedIDs, OpenFiles, FillRootKinematicsHistograms, ReadLine,
                            EndOfDat, TypeOK
  <2>6. \A n \in 1 .. Len(Specs) : n # k => /\ Result(Specs[n]) => Result(Specs[n])'
                                            /\ Untouched(Specs[n]) => Untouched(Specs[n])'
    <3>1. ASSUME NEW t \in Spectrometers, t # s
          PROVE  (Result(t) => Result(t)') /\ (Untouched(t) => Untouched(t)')
      BY <1>2, <2>5, <3>1, OthersKept
    <3> QED
      BY <2>3, <2>4, <3>1
  <2>7. \A x \in Spectrometers : tree_access'[x] = "none" => h10'[x] = <<>>
    BY <1>2 DEF ExactIInv
  <2>8. Missing(s)' <=> Missing(s)
    BY <1>2 DEF Missing
  (* The spectrometer at hand stays it, or is done.                          *)
  <2>9. ASSUME k' = k, spec' = s,
               /\ pc' \in {"ids", "open"} => Untouched(s)'
               /\ pc' # "ids" => h10'[s] # <<>>
               /\ pc' \in {"histograms", "lines"} => ~Missing(s)' /\ output'[s] = "dat"
               /\ pc' = "histograms" => selected'[s] = <<>> /\ nSelectedEvents'[s] = 0 /\ i' = 1
               /\ pc' = "lines" => plots'[s].Q2_root = h10'[s] /\ \E m : m = i' /\ Progress(s, m - 1)'
        PROVE  ExactIInv'
    <3>1. \A n \in 1 .. Len(Specs) : /\ n < k' => Result(Specs[n])'
                                     /\ n > k' => Untouched(Specs[n])'
      BY <2>2, <2>6, <2>9 DEF ExactIInv
    <3>2. pc' = "lines" => Progress(s, i - 1)'
      BY <2>9
    <3> QED
      BY <2>7, <2>9, <3>1, <3>2 DEF ExactIInv
  <2>10. ASSUME k' = k + 1, pc' = "ids", Result(s)'
         PROVE  ExactIInv'
    <3>1. ASSUME NEW n \in 1 .. Len(Specs), n < k' PROVE Result(Specs[n])'
      <4>1. CASE n = k
        BY <2>1, <2>10, <4>1 DEF spec
      <4>2. CASE n # k
        BY <2>2, <2>6, <2>10, <3>1, <4>2 DEF ExactIInv
      <4> QED
        BY <4>1, <4>2
    <3>2. ASSUME NEW n \in 1 .. Len(Specs), n >= k' PROVE Untouched(Specs[n])'
      BY <2>2, <2>6, <2>10, <3>2 DEF ExactIInv
    <3>3. k' <= Len(Specs) => Untouched(spec)'
      <4>1. SUFFICES ASSUME NEW n \in 1 .. Len(Specs), n = k + 1
                     PROVE  Untouched(Specs[n])'
        BY <2>2, <2>10 DEF spec, Untouched
      <4> QED
        BY <2>10, <3>2, <4>1
    <3> QED
      BY <2>2, <2>7, <2>10, <3>1, <3>2, <3>3 DEF ExactIInv
  <2>11. k' = k => spec' = s
    BY <2>1 DEF spec
  <2>12. CASE ReadAcceptedIDs
    <3>1. Untouched(s) /\ Untouched(s)'
      BY <1>2, <2>1, <2>12 DEF ReadAcceptedIDs, ExactIInv, Untouched
    <3>2. IdsOf(s) = {} <=> h10[s] = <<>>
      <4>1. h10[s] \in Seq(Ids)
        BY <2>1, SequenceFacts
      <4>2. h10[s] = <<>> <=> DOMAIN h10[s] = {}
        <5>1. Len(h10[s]) \in Nat /\ DOMAIN h10[s] = 1 .. Len(h10[s])
          BY <4>1
        <5>2. h10[s] = <<>> <=> Len(h10[s]) = 0
          BY <4>1
        <5> QED
          BY <5>1, <5>2
      <4> QED
        BY <4>2 DEF IdsOf
    <3>3. CASE tree_access[spec] # "none" /\ acceptedIDs' # {}
      <4>1. pc' = "open" /\ k' = k /\ h10'[s] # <<>>
        BY <2>1, <2>12, <3>2, <3>3 DEF ReadAcceptedIDs
      <4> QED
        BY <2>9, <2>11, <3>1, <4>1
    <3>4. CASE ~(tree_access[spec] # "none" /\ acceptedIDs' # {})
      <4>1. pc' = "ids" /\ k' = k + 1
        BY <2>12, <3>4 DEF ReadAcceptedIDs, Return
      <4>2. h10[s] = <<>>
        BY <2>1, <2>12, <3>2, <3>4 DEF ReadAcceptedIDs, ExactIInv
      <4>3. Missing(s)' /\ Missing(s)
        BY <2>8, <4>2 DEF Missing
      <4>4. Result(s)'
        BY <3>1, <4>3 DEF Result
      <4> QED
        BY <2>10, <4>1, <4>4
    <3> QED
      BY <3>3, <3>4
  <2>13. CASE OpenFiles
    <3>1. Untouched(s) /\ h10[s] # <<>> /\ h10'[s] # <<>> /\ pc = "open"
      BY <1>2, <2>1, <2>13 DEF OpenFiles, ExactIInv
    <3>2. CASE dat_access = "readable" /\ writable[spec] = "yes"
      <4>1. /\ k' = k /\ pc' = "histograms" /\ i' = 1 /\ output'[s] = "dat"
            /\ selected'[s] = <<>> /\ nSelectedEvents'[s] = 0
        BY <2>1, <2>13, <3>1, <3>2 DEF OpenFiles, Untouched, TypeOK
      <4>2. ~Missing(s)'
        BY <2>1, <2>8, <3>1, <3>2 DEF Missing
      <4> QED
        BY <2>9, <2>11, <3>1, <4>1, <4>2
    <3>3. CASE ~(dat_access = "readable" /\ writable[spec] = "yes")
      <4>1. pc' = "ids" /\ k' = k + 1 /\ Untouched(s)'
        BY <2>13, <3>1, <3>3 DEF OpenFiles, Return, Untouched
      <4>2. dat_access = "unreadable" \/ writable[s] = "no"
        BY <2>1, <3>3 DEF TypeOK
      <4>3. Missing(s)'
        BY <2>8, <4>2 DEF Missing
      <4> QED
        BY <2>10, <4>1, <4>3 DEF Result
    <3> QED
      BY <3>2, <3>3
  <2>14. CASE FillRootKinematicsHistograms
    <3>1. /\ ~Missing(s) /\ output[s] = "dat" /\ h10[s] # <<>>
          /\ selected[s] = <<>> /\ nSelectedEvents[s] = 0 /\ i = 1
      BY <1>2, <2>1, <2>14 DEF FillRootKinematicsHistograms, ExactIInv
    <3>2. /\ k' = k /\ pc' = "lines" /\ i' = 1 /\ output'[s] = "dat" /\ h10'[s] # <<>>
          /\ selected'[s] = <<>> /\ nSelectedEvents'[s] = 0
          /\ plots'[s] = [NoPlots EXCEPT !.Q2_root = h10[s]]
      BY <2>1, <2>14, <3>1 DEF FillRootKinematicsHistograms, TypeOK
    <3>3. plots'[s].Q2 = <<>> /\ plots'[s].Q2_root = h10'[s]
      BY <2>14, <3>2 DEF NoPlots, FillRootKinematicsHistograms
    <3>4. Progress(s, 0)'
      <4>1. Chosen(s, 0)' = {} /\ Copied(s, 0)' = {}
        BY DEF Chosen, Copied
      <4>2. Lists(<<>>, dat', {}) /\ Lists(<<>>, IdOfLine', {}) /\ Cardinality({}) = 0
        BY ListsNothing, FS_EmptySet
      <4> QED
        BY <3>2, <3>3, <4>1, <4>2 DEF Progress, Lists
    <3>5. \E m : m = i' /\ Progress(s, m - 1)'
      <4>1. 1 = i' /\ Progress(s, 1 - 1)'
        BY <3>2, <3>4 DEF Progress, Chosen, Copied
      <4> QED
        BY <4>1
    <3> QED
      BY <2>8, <2>9, <2>11, <3>1, <3>2, <3>3, <3>5
  <2>15. CASE ReadLine
    <3>1. /\ ~Missing(s) /\ output[s] = "dat" /\ h10[s] # <<>>
          /\ plots[s].Q2_root = h10[s] /\ Progress(s, i - 1)
      BY <1>2, <2>1, <2>15 DEF ReadLine, ExactIInv
    <3>2. PICK m : m = i
      OBVIOUS
    <3>3. Progress(s, m - 1)
      BY <3>1, <3>2
    <3>4. Progress(s, m)' /\ plots'[s].Q2_root = plots[s].Q2_root
      BY <2>1, <2>15, <3>2, <3>3, ReadLineProgress
    <3>5. \E l : l = i' /\ Progress(s, l - 1)'
      <4>1. m + 1 = i' /\ (m + 1) - 1 = m
        BY <2>2, <2>15, <3>2 DEF ReadLine
      <4>2. Progress(s, (m + 1) - 1)'
        BY <3>4, <4>1
      <4> QED
        BY <4>1, <4>2
    <3>6. k' = k /\ pc' = "lines" /\ output'[s] = "dat" /\ h10' = h10
      BY <2>15, <3>1 DEF ReadLine
    <3> QED
      BY <2>8, <2>9, <2>11, <3>1, <3>4, <3>5, <3>6
  <2>16. CASE EndOfDat
    <3>1. /\ ~Missing(s) /\ output[s] = "dat"
          /\ plots[s].Q2_root = h10[s] /\ Progress(s, i - 1)
      BY <1>2, <2>1, <2>16 DEF EndOfDat, ExactIInv
    <3>2. i - 1 = Len(dat)
      <4>1. i > Len(dat)
        BY <2>16 DEF EndOfDat
      <4> QED
        BY <2>2, <4>1
    <3>3. /\ k' = k + 1 /\ pc' = "ids" /\ selected' = selected /\ plots' = plots
          /\ nSelectedEvents' = nSelectedEvents /\ dat' = dat /\ h10' = h10
          /\ tree_access' = tree_access
          /\ output'[s] = IF nSelectedEvents[s] = 0 THEN "dat" ELSE "dat and pdf"
      BY <2>1, <2>16, <3>1 DEF EndOfDat, Return, TypeOK
    <3>4. Progress(s, Len(dat))
      BY <3>1, <3>2
    <3>5. Progress(s, Len(dat))'
      <4> SUFFICES ASSUME NEW m, m = Len(dat), Progress(s, m) PROVE Progress(s, m)'
        BY <3>3, <3>4
      <4> QED
        BY <1>2, <3>3, ProgressKept
    <3>6. Result(s)'
      BY <2>8, <3>1, <3>3, <3>5 DEF Result
    <3> QED
      BY <2>10, <3>3, <3>6
  <2> QED
    BY <1>2, <2>12, <2>13, <2>14, <2>15, <2>16
<1> QED
  BY <1>1, <1>2 DEF Next, Terminated, ReadAcceptedIDs, OpenFiles,
                    FillRootKinematicsHistograms, ReadLine, EndOfDat

LEMMA ExactInit == ASSUME SelectAssumption, Init PROVE ExactIInv
<1>1. k = 1 /\ pc = "ids" /\ \A s \in Spectrometers : Untouched(s)
  BY DEF Init, Start, Untouched
<1>2. \A n \in 1 .. Len(Specs) : Specs[n] \in Spectrometers
  <2>1. DOMAIN Specs = 1 .. Len(Specs)
    BY DEF SelectAssumption
  <2> QED
    BY <2>1 DEF Spectrometers
<1>3. Len(Specs) \in Nat
  BY DEF SelectAssumption
<1>4. 1 <= Len(Specs) => Untouched(spec)
  BY <1>1, <1>2, <1>3 DEF spec
<1> QED
  BY <1>1, <1>2, <1>3, <1>4 DEF ExactIInv, Init, Inputs

(* What the invariant says of a processed spectrometer is what the property  *)
(* says: the places and the sets of lines are the same.                      *)
LEMMA ResultIsExact ==
    ASSUME SelectAssumption, TypeOK, NEW s \in Spectrometers, Result(s),
           tree_access[s] = "none" => h10[s] = <<>>
    PROVE  /\ output[s] = "none" <=> Missing(s)
           /\ output[s] # "none" =>
                  /\ Lists(selected[s], dat, Comments \cup EventsOf(s))
                  /\ output[s] = "dat and pdf" <=> EventsOf(s) # {}
           /\ output[s] = "dat and pdf" =>
                  /\ Lists(plots[s].Q2, IdOfLine, EventsOf(s))
                  /\ plots[s].Q2_root = h10[s]
                  /\ /\ Once(h10[s]) /\ Once(plots[s].Q2)
                     /\ \A n \in DOMAIN h10[s] : \E l \in DOMAIN dat : dat[l].id = h10[s][n]
                     => SameEvents(plots[s].Q2, plots[s].Q2_root)
<1>1. dat \in Seq(Lines) /\ Len(dat) \in Nat /\ DOMAIN dat = 1 .. Len(dat)
  <2>1. dat \in Seq(Lines)
    BY DEF TypeOK
  <2> QED
    BY <2>1
<1>2. EventsOf(s) = Chosen(s, Len(dat))
  BY <1>1 DEF EventsOf, Chosen
<1>3. Comments \cup EventsOf(s) = Copied(s, Len(dat))
  BY <1>1, <1>2 DEF Comments, Copied
<1>4. IsFiniteSet(EventsOf(s)) /\ EventsOf(s) \in SUBSET Nat
  <2>1. IsFiniteSet(1 .. Len(dat)) /\ EventsOf(s) \in SUBSET (1 .. Len(dat))
    BY <1>1, FS_Interval DEF EventsOf
  <2> QED
    BY <1>1, <2>1, FS_Subset
<1>5. output[s] = "none" <=> Missing(s)
  BY DEF Result, Untouched
<1>6. ASSUME ~Missing(s)
      PROVE  /\ Lists(selected[s], dat, Comments \cup EventsOf(s))
             /\ Lists(plots[s].Q2, IdOfLine, EventsOf(s))
             /\ plots[s].Q2_root = h10[s]
             /\ output[s] = "dat and pdf" <=> EventsOf(s) # {}
  <2>1. /\ nSelectedEvents[s] = Cardinality(EventsOf(s))
        /\ Lists(selected[s], dat, Comments \cup EventsOf(s))
        /\ Lists(plots[s].Q2, IdOfLine, EventsOf(s))
    BY <1>2, <1>3, <1>6 DEF Result, Progress
  <2>2. Cardinality(EventsOf(s)) = 0 <=> EventsOf(s) = {}
    BY <1>4, FS_EmptySet
  <2>3. output[s] = IF nSelectedEvents[s] = 0 THEN "dat" ELSE "dat and pdf"
    BY <1>6 DEF Result
  <2>4. plots[s].Q2_root = h10[s]
    BY <1>6 DEF Result
  <2> QED
    BY <2>1, <2>2, <2>3, <2>4
<1>7. ASSUME ~Missing(s), Once(h10[s]), Once(plots[s].Q2), EventsOf(s) # {},
             \A n \in DOMAIN h10[s] : \E l \in DOMAIN dat : dat[l].id = h10[s][n]
      PROVE  SameEvents(plots[s].Q2, h10[s])
  <2>0. PICK Q2 : Q2 = plots[s].Q2
    OBVIOUS
  <2> DEFINE drawn == {Q2[x] : x \in DOMAIN Q2}
             inTree == {h10[s][x] : x \in DOMAIN h10[s]}
  <2>1. Q2 \in Seq(Ids) /\ h10[s] \in Seq(Ids)
    <3>1. plots[s] \in [Q2 : Seq(Ids), Q2_root : Seq(Ids)] /\ h10[s] \in Seq(Ids)
      BY DEF TypeOK
    <3> QED
      BY <2>0, <3>1
  <2>2. /\ \A x \in DOMAIN Q2 : \E n \in EventsOf(s) : Q2[x] = IdOfLine[n]
        /\ \A n \in EventsOf(s) : \E x \in DOMAIN Q2 : Q2[x] = IdOfLine[n]
    <3>1. Lists(Q2, IdOfLine, EventsOf(s))
      BY <1>6, <1>7, <2>0
    <3>2. PICK L, K : L = IdOfLine /\ K = EventsOf(s)
      OBVIOUS
    <3>3. Q2 \in Seq(Ids) /\ K \in SUBSET Nat /\ IsFiniteSet(K) /\ Lists(Q2, L, K)
      BY <1>4, <2>1, <3>1, <3>2
    <3>4. /\ \A x \in DOMAIN Q2 : \E n \in K : Q2[x] = L[n]
          /\ \A n \in K : \E x \in DOMAIN Q2 : Q2[x] = L[n]
      BY <3>3, ListRange
    <3> QED
      BY <3>2, <3>4
  <2>3. tree_access[s] = "full"
    BY <1>7 DEF EventsOf, InTree
  <2>4. ASSUME NEW n \in EventsOf(s) PROVE IdOfLine[n] \in inTree
    BY <2>4 DEF EventsOf, IdOfLine, InTree
  <2>5. ASSUME NEW x \in DOMAIN h10[s] PROVE \E n \in EventsOf(s) : h10[s][x] = IdOfLine[n]
    <3>1. PICK l \in DOMAIN dat : dat[l].id = h10[s][x]
      BY <1>7
    <3>2. dat[l] \in Lines /\ dat[l].id \in Ids /\ dat[l].id \in Nat
      <4>1. h10[s][x] \in Ids /\ Ids \subseteq Nat
        BY <2>1 DEF SelectAssumption
      <4>2. dat[l] \in Lines
        BY <1>1
      <4> QED
        BY <3>1, <4>1, <4>2
    <3>3. dat[l].kind = "event"
      BY <3>2 DEF Lines, Line, NoId
    <3>4. l \in EventsOf(s)
      BY <2>3, <3>1, <3>3 DEF EventsOf, InTree
    <3> QED
      BY <3>1, <3>4 DEF IdOfLine
  <2>6. drawn = inTree
    BY <2>2, <2>4, <2>5
  <2>7. Len(Q2) = Len(h10[s])
    BY <1>7, <2>0, <2>1, <2>6, OnceSameLength
  <2> QED
    BY <2>0, <2>6, <2>7 DEF SameEvents
<1> QED
  BY <1>5, <1>6, <1>7

IInv == TypeOK /\ IdsAreOwn /\ OnlyOwnLines /\ ExactIInv

LEMMA InitIInv == ASSUME SelectAssumption, Init PROVE IInv
<1>1. TypeOK  BY InitType
<1>2. IdsAreOwn  BY DEF Init, Start, IdsAreOwn
<1>3. \A s \in Spectrometers : selected[s] = <<>>  BY DEF Init, Start
<1>4. OnlyOwnLines  BY <1>3 DEF OnlyOwnLines
<1> QED  BY <1>1, <1>2, <1>4, ExactInit DEF IInv

LEMMA StepIInv == ASSUME SelectAssumption, IInv, [Next]_vars PROVE IInv'
  BY NextType, OwnNext, ExactStep DEF IInv

LEMMA InvariantIsExact == ASSUME SelectAssumption, IInv PROVE SelectionIsExact
<1> SUFFICES ASSUME TypeOK, ExactIInv, NEW s \in Processed
             PROVE  /\ s \in Spectrometers /\ Result(s)
                    /\ tree_access[s] = "none" => h10[s] = <<>>
  BY ResultIsExact DEF IInv, SelectionIsExact, Missing
<1>1. PICK n \in 1 .. k - 1 : s = Specs[n]
  BY DEF Processed
<1>2. Len(Specs) \in Nat /\ DOMAIN Specs = 1 .. Len(Specs)
  BY DEF SelectAssumption
<1>3. n \in 1 .. Len(Specs) /\ n < k
  BY <1>1, <1>2, SequenceFacts
<1>4. s \in Spectrometers
  BY <1>1, <1>2, <1>3 DEF Spectrometers
<1> QED
  BY <1>1, <1>3, <1>4 DEF ExactIInv

(* The selected dat file of each spectrometer has the comments and the lines *)
(* of the events of its own tree, all of them in their order, for any number *)
(* of spectrometers, any dat file and any trees; no line is read for the     *)
(* second with the ids or the plots of the first.                            *)
THEOREM SelectionExact ==
    ASSUME SelectAssumption PROVE Spec => []SelectionIsExact
  BY InvariantIsExact, InitIInv, StepIInv, PTL DEF Spec
==============================================================================
