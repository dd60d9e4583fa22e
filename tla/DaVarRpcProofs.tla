---------------------------- MODULE DaVarRpcProofs ----------------------------
(***************************************************************************)
(* Proofs about DaVarRpc, for any names, classes and storage sizes that    *)
(* RpcAssumption and PlainNames allow, and any number of requests.         *)
(*                                                                         *)
(* The inductive invariant IInv says of each record in the system (a       *)
(* request being made, a request on its way, a reply on its way, the       *)
(* server's transaction, the client's state) which call it belongs to and  *)
(* what it holds; the theorems at the end read the properties from it.     *)
(***************************************************************************)
EXTENDS DaVarRpc, SequenceTheorems, NaturalsInduction, WellFoundedInduction, TLAPS

-----------------------------------------------------------------------------
(* Induction over numbers, as a fact about sets, and the functions defined by *)
(* recursion it gives.                                                       *)

\* A nonempty set of numbers has a least member.
LEMMA Least ==
    ASSUME NEW S \in SUBSET Nat, S # {}
    PROVE  \E x \in S : \A y \in S : x <= y
<1>1. PICK x \in S : \A y \in S : ~(<<y, x>> \in OpToRel(<, Nat))
    BY NatLessThanWellFounded, WFMin
<1>2. ASSUME NEW y \in S PROVE x <= y
    <2>1. ~(<<y, x>> \in OpToRel(<, Nat))
        BY <1>1
    <2>2. ~(y < x)
        BY <2>1 DEF OpToRel
    <2> QED BY <2>2
<1> QED
    BY <1>2

\* A set with 0 and with the successor of each of its numbers has all numbers.
LEMMA Induct ==
    ASSUME NEW S, 0 \in S, \A n \in Nat : n \in S => n + 1 \in S
    PROVE  Nat \subseteq S
<1> DEFINE T == Nat \ S
<1> SUFFICES ASSUME T # {} PROVE FALSE
    OBVIOUS
<1>1. PICK x \in T : \A y \in T : x <= y
    <2> HIDE DEF T
    <2> QED BY Least, T \subseteq Nat DEF T
<1>2. x \in Nat /\ x \notin S
    OBVIOUS
<1>3. x # 0 /\ x - 1 \in Nat
    BY <1>2
<1>4. x - 1 \in T
    BY <1>2, <1>3, (x - 1) + 1 = x
<1> QED
    BY <1>1, <1>2, <1>3, <1>4

\* What holds at the start and from each place to the next holds at every place.
LEMMA InductTo ==
    ASSUME NEW n \in Nat, NEW S, 0 \in S, \A k \in 0 .. n - 1 : k \in S => k + 1 \in S
    PROVE  \A k \in 0 .. n : k \in S
<1> DEFINE T == {k \in Nat : k \in 0 .. n => k \in S}
<1>1. 0 \in T
    OBVIOUS
<1>2. ASSUME NEW k \in Nat, k \in T PROVE k + 1 \in T
    BY <1>2
<1>3. Nat \subseteq T
    <2> HIDE DEF T
    <2> QED BY <1>1, <1>2, Induct
<1> QED
    BY <1>3

\* A function may be defined by its first value and the step to each next one.
Follows(f, n, a, step) == f[0] = a /\ \A k \in 1 .. n : f[k] = step[k][f[k - 1]]

LEMMA Recursion ==
    ASSUME NEW n \in Nat, NEW A, NEW a \in A, NEW step \in [1 .. n -> [A -> A]]
    PROVE  \E f \in [0 .. n -> A] : Follows(f, n, a, step)
<1> DEFINE P(m) == \E f \in [0 .. m -> A] :
               f[0] = a /\ \A k \in 1 .. m : f[k] = step[k][f[k - 1]]
           S == {m \in 0 .. n : P(m)}
<1>1. 0 \in S
    <2> DEFINE f == [k \in 0 .. 0 |-> a]
    <2>1. f \in [0 .. 0 -> A] /\ f[0] = a /\ \A k \in 1 .. 0 : f[k] = step[k][f[k - 1]]
        OBVIOUS
    <2>2. P(0)
        <3> HIDE DEF f
        <3> QED BY <2>1
    <2> HIDE DEF P
    <2> QED BY <2>2
<1>2. ASSUME NEW m \in 0 .. n - 1, m \in S PROVE m + 1 \in S
    <2>1. PICK f \in [0 .. m -> A] :
               f[0] = a /\ \A k \in 1 .. m : f[k] = step[k][f[k - 1]]
        BY <1>2
    <2> DEFINE g == [k \in 0 .. m + 1 |-> IF k = m + 1 THEN step[m + 1][f[m]] ELSE f[k]]
    <2>2. m + 1 \in 1 .. n /\ m \in 0 .. m /\ m \in Nat
        OBVIOUS
    <2>3. step[m + 1][f[m]] \in A
        BY <2>1, <2>2
    <2>4. g \in [0 .. m + 1 -> A]
        BY <2>1, <2>3
    <2>5. ASSUME NEW k \in 1 .. m + 1 PROVE g[k] = step[k][g[k - 1]]
        <3>1. CASE k = m + 1
            <4>1. m \in 0 .. m + 1 /\ m # m + 1 /\ k - 1 = m
                BY <2>2, <3>1
            <4> QED BY <3>1, <4>1
        <3>2. CASE k # m + 1
            <4>1. k \in 1 .. m /\ k - 1 \in 0 .. m /\ k - 1 # m + 1 /\ k - 1 \in 0 .. m + 1
                BY <2>2, <3>2
            <4> QED BY <2>1, <3>2, <4>1
        <3> QED BY <3>1, <3>2
    <2>6. g[0] = a
        BY <2>1, <2>2
    <2>7. P(m + 1)
        <3> HIDE DEF g
        <3> QED BY <2>4, <2>5, <2>6
    <2> HIDE DEF P
    <2> QED BY <2>2, <2>7
<1>3. \A k \in 0 .. n : k \in S
    <2> HIDE DEF S
    <2> QED BY <1>1, <1>2, InductTo
<1> QED
    BY <1>3 DEF Follows

-----------------------------------------------------------------------------
LEMMA MinOf ==
    ASSUME NEW S \in SUBSET Nat, S # {}
    PROVE  Min(S) \in S /\ \A k \in S : Min(S) <= k
<1>1. PICK x \in S : \A y \in S : x <= y
    BY Least
<1> QED
    BY <1>1 DEF Min

LEMMA MaxOf ==
    ASSUME NEW S \in SUBSET Nat, S # {}, NEW n \in Nat, \A k \in S : k <= n
    PROVE  Max(S) \in S /\ \A k \in S : k <= Max(S)
<1> DEFINE T == {n - k : k \in S}
<1>1. T \in SUBSET Nat /\ T # {}
    <2>1. \A k \in S : k \in Nat /\ k <= n
        OBVIOUS
    <2>2. \A k \in S : n - k \in Nat
        BY <2>1
    <2> QED BY <2>2
<1>2. PICK d \in T : \A y \in T : d <= y
    <2> HIDE DEF T
    <2> QED BY <1>1, Least
<1>3. PICK x \in S : d = n - x
    BY <1>2
<1>4. \A k \in S : k <= x
    BY <1>2, <1>3
<1> QED
    BY <1>4 DEF Max

-----------------------------------------------------------------------------
\* What Matching computes, and that what it returns are names of the entries.
LEMMA MatchingType ==
    ASSUME NEW S, NEW entries, Len(entries) \in Nat,
           \A k \in 1 .. Len(entries) : entries[k].name \in S, NEW pattern
    PROVE  Matching(entries, pattern) \in Seq(S)
<1> DEFINE n == Len(entries)
           step == [k \in 1 .. n |-> [x \in Seq(S) |->
                       IF daVarMatches(pattern, entries[k].name)
                       THEN Append(x, entries[k].name) ELSE x]]
<1>1. step \in [1 .. n -> [Seq(S) -> Seq(S)]]
    OBVIOUS
<1>2. PICK f \in [0 .. n -> Seq(S)] : Follows(f, n, <<>>, step)
    <2>1. <<>> \in Seq(S) /\ n \in Nat
        OBVIOUS
    <2> HIDE DEF step, n
    <2> QED BY <1>1, <2>1, Recursion, Zenon
<1>3. f = [k \in 0 .. n |-> IF k = 0 THEN <<>>
             ELSE IF daVarMatches(pattern, entries[k].name)
             THEN Append(f[k - 1], entries[k].name) ELSE f[k - 1]]
    <2>1. ASSUME NEW k \in 0 .. n, k # 0
          PROVE  f[k] = IF daVarMatches(pattern, entries[k].name)
                        THEN Append(f[k - 1], entries[k].name) ELSE f[k - 1]
        <3>1. k \in 1 .. n /\ k - 1 \in 0 .. n
            BY <2>1
        <3>2. f[k - 1] \in Seq(S)
            BY <3>1
        <3>3. f[k] = step[k][f[k - 1]]
            <4> HIDE DEF step
            <4> QED BY <1>2, <3>1 DEF Follows
        <3> QED BY <3>1, <3>2, <3>3
    <2> HIDE DEF step
    <2> QED BY <1>2, <2>1 DEF Follows
<1> DEFINE g == CHOOSE names : names = [k \in 0 .. n |-> IF k = 0 THEN <<>>
             ELSE IF daVarMatches(pattern, entries[k].name)
             THEN Append(names[k - 1], entries[k].name) ELSE names[k - 1]]
<1>4. g = [k \in 0 .. n |-> IF k = 0 THEN <<>>
             ELSE IF daVarMatches(pattern, entries[k].name)
             THEN Append(g[k - 1], entries[k].name) ELSE g[k - 1]]
    BY <1>3
<1>5. \A k \in 0 .. n : g[k] \in Seq(S)
    <2> DEFINE T == {k \in 0 .. n : g[k] \in Seq(S)}
    <2> HIDE DEF g
    <2>1. 0 \in T
        BY <1>4
    <2>2. ASSUME NEW k \in 0 .. n - 1, k \in T PROVE k + 1 \in T
        <3>1. k + 1 \in 0 .. n /\ k + 1 \in 1 .. n /\ (k + 1) - 1 = k /\ k + 1 # 0
            OBVIOUS
        <3>2. g[k + 1] = IF daVarMatches(pattern, entries[k + 1].name)
                         THEN Append(g[k], entries[k + 1].name) ELSE g[k]
            BY <1>4, <3>1
        <3>3. g[k] \in Seq(S) /\ entries[k + 1].name \in S
            BY <2>2, <3>1
        <3>4. Append(g[k], entries[k + 1].name) \in Seq(S)
            BY <3>3
        <3> QED BY <3>1, <3>2, <3>3, <3>4
    <2> HIDE DEF T
    <2>3. \A k \in 0 .. n : k \in T
        BY <2>1, <2>2, InductTo
    <2> QED BY <2>3 DEF T
<1>6. Matching(entries, pattern) = g[n]
    BY DEF Matching
<1> HIDE DEF g
<1> QED
    BY <1>5, <1>6

\* What is left of a list are names of the list.
LEMMA RemovedType ==
    ASSUME NEW S, NEW names \in Seq(S), NEW vlist
    PROVE  Removed(names, vlist) \in Seq(S)
<1> DEFINE n == Len(names)
           goes(k) == \E l \in DOMAIN vlist : daVarComp(names[k], vlist[l])
           step == [k \in 1 .. n |-> [x \in Seq(S) |->
                       IF goes(k) THEN x ELSE Append(x, names[k])]]
<1>0. n \in Nat /\ <<>> \in Seq(S) /\ \A k \in 1 .. n : names[k] \in S
    OBVIOUS
<1> HIDE DEF goes, n
<1>1. step \in [1 .. n -> [Seq(S) -> Seq(S)]]
    BY <1>0
<1>2. PICK f \in [0 .. n -> Seq(S)] : Follows(f, n, <<>>, step)
    <2> HIDE DEF step
    <2> QED BY <1>0, <1>1, Recursion, Zenon
<1>3. f = [k \in 0 .. n |-> IF k = 0 THEN <<>>
                            ELSE IF goes(k) THEN f[k - 1] ELSE Append(f[k - 1], names[k])]
    <2>1. ASSUME NEW k \in 0 .. n, k # 0
          PROVE  f[k] = IF goes(k) THEN f[k - 1] ELSE Append(f[k - 1], names[k])
        <3>1. k \in 1 .. n /\ k - 1 \in 0 .. n
            BY <1>0, <2>1
        <3>2. f[k - 1] \in Seq(S)
            BY <3>1
        <3>3. f[k] = step[k][f[k - 1]]
            <4> HIDE DEF step
            <4> QED BY <1>2, <3>1 DEF Follows
        <3> QED BY <3>1, <3>2, <3>3
    <2> HIDE DEF step
    <2> QED BY <1>2, <2>1 DEF Follows
<1> DEFINE g == CHOOSE left : left = [k \in 0 .. n |-> IF k = 0 THEN <<>>
                    ELSE IF goes(k) THEN left[k - 1] ELSE Append(left[k - 1], names[k])]
<1>4. g = [k \in 0 .. n |-> IF k = 0 THEN <<>>
                            ELSE IF goes(k) THEN g[k - 1] ELSE Append(g[k - 1], names[k])]
    BY <1>3
<1>5. \A k \in 0 .. n : g[k] \in Seq(S)
    <2> DEFINE T == {k \in 0 .. n : g[k] \in Seq(S)}
    <2> HIDE DEF g
    <2>1. 0 \in T
        BY <1>0, <1>4
    <2>2. ASSUME NEW k \in 0 .. n - 1, k \in T PROVE k + 1 \in T
        <3>1. k + 1 \in 0 .. n /\ k + 1 \in 1 .. n /\ (k + 1) - 1 = k /\ k + 1 # 0
            BY <1>0
        <3>2. g[k + 1] = IF goes(k + 1) THEN g[k] ELSE Append(g[k], names[k + 1])
            BY <1>4, <3>1
        <3>3. g[k] \in Seq(S) /\ names[k + 1] \in S
            BY <1>0, <2>2, <3>1
        <3>4. Append(g[k], names[k + 1]) \in Seq(S)
            BY <3>3
        <3> QED BY <3>1, <3>2, <3>3, <3>4
    <2> HIDE DEF T
    <2>3. \A k \in 0 .. n : k \in T
        BY <1>0, <2>1, <2>2, InductTo
    <2> QED BY <2>3 DEF T
<1>6. Removed(names, vlist) = g[n]
    BY DEF Removed, goes, n
<1> HIDE DEF g
<1> QED
    BY <1>0, <1>5, <1>6

\* A scan visits places of the queue.
LEMMA InOrderType ==
    ASSUME NEW K \in SUBSET DOMAIN thCallBackListP, Len(thCallBackListP) \in Nat
    PROVE  InOrder(K) \in Seq(K)
<1> DEFINE n == Len(thCallBackListP)
           step == [k \in 1 .. n |-> [x \in Seq(K) |-> IF k \in K THEN Append(x, k) ELSE x]]
<1>0. n \in Nat /\ <<>> \in Seq(K)
    OBVIOUS
<1> HIDE DEF n
<1>1. step \in [1 .. n -> [Seq(K) -> Seq(K)]]
    BY <1>0
<1>2. PICK f \in [0 .. n -> Seq(K)] : Follows(f, n, <<>>, step)
    <2> HIDE DEF step
    <2> QED BY <1>0, <1>1, Recursion, Zenon
<1>3. f = [k \in 0 .. n |-> IF k = 0 THEN <<>>
                            ELSE IF k \in K THEN Append(f[k - 1], k) ELSE f[k - 1]]
    <2>1. ASSUME NEW k \in 0 .. n, k # 0
          PROVE  f[k] = IF k \in K THEN Append(f[k - 1], k) ELSE f[k - 1]
        <3>1. k \in 1 .. n /\ k - 1 \in 0 .. n
            BY <1>0, <2>1
        <3>2. f[k - 1] \in Seq(K)
            BY <3>1
        <3>3. f[k] = step[k][f[k - 1]]
            <4> HIDE DEF step
            <4> QED BY <1>2, <3>1 DEF Follows
        <3> QED BY <3>1, <3>2, <3>3
    <2> HIDE DEF step
    <2> QED BY <1>2, <2>1 DEF Follows
<1> DEFINE g == CHOOSE passed : passed = [k \in 0 .. n |-> IF k = 0 THEN <<>>
                    ELSE IF k \in K THEN Append(passed[k - 1], k) ELSE passed[k - 1]]
<1>4. g = [k \in 0 .. n |-> IF k = 0 THEN <<>>
                            ELSE IF k \in K THEN Append(g[k - 1], k) ELSE g[k - 1]]
    BY <1>3
<1>5. \A k \in 0 .. n : g[k] \in Seq(K)
    <2> DEFINE T == {k \in 0 .. n : g[k] \in Seq(K)}
    <2> HIDE DEF g
    <2>1. 0 \in T
        BY <1>0, <1>4
    <2>2. ASSUME NEW k \in 0 .. n - 1, k \in T PROVE k + 1 \in T
        <3>1. k + 1 \in 0 .. n /\ (k + 1) - 1 = k /\ k + 1 # 0
            BY <1>0
        <3>2. g[k + 1] = IF k + 1 \in K THEN Append(g[k], k + 1) ELSE g[k]
            BY <1>4, <3>1
        <3>3. g[k] \in Seq(K)
            BY <2>2
        <3>4. k + 1 \in K => Append(g[k], k + 1) \in Seq(K)
            BY <3>3
        <3> QED BY <3>1, <3>2, <3>3, <3>4
    <2> HIDE DEF T
    <2>3. \A k \in 0 .. n : k \in T
        BY <1>0, <2>1, <2>2, InductTo
    <2> QED BY <2>3 DEF T
<1>6. InOrder(K) = g[n]
    BY DEF InOrder, n
<1> HIDE DEF g
<1> QED
    BY <1>0, <1>5, <1>6

\* The walk through the table meets its entries.
LEMMA FlattenType ==
    ASSUME NEW S, NEW n \in Nat \ {0}, NEW seqs \in [1 .. n -> Seq(S)]
    PROVE  FlattenSeq(seqs) \in Seq(S)
<1> DEFINE step == [k \in 1 .. n |-> [x \in Seq(S) |-> IF k = 1 THEN seqs[k] ELSE x \o seqs[k]]]
<1>0. n \in Nat /\ <<>> \in Seq(S) /\ (\A k \in 1 .. n : seqs[k] \in Seq(S)) /\ Len(seqs) = n
    <2>1. seqs \in Seq(Seq(S)) /\ DOMAIN seqs = 1 .. n
        BY SeqDef
    <2> QED BY <2>1, LenProperties
<1>1. step \in [1 .. n -> [Seq(S) -> Seq(S)]]
    BY <1>0
<1>2. PICK h \in [0 .. n -> Seq(S)] : Follows(h, n, <<>>, step)
    <2> HIDE DEF step
    <2> QED BY <1>0, <1>1, Recursion, Zenon
<1> DEFINE f == [k \in 1 .. n |-> h[k]]
<1>3. f = [k \in 1 .. n |-> IF k = 1 THEN seqs[k] ELSE f[k - 1] \o seqs[k]]
    <2>1. ASSUME NEW k \in 1 .. n
          PROVE  f[k] = IF k = 1 THEN seqs[k] ELSE f[k - 1] \o seqs[k]
        <3>1. k - 1 \in 0 .. n /\ (k # 1 => k - 1 \in 1 .. n)
            BY <1>0
        <3>2. h[k - 1] \in Seq(S)
            BY <3>1
        <3>3. h[k] = step[k][h[k - 1]]
            <4> HIDE DEF step
            <4> QED BY <1>2 DEF Follows
        <3> QED BY <3>1, <3>2, <3>3
    <2> HIDE DEF step
    <2> QED BY <2>1
<1> DEFINE g == CHOOSE flatten : flatten = [k \in 1 .. n |-> IF k = 1 THEN seqs[k]
                                                ELSE flatten[k - 1] \o seqs[k]]
<1>4. g = [k \in 1 .. n |-> IF k = 1 THEN seqs[k] ELSE g[k - 1] \o seqs[k]]
    <2> HIDE DEF f
    <2> QED BY <1>3
<1>5. \A k \in 0 .. n : k = 0 \/ g[k] \in Seq(S)
    <2> DEFINE T == {k \in 0 .. n : k = 0 \/ g[k] \in Seq(S)}
    <2> HIDE DEF g
    <2>1. 0 \in T
        BY <1>0
    <2>2. ASSUME NEW k \in 0 .. n - 1, k \in T PROVE k + 1 \in T
        <3>1. k + 1 \in 0 .. n /\ k + 1 \in 1 .. n /\ (k + 1) - 1 = k /\ (k # 0 => k + 1 # 1)
            BY <1>0
        <3>2. g[k + 1] = IF k + 1 = 1 THEN seqs[k + 1] ELSE g[k] \o seqs[k + 1]
            BY <1>4, <3>1
        <3>3. seqs[k + 1] \in Seq(S) /\ (k # 0 => g[k] \in Seq(S))
            BY <1>0, <2>2, <3>1
        <3>4. k # 0 => g[k] \o seqs[k + 1] \in Seq(S)
            BY <3>3
        <3>5. g[k + 1] \in Seq(S)
            <4>1. CASE k = 0
                BY <3>2, <3>3, <4>1
            <4>2. CASE k # 0
                <5>1. g[k + 1] = g[k] \o seqs[k + 1]
                    BY <3>1, <3>2, <4>2
                <5> QED BY <3>4, <4>2, <5>1
            <4> QED BY <4>1, <4>2
        <3> QED BY <3>1, <3>5
    <2> HIDE DEF T
    <2>3. \A k \in 0 .. n : k \in T
        BY <1>0, <2>1, <2>2, InductTo
    <2> QED BY <2>3 DEF T
<1>6. FlattenSeq(seqs) = g[n]
    BY <1>0 DEF FlattenSeq
<1> HIDE DEF g
<1> QED
    BY <1>0, <1>5, <1>6

\* The value a key hashes to.
LEMMA HashType ==
    ASSUME NEW key \in Seq(Words)
    PROVE  HashValue(key) \in Nat
<1> DEFINE n == Len(key)
           step == [k \in 1 .. n |-> [x \in Nat |-> 16 * x + Code[key[k]]]]
<1>1. step \in [1 .. n -> [Nat -> Nat]] /\ n \in Nat /\ 0 \in Nat
    <2>1. \A k \in 1 .. n : key[k] \in Words
        OBVIOUS
    <2>2. \A k \in 1 .. n : Code[key[k]] \in Nat
        BY <2>1, DaVarAssumption
    <2>3. \A k \in 1 .. n : \A x \in Nat : 16 * x + Code[key[k]] \in Nat
        BY <2>2
    <2> QED BY <2>3
<1>2. PICK f \in [0 .. n -> Nat] : Follows(f, n, 0, step)
    <2> HIDE DEF step, n
    <2> QED BY <1>1, Recursion, Zenon
<1>3. f = [k \in 0 .. n |-> IF k = 0 THEN 0 ELSE 16 * f[k - 1] + Code[key[k]]]
    <2>1. ASSUME NEW k \in 0 .. n, k # 0
          PROVE  f[k] = 16 * f[k - 1] + Code[key[k]]
        <3>1. k \in 1 .. n /\ k - 1 \in 0 .. n
            BY <2>1
        <3>2. f[k - 1] \in Nat
            BY <3>1
        <3>3. f[k] = step[k][f[k - 1]]
            <4> HIDE DEF step
            <4> QED BY <1>2, <3>1 DEF Follows
        <3> QED BY <3>1, <3>2, <3>3
    <2> HIDE DEF step
    <2> QED BY <1>2, <2>1 DEF Follows
<1> DEFINE g == CHOOSE hash : hash = [k \in 0 .. n |-> IF k = 0 THEN 0
                                          ELSE 16 * hash[k - 1] + Code[key[k]]]
<1>4. g = [k \in 0 .. n |-> IF k = 0 THEN 0 ELSE 16 * g[k - 1] + Code[key[k]]]
    BY <1>3
<1>5. \A k \in 0 .. n : g[k] \in Nat
    <2> DEFINE T == {k \in 0 .. n : g[k] \in Nat}
    <2> HIDE DEF g
    <2>1. 0 \in T
        BY <1>4
    <2>2. ASSUME NEW k \in 0 .. n - 1, k \in T PROVE k + 1 \in T
        <3>1. k + 1 \in 0 .. n /\ k + 1 \in 1 .. n /\ (k + 1) - 1 = k /\ k + 1 # 0
            OBVIOUS
        <3>2. g[k + 1] = 16 * g[k] + Code[key[k + 1]]
            BY <1>4, <3>1
        <3>3. g[k] \in Nat /\ key[k + 1] \in Words
            BY <2>2, <3>1
        <3>4. Code[key[k + 1]] \in Nat
            BY <3>3, DaVarAssumption
        <3> QED BY <3>1, <3>2, <3>3, <3>4
    <2> HIDE DEF T
    <2>3. \A k \in 0 .. n : k \in T
        BY <1>1, <2>1, <2>2, InductTo
    <2> QED BY <2>3 DEF T
<1>6. HashValue(key) = g[n]
    BY DEF HashValue
<1> HIDE DEF g
<1> QED
    BY <1>1, <1>5, <1>6

LEMMA KeyType ==
    ASSUME NEW name \in Seq(Words)
    PROVE  /\ Key(name) \in Seq(Words)
           /\ Len(Key(name)) = Len(name)
           /\ DOMAIN Key(name) = DOMAIN name
           /\ \A k \in DOMAIN name : Key(name)[k] = Lower[name[k]]
<1>1. \A k \in 1 .. Len(name) : Lower[name[k]] \in Words
    BY DaVarAssumption
<1> QED
    BY <1>1 DEF Key

LEMMA HashInRange ==
    ASSUME NEW name \in Seq(Words)
    PROVE  hashFunction(name) \in 0 .. TABLE_SIZE - 1
<1>1. HashValue(Key(name)) \in Nat
    BY KeyType, HashType
<1>2. TABLE_SIZE \in Nat /\ TABLE_SIZE > 0
    BY DaVarAssumption
<1>3. \A a, b \in Nat : b > 0 => a % b \in 0 .. b - 1
    OBVIOUS
<1> QED
    BY <1>1, <1>2, <1>3 DEF hashFunction

LEMMA SameKeySameHash ==
    ASSUME NEW n, NEW m, Key(n) = Key(m)
    PROVE  hashFunction(n) = hashFunction(m)
    BY DEF hashFunction

-----------------------------------------------------------------------------
(* What a lookup finds.                                                      *)

LEMMA EntryAt ==
    ASSUME NEW table, IsRegistry(table), NEW h \in 0 .. TABLE_SIZE - 1
    PROVE  /\ table[h] \in Seq(Variables)
           /\ \A k \in DOMAIN table[h] :
                  /\ table[h][k] \in Variables
                  /\ table[h][k] \in Entries(table)
                  /\ hashFunction(table[h][k].name) = h
<1>1. table \in [0 .. TABLE_SIZE - 1 -> Seq(Variables)] /\ h \in DOMAIN table
    BY DEF IsRegistry
<1>2. table[h] \in Seq(Variables)
    BY <1>1
<1>3. ASSUME NEW k \in DOMAIN table[h]
      PROVE  /\ table[h][k] \in Variables
             /\ table[h][k] \in Entries(table)
             /\ hashFunction(table[h][k].name) = h
    <2>1. table[h][k] \in ToSet(table[h])
        BY DEF ToSet
    <2> QED BY <1>1, <1>2, <2>1 DEF Entries, IsRegistry
<1> QED
    BY <1>2, <1>3

LEMMA EntryOf ==
    ASSUME NEW table, IsRegistry(table), NEW e \in Entries(table)
    PROVE  /\ e \in Variables /\ e.name \in Names /\ e.name \in Seq(Words)
           /\ hashFunction(e.name) \in 0 .. TABLE_SIZE - 1
           /\ \E k \in DOMAIN Chain(table, e.name) : Chain(table, e.name)[k] = e
<1>1. table \in [0 .. TABLE_SIZE - 1 -> Seq(Variables)]
    BY DEF IsRegistry
<1>2. PICK h \in 0 .. TABLE_SIZE - 1 : \E k \in DOMAIN table[h] : table[h][k] = e
    BY <1>1 DEF Entries, ToSet
<1>3. e \in Variables /\ hashFunction(e.name) = h
    BY <1>2, EntryAt
<1> QED
    BY <1>2, <1>3 DEF Chain, Variables, Names

LEMMA Found ==
    ASSUME NEW table, IsRegistry(table), NEW name \in Seq(Words)
    PROVE  /\ Known(table, name) <=>
                  \E k \in DOMAIN Chain(table, name) :
                      daVarComp(Chain(table, name)[k].name, name)
           /\ Known(table, name) =>
                  /\ crlHashFind(table, name) \in DOMAIN Chain(table, name)
                  /\ daVarLookupP(table, name) \in Entries(table)
                  /\ daVarLookupP(table, name) \in Variables
                  /\ Key(daVarLookupP(table, name).name) = Key(name)
<1> DEFINE Places == {k \in DOMAIN Chain(table, name) :
                          daVarComp(Chain(table, name)[k].name, name)}
<1>1. hashFunction(name) \in 0 .. TABLE_SIZE - 1
    BY HashInRange
<1>2. Chain(table, name) \in Seq(Variables)
    BY <1>1, EntryAt DEF Chain
<1>3. Places \in SUBSET Nat /\ 0 \notin Places
    BY <1>2
<1>4. crlHashFind(table, name) = IF Places = {} THEN 0 ELSE Min(Places)
    BY DEF crlHashFind
<1>5. Places # {} => Min(Places) \in Places
    <2> HIDE DEF Places
    <2> QED BY <1>3, MinOf
<1>6. Known(table, name) <=> Places # {}
    <2> HIDE DEF Places
    <2> QED BY <1>3, <1>4, <1>5 DEF Known
<1>7. ASSUME Known(table, name)
      PROVE  /\ crlHashFind(table, name) \in DOMAIN Chain(table, name)
             /\ daVarLookupP(table, name) \in Entries(table)
             /\ daVarLookupP(table, name) \in Variables
             /\ Key(daVarLookupP(table, name).name) = Key(name)
    <2>1. crlHashFind(table, name) \in Places
        <3> HIDE DEF Places
        <3> QED BY <1>4, <1>5, <1>6, <1>7
    <2>2. crlHashFind(table, name) \in DOMAIN table[hashFunction(name)]
        BY <2>1 DEF Chain
    <2>3. daVarLookupP(table, name) = table[hashFunction(name)][crlHashFind(table, name)]
        BY DEF daVarLookupP, Chain
    <2> QED BY <1>1, <2>1, <2>2, <2>3, EntryAt DEF Chain, daVarComp
<1> QED
    BY <1>6, <1>7

\* Names that differ in case only are the same to the registry.
LEMMA SameKeySameEntry ==
    ASSUME NEW table, NEW n, NEW m, Key(n) = Key(m)
    PROVE  /\ crlHashFind(table, n) = crlHashFind(table, m)
           /\ Known(table, n) <=> Known(table, m)
           /\ daVarLookupP(table, n) = daVarLookupP(table, m)
<1>1. Chain(table, n) = Chain(table, m)
    BY SameKeySameHash DEF Chain
<1>2. crlHashFind(table, n) = crlHashFind(table, m)
    BY <1>1 DEF crlHashFind, daVarComp
<1> QED
    BY <1>1, <1>2 DEF Known, daVarLookupP

LEMMA EntryKnown ==
    ASSUME NEW table, IsRegistry(table), NEW e \in Entries(table)
    PROVE  Known(table, e.name)
    BY EntryOf, Found DEF daVarComp

-----------------------------------------------------------------------------
(* What registering and retitling change.                                    *)

\* The entry of a known name becomes e.
LEMMA UpdateFinds ==
    ASSUME NEW table, IsRegistry(table), NEW name \in Seq(Words), Known(table, name),
           NEW e \in Variables, Key(e.name) = Key(name)
    PROVE  /\ IsRegistry(Update(table, name, e))
           /\ Entries(Update(table, name, e)) \subseteq Entries(table) \union {e}
           /\ \A m \in Seq(Words) :
                  /\ Known(Update(table, name, e), m) <=> Known(table, m)
                  /\ Key(m) = Key(name) => daVarLookupP(Update(table, name, e), m) = e
                  /\ Known(table, m) /\ Key(m) # Key(name) =>
                         daVarLookupP(Update(table, name, e), m) = daVarLookupP(table, m)
<1> DEFINE h == hashFunction(name)
           at == crlHashFind(table, name)
           new == Update(table, name, e)
<1>1. h \in 0 .. TABLE_SIZE - 1
    BY HashInRange
<1>2. table \in [0 .. TABLE_SIZE - 1 -> Seq(Variables)] /\ table[h] \in Seq(Variables)
    BY <1>1 DEF IsRegistry
<1>3. at \in DOMAIN table[h] /\ Key(table[h][at].name) = Key(name)
    BY Found DEF Chain, daVarLookupP
<1>4. new = [table EXCEPT ![h] = [table[h] EXCEPT ![at] = e]]
    BY DEF Update, ReplaceAt
<1>5. /\ new \in [0 .. TABLE_SIZE - 1 -> Seq(Variables)]
      /\ new[h] = [table[h] EXCEPT ![at] = e]
      /\ \A i \in 0 .. TABLE_SIZE - 1 : i # h => new[i] = table[i]
    <2>1. [table[h] EXCEPT ![at] = e] \in Seq(Variables)
        BY <1>2, <1>3
    <2> QED BY <1>1, <1>2, <1>4, <2>1
<1>6. /\ DOMAIN new[h] = DOMAIN table[h]
      /\ new[h][at] = e
      /\ \A k \in DOMAIN table[h] : k # at => new[h][k] = table[h][k]
    BY <1>2, <1>3, <1>5
<1>7. hashFunction(e.name) = h
    BY SameKeySameHash
<1> HIDE DEF h, at, new
<1>8. \A i \in 0 .. TABLE_SIZE - 1 : \A k \in DOMAIN new[i] :
          /\ k \in DOMAIN table[i]
          /\ (new[i][k] = e /\ i = h) \/ new[i][k] = table[i][k]
    BY <1>5, <1>6
<1>9. IsRegistry(new)
    <2> SUFFICES ASSUME NEW i \in 0 .. TABLE_SIZE - 1, NEW x \in ToSet(new[i])
                 PROVE  hashFunction(x.name) = i
        BY <1>5 DEF IsRegistry
    <2>1. PICK k \in DOMAIN new[i] : x = new[i][k]
        BY DEF ToSet
    <2> QED BY <1>7, <1>8, <2>1, EntryAt
<1>10. Entries(new) \subseteq Entries(table) \union {e}
    <2> SUFFICES ASSUME NEW i \in 0 .. TABLE_SIZE - 1, NEW k \in DOMAIN new[i]
                 PROVE  new[i][k] \in Entries(table) \union {e}
        BY <1>5 DEF Entries, ToSet
    <2> QED BY <1>8, EntryAt
<1>11. ASSUME NEW m \in Seq(Words)
       PROVE  /\ Known(new, m) <=> Known(table, m)
              /\ Key(m) = Key(name) => daVarLookupP(new, m) = e
              /\ Known(table, m) /\ Key(m) # Key(name) =>
                     daVarLookupP(new, m) = daVarLookupP(table, m)
    <2>1. CASE hashFunction(m) # h
        <3>1. hashFunction(m) \in 0 .. TABLE_SIZE - 1
            BY HashInRange
        <3>2. Chain(new, m) = Chain(table, m)
            BY <1>5, <2>1, <3>1 DEF Chain
        <3>3. crlHashFind(new, m) = crlHashFind(table, m)
            BY <3>2 DEF crlHashFind
        <3>4. Key(m) # Key(name)
            BY <2>1, SameKeySameHash DEF h
        <3> QED BY <3>2, <3>3, <3>4 DEF Known, daVarLookupP
    <2>2. CASE hashFunction(m) = h
        <3>1. Chain(new, m) = new[h] /\ Chain(table, m) = table[h]
            BY <2>2 DEF Chain
        <3>2. \A k \in DOMAIN table[h] : Key(new[h][k].name) = Key(table[h][k].name)
            BY <1>3, <1>6
        <3>3. {k \in DOMAIN new[h] : Key(new[h][k].name) = Key(m)}
              = {k \in DOMAIN table[h] : Key(table[h][k].name) = Key(m)}
            BY <1>6, <3>2
        <3>4. crlHashFind(new, m) = crlHashFind(table, m)
            BY <3>1, <3>3 DEF crlHashFind, daVarComp
        <3>5. Known(new, m) <=> Known(table, m)
            BY <3>4 DEF Known
        <3>6. daVarLookupP(new, m) = new[h][crlHashFind(table, m)]
              /\ daVarLookupP(table, m) = table[h][crlHashFind(table, m)]
            BY <3>1, <3>4 DEF daVarLookupP
        <3>7. Key(m) = Key(name) => crlHashFind(table, m) = at
            BY SameKeySameEntry DEF at
        <3>8. Known(table, m) => /\ crlHashFind(table, m) \in DOMAIN table[h]
                                 /\ Key(table[h][crlHashFind(table, m)].name) = Key(m)
            BY <3>1, <3>6, Found
        <3> QED BY <1>3, <1>6, <3>5, <3>6, <3>7, <3>8
    <2> QED BY <2>1, <2>2
<1> QED
    BY <1>9, <1>10, <1>11 DEF new

\* A new entry goes before the others of its chain.
LEMMA AddFinds ==
    ASSUME NEW table, IsRegistry(table), NEW e \in Variables, ~Known(table, e.name)
    PROVE  /\ IsRegistry(crlHashAdd(table, e))
           /\ Entries(crlHashAdd(table, e)) \subseteq Entries(table) \union {e}
           /\ \A m \in Seq(Words) :
                  /\ Known(crlHashAdd(table, e), m) <=> Known(table, m) \/ Key(m) = Key(e.name)
                  /\ Key(m) = Key(e.name) => daVarLookupP(crlHashAdd(table, e), m) = e
                  /\ Known(table, m) =>
                         /\ Key(m) # Key(e.name)
                         /\ daVarLookupP(crlHashAdd(table, e), m) = daVarLookupP(table, m)
<1> DEFINE h == hashFunction(e.name)
           new == crlHashAdd(table, e)
<1>0. e.name \in Seq(Words)
    BY DEF Variables, Names
<1>1. h \in 0 .. TABLE_SIZE - 1
    BY <1>0, HashInRange
<1>2. table \in [0 .. TABLE_SIZE - 1 -> Seq(Variables)] /\ table[h] \in Seq(Variables)
    BY <1>1 DEF IsRegistry
<1>3. new = [table EXCEPT ![h] = <<e>> \o table[h]]
    BY DEF crlHashAdd
<1>4. /\ new \in [0 .. TABLE_SIZE - 1 -> Seq(Variables)]
      /\ new[h] = <<e>> \o table[h]
      /\ \A i \in 0 .. TABLE_SIZE - 1 : i # h => new[i] = table[i]
    <2>1. <<e>> \o table[h] \in Seq(Variables)
        BY <1>2
    <2> QED BY <1>1, <1>2, <1>3, <2>1
<1>5. /\ DOMAIN new[h] = 1 .. Len(table[h]) + 1
      /\ new[h][1] = e
      /\ \A k \in DOMAIN new[h] : k # 1 => k - 1 \in DOMAIN table[h] /\ new[h][k] = table[h][k - 1]
      /\ \A k \in DOMAIN table[h] : k + 1 \in DOMAIN new[h] /\ new[h][k + 1] = table[h][k]
    BY <1>2, <1>4
<1> HIDE DEF h, new
<1>6. ASSUME NEW i \in 0 .. TABLE_SIZE - 1, NEW k \in DOMAIN new[i]
      PROVE  \/ new[i][k] = e /\ i = h
             \/ \E j \in DOMAIN table[i] : new[i][k] = table[i][j]
    <2>1. CASE i # h
        BY <1>4, <2>1
    <2>2. CASE i = h /\ k # 1
        BY <1>5, <2>2
    <2>3. CASE i = h /\ k = 1
        BY <1>5, <2>3
    <2> QED BY <2>1, <2>2, <2>3
<1>7. IsRegistry(new)
    <2> SUFFICES ASSUME NEW i \in 0 .. TABLE_SIZE - 1, NEW x \in ToSet(new[i])
                 PROVE  hashFunction(x.name) = i
        BY <1>4 DEF IsRegistry
    <2>1. PICK k \in DOMAIN new[i] : x = new[i][k]
        BY DEF ToSet
    <2> QED BY <1>6, <2>1, EntryAt DEF h
<1>8. Entries(new) \subseteq Entries(table) \union {e}
    <2> SUFFICES ASSUME NEW i \in 0 .. TABLE_SIZE - 1, NEW k \in DOMAIN new[i]
                 PROVE  new[i][k] \in Entries(table) \union {e}
        BY <1>4 DEF Entries, ToSet
    <2> QED BY <1>6, EntryAt
<1>9. ASSUME NEW m \in Seq(Words)
      PROVE  /\ Known(new, m) <=> Known(table, m) \/ Key(m) = Key(e.name)
             /\ Key(m) = Key(e.name) => daVarLookupP(new, m) = e
             /\ Known(table, m) => /\ Key(m) # Key(e.name)
                                   /\ daVarLookupP(new, m) = daVarLookupP(table, m)
    <2>1. Known(table, m) => Key(m) # Key(e.name)
        BY SameKeySameEntry
    <2>2. CASE hashFunction(m) # h
        <3>1. hashFunction(m) \in 0 .. TABLE_SIZE - 1
            BY HashInRange
        <3>2. Chain(new, m) = Chain(table, m)
            BY <1>4, <2>2, <3>1 DEF Chain
        <3>3. crlHashFind(new, m) = crlHashFind(table, m)
            BY <3>2 DEF crlHashFind
        <3>4. Key(m) # Key(e.name)
            BY <2>2, SameKeySameHash DEF h
        <3> QED BY <3>2, <3>3, <3>4 DEF Known, daVarLookupP
    <2>3. CASE hashFunction(m) = h
        <3> DEFINE Places(t) == {k \in DOMAIN t[h] : Key(t[h][k].name) = Key(m)}
        <3>1. Chain(new, m) = new[h] /\ Chain(table, m) = table[h]
            BY <2>3 DEF Chain
        <3>2. /\ crlHashFind(new, m) = IF Places(new) = {} THEN 0 ELSE Min(Places(new))
              /\ crlHashFind(table, m) = IF Places(table) = {} THEN 0 ELSE Min(Places(table))
            BY <3>1 DEF crlHashFind, daVarComp
        <3>3. Places(table) \in SUBSET Nat /\ Places(new) \in SUBSET Nat
            BY <1>2, <1>5
        <3>4. CASE Key(m) = Key(e.name)
            <4>1. 1 \in Places(new)
                BY <1>2, <1>5, <3>4
            <4>2. Min(Places(new)) = 1
                <5>1. \A k \in Places(new) : k >= 1
                    BY <1>5
                <5> HIDE DEF Places
                <5>2. Min(Places(new)) \in Places(new) /\ Min(Places(new)) <= 1
                    BY <3>3, <4>1, MinOf
                <5> QED BY <3>3, <5>1, <5>2
            <4>3. crlHashFind(new, m) = 1
                <5> HIDE DEF Places
                <5> QED BY <3>2, <4>1, <4>2
            <4> QED BY <1>5, <2>1, <3>1, <3>4, <4>3 DEF Known, daVarLookupP
        <3>5. CASE Key(m) # Key(e.name)
            <4>1. \A k : k \in Places(new) <=> k - 1 \in Places(table) /\ k \in 1 .. Len(table[h]) + 1
                BY <1>2, <1>5, <3>5
            <4>2. \A k \in Places(table) : k + 1 \in Places(new)
                BY <1>2, <1>5, <3>5
            <4>3. Places(new) = {} <=> Places(table) = {}
                <5> HIDE DEF Places
                <5> QED BY <4>1, <4>2
            <4>4. Places(table) # {} => Min(Places(new)) = Min(Places(table)) + 1
                <5> HIDE DEF Places
                <5> SUFFICES ASSUME Places(table) # {}
                             PROVE  Min(Places(new)) = Min(Places(table)) + 1
                    OBVIOUS
                <5>1. Min(Places(table)) \in Places(table)
                      /\ \A k \in Places(table) : Min(Places(table)) <= k
                    BY <3>3, MinOf
                <5>2. Min(Places(new)) \in Places(new)
                      /\ \A k \in Places(new) : Min(Places(new)) <= k
                    BY <3>3, <4>3, MinOf
                <5>3. Min(Places(new)) <= Min(Places(table)) + 1
                    BY <4>2, <5>1, <5>2
                <5>4. Min(Places(table)) <= Min(Places(new)) - 1
                    BY <4>1, <5>1, <5>2
                <5> QED BY <3>3, <5>1, <5>2, <5>3, <5>4
            <4>5. Places(table) # {} => Min(Places(table)) \in DOMAIN table[h]
                <5>1. Places(table) # {} => Min(Places(table)) \in Places(table)
                    <6> HIDE DEF Places
                    <6> QED BY <3>3, MinOf
                <5> QED BY <5>1
            <4>6. Known(table, m) <=> Places(table) # {}
                <5> HIDE DEF Places
                <5> QED BY <1>2, <3>2, <4>5 DEF Known
            <4>7. Known(new, m) <=> Places(table) # {}
                <5> HIDE DEF Places
                <5> QED BY <1>2, <3>2, <4>3, <4>4, <4>5 DEF Known
            <4>8. Places(table) # {} => daVarLookupP(new, m) = daVarLookupP(table, m)
                <5> HIDE DEF Places
                <5> QED BY <1>2, <1>5, <3>1, <3>2, <4>3, <4>4, <4>5 DEF daVarLookupP
            <4> HIDE DEF Places
            <4> QED BY <3>5, <4>6, <4>7, <4>8
        <3> QED BY <3>4, <3>5
    <2> QED BY <2>2, <2>3
<1> QED
    BY <1>7, <1>8, <1>9 DEF new

\* What registering makes of a registry: e is the variable of the name given.
Registers(new, table, args, e) ==
    /\ e.ptr = args.ptr /\ e.type = args.type
    /\ e.size = IF args.size <= 0 THEN 1 ELSE args.size
    /\ IsRegistry(new)
    /\ Entries(new) \subseteq Entries(table) \union {e}
    /\ Key(e.name) = Key(args.name)
    /\ \A m \in Seq(Words) :
           /\ Known(new, m) <=> Known(table, m) \/ Key(m) = Key(args.name)
           /\ Key(m) = Key(args.name) => daVarLookupP(new, m) = e
           /\ Known(table, m) /\ Key(m) # Key(args.name) =>
                  daVarLookupP(new, m) = daVarLookupP(table, m)

LEMMA RegisterFinds ==
    ASSUME NEW table, IsRegistry(table),
           NEW args \in [name : Names, title : Seq(Int), type : 1 .. 5, size : Int,
                         flag : Int, ptr : Nat, hook : {"none", "block"}]
    PROVE  \E e \in Variables : Registers(daVarRegister(table, args).table, table, args, e)
<1> DEFINE size == IF args.size <= 0 THEN 1 ELSE args.size
           sized == [args EXCEPT !.size = size]
           new == daVarRegister(table, args).table
<1>0. size \in Nat \ {0}
    OBVIOUS
<1>1. sized \in Variables /\ size \in Nat \ {0} /\ args.name \in Seq(Words)
    <2> HIDE DEF size
    <2> QED BY <1>0 DEF Variables, Names
<1>2. /\ sized.ptr = args.ptr /\ sized.type = args.type /\ sized.size = size
      /\ sized.name = args.name
    OBVIOUS
<1>3. CASE Known(table, args.name)
    <2> DEFINE e == [sized EXCEPT !.name = daVarLookupP(table, args.name).name]
    <2>1. daVarLookupP(table, args.name).name \in Names
          /\ Key(daVarLookupP(table, args.name).name) = Key(args.name)
        BY <1>1, <1>3, Found DEF Variables
    <2>2. e \in Variables
        BY <1>1, <2>1 DEF Variables
    <2>3. e.ptr = args.ptr /\ e.type = args.type /\ e.size = size /\ Key(e.name) = Key(args.name)
        BY <1>2, <2>1
    <2>4. new = Update(table, args.name, e)
        BY <1>3 DEF daVarRegister
    <2> HIDE DEF e, new, sized, size
    <2>5. /\ IsRegistry(new)
          /\ Entries(new) \subseteq Entries(table) \union {e}
          /\ \A m \in Seq(Words) :
                  /\ Known(new, m) <=> Known(table, m)
                  /\ Key(m) = Key(args.name) => daVarLookupP(new, m) = e
                  /\ Known(table, m) /\ Key(m) # Key(args.name) =>
                         daVarLookupP(new, m) = daVarLookupP(table, m)
        BY <1>1, <1>3, <2>2, <2>3, <2>4, UpdateFinds
    <2>6. \A m \in Seq(Words) : Key(m) = Key(args.name) => Known(table, m)
        BY <1>3, SameKeySameEntry
    <2> QED BY <2>2, <2>3, <2>5, <2>6 DEF new, size, Registers
<1>4. CASE ~Known(table, args.name)
    <2>1. new = crlHashAdd(table, sized)
        BY <1>4 DEF daVarRegister
    <2> HIDE DEF new, sized, size
    <2>2. /\ IsRegistry(new)
          /\ Entries(new) \subseteq Entries(table) \union {sized}
          /\ \A m \in Seq(Words) :
                  /\ Known(new, m) <=> Known(table, m) \/ Key(m) = Key(args.name)
                  /\ Key(m) = Key(args.name) => daVarLookupP(new, m) = sized
                  /\ Known(table, m) => daVarLookupP(new, m) = daVarLookupP(table, m)
        BY <1>1, <1>2, <1>4, <2>1, AddFinds
    <2> QED BY <1>1, <1>2, <2>2 DEF new, size, Registers
<1> QED
    BY <1>3, <1>4

-----------------------------------------------------------------------------
(* What is read and written under a name.                                    *)

LEMMA SameKeyPrefixes ==
    ASSUME NEW n \in Seq(Words), NEW m \in Seq(Words), Key(n) = Key(m)
    PROVE  /\ Len(n) = Len(m)
           /\ \A i \in 1 .. Len(n) + 1, j \in 0 .. Len(n) : Key(SubSeq(n, i, j)) = Key(SubSeq(m, i, j))
<1>1. Len(n) = Len(m)
    BY KeyType
<1>2. ASSUME NEW i \in 1 .. Len(n) + 1, NEW j \in 0 .. Len(n)
      PROVE  Key(SubSeq(n, i, j)) = Key(SubSeq(m, i, j))
    <2> DEFINE s == SubSeq(n, i, j)
               t == SubSeq(m, i, j)
    <2>1. /\ s \in Seq(Words) /\ t \in Seq(Words)
          /\ Len(s) = Len(t)
          /\ \A k \in 1 .. Len(s) : k + i - 1 \in 1 .. Len(n) /\ s[k] = n[k + i - 1] /\ t[k] = m[k + i - 1]
        BY <1>1
    <2>2. \A k \in 1 .. Len(n) : Lower[n[k]] = Lower[m[k]]
        <3> SUFFICES ASSUME NEW k \in 1 .. Len(n) PROVE Lower[n[k]] = Lower[m[k]]
            OBVIOUS
        <3>1. Key(n)[k] = Lower[n[k]] /\ Key(m)[k] = Lower[m[k]]
            BY <1>1, KeyType
        <3> QED BY <3>1
    <2> HIDE DEF s, t
    <2>3. DOMAIN s = DOMAIN t /\ \A k \in DOMAIN s : Lower[s[k]] = Lower[t[k]]
        <3>1. DOMAIN s = 1 .. Len(s) /\ DOMAIN t = 1 .. Len(s)
            BY <2>1
        <3>2. ASSUME NEW k \in 1 .. Len(s) PROVE Lower[s[k]] = Lower[t[k]]
            <4>1. Lower[n[k + i - 1]] = Lower[m[k + i - 1]]
                BY <2>1, <2>2
            <4> QED BY <2>1, <4>1
        <3> QED BY <3>1, <3>2
    <2>4. Key(s) = Key(t)
        BY <2>3 DEF Key
    <2> QED BY <2>4 DEF s, t
<1> QED
    BY <1>1, <1>2

\* The class of a name, and the variable and the attribute it stands for.
LEMMA ClassFound ==
    ASSUME NEW table, NEW name \in Seq(Words)
    PROVE  \/ /\ daVarClassFind(table, name) = <<>>
              /\ \A k \in DOMAIN name : ~Known(table, SubSeq(name, 1, k))
           \/ \E k \in 1 .. Len(name) :
                  /\ daVarClassFind(table, name) = SubSeq(name, 1, k)
                  /\ Len(daVarClassFind(table, name)) = k
                  /\ daVarClassFind(table, name) # <<>>
                  /\ Known(table, daVarClassFind(table, name))
<1> DEFINE Lengths == {k \in DOMAIN name : Known(table, SubSeq(name, 1, k))}
<1>1. daVarClassFind(table, name) = IF Lengths = {} THEN <<>> ELSE SubSeq(name, 1, Min(Lengths))
    BY DEF daVarClassFind
<1>2. CASE Lengths = {}
    BY <1>1, <1>2
<1>3. CASE Lengths # {}
    <2>1. Min(Lengths) \in Lengths
        <3>1. Lengths \in SUBSET Nat
            OBVIOUS
        <3> HIDE DEF Lengths
        <3> QED BY <1>3, <3>1, MinOf
    <2>2. Min(Lengths) \in 1 .. Len(name) /\ Known(table, SubSeq(name, 1, Min(Lengths)))
        BY <2>1
    <2> HIDE DEF Lengths
    <2>3. Len(SubSeq(name, 1, Min(Lengths))) = Min(Lengths)
        BY <2>2
    <2>4. SubSeq(name, 1, Min(Lengths)) # <<>>
        BY <2>2, <2>3
    <2> QED BY <1>1, <1>3, <2>2, <2>3, <2>4
<1> QED
    BY <1>2, <1>3

LEMMA AttributeFound ==
    ASSUME NEW table, NEW name \in Seq(Words), NEW c \in 1 .. Len(name),
           Known(table, SubSeq(name, 1, c))
    PROVE  LET found == daVarAttributeFind(table, name, SubSeq(name, 1, c))
           IN  \E k \in c .. Len(name) :
                   /\ Known(table, SubSeq(name, 1, k))
                   /\ found.varp = daVarLookupP(table, SubSeq(name, 1, k))
                   /\ found.attribute = Key(SubSeq(name, k + 1, Len(name)))
                   /\ Known(table, name) => k = Len(name)
<1> DEFINE Lengths == {k \in c .. Len(name) : k = c \/ Known(table, SubSeq(name, 1, k))}
           found == daVarAttributeFind(table, name, SubSeq(name, 1, c))
<1>1. Len(SubSeq(name, 1, c)) = c
    OBVIOUS
<1>2. /\ found.varp = daVarLookupP(table, SubSeq(name, 1, Max(Lengths)))
      /\ found.attribute = Key(SubSeq(name, Max(Lengths) + 1, Len(name)))
    BY <1>1 DEF daVarAttributeFind
<1>3. Max(Lengths) \in Lengths /\ \A k \in Lengths : k <= Max(Lengths)
    <2>1. Lengths \in SUBSET Nat /\ c \in Lengths /\ Len(name) \in Nat /\ \A k \in Lengths : k <= Len(name)
        OBVIOUS
    <2> HIDE DEF Lengths
    <2> QED BY <2>1, MaxOf
<1>4. Max(Lengths) \in c .. Len(name) /\ Known(table, SubSeq(name, 1, Max(Lengths)))
    BY <1>3
<1>5. Known(table, name) => Max(Lengths) = Len(name)
    <2>1. SubSeq(name, 1, Len(name)) = name /\ Len(name) \in c .. Len(name)
        OBVIOUS
    <2>2. Known(table, name) => Len(name) \in Lengths
        BY <2>1
    <2>3. Lengths \subseteq c .. Len(name)
        OBVIOUS
    <2> HIDE DEF Lengths
    <2>4. Max(Lengths) \in c .. Len(name) /\ Len(name) \in Nat
        BY <1>4
    <2> QED BY <1>3, <2>2, <2>4
<1> HIDE DEF Lengths
<1> QED
    BY <1>2, <1>4, <1>5

\* Of a known name the variable is its own entry, and no attribute is left.
LEMMA KnownFound ==
    ASSUME NEW table, NEW name \in Names, Known(table, name)
    PROVE  LET c == daVarClassFind(table, name)
               found == daVarAttributeFind(table, name, c)
           IN  c # <<>> /\ found.varp = daVarLookupP(table, name) /\ found.attribute = <<>>
<1>1. /\ name \in Seq(Words) /\ Len(name) \in 1 .. Len(name) /\ Len(name) \in DOMAIN name
      /\ SubSeq(name, 1, Len(name)) = name
      /\ SubSeq(name, Len(name) + 1, Len(name)) = <<>>
    BY DEF Names
<1>2. PICK c \in 1 .. Len(name) :
          /\ daVarClassFind(table, name) = SubSeq(name, 1, c)
          /\ daVarClassFind(table, name) # <<>>
          /\ Known(table, SubSeq(name, 1, c))
    <2>1. Known(table, SubSeq(name, 1, Len(name)))
        BY <1>1
    <2>2. \E k \in DOMAIN name : Known(table, SubSeq(name, 1, k))
        BY <1>1, <2>1
    <2> QED BY <1>1, <2>2, ClassFound
<1>3. Key(<<>>) = <<>>
    BY DEF Key
<1> DEFINE found == daVarAttributeFind(table, name, SubSeq(name, 1, c))
<1>4. PICK k \in c .. Len(name) :
          /\ found.varp = daVarLookupP(table, SubSeq(name, 1, k))
          /\ found.attribute = Key(SubSeq(name, k + 1, Len(name)))
          /\ k = Len(name)
    <2>1. \E k \in c .. Len(name) :
              /\ Known(table, SubSeq(name, 1, k))
              /\ found.varp = daVarLookupP(table, SubSeq(name, 1, k))
              /\ found.attribute = Key(SubSeq(name, k + 1, Len(name)))
              /\ Known(table, name) => k = Len(name)
        BY <1>1, <1>2, AttributeFound, Zenon
    <2> QED BY <2>1
<1>5. found.varp = daVarLookupP(table, name) /\ found.attribute = <<>>
    <2> HIDE DEF found
    <2> QED BY <1>1, <1>3, <1>4
<1> QED
    BY <1>2, <1>5

\* The value of a variable, read under its name.
Own(mem, varp) ==
    any(IF varp.type = DAVARINT THEN DAVARINT ELSE IF IsNumeric(varp) THEN DAVARFLOAT
        ELSE DAVARSTRING,
        IF IsNumeric(varp) \/ varp.type = DAVARSTRING THEN mem[varp.ptr]
        ELSE kill_trailing(mem[varp.ptr]))

LEMMA ReadKnown ==
    ASSUME NEW table, NEW mem, NEW name \in Names, Known(table, name)
    PROVE  daVarReadVar(table, mem, name, DAVAR_NOINDEX) = Own(mem, daVarLookupP(table, name))
<1> DEFINE c == daVarClassFind(table, name)
           found == daVarAttributeFind(table, name, c)
<1>1. c # <<>> /\ found.varp = daVarLookupP(table, name) /\ found.attribute = <<>>
    BY KnownFound
<1>2. <<>> # <<"scaler">>
    OBVIOUS
<1>3. daVarReadVar(table, mem, name, DAVAR_NOINDEX)
      \in {daVarRegRatr(mem, found.varp, <<>>, DAVAR_NOINDEX, 7),
           daVarRegRatr(mem, found.varp, <<>>, DAVAR_NOINDEX, 8)}
    <2> HIDE DEF c
    <2>1. daVarReadVar(table, mem, name, DAVAR_NOINDEX)
          = CASE c = <<>> -> any(DAVARERROR_RPC, <<S_FAILURE>>)
              [] c # <<>> /\ IsBlock(table, c) -> thRHandler(mem, found, DAVAR_NOINDEX)
              [] OTHER -> daVarRhandler(mem, found, DAVAR_NOINDEX)
        BY DEF daVarReadVar, ReadOf, c
    <2>2. thRHandler(mem, found, DAVAR_NOINDEX) = daVarRegRatr(mem, found.varp, <<>>, DAVAR_NOINDEX, 8)
        BY <1>1, <1>2 DEF thRHandler
    <2>3. daVarRhandler(mem, found, DAVAR_NOINDEX) = daVarRegRatr(mem, found.varp, <<>>, DAVAR_NOINDEX, 7)
        BY <1>1 DEF daVarRhandler
    <2> HIDE DEF found
    <2> QED BY <1>1, <2>1, <2>2, <2>3
<1>4. ASSUME NEW lists
      PROVE  daVarRegRatr(mem, found.varp, <<>>, DAVAR_NOINDEX, lists) = Own(mem, found.varp)
    <2>1. IsValue(<<>>)
        BY DEF IsValue
    <2> HIDE DEF found
    <2> QED BY <2>1 DEF daVarRegRatr, Own, IsNumeric, DAVARINT, DAVARFLOAT, DAVARDOUBLE, DAVARSTRING
<1> QED
    BY <1>1, <1>3, <1>4

\* A name in other case stands for the same variable and attribute.
LEMMA SameKeyFound ==
    ASSUME NEW table, NEW n \in Seq(Words), NEW m \in Seq(Words), Key(n) = Key(m)
    PROVE  LET c == daVarClassFind(table, n)
               d == daVarClassFind(table, m)
           IN  /\ Key(c) = Key(d) /\ (c = <<>> <=> d = <<>>)
               /\ daVarAttributeFind(table, n, c) = daVarAttributeFind(table, m, d)
<1> DEFINE c == daVarClassFind(table, n)
           d == daVarClassFind(table, m)
           L == {k \in DOMAIN n : Known(table, SubSeq(n, 1, k))}
<1>1. /\ Len(n) = Len(m) /\ DOMAIN n = DOMAIN m /\ DOMAIN n = 1 .. Len(n) /\ Len(n) \in Nat
      /\ \A i \in 1 .. Len(n) + 1, j \in 0 .. Len(n) : Key(SubSeq(n, i, j)) = Key(SubSeq(m, i, j))
    BY SameKeyPrefixes
<1>2. \A j \in 0 .. Len(n) :
          /\ Known(table, SubSeq(n, 1, j)) <=> Known(table, SubSeq(m, 1, j))
          /\ daVarLookupP(table, SubSeq(n, 1, j)) = daVarLookupP(table, SubSeq(m, 1, j))
    BY <1>1, SameKeySameEntry
<1>3. L = {k \in DOMAIN m : Known(table, SubSeq(m, 1, k))}
    BY <1>1, <1>2
<1>4. c = (IF L = {} THEN <<>> ELSE SubSeq(n, 1, Min(L)))
      /\ d = (IF L = {} THEN <<>> ELSE SubSeq(m, 1, Min(L)))
    BY <1>3 DEF daVarClassFind
<1>5. L # {} => Min(L) \in L
    <2>1. L \in SUBSET Nat
        OBVIOUS
    <2> HIDE DEF L
    <2> QED BY <2>1, MinOf
<1>6. L # {} => Min(L) \in 1 .. Len(n)
    BY <1>1, <1>5
<1> HIDE DEF L
<1>7. Key(c) = Key(d) /\ Len(c) = Len(d) /\ Len(c) \in 0 .. Len(n) /\ (c = <<>> <=> d = <<>>)
    <2>1. CASE L = {}
        BY <1>1, <1>4, <2>1
    <2>2. CASE L # {}
        <3>1. c = SubSeq(n, 1, Min(L)) /\ d = SubSeq(m, 1, Min(L))
            BY <1>4, <2>2
        <3>2. Len(c) = Min(L) /\ Len(d) = Min(L) /\ Min(L) # 0
            BY <1>1, <1>6, <2>2, <3>1
        <3>3. Key(c) = Key(d)
            BY <1>1, <1>6, <2>2, <3>1
        <3>4. c # <<>> /\ d # <<>>
            BY <3>2
        <3> QED BY <1>6, <2>2, <3>2, <3>3, <3>4
    <2> QED BY <2>1, <2>2
<1> HIDE DEF c, d
<1>8. daVarAttributeFind(table, n, c) = daVarAttributeFind(table, m, d)
    <2> DEFINE K == {k \in Len(c) .. Len(n) : k = Len(c) \/ Known(table, SubSeq(n, 1, k))}
    <2>1. K = {k \in Len(d) .. Len(m) : k = Len(d) \/ Known(table, SubSeq(m, 1, k))}
        <3>1. \A k \in Len(c) .. Len(n) : k \in 0 .. Len(n)
            BY <1>7
        <3> QED BY <1>1, <1>2, <1>7, <3>1
    <2>2. Max(K) \in K
        <3>1. K \in SUBSET Nat /\ Len(c) \in K /\ \A k \in K : k <= Len(n)
            BY <1>1, <1>7
        <3> HIDE DEF K
        <3> QED BY <1>1, <3>1, MaxOf
    <2>3. Max(K) \in 0 .. Len(n) /\ Max(K) + 1 \in 1 .. Len(n) + 1 /\ Len(n) \in 0 .. Len(n)
        BY <1>1, <1>7, <2>2
    <2>4. daVarLookupP(table, SubSeq(n, 1, Max(K))) = daVarLookupP(table, SubSeq(m, 1, Max(K)))
          /\ Key(SubSeq(n, Max(K) + 1, Len(n))) = Key(SubSeq(m, Max(K) + 1, Len(m)))
        BY <1>1, <1>2, <2>3
    <2>5. /\ daVarAttributeFind(table, n, c)
             = [varp |-> daVarLookupP(table, SubSeq(n, 1, Max(K))),
                attribute |-> Key(SubSeq(n, Max(K) + 1, Len(n)))]
          /\ daVarAttributeFind(table, m, d)
             = [varp |-> daVarLookupP(table, SubSeq(m, 1, Max(K))),
                attribute |-> Key(SubSeq(m, Max(K) + 1, Len(m)))]
        BY <2>1 DEF daVarAttributeFind
    <2> HIDE DEF K
    <2> QED BY <2>4, <2>5
<1> QED
    BY <1>7, <1>8 DEF c, d

LEMMA ReadSameKey ==
    ASSUME NEW table, NEW mem, NEW n \in Seq(Words), NEW m \in Seq(Words), Key(n) = Key(m),
           NEW index
    PROVE  daVarReadVar(table, mem, n, index) = daVarReadVar(table, mem, m, index)
<1> DEFINE c == daVarClassFind(table, n)
           d == daVarClassFind(table, m)
<1>1. /\ Key(c) = Key(d) /\ (c = <<>> <=> d = <<>>)
      /\ daVarAttributeFind(table, n, c) = daVarAttributeFind(table, m, d)
    BY SameKeyFound
<1> HIDE DEF c, d
<1>2. IsBlock(table, c) <=> IsBlock(table, d)
    BY <1>1, SameKeySameEntry DEF IsBlock
<1>3. ReadOf(table, mem, c, n, index) = ReadOf(table, mem, d, m, index)
    <2> DEFINE found == daVarAttributeFind(table, n, c)
    <2>1. /\ ReadOf(table, mem, c, n, index)
             = CASE c = <<>> -> any(DAVARERROR_RPC, <<S_FAILURE>>)
                 [] c # <<>> /\ IsBlock(table, c) -> thRHandler(mem, found, index)
                 [] OTHER -> daVarRhandler(mem, found, index)
          /\ ReadOf(table, mem, d, m, index)
             = CASE d = <<>> -> any(DAVARERROR_RPC, <<S_FAILURE>>)
                 [] d # <<>> /\ IsBlock(table, d) -> thRHandler(mem, found, index)
                 [] OTHER -> daVarRhandler(mem, found, index)
        BY <1>1 DEF ReadOf
    <2> HIDE DEF found
    <2> QED BY <1>1, <1>2, <2>1
<1> QED
    BY <1>3 DEF daVarReadVar, c, d

-----------------------------------------------------------------------------
LEMMA killType ==
    ASSUME NEW s \in Seq(Int)
    PROVE  LET ends == {0} \union {k \in DOMAIN s : s[k] # Blank}
           IN  /\ Max(ends) \in ends /\ (\A k \in ends : k <= Max(ends))
               /\ Max(ends) \in 0 .. Len(s)
               /\ kill_trailing(s) = SubSeq(s, 1, Max(ends))
               /\ kill_trailing(s) \in Seq(Int)
<1> DEFINE ends == {0} \union {k \in DOMAIN s : s[k] # Blank}
<1>1. ends \in SUBSET Nat /\ 0 \in ends /\ Len(s) \in Nat /\ (\A k \in ends : k <= Len(s))
    OBVIOUS
<1>2. Max(ends) \in ends /\ \A k \in ends : k <= Max(ends)
    <2> HIDE DEF ends
    <2> QED BY <1>1, MaxOf
<1>3. Max(ends) \in 0 .. Len(s)
    <2> HIDE DEF ends
    <2>1. Max(ends) \in Nat /\ Max(ends) <= Len(s)
        BY <1>1, <1>2
    <2> QED BY <1>1, <2>1
<1>4. kill_trailing(s) = SubSeq(s, 1, Max(ends))
    BY DEF kill_trailing
<1>5. SubSeq(s, 1, Max(ends)) \in Seq(Int)
    <2> HIDE DEF ends
    <2> QED BY <1>3
<1> QED
    BY <1>2, <1>3, <1>4, <1>5

LEMMA OwnType ==
    ASSUME NEW table, IsRegistry(table), NEW mem, IsStorage(table, mem), NEW e \in Entries(table)
    PROVE  /\ Own(mem, e) \in Values
           /\ Own(mem, e).valtype # DAVARERROR_RPC
           /\ Own(mem, e).valtype # DAVARSTRING => Own(mem, e).val # <<>>
<1>1. e.type \in 1 .. 5 /\ mem[e.ptr] \in Seq(Int) /\ e.size # 0
      /\ (e.type # DAVARSTRING => Len(mem[e.ptr]) = e.size)
    BY EntryOf DEF IsStorage, Variables
<1>2. kill_trailing(mem[e.ptr]) \in Seq(Int)
    BY <1>1, killType
<1>3. IsNumeric(e) => mem[e.ptr] # <<>>
    BY <1>1 DEF IsNumeric, DAVARINT, DAVARFLOAT, DAVARDOUBLE, DAVARSTRING
<1> QED
    BY <1>1, <1>2, <1>3 DEF Own, any, Values, IsNumeric,
       DAVARINT, DAVARFLOAT, DAVARDOUBLE, DAVARSTRING, DAVARERROR_RPC

BlocksCount(table) ==
    \A c, e \in Entries(table) :
        c.hook # "none" /\ IsPrefix(Key(c.name), Key(e.name)) => IsNumeric(e)

\* Whatever the name, what is read is a value.
LEMMA ReadType ==
    ASSUME NEW table, IsRegistry(table), BlocksCount(table), NEW mem, IsStorage(table, mem),
           NEW name \in Seq(Words)
    PROVE  daVarReadVar(table, mem, name, DAVAR_NOINDEX) \in Values
<1> DEFINE c == daVarClassFind(table, name)
           found == daVarAttributeFind(table, name, c)
           read == daVarReadVar(table, mem, name, DAVAR_NOINDEX)
<1>1. CASE c = <<>>
    BY <1>1 DEF daVarReadVar, ReadOf, Values, any, DAVARERROR_RPC, S_FAILURE
<1>2. CASE c # <<>>
    <2>1. PICK i \in 1 .. Len(name) :
              c = SubSeq(name, 1, i) /\ Known(table, SubSeq(name, 1, i))
        <3> HIDE DEF c
        <3> QED BY <1>2, ClassFound DEF c
    <2>2. PICK k \in i .. Len(name) :
              /\ Known(table, SubSeq(name, 1, k))
              /\ daVarAttributeFind(table, name, SubSeq(name, 1, i)).varp
                 = daVarLookupP(table, SubSeq(name, 1, k))
        <3>1. \E k \in i .. Len(name) :
              /\ Known(table, SubSeq(name, 1, k))
              /\ daVarAttributeFind(table, name, SubSeq(name, 1, i)).varp
                 = daVarLookupP(table, SubSeq(name, 1, k))
              /\ daVarAttributeFind(table, name, SubSeq(name, 1, i)).attribute
                 = Key(SubSeq(name, k + 1, Len(name)))
              /\ Known(table, name) => k = Len(name)
            BY <2>1, AttributeFound, Zenon
        <3> QED BY <3>1
    <2> DEFINE varp == found.varp
               head == daVarLookupP(table, c)
               n == SubSeq(name, 1, k)
    <2>3. varp = daVarLookupP(table, n)
        BY <2>1, <2>2
    <2>4. n \in Seq(Words) /\ c \in Seq(Words) /\ Len(n) = k /\ Len(c) = i
          /\ i <= k /\ SubSeq(n, 1, i) = c
        BY <2>1, <2>2
    <2>5. varp \in Entries(table) /\ varp \in Variables /\ Key(varp.name) = Key(n)
        <3> HIDE DEF varp, n
        <3> QED BY <2>2, <2>3, <2>4, Found DEF n
    <2>6. head \in Entries(table) /\ Key(head.name) = Key(c)
        <3> HIDE DEF c
        <3> QED BY <2>1, <2>4, Found
    <2>7. IsPrefix(Key(c), Key(n))
        <3>1. Len(Key(c)) = i /\ Len(Key(n)) = k /\ Key(c) \in Seq(Words) /\ Key(n) \in Seq(Words)
            BY <2>4, KeyType
        <3>2. \A j \in 1 .. i : c[j] = n[j]
            BY <2>4
        <3>3. \A j \in 1 .. i : Key(c)[j] = Lower[c[j]] /\ Key(n)[j] = Lower[n[j]]
            BY <2>4 DEF Key
        <3>4. \A j \in 1 .. i : Key(c)[j] = Key(n)[j]
            BY <3>2, <3>3
        <3> HIDE DEF c, n
        <3> DEFINE a == Key(c)
                   b == Key(n)
        <3>5. a \in Seq(Words) /\ b \in Seq(Words) /\ Len(a) = i /\ Len(b) = k /\ i <= k
              /\ (\A j \in 1 .. i : a[j] = b[j])
            BY <2>4, <3>1, <3>4
        <3> HIDE DEF a, b
        <3>6. SubSeq(a, 1, Len(a)) = SubSeq(b, 1, Len(a))
            BY <3>5
        <3> QED BY <3>5, <3>6 DEF IsPrefix, a, b
    <2>8. IsBlock(table, c) => IsNumeric(varp)
        <3> HIDE DEF c, varp, n
        <3> QED BY <2>5, <2>6, <2>7 DEF BlocksCount, IsBlock
    <2>9. mem[varp.ptr] \in Seq(Int) /\ (IsNumeric(varp) => mem[varp.ptr][1] \in Int)
        <3>1. varp.size \in Nat \ {0}
            BY <2>5 DEF Variables
        <3>2. mem[varp.ptr] \in Seq(Int) /\ (IsNumeric(varp) => Len(mem[varp.ptr]) = varp.size)
            <4> HIDE DEF varp
            <4> QED BY <2>5 DEF IsStorage, IsNumeric, DAVARINT, DAVARFLOAT, DAVARDOUBLE, DAVARSTRING
        <3> HIDE DEF varp
        <3> QED BY <3>1, <3>2
    <2>10. kill_trailing(mem[varp.ptr]) \in Seq(Int)
        BY <2>9, killType
    <2>11. ASSUME NEW attribute, NEW lists \in Int
           PROVE  daVarRegRatr(mem, varp, attribute, DAVAR_NOINDEX, lists) \in Values
        <3>1. /\ varp.title \in Seq(Int) /\ varp.size \in Int /\ varp.type \in Int
              /\ varp.flag \in Int
            BY <2>5 DEF Variables
        <3> HIDE DEF varp
        <3>2. \A x \in Int : <<x>> \in Seq(Int)
            OBVIOUS
        <3>3. <<S_SUCCESS>> \in Seq(Int) /\ <<S_DAVAR_UNKATTR>> \in Seq(Int) /\ <<lists>> \in Seq(Int)
              /\ <<2>> \in Seq(Int)
            BY <3>2 DEF S_SUCCESS, S_DAVAR_UNKATTR
        <3>4. <<2 * varp.size>> \in Seq(Int) /\ <<2 * varp.type>> \in Seq(Int)
              /\ <<2 * varp.flag>> \in Seq(Int)
            BY <3>1, <3>2
        <3> QED BY <2>9, <2>10, <3>1, <3>3, <3>4
                DEF daVarRegRatr, any, Values, DAVARINT, DAVARFLOAT, DAVARSTRING, DAVARERROR_RPC
    <2>12. daVarRhandler(mem, found, DAVAR_NOINDEX) \in Values
        <3> HIDE DEF found
        <3> QED BY <2>11 DEF daVarRhandler
    <2>13. IsBlock(table, c) => thRHandler(mem, found, DAVAR_NOINDEX) \in Values
        <3> HIDE DEF found, c
        <3> QED BY <2>8, <2>9, <2>11 DEF thRHandler, any, Values, DAVARINT
    <2>14. read = IF IsBlock(table, c) THEN thRHandler(mem, found, DAVAR_NOINDEX)
                  ELSE daVarRhandler(mem, found, DAVAR_NOINDEX)
        <3> DEFINE r == thRHandler(mem, found, DAVAR_NOINDEX)
                   s == daVarRhandler(mem, found, DAVAR_NOINDEX)
        <3>1. read = CASE c = <<>> -> any(DAVARERROR_RPC, <<S_FAILURE>>)
                       [] c # <<>> /\ IsBlock(table, c) -> r
                       [] OTHER -> s
            BY DEF daVarReadVar, ReadOf
        <3> HIDE DEF r, s, c, read
        <3> QED BY <1>2, <3>1 DEF r, s
    <2> HIDE DEF c, found
    <2> QED BY <2>12, <2>13, <2>14
<1> QED
    BY <1>1, <1>2

Shared(table) == \A c, e \in Entries(table) : c.ptr = e.ptr => c.type = e.type /\ c.size = e.size
Separate(table) == \A c, e \in Entries(table) : c.ptr = e.ptr => Key(c.name) = Key(e.name)

\* The same variables, but for their titles.
Retitled(table, new) ==
    /\ IsRegistry(new)
    /\ \A e \in Entries(new) : \E o \in Entries(table) :
           /\ o.name = e.name /\ o.type = e.type /\ o.size = e.size
           /\ o.ptr = e.ptr /\ o.hook = e.hook
    /\ \A m \in Seq(Words) : Known(new, m) <=> Known(table, m)

LEMMA RetitledKeeps ==
    ASSUME NEW table, NEW new, Retitled(table, new)
    PROVE  /\ Shared(table) => Shared(new)
           /\ Separate(table) => Separate(new)
           /\ BlocksCount(table) => BlocksCount(new)
           /\ \A mem : IsStorage(table, mem) => IsStorage(new, mem)
<1> DEFINE Like(o, e) == /\ o.name = e.name /\ o.type = e.type /\ o.size = e.size
                         /\ o.ptr = e.ptr /\ o.hook = e.hook
<1>1. \A e \in Entries(new) : \E o \in Entries(table) : Like(o, e)
    BY DEF Retitled
<1>2. Shared(table) => Shared(new)
    <2> SUFFICES ASSUME Shared(table), NEW c \in Entries(new), NEW e \in Entries(new),
                        c.ptr = e.ptr
                 PROVE  c.type = e.type /\ c.size = e.size
        BY DEF Shared
    <2>1. PICK o \in Entries(table) : Like(o, c)
        BY <1>1
    <2>2. PICK p \in Entries(table) : Like(p, e)
        BY <1>1
    <2>3. o.type = p.type /\ o.size = p.size
        BY <2>1, <2>2 DEF Shared
    <2> QED BY <2>1, <2>2, <2>3
<1>3. Separate(table) => Separate(new)
    <2> SUFFICES ASSUME Separate(table), NEW c \in Entries(new), NEW e \in Entries(new),
                        c.ptr = e.ptr
                 PROVE  Key(c.name) = Key(e.name)
        BY DEF Separate
    <2>1. PICK o \in Entries(table) : Like(o, c)
        BY <1>1
    <2>2. PICK p \in Entries(table) : Like(p, e)
        BY <1>1
    <2>3. Key(o.name) = Key(p.name)
        BY <2>1, <2>2 DEF Separate
    <2> QED BY <2>1, <2>2, <2>3
<1>4. BlocksCount(table) => BlocksCount(new)
    <2> SUFFICES ASSUME BlocksCount(table), NEW c \in Entries(new), NEW e \in Entries(new),
                        c.hook # "none", IsPrefix(Key(c.name), Key(e.name))
                 PROVE  IsNumeric(e)
        BY DEF BlocksCount
    <2>1. PICK o \in Entries(table) : Like(o, c)
        BY <1>1
    <2>2. PICK p \in Entries(table) : Like(p, e)
        BY <1>1
    <2>3. IsNumeric(p)
        BY <2>1, <2>2 DEF BlocksCount
    <2> QED BY <2>2, <2>3 DEF IsNumeric
<1>5. ASSUME NEW mem, IsStorage(table, mem) PROVE IsStorage(new, mem)
    <2> SUFFICES ASSUME NEW e \in Entries(new)
                 PROVE  /\ e.ptr \in DOMAIN mem
                        /\ mem[e.ptr] \in Seq(Int)
                        /\ e.type # DAVARSTRING => Len(mem[e.ptr]) = e.size
        BY DEF IsStorage
    <2>1. PICK o \in Entries(table) : Like(o, e)
        BY <1>1
    <2> QED BY <1>5, <2>1 DEF IsStorage
<1> QED
    BY <1>2, <1>3, <1>4, <1>5

LEMMA SameRetitled ==
    ASSUME NEW table, IsRegistry(table)
    PROVE  Retitled(table, table)
    BY DEF Retitled

\* Storage is the variable's after a write as it was before.
LEMMA WrittenType ==
    ASSUME NEW e \in Variables, NEW old \in Seq(Int), e.type # DAVARSTRING => Len(old) = e.size,
           NEW val \in Values
    PROVE  /\ Written(e, old, 0, val) \in Seq(Int)
           /\ e.type # DAVARSTRING => Len(Written(e, old, 0, val)) = e.size
<1>1. e.type \in 1 .. 5 /\ e.size \in Nat
    BY DEF Variables
<1> DEFINE n == Len(old)
           new == val.val
<1>2. n \in Nat /\ new \in Seq(Int) /\ DOMAIN old = 1 .. n /\ DOMAIN new = 1 .. Len(new)
      /\ Len(new) \in Nat
    BY DEF Values
<1>3. ASSUME NEW a \in Seq(Int), Len(a) = n, NEW b, DOMAIN b = DOMAIN new,
             \A k \in DOMAIN new : b[k] \in Int, Len(b) = Len(new)
      PROVE  Overlay(a, 0, b) \in Seq(Int) /\ Len(Overlay(a, 0, b)) = n
    <2> DEFINE o == [k \in DOMAIN a |-> IF k \in 0 + 1 .. 0 + Len(b) THEN b[k - 0] ELSE a[k]]
    <2>1. DOMAIN a = 1 .. n
        BY <1>3
    <2>2. \A k \in 1 .. n : o[k] \in Int
        <3> SUFFICES ASSUME NEW k \in 1 .. n PROVE o[k] \in Int
            OBVIOUS
        <3>1. CASE k \in 1 .. Len(new)
            <4>1. o[k] = b[k]
                BY <1>2, <1>3, <2>1, <3>1
            <4> QED BY <1>2, <1>3, <3>1, <4>1
        <3>2. CASE k \notin 1 .. Len(new)
            <4>1. o[k] = a[k]
                BY <1>2, <1>3, <2>1, <3>2
            <4> QED BY <1>2, <1>3, <4>1
        <3> QED BY <3>1, <3>2
    <2>3. o \in [1 .. n -> Int]
        BY <2>1, <2>2
    <2>4. o \in Seq(Int) /\ Len(o) = n
        <3> HIDE DEF o, n
        <3>1. n \in Nat
            BY <1>2
        <3>2. o \in Seq(Int)
            BY <2>3, <3>1, SeqDef
        <3>3. DOMAIN o = 1 .. n /\ DOMAIN o = 1 .. Len(o) /\ Len(o) \in Nat
            BY <2>3, <3>2, LenProperties
        <3> QED BY <3>1, <3>2, <3>3
    <2> QED BY <2>4 DEF Overlay
<1> DEFINE b == [k \in DOMAIN new |-> floatToLong(new[k])]
           a == [k \in DOMAIN old |-> IF k > 0 THEN Blank ELSE old[k]]
           int == Overlay(old, 0, b)
           real == Overlay(old, 0, new)
           cstring == IF Len(old) < 0 THEN old ELSE SubSeq(old, 1, 0) \o new
           fstring == Overlay(a, 0, new)
<1>4. Written(e, old, 0, val) =
          CASE e.type = DAVARINT -> int
            [] e.type \in {DAVARFLOAT, DAVARDOUBLE} -> real
            [] e.type = DAVARSTRING -> cstring
            [] e.type = DAVARFSTRING -> fstring
    BY DEF Written
<1>5. int \in Seq(Int) /\ Len(int) = n
    <2>1. \A k \in DOMAIN new : b[k] \in Int
        BY <1>2 DEF floatToLong
    <2>2. DOMAIN b = DOMAIN new /\ Len(b) = Len(new)
        BY <1>2
    <2> HIDE DEF b, new
    <2> QED BY <1>3, <2>1, <2>2
<1>6. real \in Seq(Int) /\ Len(real) = n
    BY <1>2, <1>3
<1>7. cstring \in Seq(Int)
    BY <1>2
<1>8. fstring \in Seq(Int) /\ Len(fstring) = n
    <2>1. a \in Seq(Int) /\ Len(a) = n
        BY <1>2 DEF Blank
    <2> HIDE DEF a
    <2> QED BY <1>2, <1>3, <2>1
<1> HIDE DEF int, real, cstring, fstring, n
<1>9. \/ e.type = DAVARINT /\ Written(e, old, 0, val) = int
      \/ e.type \in {DAVARFLOAT, DAVARDOUBLE} /\ Written(e, old, 0, val) = real
      \/ e.type = DAVARSTRING /\ Written(e, old, 0, val) = cstring
      \/ e.type = DAVARFSTRING /\ Written(e, old, 0, val) = fstring
    BY <1>1, <1>4 DEF DAVARINT, DAVARFLOAT, DAVARDOUBLE, DAVARSTRING, DAVARFSTRING
<1> QED
    BY <1>1, <1>5, <1>6, <1>7, <1>8, <1>9
       DEF DAVARINT, DAVARFLOAT, DAVARDOUBLE, DAVARSTRING, DAVARFSTRING, n

LEMMA RegWatrKeeps ==
    ASSUME NEW table, IsRegistry(table), Shared(table), NEW mem, IsStorage(table, mem),
           NEW varp \in Entries(table), NEW attribute, NEW val \in Values
    PROVE  LET w == daVarRegWatr(table, mem, varp, attribute, DAVAR_NOINDEX, val)
           IN  /\ Retitled(table, w.table)
               /\ IsStorage(table, w.mem) /\ DOMAIN w.mem = DOMAIN mem
               /\ mem \in [DOMAIN mem -> Seq(Int)] => w.mem \in [DOMAIN mem -> Seq(Int)]
<1> DEFINE w == daVarRegWatr(table, mem, varp, attribute, DAVAR_NOINDEX, val)
           e == [varp EXCEPT !.title = val.val]
           new == [mem EXCEPT ![varp.ptr] = Written(varp, mem[varp.ptr], 0, val)]
<1>1. /\ varp \in Variables /\ varp.name \in Seq(Words) /\ Known(table, varp.name)
      /\ varp.ptr \in DOMAIN mem
      /\ mem[varp.ptr] \in Seq(Int)
      /\ varp.type # DAVARSTRING => Len(mem[varp.ptr]) = varp.size
    BY EntryOf, EntryKnown DEF IsStorage
<1>2. w.table \in {table, Update(table, varp.name, e)} /\ w.mem \in {mem, new}
    <2>1. DAVAR_NOINDEX = DAVAR_NOINDEX
        OBVIOUS
    <2> DEFINE status == CASE IsValue(attribute) -> WriteStatus(varp, 0, val)
                    [] attribute = <<"title">> ->
                           IF val.valtype = DAVARSTRING THEN S_SUCCESS ELSE S_DAVAR_ILLCONV
                    [] OTHER -> S_DAVAR_UNKATTR
    <2>2. w = [status |-> status,
               table |-> IF status = S_SUCCESS /\ attribute = <<"title">>
                         THEN Update(table, varp.name, e) ELSE table,
               mem |-> IF status = S_SUCCESS /\ IsValue(attribute) THEN new ELSE mem]
        BY DEF daVarRegWatr
    <2> HIDE DEF status, e, new, w
    <2> QED BY <2>2
<1>3. e \in Variables /\ e.name = varp.name /\ e.type = varp.type /\ e.size = varp.size
      /\ e.ptr = varp.ptr /\ e.hook = varp.hook
    BY <1>1 DEF Variables, Values
<1>4. Retitled(table, Update(table, varp.name, e))
    <2> HIDE DEF e
    <2>1. /\ IsRegistry(Update(table, varp.name, e))
          /\ Entries(Update(table, varp.name, e)) \subseteq Entries(table) \union {e}
          /\ \A m \in Seq(Words) : Known(Update(table, varp.name, e), m) <=> Known(table, m)
        BY <1>1, <1>3, UpdateFinds
    <2> QED BY <1>3, <2>1 DEF Retitled
<1>5. /\ IsStorage(table, new) /\ DOMAIN new = DOMAIN mem
      /\ mem \in [DOMAIN mem -> Seq(Int)] => new \in [DOMAIN mem -> Seq(Int)]
    <2> DEFINE content == Written(varp, mem[varp.ptr], 0, val)
    <2>1. content \in Seq(Int) /\ (varp.type # DAVARSTRING => Len(content) = varp.size)
        BY <1>1, WrittenType
    <2>2. new = [mem EXCEPT ![varp.ptr] = content]
        OBVIOUS
    <2> HIDE DEF content, new
    <2>3. ASSUME NEW o \in Entries(table)
          PROVE  /\ o.ptr \in DOMAIN new
                 /\ new[o.ptr] \in Seq(Int)
                 /\ o.type # DAVARSTRING => Len(new[o.ptr]) = o.size
        <3>1. CASE o.ptr = varp.ptr
            <4>1. o.type = varp.type /\ o.size = varp.size
                BY <3>1 DEF Shared
            <4>2. o.ptr \in DOMAIN new /\ new[o.ptr] = content
                BY <1>1, <2>2, <3>1
            <4> QED BY <2>1, <4>1, <4>2
        <3>2. CASE o.ptr # varp.ptr
            <4>1. o.ptr \in DOMAIN mem /\ mem[o.ptr] \in Seq(Int)
                  /\ (o.type # DAVARSTRING => Len(mem[o.ptr]) = o.size)
                BY DEF IsStorage
            <4>2. o.ptr \in DOMAIN new /\ new[o.ptr] = mem[o.ptr]
                BY <2>2, <3>2, <4>1
            <4> QED BY <4>1, <4>2
        <3> QED BY <3>1, <3>2
    <2>4. mem \in [DOMAIN mem -> Seq(Int)] => new \in [DOMAIN mem -> Seq(Int)]
        BY <2>1, <2>2
    <2> QED BY <2>2, <2>3, <2>4 DEF IsStorage
<1> HIDE DEF w, new, e
<1> QED
    BY <1>2, <1>4, <1>5, SameRetitled DEF w

\* A write through any name leaves a registry and storage for it.
LEMMA WriteKeeps ==
    ASSUME NEW table, IsRegistry(table), Shared(table), NEW mem, IsStorage(table, mem),
           NEW name \in Seq(Words), NEW val \in Values
    PROVE  LET w == daVarWriteVar(table, mem, name, DAVAR_NOINDEX, val)
           IN  /\ Retitled(table, w.table)
               /\ IsStorage(table, w.mem) /\ DOMAIN w.mem = DOMAIN mem
               /\ mem \in [DOMAIN mem -> Seq(Int)] => w.mem \in [DOMAIN mem -> Seq(Int)]
<1> DEFINE c == daVarClassFind(table, name)
           found == daVarAttributeFind(table, name, c)
           w == daVarWriteVar(table, mem, name, DAVAR_NOINDEX, val)
<1>1. CASE c = <<>>
    <2>1. w = [status |-> S_FAILURE, table |-> table, mem |-> mem, booked |-> FALSE]
        BY <1>1 DEF daVarWriteVar, WriteOf
    <2>2. w.table = table /\ w.mem = mem
        BY <2>1
    <2> HIDE DEF w
    <2> QED BY <2>2, SameRetitled DEF w
<1>2. CASE c # <<>>
    <2>1. PICK i \in 1 .. Len(name) :
              c = SubSeq(name, 1, i) /\ Known(table, SubSeq(name, 1, i))
        <3> HIDE DEF c
        <3> QED BY <1>2, ClassFound DEF c
    <2>2. PICK k \in i .. Len(name) :
              /\ Known(table, SubSeq(name, 1, k))
              /\ daVarAttributeFind(table, name, SubSeq(name, 1, i)).varp
                 = daVarLookupP(table, SubSeq(name, 1, k))
        <3>1. \E k \in i .. Len(name) :
              /\ Known(table, SubSeq(name, 1, k))
              /\ daVarAttributeFind(table, name, SubSeq(name, 1, i)).varp
                 = daVarLookupP(table, SubSeq(name, 1, k))
              /\ daVarAttributeFind(table, name, SubSeq(name, 1, i)).attribute
                 = Key(SubSeq(name, k + 1, Len(name)))
              /\ Known(table, name) => k = Len(name)
            BY <2>1, AttributeFound, Zenon
        <3> QED BY <3>1
    <2>3. found.varp = daVarLookupP(table, SubSeq(name, 1, k)) /\ SubSeq(name, 1, k) \in Seq(Words)
        BY <2>1, <2>2
    <2> HIDE DEF found
    <2>4. found.varp \in Entries(table)
        BY <2>2, <2>3, Found
    <2> DEFINE r == daVarRegWatr(table, mem, found.varp, found.attribute, DAVAR_NOINDEX, val)
    <2>5. /\ Retitled(table, r.table)
          /\ IsStorage(table, r.mem) /\ DOMAIN r.mem = DOMAIN mem
          /\ mem \in [DOMAIN mem -> Seq(Int)] => r.mem \in [DOMAIN mem -> Seq(Int)]
        BY <2>4, RegWatrKeeps
    <2>6. w.table = r.table /\ w.mem = r.mem
        <3> DEFINE a == thWHandler(table, mem, found, DAVAR_NOINDEX, val)
                   b == daVarWhandler(table, mem, found, DAVAR_NOINDEX, val)
        <3>1. w = CASE c = <<>> ->
                           [status |-> S_FAILURE, table |-> table, mem |-> mem, booked |-> FALSE]
                    [] c # <<>> /\ IsBlock(table, c) -> a
                    [] OTHER -> b
            BY DEF daVarWriteVar, WriteOf, found
        <3>2. a.table = r.table /\ a.mem = r.mem /\ b.table = r.table /\ b.mem = r.mem
            BY DEF thWHandler, daVarWhandler, Handled
        <3> HIDE DEF a, b, r, w, c
        <3> QED BY <1>2, <3>1, <3>2
    <2> HIDE DEF w, r
    <2> QED BY <2>5, <2>6 DEF w
<1> QED
    BY <1>1, <1>2

\* Under a known name the variable itself is written.
WritesOwn(w, table, mem, varp, val) ==
    /\ w.status = WriteStatus(varp, 0, val)
    /\ w.table = table
    /\ w.status = S_SUCCESS =>
           w.mem = [mem EXCEPT ![varp.ptr] = Written(varp, mem[varp.ptr], 0, val)]

LEMMA WriteKnown ==
    ASSUME NEW table, NEW mem, NEW name \in Names, Known(table, name), NEW val
    PROVE  WritesOwn(daVarWriteVar(table, mem, name, DAVAR_NOINDEX, val),
                     table, mem, daVarLookupP(table, name), val)
<1> DEFINE c == daVarClassFind(table, name)
           found == daVarAttributeFind(table, name, c)
           w == daVarWriteVar(table, mem, name, DAVAR_NOINDEX, val)
           varp == daVarLookupP(table, name)
           r == daVarRegWatr(table, mem, varp, <<>>, DAVAR_NOINDEX, val)
           new == [mem EXCEPT ![varp.ptr] = Written(varp, mem[varp.ptr], 0, val)]
<1>1. c # <<>> /\ found.varp = varp /\ found.attribute = <<>>
    BY KnownFound
<1>2. IsValue(<<>>) /\ <<>> # <<"title">>
    BY DEF IsValue
<1>3. r = [status |-> WriteStatus(varp, 0, val), table |-> table,
           mem |-> IF WriteStatus(varp, 0, val) = S_SUCCESS THEN new ELSE mem]
    <2> HIDE DEF varp
    <2>1. r = [status |-> WriteStatus(varp, 0, val),
               table |-> IF WriteStatus(varp, 0, val) = S_SUCCESS /\ <<>> = <<"title">>
                         THEN Update(table, varp.name, [varp EXCEPT !.title = val.val]) ELSE table,
               mem |-> IF WriteStatus(varp, 0, val) = S_SUCCESS /\ IsValue(<<>>) THEN new ELSE mem]
        BY <1>2 DEF daVarRegWatr
    <2> HIDE DEF new, r
    <2> QED BY <1>2, <2>1
<1>4. w.status = r.status /\ w.table = r.table /\ w.mem = r.mem
    <2> DEFINE a == thWHandler(table, mem, found, DAVAR_NOINDEX, val)
               b == daVarWhandler(table, mem, found, DAVAR_NOINDEX, val)
    <2>1. w = CASE c = <<>> ->
                       [status |-> S_FAILURE, table |-> table, mem |-> mem, booked |-> FALSE]
                [] c # <<>> /\ IsBlock(table, c) -> a
                [] OTHER -> b
        BY DEF daVarWriteVar, WriteOf
    <2> HIDE DEF found, varp, c
    <2>2. a.status = r.status /\ a.table = r.table /\ a.mem = r.mem
          /\ b.status = r.status /\ b.table = r.table /\ b.mem = r.mem
        BY <1>1 DEF thWHandler, daVarWhandler, Handled
    <2> HIDE DEF a, b, r, w
    <2> QED BY <1>1, <2>1, <2>2
<1> HIDE DEF w, r, new, varp
<1>5. r.status = WriteStatus(varp, 0, val) /\ r.table = table
      /\ (r.status = S_SUCCESS => r.mem = new)
    BY <1>3
<1> QED
    BY <1>4, <1>5 DEF w, new, varp, WritesOwn

\* Padding with blanks does not show once the blanks at the end are gone.
LEMMA PaddingGoes ==
    ASSUME NEW s \in Seq(Int), NEW t \in Seq(Int), Len(s) <= Len(t),
           \A k \in DOMAIN t : t[k] = IF k \in DOMAIN s THEN s[k] ELSE Blank
    PROVE  kill_trailing(t) = kill_trailing(s)
<1> DEFINE S == {0} \union {k \in DOMAIN s : s[k] # Blank}
           T == {0} \union {k \in DOMAIN t : t[k] # Blank}
<1>1. S = T
    <2>1. DOMAIN s = 1 .. Len(s) /\ DOMAIN t = 1 .. Len(t) /\ DOMAIN s \subseteq DOMAIN t
        OBVIOUS
    <2> QED BY <2>1
<1>2. Max(S) \in 0 .. Len(s) /\ kill_trailing(s) = SubSeq(s, 1, Max(S))
      /\ kill_trailing(t) = SubSeq(t, 1, Max(T))
    BY killType
<1> HIDE DEF S, T
<1>3. SubSeq(s, 1, Max(S)) = SubSeq(t, 1, Max(S))
    <2>1. \A k \in 1 .. Max(S) : s[k] = t[k]
        BY <1>2
    <2> QED BY <1>2, <2>1
<1> QED
    BY <1>1, <1>2, <1>3

LEMMA WriteMatches ==
    ASSUME NEW e \in Variables, NEW old \in Seq(Int), e.type # DAVARSTRING => Len(old) = e.size,
           NEW val \in Values, WriteStatus(e, 0, val) = S_SUCCESS,
           NEW mem, e.ptr \in DOMAIN mem, mem[e.ptr] = Written(e, old, 0, val)
    PROVE  Matches(Own(mem, e), val)
<1> DEFINE new == val.val
           content == mem[e.ptr]
<1>1. /\ e.type \in 1 .. 5 /\ e.size \in Nat /\ val.valtype \in Int
      /\ new \in Seq(Int) /\ DOMAIN new = 1 .. Len(new) /\ Len(new) \in Nat
      /\ DOMAIN old = 1 .. Len(old) /\ Len(old) \in Nat
    BY DEF Variables, Values, DAVARINT, DAVARFLOAT, DAVARSTRING, DAVARERROR_RPC
<1>2. /\ Len(new) <= e.size
      /\ \/ val.valtype \in {DAVARINT, DAVARFLOAT} /\ e.type \in {DAVARINT, DAVARFLOAT, DAVARDOUBLE}
         \/ val.valtype = DAVARSTRING /\ e.type \in {DAVARSTRING, DAVARFSTRING}
    <2> DEFINE fits == e.size >= Len(new) + 0
    <2>1. WriteStatus(e, 0, val)
          = CASE val.valtype = DAVARINT ->
                     IF ~fits THEN S_DAVAR_TOOMANY
                     ELSE IF ~IsNumeric(e) THEN S_DAVAR_ILLCONV ELSE S_SUCCESS
              [] val.valtype = DAVARFLOAT ->
                     IF ~fits THEN S_DAVAR_ILLCONV
                     ELSE IF ~IsNumeric(e) THEN S_DAVAR_TOOMANY ELSE S_SUCCESS
              [] val.valtype = DAVARSTRING ->
                     IF IsNumeric(e) THEN S_DAVAR_ILLCONV
                     ELSE IF ~fits THEN S_DAVAR_TOOMANY ELSE S_SUCCESS
              [] OTHER -> S_FAILURE
        BY DEF WriteStatus
    <2> HIDE DEF fits
    <2>2. /\ fits
          /\ \/ val.valtype \in {DAVARINT, DAVARFLOAT} /\ IsNumeric(e)
             \/ val.valtype = DAVARSTRING /\ ~IsNumeric(e)
        BY <2>1 DEF S_SUCCESS, S_DAVAR_TOOMANY, S_DAVAR_ILLCONV, S_FAILURE,
                    DAVARINT, DAVARFLOAT, DAVARSTRING
    <2> USE DEF fits
    <2> HIDE DEF new
    <2>3. Len(new) <= e.size
        BY <1>1, <2>2
    <2> QED BY <1>1, <2>2, <2>3
            DEF IsNumeric, DAVARINT, DAVARFLOAT, DAVARDOUBLE, DAVARSTRING, DAVARFSTRING
<1> DEFINE b == [k \in DOMAIN new |-> floatToLong(new[k])]
           a == [k \in DOMAIN old |-> IF k > 0 THEN Blank ELSE old[k]]
           int == Overlay(old, 0, b)
           real == Overlay(old, 0, new)
           cstring == IF Len(old) < 0 THEN old ELSE SubSeq(old, 1, 0) \o new
           fstring == Overlay(a, 0, new)
<1>3. content =
          CASE e.type = DAVARINT -> int
            [] e.type \in {DAVARFLOAT, DAVARDOUBLE} -> real
            [] e.type = DAVARSTRING -> cstring
            [] e.type = DAVARFSTRING -> fstring
    BY DEF Written
<1>4. content \in Seq(Int) /\ (e.type # DAVARSTRING => Len(content) = e.size)
    BY WrittenType
<1>5. \/ e.type = DAVARINT /\ content = int
      \/ e.type \in {DAVARFLOAT, DAVARDOUBLE} /\ content = real
      \/ e.type = DAVARSTRING /\ content = cstring
      \/ e.type = DAVARFSTRING /\ content = fstring
    <2> HIDE DEF int, real, cstring, fstring, content
    <2> QED BY <1>1, <1>3 DEF DAVARINT, DAVARFLOAT, DAVARDOUBLE, DAVARSTRING, DAVARFSTRING
<1>6. val.valtype # DAVARERROR_RPC
    BY <1>2 DEF DAVARINT, DAVARFLOAT, DAVARSTRING, DAVARERROR_RPC
<1>7. CASE e.type = DAVARINT
    <2>1. content = int /\ Len(old) = e.size
        BY <1>5, <1>7 DEF DAVARINT, DAVARFLOAT, DAVARDOUBLE, DAVARSTRING, DAVARFSTRING
    <2>2. ASSUME NEW k \in DOMAIN new PROVE content[k] - new[k] \in {-1, 0, 1}
        <3>1. k \in DOMAIN old /\ k \in 0 + 1 .. 0 + Len(b) /\ k - 0 = k /\ new[k] \in Int
            BY <1>1, <1>2, <2>1
        <3>2. content[k] = floatToLong(new[k])
            BY <2>1, <3>1 DEF Overlay
        <3>3. ASSUME NEW h \in Int PROVE floatToLong(h) - h \in {-1, 0, 1}
            BY DEF floatToLong
        <3> QED BY <3>1, <3>2, <3>3
    <2>3. Own(mem, e).valtype = DAVARINT /\ Own(mem, e).val = content
        BY <1>7 DEF Own, any, IsNumeric
    <2>4. Len(new) <= Len(content)
        BY <1>2, <1>4, <1>7 DEF DAVARINT, DAVARSTRING
    <2> HIDE DEF content
    <2> QED BY <1>6, <2>2, <2>3, <2>4 DEF Matches, DAVARINT, DAVARSTRING, DAVARERROR_RPC
<1>8. CASE e.type \in {DAVARFLOAT, DAVARDOUBLE}
    <2>1. content = real /\ Len(old) = e.size
        BY <1>5, <1>8 DEF DAVARINT, DAVARFLOAT, DAVARDOUBLE, DAVARSTRING, DAVARFSTRING
    <2>2. ASSUME NEW k \in DOMAIN new PROVE content[k] = new[k]
        <3>1. k \in DOMAIN old /\ k \in 0 + 1 .. 0 + Len(new) /\ k - 0 = k
            BY <1>1, <1>2, <2>1
        <3> QED BY <2>1, <3>1 DEF Overlay
    <2>3. Own(mem, e).valtype = DAVARFLOAT /\ Own(mem, e).val = content
        BY <1>8 DEF Own, any, IsNumeric, DAVARINT, DAVARFLOAT, DAVARDOUBLE
    <2>4. Len(new) <= Len(content)
        BY <1>2, <1>4, <1>8 DEF DAVARFLOAT, DAVARDOUBLE, DAVARSTRING
    <2> HIDE DEF content
    <2> QED BY <1>6, <2>2, <2>3, <2>4 DEF Matches, DAVARINT, DAVARFLOAT, DAVARSTRING, DAVARERROR_RPC
<1>9. CASE e.type = DAVARSTRING
    <2>1. content = cstring
        BY <1>5, <1>9 DEF DAVARINT, DAVARFLOAT, DAVARDOUBLE, DAVARSTRING, DAVARFSTRING
    <2>2. cstring = new
        <3>1. ~(Len(old) < 0) /\ SubSeq(old, 1, 0) = <<>>
            BY <1>1
        <3>2. <<>> \o new = new
            BY <1>1, ConcatEmptySeq
        <3> QED BY <3>1, <3>2
    <2>3. Own(mem, e).valtype = DAVARSTRING /\ Own(mem, e).val = content
        BY <1>9 DEF Own, any, IsNumeric, DAVARINT, DAVARFLOAT, DAVARDOUBLE, DAVARSTRING
    <2> HIDE DEF content, cstring
    <2> QED BY <1>6, <2>1, <2>2, <2>3 DEF Matches, DAVARSTRING, DAVARERROR_RPC
<1>10. CASE e.type = DAVARFSTRING
    <2>1. content = fstring /\ Len(old) = e.size
        BY <1>5, <1>10 DEF DAVARINT, DAVARFLOAT, DAVARDOUBLE, DAVARSTRING, DAVARFSTRING
    <2>2. ASSUME NEW k \in DOMAIN content
          PROVE  content[k] = IF k \in DOMAIN new THEN new[k] ELSE Blank
        <3>1. DOMAIN content = DOMAIN old /\ DOMAIN a = DOMAIN old
            BY <2>1 DEF Overlay
        <3>2. k \in DOMAIN old /\ k > 0 /\ k - 0 = k /\ (k \in 0 + 1 .. 0 + Len(new) <=> k \in DOMAIN new)
            BY <1>1, <3>1
        <3>3. a[k] = Blank
            BY <3>2
        <3>4. content[k] = IF k \in 0 + 1 .. 0 + Len(new) THEN new[k - 0] ELSE a[k]
            <4> HIDE DEF a
            <4> QED BY <2>1, <3>1, <3>2 DEF Overlay
        <3> HIDE DEF content, a
        <3> QED BY <3>2, <3>3, <3>4
    <2>3. Len(new) <= Len(content) /\ content \in Seq(Int)
        BY <1>2, <1>4, <1>10 DEF DAVARFSTRING, DAVARSTRING
    <2>4. kill_trailing(content) = kill_trailing(new)
        <3> HIDE DEF content, new
        <3> QED BY <1>1, <2>2, <2>3, PaddingGoes
    <2>5. Own(mem, e).valtype = DAVARSTRING /\ Own(mem, e).val = kill_trailing(content)
        BY <1>10 DEF Own, any, IsNumeric, DAVARINT, DAVARFLOAT, DAVARDOUBLE, DAVARSTRING, DAVARFSTRING
    <2> HIDE DEF content
    <2> QED BY <1>6, <2>4, <2>5 DEF Matches, DAVARSTRING, DAVARERROR_RPC
<1> QED
    BY <1>1, <1>7, <1>8, <1>9, <1>10
       DEF DAVARINT, DAVARFLOAT, DAVARDOUBLE, DAVARSTRING, DAVARFSTRING

-----------------------------------------------------------------------------
(* The lists of names, and the values stored under them.                     *)

KnownNames(table) == {n \in Names : Known(table, n)}

LEMMA ListType ==
    ASSUME NEW table, IsRegistry(table), NEW pattern
    PROVE  daVarList(table, pattern) \in Seq(KnownNames(table))
<1> DEFINE chains == [h \in 1 .. TABLE_SIZE |-> table[h - 1]]
           walk == crlHashWalk(table)
<1>1. TABLE_SIZE \in Nat \ {0}
    BY DaVarAssumption
<1>2. \A h \in 1 .. TABLE_SIZE : table[h - 1] \in Seq(Entries(table))
    <2> SUFFICES ASSUME NEW h \in 1 .. TABLE_SIZE PROVE table[h - 1] \in Seq(Entries(table))
        OBVIOUS
    <2>1. h - 1 \in 0 .. TABLE_SIZE - 1
        BY <1>1
    <2>2. table[h - 1] \in Seq(Variables)
          /\ \A k \in DOMAIN table[h - 1] : table[h - 1][k] \in Entries(table)
        BY <2>1, EntryAt
    <2> QED BY <2>2
<1>3. chains \in [1 .. TABLE_SIZE -> Seq(Entries(table))]
    BY <1>2
<1>4. walk \in Seq(Entries(table))
    <2> HIDE DEF chains
    <2> QED BY <1>1, <1>3, FlattenType DEF crlHashWalk, chains
<1> HIDE DEF walk
<1>5. Len(walk) \in Nat /\ \A k \in 1 .. Len(walk) : walk[k].name \in KnownNames(table)
    <2>1. \A k \in 1 .. Len(walk) : walk[k] \in Entries(table)
        BY <1>4
    <2> QED BY <1>4, <2>1, EntryOf, EntryKnown DEF KnownNames
<1> QED
    BY <1>5, MatchingType DEF daVarList, walk

\* What the client has: its variables, storage for them, and the errors counted.
Clients ==
    {acc \in [table : [0 .. TABLE_SIZE - 1 -> Seq(Variables)],
              mem : UNION {[D -> Seq(Int)] : D \in SUBSET Nat}, nerrors : Nat] :
        /\ IsRegistry(acc.table) /\ Shared(acc.table) /\ Separate(acc.table)
        /\ IsStorage(acc.table, acc.mem)
        /\ \E last \in DOMAIN acc.mem : \A p \in DOMAIN acc.mem : p <= last}

LEMMA ClientsIs ==
    ASSUME NEW table, NEW mem, NEW nerrors \in Nat
    PROVE  [table |-> table, mem |-> mem, nerrors |-> nerrors] \in Clients <=>
               /\ IsRegistry(table) /\ Shared(table) /\ Separate(table)
               /\ IsStorage(table, mem)
               /\ DOMAIN mem \subseteq Nat /\ mem \in [DOMAIN mem -> Seq(Int)]
               /\ \E last \in DOMAIN mem : \A p \in DOMAIN mem : p <= last
<1>1. mem \in UNION {[D -> Seq(Int)] : D \in SUBSET Nat} <=>
          DOMAIN mem \subseteq Nat /\ mem \in [DOMAIN mem -> Seq(Int)]
    OBVIOUS
<1>2. IsRegistry(table) => table \in [0 .. TABLE_SIZE - 1 -> Seq(Variables)]
    BY DEF IsRegistry
<1> QED
    BY <1>1, <1>2 DEF Clients

LEMMA ClientsAre ==
    ASSUME NEW acc \in Clients
    PROVE  /\ acc = [table |-> acc.table, mem |-> acc.mem, nerrors |-> acc.nerrors]
           /\ acc.nerrors \in Nat
           /\ IsRegistry(acc.table) /\ Shared(acc.table) /\ Separate(acc.table)
           /\ IsStorage(acc.table, acc.mem)
           /\ DOMAIN acc.mem \subseteq Nat /\ acc.mem \in [DOMAIN acc.mem -> Seq(Int)]
           /\ \E last \in DOMAIN acc.mem : \A p \in DOMAIN acc.mem : p <= last
<1>1. acc \in [table : [0 .. TABLE_SIZE - 1 -> Seq(Variables)],
              mem : UNION {[D -> Seq(Int)] : D \in SUBSET Nat}, nerrors : Nat]
    BY DEF Clients
<1>2. acc = [table |-> acc.table, mem |-> acc.mem, nerrors |-> acc.nerrors]
      /\ acc.nerrors \in Nat /\ acc.mem \in UNION {[D -> Seq(Int)] : D \in SUBSET Nat}
    BY <1>1
<1>3. DOMAIN acc.mem \subseteq Nat /\ acc.mem \in [DOMAIN acc.mem -> Seq(Int)]
    BY <1>2
<1> QED
    BY <1>2, <1>3 DEF Clients

\* Any write leaves the client with what it needs.
LEMMA CountedIn ==
    ASSUME NEW acc \in Clients, NEW name \in Names, NEW val \in Values
    PROVE  LET w == daVarWriteVar(acc.table, acc.mem, name, DAVAR_NOINDEX, val)
           IN  /\ Counted(acc, w) \in Clients
               /\ Counted(acc, w).nerrors >= acc.nerrors
               /\ Counted(acc, w).nerrors = 0 => w.status = S_SUCCESS /\ acc.nerrors = 0
               /\ Counted(acc, w).table = w.table /\ Counted(acc, w).mem = w.mem
               /\ KnownNames(acc.table) = KnownNames(w.table)
<1> DEFINE w == daVarWriteVar(acc.table, acc.mem, name, DAVAR_NOINDEX, val)
           errors == acc.nerrors + IF w.status = S_SUCCESS THEN 0 ELSE 1
<1>1. name \in Seq(Words)
    BY DEF Names
<1>2. /\ Retitled(acc.table, w.table)
      /\ IsStorage(acc.table, w.mem) /\ DOMAIN w.mem = DOMAIN acc.mem
      /\ w.mem \in [DOMAIN acc.mem -> Seq(Int)]
    BY <1>1, WriteKeeps, ClientsAre
<1> HIDE DEF w
<1>3. Counted(acc, w) = [table |-> w.table, mem |-> w.mem, nerrors |-> errors]
    BY DEF Counted
<1>4. errors \in Nat /\ errors >= acc.nerrors
      /\ (errors = 0 => w.status = S_SUCCESS /\ acc.nerrors = 0)
    BY ClientsAre
<1> HIDE DEF errors
<1>5. /\ IsRegistry(w.table) /\ Shared(w.table) /\ Separate(w.table)
      /\ IsStorage(w.table, w.mem)
    BY <1>2, RetitledKeeps, ClientsAre DEF Retitled
<1>6. Counted(acc, w) \in Clients
    <2>1. DOMAIN w.mem \subseteq Nat /\ w.mem \in [DOMAIN w.mem -> Seq(Int)]
          /\ \E last \in DOMAIN w.mem : \A p \in DOMAIN w.mem : p <= last
        BY <1>2, ClientsAre
    <2>2. [table |-> w.table, mem |-> w.mem, nerrors |-> errors] \in Clients
        BY <1>4, <1>5, <2>1, ClientsIs
    <2> QED BY <1>3, <2>2
<1>7. KnownNames(acc.table) = KnownNames(w.table)
    BY <1>2 DEF KnownNames, Retitled, Names
<1> QED
    BY <1>3, <1>4, <1>6, <1>7 DEF w

\* A value stored under a known name is found there afterwards, and the values
\* of the other names are as before.
LEMMA StoreIn ==
    ASSUME NEW acc \in Clients, NEW name \in KnownNames(acc.table), NEW val \in Values
    PROVE  LET done == Store(acc, name, val)
           IN  /\ done \in Clients
               /\ done.table = acc.table
               /\ done.nerrors >= acc.nerrors
               /\ done.nerrors = 0 =>
                      /\ acc.nerrors = 0
                      /\ Matches(Own(done.mem, daVarLookupP(acc.table, name)), val)
                      /\ \A n \in KnownNames(acc.table) :
                             Key(n) # Key(name) =>
                                 Own(done.mem, daVarLookupP(acc.table, n))
                                 = Own(acc.mem, daVarLookupP(acc.table, n))
<1> DEFINE done == Store(acc, name, val)
           w == daVarWriteVar(acc.table, acc.mem, name, DAVAR_NOINDEX, val)
           varp == daVarLookupP(acc.table, name)
<1>1. CASE val.valtype = DAVARERROR_RPC
    <2>1. done = [acc EXCEPT !.nerrors = @ + 1]
        BY <1>1 DEF Store
    <2>2. done = [table |-> acc.table, mem |-> acc.mem, nerrors |-> acc.nerrors + 1]
          /\ acc.nerrors \in Nat
        BY <2>1, ClientsAre
    <2> HIDE DEF done
    <2>3. done \in Clients
        <3>1. acc.nerrors + 1 \in Nat
            BY <2>2
        <3>2. [table |-> acc.table, mem |-> acc.mem, nerrors |-> acc.nerrors + 1] \in Clients
            BY <3>1, ClientsAre, ClientsIs
        <3> QED BY <2>2, <3>2
    <2>4. done.table = acc.table /\ done.nerrors = acc.nerrors + 1
        BY <2>2
    <2> QED BY <2>2, <2>3, <2>4 DEF done
<1>2. CASE val.valtype # DAVARERROR_RPC
    <2>1. done = Counted(acc, w)
        BY <1>2 DEF Store
    <2>2. name \in Names /\ Known(acc.table, name) /\ name \in Seq(Words)
        BY DEF KnownNames, Names
    <2>3. /\ done \in Clients
          /\ done.nerrors >= acc.nerrors
          /\ done.nerrors = 0 => w.status = S_SUCCESS /\ acc.nerrors = 0
          /\ done.table = w.table /\ done.mem = w.mem
        BY <2>1, <2>2, CountedIn
    <2>4. /\ w.status = WriteStatus(varp, 0, val)
          /\ w.table = acc.table
          /\ w.status = S_SUCCESS =>
                 w.mem = [acc.mem EXCEPT ![varp.ptr] = Written(varp, acc.mem[varp.ptr], 0, val)]
        <3>1. WritesOwn(w, acc.table, acc.mem, varp, val)
            BY <2>2, WriteKnown
        <3> HIDE DEF w, varp
        <3> QED BY <3>1 DEF WritesOwn
    <2>5. varp \in Entries(acc.table) /\ varp \in Variables /\ Key(varp.name) = Key(name)
        BY <2>2, Found, ClientsAre
    <2> HIDE DEF done, w, varp
    <2> SUFFICES ASSUME done.nerrors = 0
                 PROVE  /\ Matches(Own(done.mem, varp), val)
                        /\ \A n \in KnownNames(acc.table) :
                               Key(n) # Key(name) =>
                                   Own(done.mem, daVarLookupP(acc.table, n))
                                   = Own(acc.mem, daVarLookupP(acc.table, n))
        BY <2>3, <2>4 DEF done, varp
    <2>6. /\ varp.ptr \in DOMAIN acc.mem /\ acc.mem[varp.ptr] \in Seq(Int)
          /\ varp.type # DAVARSTRING => Len(acc.mem[varp.ptr]) = varp.size
        BY <2>5, ClientsAre DEF IsStorage
    <2>7. WriteStatus(varp, 0, val) = S_SUCCESS
          /\ done.mem = [acc.mem EXCEPT ![varp.ptr] = Written(varp, acc.mem[varp.ptr], 0, val)]
        BY <2>3, <2>4
    <2>8. /\ varp.ptr \in DOMAIN done.mem
          /\ done.mem[varp.ptr] = Written(varp, acc.mem[varp.ptr], 0, val)
          /\ \A p \in DOMAIN acc.mem : p # varp.ptr => done.mem[p] = acc.mem[p]
        BY <2>6, <2>7
    <2>9. Matches(Own(done.mem, varp), val)
        BY <2>5, <2>6, <2>7, <2>8, WriteMatches
    <2>10. ASSUME NEW n \in KnownNames(acc.table), Key(n) # Key(name)
           PROVE  Own(done.mem, daVarLookupP(acc.table, n))
                  = Own(acc.mem, daVarLookupP(acc.table, n))
        <3>1. /\ daVarLookupP(acc.table, n) \in Entries(acc.table)
              /\ Key(daVarLookupP(acc.table, n).name) = Key(n)
            BY Found, ClientsAre DEF KnownNames, Names
        <3>2. daVarLookupP(acc.table, n).ptr # varp.ptr
            BY <2>5, <2>10, <3>1, ClientsAre DEF Separate
        <3>3. daVarLookupP(acc.table, n).ptr \in DOMAIN acc.mem
            BY <3>1, ClientsAre DEF IsStorage
        <3>4. done.mem[daVarLookupP(acc.table, n).ptr] = acc.mem[daVarLookupP(acc.table, n).ptr]
            BY <2>8, <3>2, <3>3
        <3> QED BY <3>4 DEF Own
    <2> QED BY <2>9, <2>10
<1> QED
    BY <1>1, <1>2

-----------------------------------------------------------------------------
(* Imports.                                                                  *)

\* What an import brings: variables with their values.
Items == [name : Names,
          val : {v \in Values : /\ v.valtype # DAVARERROR_RPC
                                /\ v.valtype # DAVARSTRING => v.val # <<>>}]

\* A variable registered anew, over one of the same name or not, has storage of
\* its own, and the other variables are as before.
LEMMA RenewIn ==
    ASSUME NEW acc \in Clients, NEW item \in Items
    PROVE  LET fresh == [table |-> Anew(acc, item), mem |-> Room(acc, item),
                         nerrors |-> acc.nerrors]
           IN  /\ fresh \in Clients
               /\ item.name \in KnownNames(fresh.table)
               /\ KnownNames(acc.table) \subseteq KnownNames(fresh.table)
               /\ \A n \in KnownNames(acc.table) :
                      Key(n) # Key(item.name) =>
                          Own(fresh.mem, daVarLookupP(fresh.table, n))
                          = Own(acc.mem, daVarLookupP(acc.table, n))
<1> DEFINE table == acc.table
           mem == acc.mem
           ptr == NewPtr(acc)
           val == item.val.val
           size == Len(val) + (IF item.val.valtype = DAVARSTRING THEN 1 ELSE 0)
           args == [name |-> item.name, title |-> <<>>, type |-> item.val.valtype,
                    size |-> size, flag |-> 12, ptr |-> ptr, hook |-> "none"]
           room == [k \in DOMAIN val |-> 0]
           new == Room(acc, item)
           anew == Anew(acc, item)
<1>1. /\ item.name \in Names /\ item.name \in Seq(Words) /\ item.val \in Values
      /\ item.val.valtype \in {DAVARINT, DAVARFLOAT, DAVARSTRING}
      /\ val \in Seq(Int) /\ Len(val) \in Nat
      /\ item.val.valtype # DAVARSTRING => Len(val) # 0
    BY DEF Items, Values, Names
<1>2. PICK last \in DOMAIN mem : \A p \in DOMAIN mem : p <= last
    BY ClientsAre
<1>3. ptr \in Nat /\ \A p \in DOMAIN mem : p # ptr
    <2>1. DOMAIN mem \in SUBSET Nat /\ DOMAIN mem # {} /\ last \in Nat
        BY <1>2, ClientsAre
    <2>2. Max(DOMAIN mem) \in DOMAIN mem /\ \A p \in DOMAIN mem : p <= Max(DOMAIN mem)
        BY <1>2, <2>1, MaxOf
    <2>3. Max(DOMAIN mem) \in Nat /\ ptr = Max(DOMAIN mem) + 1
        BY <2>1, <2>2 DEF NewPtr
    <2> QED BY <2>1, <2>2, <2>3
<1>4. size \in Nat /\ size # 0 /\ (item.val.valtype # DAVARSTRING => size = Len(val))
    <2> HIDE DEF val
    <2>1. CASE item.val.valtype = DAVARSTRING
        BY <1>1, <2>1
    <2>2. CASE item.val.valtype # DAVARSTRING
        BY <1>1, <2>2
    <2> QED BY <2>1, <2>2
<1>5. args \in [name : Names, title : Seq(Int), type : 1 .. 5, size : Int,
                flag : Int, ptr : Nat, hook : {"none", "block"}]
    <2>1. item.val.valtype \in 1 .. 5 /\ <<>> \in Seq(Int) /\ 12 \in Int
        BY <1>1 DEF DAVARINT, DAVARFLOAT, DAVARSTRING
    <2>2. "none" \in {"none", "block"}
        OBVIOUS
    <2> HIDE DEF size, ptr
    <2> QED BY <1>1, <1>3, <1>4, <2>1, <2>2
<1>6. room \in Seq(Int) /\ Len(room) = Len(val)
    <2>1. room \in [1 .. Len(val) -> Int]
        BY <1>1
    <2>2. room \in Seq(Int) /\ DOMAIN room = 1 .. Len(val)
        BY <1>1, <2>1, SeqDef
    <2> HIDE DEF room
    <2> QED BY <1>1, <2>2, LenProperties
<1>7. /\ DOMAIN new = DOMAIN mem \union {ptr}
      /\ new[ptr] = room
      /\ \A p \in DOMAIN mem : new[p] = mem[p]
    <2>1. new = [p \in DOMAIN mem \union {ptr} |-> IF p = ptr THEN room ELSE mem[p]]
        BY DEF Room
    <2> HIDE DEF new, room, ptr
    <2> QED BY <1>3, <2>1
<1>8. anew = daVarRegister(table, args).table
    BY DEF Anew
<1>9. IsRegistry(table) /\ Shared(table) /\ Separate(table) /\ IsStorage(table, mem)
      /\ mem \in [DOMAIN mem -> Seq(Int)] /\ DOMAIN mem \subseteq Nat /\ acc.nerrors \in Nat
    BY ClientsAre
<1>10. args.name = item.name /\ args.type = item.val.valtype /\ args.size = size /\ args.ptr = ptr
    OBVIOUS
<1> HIDE DEF table, mem, ptr, args, size, val, room, new, anew
<1>11. PICK e \in Variables :
           /\ e.ptr = ptr /\ e.type = item.val.valtype
           /\ e.size = size
           /\ IsRegistry(anew)
           /\ Entries(anew) \subseteq Entries(table) \union {e}
           /\ \A m \in Seq(Words) :
                  /\ Known(anew, m) <=> Known(table, m) \/ Key(m) = Key(item.name)
                  /\ Known(table, m) /\ Key(m) # Key(item.name) =>
                         daVarLookupP(anew, m) = daVarLookupP(table, m)
    <2>1. \E e \in Variables : Registers(anew, table, args, e)
        BY <1>5, <1>8, <1>9, RegisterFinds
    <2>2. ~(args.size <= 0)
        BY <1>4, <1>10
    <2> QED BY <1>10, <2>1, <2>2 DEF Registers
<1>12. \A o \in Entries(table) : o.ptr \in DOMAIN mem /\ o.ptr # ptr /\ new[o.ptr] = mem[o.ptr]
    BY <1>3, <1>7, <1>9 DEF IsStorage
<1>13. Shared(anew) /\ Separate(anew)
    BY <1>9, <1>11, <1>12 DEF Shared, Separate
<1>14. IsStorage(anew, new)
    <2> SUFFICES ASSUME NEW o \in Entries(anew)
                 PROVE  /\ o.ptr \in DOMAIN new
                        /\ new[o.ptr] \in Seq(Int)
                        /\ o.type # DAVARSTRING => Len(new[o.ptr]) = o.size
        BY DEF IsStorage
    <2>1. CASE o \in Entries(table)
        BY <1>7, <1>9, <1>12, <2>1 DEF IsStorage
    <2>2. CASE o = e
        BY <1>4, <1>6, <1>7, <1>11, <2>2
    <2> QED BY <1>11, <2>1, <2>2
<1>15. /\ DOMAIN new \subseteq Nat /\ new \in [DOMAIN new -> Seq(Int)]
       /\ \E x \in DOMAIN new : \A p \in DOMAIN new : p <= x
    <2>1. \A p \in DOMAIN new : new[p] \in Seq(Int)
        BY <1>6, <1>7, <1>9
    <2>2. new = [p \in DOMAIN new |-> new[p]]
        BY DEF new, Room
    <2>3. new \in [DOMAIN new -> Seq(Int)]
        BY <2>1, <2>2
    <2>4. DOMAIN new \subseteq Nat
        BY <1>3, <1>7, <1>9
    <2>5. \E x \in DOMAIN new : \A p \in DOMAIN new : p <= x
        <3>1. last \in Nat /\ ptr \in Nat /\ \A p \in DOMAIN mem : p <= last
            BY <1>2, <1>3, <1>9 DEF mem
        <3>2. CASE last <= ptr
            BY <1>7, <1>9, <3>1, <3>2
        <3>3. CASE ~(last <= ptr)
            <4>1. last \in DOMAIN new
                BY <1>2, <1>7 DEF mem
            <4> QED BY <1>7, <3>1, <3>3, <4>1
        <3> QED BY <3>2, <3>3
    <2> QED BY <2>3, <2>4, <2>5
<1>16. [table |-> anew, mem |-> new, nerrors |-> acc.nerrors] \in Clients
    BY <1>9, <1>11, <1>13, <1>14, <1>15, ClientsIs
<1>17. item.name \in KnownNames(anew) /\ KnownNames(table) \subseteq KnownNames(anew)
    BY <1>1, <1>11 DEF KnownNames, Names
<1>18. ASSUME NEW n \in KnownNames(table), Key(n) # Key(item.name)
       PROVE  Own(new, daVarLookupP(anew, n)) = Own(mem, daVarLookupP(table, n))
    <2>1. n \in Seq(Words) /\ Known(table, n)
        BY DEF KnownNames, Names
    <2>2. daVarLookupP(anew, n) = daVarLookupP(table, n) /\ daVarLookupP(table, n) \in Entries(table)
        BY <1>9, <1>11, <1>18, <2>1, Found
    <2> QED BY <1>12, <2>2 DEF Own
<1> QED
    BY <1>16, <1>17, <1>18 DEF table, mem, new, anew

\* Names whose last word is that of no attribute that can be written.
Plain(name) == Lower[name[Len(name)]] \notin {"value", "title"}

\* A name that is not known is written through only as an attribute of a variable.
LEMMA UnknownFails ==
    ASSUME NEW table, NEW mem, NEW name \in Names, ~Known(table, name), Plain(name), NEW val
    PROVE  daVarWriteVar(table, mem, name, DAVAR_NOINDEX, val).status # S_SUCCESS
<1> DEFINE c == daVarClassFind(table, name)
           found == daVarAttributeFind(table, name, c)
           w == daVarWriteVar(table, mem, name, DAVAR_NOINDEX, val)
<1>1. name \in Seq(Words) /\ Len(name) \in Nat /\ SubSeq(name, 1, Len(name)) = name
    BY DEF Names
<1>2. CASE c = <<>>
    <2>1. w = [status |-> S_FAILURE, table |-> table, mem |-> mem, booked |-> FALSE]
        BY <1>2 DEF daVarWriteVar, WriteOf
    <2>2. w.status = S_FAILURE
        BY <2>1
    <2> HIDE DEF w
    <2> QED BY <2>2 DEF w, S_FAILURE, S_SUCCESS
<1>3. CASE c # <<>>
    <2>1. PICK i \in 1 .. Len(name) :
              c = SubSeq(name, 1, i) /\ Known(table, SubSeq(name, 1, i))
        <3> HIDE DEF c
        <3> QED BY <1>1, <1>3, ClassFound DEF c
    <2>2. PICK k \in i .. Len(name) :
              /\ Known(table, SubSeq(name, 1, k))
              /\ daVarAttributeFind(table, name, SubSeq(name, 1, i)).attribute
                 = Key(SubSeq(name, k + 1, Len(name)))
        <3>1. \E k \in i .. Len(name) :
              /\ Known(table, SubSeq(name, 1, k))
              /\ daVarAttributeFind(table, name, SubSeq(name, 1, i)).varp
                 = daVarLookupP(table, SubSeq(name, 1, k))
              /\ daVarAttributeFind(table, name, SubSeq(name, 1, i)).attribute
                 = Key(SubSeq(name, k + 1, Len(name)))
              /\ Known(table, name) => k = Len(name)
            BY <1>1, <2>1, AttributeFound, Zenon
        <3> QED BY <3>1
    <2> DEFINE rest == SubSeq(name, k + 1, Len(name))
    <2>3. found.attribute = Key(rest)
        BY <2>1, <2>2
    <2>4. k < Len(name) /\ k \in Nat /\ k + 1 \in 1 .. Len(name)
        <3>1. ASSUME k = Len(name) PROVE FALSE
            <4>1. SubSeq(name, 1, k) = name
                BY <1>1, <3>1
            <4> QED BY <2>2, <4>1
        <3>2. ASSUME NEW n \in Nat, NEW j \in 1 .. n, NEW l \in j .. n, l # n
              PROVE  l < n /\ l \in Nat /\ l + 1 \in 1 .. n
            BY <3>2
        <3> HIDE DEF found, c, w
        <3> QED BY <1>1, <3>1, <3>2
    <2>5. rest \in Seq(Words) /\ Len(rest) = Len(name) - k /\ Len(rest) # 0
          /\ rest[Len(rest)] = name[Len(name)]
        <3>1. /\ rest \in Seq(Words) /\ Len(rest) = Len(name) - (k + 1) + 1
              /\ \A j \in 1 .. Len(name) - (k + 1) + 1 : rest[j] = name[j + (k + 1) - 1]
            <4>1. k + 1 \in Int /\ Len(name) \in Int /\ k + 1 <= Len(name)
                  /\ \A j \in k + 1 .. Len(name) : name[j] \in Words
                BY <1>1, <2>4
            <4>2. \A j \in 1 .. Len(name) - (k + 1) + 1 : (k + 1) + j - 1 = j + (k + 1) - 1
                BY <1>1, <2>4
            <4>3. /\ rest \in Seq(Words)
                  /\ Len(rest) = IF k + 1 <= Len(name) THEN Len(name) - (k + 1) + 1 ELSE 0
                  /\ \A j \in 1 .. Len(name) - (k + 1) + 1 : rest[j] = name[(k + 1) + j - 1]
                BY <4>1, SubSeqProperties
            <4> HIDE DEF rest
            <4> QED BY <4>1, <4>2, <4>3
        <3>2. Len(rest) = Len(name) - k /\ Len(rest) \in 1 .. Len(name) - (k + 1) + 1
              /\ Len(rest) + (k + 1) - 1 = Len(name)
            BY <1>1, <2>4, <3>1
        <3> HIDE DEF rest
        <3>3. rest[Len(rest)] = name[Len(name)]
            <4>1. rest[Len(rest)] = name[Len(rest) + (k + 1) - 1]
                BY <3>1, <3>2
            <4> QED BY <3>2, <4>1
        <3>4. Len(rest) # 0
            BY <3>2
        <3> QED BY <3>1, <3>2, <3>3, <3>4
    <2> HIDE DEF rest
    <2>6. Len(Key(rest)) = Len(rest) /\ Key(rest)[Len(rest)] = Lower[name[Len(name)]]
        BY <2>5, KeyType
    <2>7. Key(rest) \notin {<<>>, <<"value">>, <<"title">>}
        <3>1. ASSUME NEW x, Key(rest) = <<x>> PROVE Lower[name[Len(name)]] = x
            <4>1. Len(Key(rest)) = 1 /\ Key(rest)[1] = x
                BY <3>1
            <4> QED BY <2>6, <4>1
        <3>2. Key(rest) # <<>>
            BY <2>5, <2>6
        <3> QED BY <3>1, <3>2 DEF Plain
    <2> DEFINE r == daVarRegWatr(table, mem, found.varp, found.attribute, DAVAR_NOINDEX, val)
    <2>8. r.status = S_DAVAR_UNKATTR
        <3> HIDE DEF found
        <3>1. ~IsValue(found.attribute) /\ found.attribute # <<"title">>
            BY <2>3, <2>7 DEF IsValue
        <3> QED BY <3>1 DEF daVarRegWatr
    <2>9. w.status = r.status
        <3> DEFINE a == thWHandler(table, mem, found, DAVAR_NOINDEX, val)
                   b == daVarWhandler(table, mem, found, DAVAR_NOINDEX, val)
        <3>1. w = CASE c = <<>> ->
                           [status |-> S_FAILURE, table |-> table, mem |-> mem, booked |-> FALSE]
                    [] c # <<>> /\ IsBlock(table, c) -> a
                    [] OTHER -> b
            BY DEF daVarWriteVar, WriteOf
        <3>2. a.status = r.status /\ b.status = r.status
            <4> HIDE DEF found
            <4> QED BY DEF thWHandler, daVarWhandler, Handled
        <3> HIDE DEF a, b, r, w, c
        <3> QED BY <1>3, <3>1, <3>2
    <2> HIDE DEF w, r
    <2> QED BY <2>8, <2>9 DEF w, S_DAVAR_UNKATTR, S_SUCCESS
<1> QED
    BY <1>2, <1>3

\* What a step of an import makes of the client: new is what it has afterwards.
Imports(acc, new, item) ==
    /\ new \in Clients
    /\ KnownNames(acc.table) \subseteq KnownNames(new.table)
    /\ new.nerrors >= acc.nerrors
    /\ new.nerrors = 0 /\ Plain(item.name) =>
           /\ acc.nerrors = 0
           /\ item.name \in KnownNames(new.table)
           /\ Matches(Own(new.mem, daVarLookupP(new.table, item.name)), item.val)
           /\ \A n \in KnownNames(acc.table) :
                  Key(n) # Key(item.name) =>
                      Own(new.mem, daVarLookupP(new.table, n))
                      = Own(acc.mem, daVarLookupP(acc.table, n))

LEMMA ImportIn ==
    ASSUME NEW acc \in Clients, NEW item \in Items
    PROVE  Imports(acc, Import(acc, item), item)
<1> DEFINE name == item.name
           val == item.val
           w == daVarWriteVar(acc.table, acc.mem, name, DAVAR_NOINDEX, val)
           done == Import(acc, item)
<1>1. name \in Names /\ val \in Values /\ val.valtype # DAVARERROR_RPC
    BY DEF Items
<1>2. CASE w.status = S_SUCCESS
    <2>1. done = Counted(acc, w)
        <3> DEFINE a == Counted(acc, w)
                   b == [acc EXCEPT !.nerrors = @ + 1]
                   d == Counted(acc, Renewed(acc, item))
        <3>1. done = CASE w.status = S_SUCCESS -> a
                       [] w.status # S_SUCCESS /\ item.val.valtype = DAVARERROR_RPC -> b
                       [] OTHER -> d
            BY DEF Import, Imported
        <3> HIDE DEF a, b, d, w, done
        <3> QED BY <1>2, <3>1 DEF a
    <2>2. /\ done \in Clients
          /\ done.nerrors >= acc.nerrors
          /\ done.nerrors = 0 => acc.nerrors = 0
          /\ done.table = w.table
          /\ KnownNames(acc.table) = KnownNames(w.table)
        <3> HIDE DEF done
        <3> QED BY <1>1, <2>1, CountedIn
    <2>3. CASE Known(acc.table, name)
        <3>1. name \in KnownNames(acc.table)
            BY <1>1, <2>3 DEF KnownNames
        <3>2. done = Store(acc, name, val)
            BY <1>1, <2>1 DEF Store
        <3> HIDE DEF done, w, name, val
        <3>3. /\ done.table = acc.table
              /\ done.nerrors = 0 =>
                      /\ acc.nerrors = 0
                      /\ Matches(Own(done.mem, daVarLookupP(acc.table, name)), val)
                      /\ \A n \in KnownNames(acc.table) :
                             Key(n) # Key(name) =>
                                 Own(done.mem, daVarLookupP(acc.table, n))
                                 = Own(acc.mem, daVarLookupP(acc.table, n))
            BY <1>1, <3>1, <3>2, StoreIn
        <3> QED BY <2>2, <3>1, <3>3 DEF Imports, done, name, val
    <2>4. CASE ~Known(acc.table, name)
        <3>1. ~Plain(name)
            BY <1>1, <1>2, <2>4, UnknownFails
        <3> HIDE DEF done, w
        <3> QED BY <2>2, <3>1 DEF Imports, done
    <2> QED BY <2>3, <2>4
<1>3. CASE w.status # S_SUCCESS
    <2> DEFINE fresh == [table |-> Anew(acc, item), mem |-> Room(acc, item),
                         nerrors |-> acc.nerrors]
    <2>1. done = Counted(acc, Renewed(acc, item))
        <3> DEFINE a == Counted(acc, w)
                   b == [acc EXCEPT !.nerrors = @ + 1]
                   d == Counted(acc, Renewed(acc, item))
        <3>1. done = CASE w.status = S_SUCCESS -> a
                       [] w.status # S_SUCCESS /\ item.val.valtype = DAVARERROR_RPC -> b
                       [] OTHER -> d
            BY DEF Import, Imported
        <3> HIDE DEF a, b, d, w, done
        <3> QED BY <1>1, <1>3, <3>1 DEF d
    <2>2. done = Store(fresh, name, val)
        <3>1. Renewed(acc, item) = daVarWriteVar(fresh.table, fresh.mem, name, DAVAR_NOINDEX, val)
            BY DEF Renewed
        <3>2. Store(fresh, name, val)
              = Counted(fresh, daVarWriteVar(fresh.table, fresh.mem, name, DAVAR_NOINDEX, val))
            BY <1>1 DEF Store
        <3>3. Counted(fresh, Renewed(acc, item)) = Counted(acc, Renewed(acc, item))
            BY DEF Counted
        <3> HIDE DEF fresh, done
        <3> QED BY <2>1, <3>1, <3>2, <3>3
    <2>3. /\ fresh \in Clients
          /\ name \in KnownNames(fresh.table)
          /\ KnownNames(acc.table) \subseteq KnownNames(fresh.table)
          /\ \A n \in KnownNames(acc.table) :
                 Key(n) # Key(name) =>
                     Own(fresh.mem, daVarLookupP(fresh.table, n))
                     = Own(acc.mem, daVarLookupP(acc.table, n))
        BY RenewIn
    <2>4. fresh.nerrors = acc.nerrors
        OBVIOUS
    <2> HIDE DEF done, w, name, val, fresh
    <2>5. /\ done \in Clients
          /\ done.table = fresh.table
          /\ done.nerrors >= fresh.nerrors
          /\ done.nerrors = 0 =>
                  /\ fresh.nerrors = 0
                  /\ Matches(Own(done.mem, daVarLookupP(fresh.table, name)), val)
                  /\ \A n \in KnownNames(fresh.table) :
                         Key(n) # Key(name) =>
                             Own(done.mem, daVarLookupP(fresh.table, n))
                             = Own(fresh.mem, daVarLookupP(fresh.table, n))
        BY <1>1, <2>2, <2>3, StoreIn
    <2> QED BY <2>3, <2>4, <2>5 DEF Imports, done, name, val
<1> QED
    BY <1>2, <1>3

-----------------------------------------------------------------------------
(* Whole lists of values.                                                    *)

\* Under one name, in whatever case, there is one value.
Alike(names, vals) ==
    \A j, k \in DOMAIN names : Key(names[j]) = Key(names[k]) => vals[j] = vals[k]

\* The first n values are those of the variables of the first n names.
Hold(acc, names, vals, n) ==
    \A j \in 1 .. n : /\ names[j] \in KnownNames(acc.table)
                      /\ Matches(Own(acc.mem, daVarLookupP(acc.table, names[j])), vals[j])

\* What a list of values makes of the client.
LEMMA StoreAllIn ==
    ASSUME Registry \in Clients, NEW names \in Seq(KnownNames(ctable)), NEW vals \in Seq(Values),
           Len(vals) = Len(names)
    PROVE  LET done == StoreAll(names, vals)
           IN  /\ done \in Clients /\ done.table = ctable
               /\ done.nerrors = 0 /\ Alike(names, vals) => Hold(done, names, vals, Len(names))
<1> DEFINE n == Len(names)
           A == {acc \in Clients : acc.table = ctable}
           step == [k \in 1 .. n |-> [x \in A |-> Store(x, names[k], vals[k])]]
<1>0. /\ n \in Nat /\ DOMAIN names = 1 .. n
      /\ \A k \in 1 .. n : names[k] \in KnownNames(ctable) /\ vals[k] \in Values
    OBVIOUS
<1>1. Registry \in A
    BY DEF Registry
<1> HIDE DEF n
<1>2. \A k \in 1 .. n : \A x \in A : Store(x, names[k], vals[k]) \in A
    <2> SUFFICES ASSUME NEW k \in 1 .. n, NEW x \in A PROVE Store(x, names[k], vals[k]) \in A
        OBVIOUS
    <2>1. x \in Clients /\ names[k] \in KnownNames(x.table) /\ vals[k] \in Values
        BY <1>0
    <2>2. Store(x, names[k], vals[k]) \in Clients /\ Store(x, names[k], vals[k]).table = x.table
        BY <2>1, StoreIn
    <2> QED BY <2>2
<1> HIDE DEF A
<1>3. step \in [1 .. n -> [A -> A]]
    BY <1>2
<1>4. PICK f \in [0 .. n -> A] : Follows(f, n, Registry, step)
    <2> HIDE DEF step
    <2> QED BY <1>0, <1>1, <1>3, Recursion, Zenon
<1>5. f = [k \in 0 .. n |-> IF k = 0 THEN Registry ELSE Store(f[k - 1], names[k], vals[k])]
    <2>1. ASSUME NEW k \in 0 .. n, k # 0 PROVE f[k] = Store(f[k - 1], names[k], vals[k])
        <3>1. k \in 1 .. n /\ k - 1 \in 0 .. n
            BY <1>0, <2>1
        <3>2. f[k - 1] \in A
            BY <3>1
        <3>3. f[k] = step[k][f[k - 1]]
            <4> HIDE DEF step
            <4> QED BY <1>4, <3>1 DEF Follows
        <3> QED BY <3>1, <3>2, <3>3
    <2> HIDE DEF step
    <2> QED BY <1>4, <2>1 DEF Follows
<1> DEFINE g == CHOOSE acc : acc = [k \in 0 .. n |-> IF k = 0 THEN Registry
                                      ELSE Store(acc[k - 1], names[k], vals[k])]
<1>6. g = [k \in 0 .. n |-> IF k = 0 THEN Registry ELSE Store(g[k - 1], names[k], vals[k])]
    BY <1>5
<1> DEFINE Done(k) == g[k].nerrors = 0 /\ Alike(names, vals) => Hold(g[k], names, vals, k)
           T == {k \in 0 .. n : g[k] \in A /\ Done(k)}
<1> HIDE DEF g
<1>7. 0 \in T
    <2>1. g[0] = Registry
        BY <1>0, <1>6
    <2>2. Hold(g[0], names, vals, 0)
        BY DEF Hold
    <2> QED BY <1>0, <1>1, <2>1, <2>2
<1>8. ASSUME NEW k \in 0 .. n - 1, k \in T PROVE k + 1 \in T
    <2>1. k \in 0 .. n /\ k + 1 \in 0 .. n /\ k + 1 \in 1 .. n /\ (k + 1) - 1 = k /\ k + 1 # 0
        BY <1>0
    <2>2. g[k + 1] = Store(g[k], names[k + 1], vals[k + 1])
        BY <1>6, <2>1
    <2>3. g[k] \in Clients /\ g[k].table = ctable /\ Done(k)
        BY <1>8 DEF A
    <2> DEFINE name == names[k + 1]
               val == vals[k + 1]
               new == g[k + 1]
               old == g[k]
    <2>4. name \in KnownNames(old.table) /\ val \in Values
        BY <1>0, <2>1, <2>3
    <2>5. new = Store(old, name, val)
        BY <2>2
    <2> HIDE DEF name, val, new, old
    <2>6. /\ new \in Clients
          /\ new.table = old.table
          /\ new.nerrors = 0 =>
                 /\ old.nerrors = 0
                 /\ Matches(Own(new.mem, daVarLookupP(old.table, name)), val)
                 /\ \A m \in KnownNames(old.table) :
                        Key(m) # Key(name) =>
                            Own(new.mem, daVarLookupP(old.table, m))
                            = Own(old.mem, daVarLookupP(old.table, m))
        <3>1. old \in Clients
            BY <2>3 DEF old
        <3> QED BY <2>4, <2>5, <3>1, StoreIn
    <2>7. ASSUME new.nerrors = 0, Alike(names, vals) PROVE Hold(new, names, vals, k + 1)
        <3>1. Hold(old, names, vals, k)
            BY <2>3, <2>6, <2>7 DEF old
        <3> SUFFICES ASSUME NEW j \in 1 .. k + 1
                     PROVE  /\ names[j] \in KnownNames(new.table)
                            /\ Matches(Own(new.mem, daVarLookupP(new.table, names[j])), vals[j])
            BY DEF Hold
        <3>2. j \in 1 .. n /\ j \in DOMAIN names /\ k + 1 \in DOMAIN names /\ (j # k + 1 => j \in 1 .. k)
            BY <1>0, <2>1
        <3>3. names[j] \in KnownNames(old.table)
            BY <1>0, <2>3, <3>2 DEF old
        <3>4. CASE Key(names[j]) = Key(name)
            <4>1. vals[j] = val
                BY <2>7, <3>2, <3>4 DEF Alike, name, val
            <4>2. daVarLookupP(old.table, names[j]) = daVarLookupP(old.table, name)
                BY <3>4, SameKeySameEntry
            <4> QED BY <2>6, <2>7, <3>3, <4>1, <4>2
        <3>5. CASE Key(names[j]) # Key(name)
            <4>1. j \in 1 .. k
                BY <3>2, <3>5 DEF name
            <4>2. Matches(Own(old.mem, daVarLookupP(old.table, names[j])), vals[j])
                BY <3>1, <4>1 DEF Hold
            <4> QED BY <2>6, <2>7, <3>3, <3>5, <4>2
        <3> QED BY <3>4, <3>5
    <2>8. g[k + 1] \in A
        BY <2>3, <2>6 DEF A, new, old
    <2> QED BY <2>1, <2>7, <2>8 DEF new
<1>9. \A k \in 0 .. n : k \in T
    <2> HIDE DEF T
    <2> QED BY <1>0, <1>7, <1>8, InductTo
<1>10. StoreAll(names, vals) = g[n]
    BY DEF StoreAll, g, n
<1>11. g[n] \in A /\ Done(n)
    BY <1>0, <1>9
<1> QED
    BY <1>10, <1>11 DEF A, n

\* What a list of variables with their values makes of the client.
LEMMA ImportingIn ==
    ASSUME Registry \in Clients, NEW items \in Seq(Items),
           NEW names, names = [k \in DOMAIN items |-> items[k].name],
           NEW vals, vals = [k \in DOMAIN items |-> items[k].val]
    PROVE  LET done == Importing(items)
           IN  /\ done \in Clients
               /\ KnownNames(ctable) \subseteq KnownNames(done.table)
               /\ /\ done.nerrors = 0 /\ Alike(names, vals)
                  /\ \A k \in DOMAIN items : Plain(names[k])
                  => Hold(done, names, vals, Len(items))
<1> DEFINE n == Len(items)
           A == {acc \in Clients : KnownNames(ctable) \subseteq KnownNames(acc.table)}
           step == [k \in 1 .. n |-> [x \in A |-> Import(x, items[k])]]
<1>0. /\ n \in Nat /\ DOMAIN items = 1 .. n /\ DOMAIN names = 1 .. n
      /\ \A k \in 1 .. n : items[k] \in Items /\ names[k] = items[k].name /\ vals[k] = items[k].val
    OBVIOUS
<1>1. Registry \in A /\ Registry.table = ctable
    BY DEF Registry
<1> HIDE DEF n
<1>2. \A k \in 1 .. n : \A x \in A : Import(x, items[k]) \in A
    <2> SUFFICES ASSUME NEW k \in 1 .. n, NEW x \in A PROVE Import(x, items[k]) \in A
        OBVIOUS
    <2>1. x \in Clients /\ items[k] \in Items
        BY <1>0
    <2>2. Imports(x, Import(x, items[k]), items[k])
        BY <2>1, ImportIn
    <2> QED BY <2>2 DEF Imports
<1> HIDE DEF A
<1>3. step \in [1 .. n -> [A -> A]]
    BY <1>2
<1>4. PICK f \in [0 .. n -> A] : Follows(f, n, Registry, step)
    <2> HIDE DEF step
    <2> QED BY <1>0, <1>1, <1>3, Recursion, Zenon
<1>5. f = [k \in 0 .. n |-> IF k = 0 THEN Registry ELSE Import(f[k - 1], items[k])]
    <2>1. ASSUME NEW k \in 0 .. n, k # 0 PROVE f[k] = Import(f[k - 1], items[k])
        <3>1. k \in 1 .. n /\ k - 1 \in 0 .. n
            BY <1>0, <2>1
        <3>2. f[k - 1] \in A
            BY <3>1
        <3>3. f[k] = step[k][f[k - 1]]
            <4> HIDE DEF step
            <4> QED BY <1>4, <3>1 DEF Follows
        <3> QED BY <3>1, <3>2, <3>3
    <2> HIDE DEF step
    <2> QED BY <1>4, <2>1 DEF Follows
<1> DEFINE g == CHOOSE acc : acc = [k \in 0 .. n |-> IF k = 0 THEN Registry
                                      ELSE Import(acc[k - 1], items[k])]
<1>6. g = [k \in 0 .. n |-> IF k = 0 THEN Registry ELSE Import(g[k - 1], items[k])]
    BY <1>5
<1> DEFINE Fits == Alike(names, vals) /\ \A k \in DOMAIN items : Plain(names[k])
           Done(k) == g[k].nerrors = 0 /\ Fits => Hold(g[k], names, vals, k)
           T == {k \in 0 .. n : g[k] \in A /\ Done(k)}
<1> HIDE DEF g
<1>7. 0 \in T
    <2>1. g[0] = Registry
        BY <1>0, <1>6
    <2>2. Hold(g[0], names, vals, 0)
        BY DEF Hold
    <2> QED BY <1>0, <1>1, <2>1, <2>2
<1>8. ASSUME NEW k \in 0 .. n - 1, k \in T PROVE k + 1 \in T
    <2>1. k \in 0 .. n /\ k + 1 \in 0 .. n /\ k + 1 \in 1 .. n /\ (k + 1) - 1 = k /\ k + 1 # 0
        BY <1>0
    <2>2. g[k + 1] = Import(g[k], items[k + 1])
        BY <1>6, <2>1
    <2>3. g[k] \in Clients /\ KnownNames(ctable) \subseteq KnownNames(g[k].table) /\ Done(k)
        BY <1>8 DEF A
    <2> DEFINE item == items[k + 1]
               new == g[k + 1]
               old == g[k]
    <2>4. item \in Items /\ names[k + 1] = item.name /\ vals[k + 1] = item.val
        BY <1>0, <2>1
    <2>5. Imports(old, new, item)
        <3>1. old \in Clients /\ new = Import(old, item)
            BY <2>2, <2>3
        <3> HIDE DEF old, new, item
        <3> QED BY <2>4, <3>1, ImportIn
    <2> HIDE DEF item, new, old
    <2>6. ASSUME new.nerrors = 0, Fits PROVE Hold(new, names, vals, k + 1)
        <3>1. Plain(item.name)
            BY <1>0, <2>1, <2>4, <2>6
        <3>2. /\ old.nerrors = 0
              /\ item.name \in KnownNames(new.table)
              /\ Matches(Own(new.mem, daVarLookupP(new.table, item.name)), item.val)
              /\ \A m \in KnownNames(old.table) :
                     Key(m) # Key(item.name) =>
                         Own(new.mem, daVarLookupP(new.table, m))
                         = Own(old.mem, daVarLookupP(old.table, m))
              /\ KnownNames(old.table) \subseteq KnownNames(new.table)
            BY <2>5, <2>6, <3>1 DEF Imports
        <3>3. Hold(old, names, vals, k)
            BY <2>3, <2>6, <3>2 DEF old
        <3> SUFFICES ASSUME NEW j \in 1 .. k + 1
                     PROVE  /\ names[j] \in KnownNames(new.table)
                            /\ Matches(Own(new.mem, daVarLookupP(new.table, names[j])), vals[j])
            BY DEF Hold
        <3>4. j \in 1 .. n /\ j \in DOMAIN names /\ k + 1 \in DOMAIN names /\ (j # k + 1 => j \in 1 .. k)
            BY <1>0, <2>1
        <3>5. CASE Key(names[j]) = Key(item.name)
            <4>1. vals[j] = item.val
                BY <2>4, <2>6, <3>4, <3>5 DEF Alike
            <4>2. daVarLookupP(new.table, names[j]) = daVarLookupP(new.table, item.name)
                  /\ (Known(new.table, names[j]) <=> Known(new.table, item.name))
                BY <3>5, SameKeySameEntry
            <4>3. names[j] \in Names
                <5>1. items[j] \in Items /\ names[j] = items[j].name
                    BY <1>0, <3>4
                <5> QED BY <5>1 DEF Items
            <4>4. names[j] \in KnownNames(new.table)
                BY <3>2, <4>2, <4>3 DEF KnownNames
            <4> QED BY <3>2, <4>1, <4>2, <4>4
        <3>6. CASE Key(names[j]) # Key(item.name)
            <4>1. j \in 1 .. k
                BY <2>4, <3>4, <3>6
            <4>2. /\ names[j] \in KnownNames(old.table)
                  /\ Matches(Own(old.mem, daVarLookupP(old.table, names[j])), vals[j])
                BY <3>3, <4>1 DEF Hold
            <4> QED BY <3>2, <3>6, <4>2
        <3> QED BY <3>5, <3>6
    <2>7. g[k + 1] \in A
        BY <2>3, <2>5 DEF A, new, old, Imports
    <2> QED BY <2>1, <2>6, <2>7 DEF new
<1>9. \A k \in 0 .. n : k \in T
    <2> HIDE DEF T
    <2> QED BY <1>0, <1>7, <1>8, InductTo
<1>10. Importing(items) = g[n]
    BY DEF Importing, g, n
<1>11. g[n] \in A /\ Done(n)
    <2> HIDE DEF Done
    <2> QED BY <1>0, <1>9
<1> QED
    BY <1>10, <1>11 DEF A, n

-----------------------------------------------------------------------------
(* The inductive invariant.                                                  *)

\* The names of the lists are those of variables, and counted.
ListsOK ==
    /\ handle_list \in Seq([names : Seq(KnownNames(ctable)), nnames : Int,
                            rpc : Seq(KnownNames(ctable))])
    /\ ListsKeepCounts
    /\ pending_arg \in 0 .. Len(handle_list)

TestReads == [names : Seq(Names), test : Tests, max_event_wait : Int, xid : Int]
QueuesOK ==
    /\ thCallBackListP \in Seq(TestReads)
    /\ inbox \in Seq(Seq(Values))

CallOK ==
    /\ call = [pc |-> call.pc, op |-> call.op, handle |-> call.handle, ret |-> call.ret]
    /\ call.pc = "reply" => call.op \in {"get", "import", "write", "test"}
    /\ call.pc = "reply" /\ call.op = "get" =>
           /\ call.handle \in DOMAIN handle_list
           /\ handle_list[call.handle].rpc = handle_list[call.handle].names

\* Only the last request may be that of the call under way.
Requests ==
    [proc : {"readmultiple"}, xid : Nat, arg : Seq(Names)]
    \union [proc : {"test"}, xid : Nat, arg : TestReads]
    \union [proc : {"readpatternmatch"}, xid : Nat, arg : ImportPatterns]
    \union [proc : {"writemultiple"}, xid : Nat, arg : Writes]
Asks(r) ==
    /\ call.op = "get" => r.proc = "readmultiple" /\ r.arg = handle_list[call.handle].rpc
    /\ call.op = "import" => r.proc = "readpatternmatch"
    /\ call.op = "write" => r.proc = "writemultiple"
    /\ call.op = "test" => r.proc = "test"
RequestsOK ==
    /\ xid \in Nat
    /\ requests \in Seq(Requests)
    /\ \A k \in DOMAIN requests :
           /\ requests[k].xid <= xid
           /\ requests[k].xid = xid => k = Len(requests)
           /\ requests[k].xid = xid /\ call.pc = "reply" => Asks(requests[k])

\* A reply that stands is that of the call under way, read at one moment.
ReadsOf(table, mem, names) ==
    [k \in DOMAIN names |-> daVarReadVar(table, mem, names[k], DAVAR_NOINDEX)]
MatchesOf(table, mem, p) ==
    LET vlist == daVarList(table, p)
    IN  [k \in DOMAIN vlist |-> [name |-> vlist[k], val |-> ReadsOf(table, mem, vlist)[k]]]
Answers(r) ==
    /\ call.op = "get" =>
           \E m \in past : r.res = ReadsOf(stable, m, handle_list[call.handle].rpc)
    /\ call.op = "import" =>
           \E m \in past : \E p \in ImportPatterns : r.res = MatchesOf(stable, m, p)
RepliesOK ==
    /\ \A r \in replies : call.pc = "reply" /\ requests = <<>> /\ Answers(r)
    /\ \A q, r \in replies : q = r

ServerOK ==
    /\ IsRegistry(stable) /\ Shared(stable) /\ BlocksCount(stable)
    /\ KnownNames(stable) = KnownNames(ServerTable)
    /\ event \in 0 .. MaxEvents
    /\ \A t \in 0 .. MaxEvents : IsStorage(stable, ServerMem(t))
    /\ smem \in past
    /\ \A m \in past : IsStorage(stable, m)

ClientOK == Registry \in Clients

IInv == ListsOK /\ QueuesOK /\ CallOK /\ RequestsOK /\ RepliesOK /\ ServerOK /\ ClientOK

LEMMA InitInv == Init => IInv
<1> SUFFICES ASSUME Init PROVE IInv
    OBVIOUS
<1>1. ListsOK
    BY DEF Init, ListsOK, ListsKeepCounts
<1>2. QueuesOK
    BY DEF Init, QueuesOK
<1>3. CallOK
    BY DEF Init, CallOK, Idle
<1>4. RequestsOK
    BY DEF Init, RequestsOK
<1>5. RepliesOK
    BY DEF Init, RepliesOK
<1>6. ServerOK
    <2>1. MaxEvents \in Nat /\ 0 \in 0 .. MaxEvents
        BY RpcAssumption
    <2>2. IsRegistry(ServerTable) /\ Shared(ServerTable) /\ BlocksCount(ServerTable)
        BY RpcAssumption DEF Shared, BlocksCount
    <2>3. \A t \in 0 .. MaxEvents : IsStorage(ServerTable, ServerMem(t))
        BY RpcAssumption
    <2> QED BY <2>1, <2>2, <2>3 DEF Init, ServerOK
<1>7. ClientOK
    <2>1. /\ IsRegistry(ClientTable) /\ Shared(ClientTable) /\ Separate(ClientTable)
          /\ IsStorage(ClientTable, ClientMem)
          /\ DOMAIN ClientMem \subseteq Nat /\ ClientMem \in [DOMAIN ClientMem -> Seq(Int)]
          /\ \E last \in DOMAIN ClientMem : \A p \in DOMAIN ClientMem : p <= last
        BY RpcAssumption DEF Shared, Separate
    <2>2. [table |-> ClientTable, mem |-> ClientMem, nerrors |-> 0] \in Clients
        BY <2>1, ClientsIs
    <2> QED BY <2>2 DEF Init, ClientOK, Registry
<1> QED
    BY <1>1, <1>2, <1>3, <1>4, <1>5, <1>6, <1>7 DEF IInv

-----------------------------------------------------------------------------
(* The lists keep the invariant.                                             *)

\* With the lists changed between calls, and nothing else but the call's end.
LEMMA ListsStep ==
    ASSUME IInv, call.pc = "idle", ListsOK', call' = Idle("none", 0),
           UNCHANGED <<server, net, inbox, ctable, cmem, xid, past>>
    PROVE  IInv'
<1>1. QueuesOK'
    BY DEF IInv, QueuesOK, server
<1>2. CallOK' /\ call'.pc = "idle"
    BY DEF CallOK, Idle
<1>3. RequestsOK'
    BY <1>2 DEF IInv, RequestsOK, net
<1>4. RepliesOK'
    BY DEF IInv, RepliesOK, net
<1>5. ServerOK'
    BY DEF IInv, ServerOK, server
<1>6. ClientOK'
    BY DEF IInv, ClientOK, Registry
<1> QED
    BY <1>1, <1>2, <1>3, <1>4, <1>5, <1>6 DEF IInv

LEMMA CreateInv == IInv /\ thCreateList => IInv'
<1> SUFFICES ASSUME IInv, thCreateList PROVE IInv'
    OBVIOUS
<1> DEFINE Lists_ == [names : Seq(KnownNames(ctable)), nnames : Int, rpc : Seq(KnownNames(ctable))]
           new == [names |-> <<>>, nnames |-> 0, rpc |-> <<>>]
<1>1. handle_list' = Append(handle_list, new) /\ ctable' = ctable /\ pending_arg' = pending_arg
    BY DEF thCreateList
<1>2. new \in Lists_ /\ handle_list \in Seq(Lists_)
    BY DEF IInv, ListsOK
<1>3. /\ handle_list' \in Seq(Lists_) /\ Len(handle_list') = Len(handle_list) + 1
      /\ \A h \in DOMAIN handle_list' : \/ h \in DOMAIN handle_list /\ handle_list'[h] = handle_list[h]
                                        \/ handle_list'[h] = new
    <2> HIDE DEF new, Lists_
    <2> QED BY <1>1, <1>2
<1>4. new.nnames = Len(new.names)
    OBVIOUS
<1>5. ListsKeepCounts'
    <2> HIDE DEF new
    <2> QED BY <1>3, <1>4 DEF IInv, ListsOK, ListsKeepCounts
<1>6. ListsOK'
    BY <1>1, <1>3, <1>5 DEF IInv, ListsOK
<1> QED
    BY <1>6, ListsStep DEF thCreateList

LEMMA ListAt ==
    ASSUME ListsOK, NEW h \in DOMAIN handle_list
    PROVE  /\ handle_list[h] \in [names : Seq(KnownNames(ctable)), nnames : Int,
                                  rpc : Seq(KnownNames(ctable))]
           /\ handle_list[h].names \in Seq(KnownNames(ctable))
           /\ handle_list[h].rpc \in Seq(KnownNames(ctable))
           /\ handle_list[h].nnames = Len(handle_list[h].names)
<1> DEFINE Lists_ == [names : Seq(KnownNames(ctable)), nnames : Int, rpc : Seq(KnownNames(ctable))]
<1>1. handle_list \in Seq(Lists_)
    BY DEF ListsOK
<1>2. handle_list[h] \in Lists_
    <2> HIDE DEF Lists_
    <2> QED BY <1>1
<1>3. handle_list[h].names \in Seq(KnownNames(ctable)) /\ handle_list[h].rpc \in Seq(KnownNames(ctable))
    BY <1>2
<1>4. handle_list[h].nnames = Len(handle_list[h].names)
    BY DEF ListsOK, ListsKeepCounts
<1> QED
    BY <1>2, <1>3, <1>4

LEMMA RelistInv ==
    ASSUME IInv, call.pc = "idle", NEW h \in DOMAIN handle_list,
           NEW names \in Seq(KnownNames(ctable)), Relist(h, names, Len(names))
    PROVE  IInv'
<1> DEFINE Lists_ == [names : Seq(KnownNames(ctable)), nnames : Int, rpc : Seq(KnownNames(ctable))]
           new == [handle_list[h] EXCEPT !.names = names, !.nnames = Len(names)]
<1>1. handle_list' = [handle_list EXCEPT ![h] = new] /\ ctable' = ctable /\ pending_arg' = pending_arg
    BY DEF Relist
<1>2. handle_list \in Seq(Lists_) /\ handle_list[h] \in Lists_ /\ Len(names) \in Int
    <2>1. handle_list[h] \in Lists_
        BY ListAt DEF IInv
    <2>2. handle_list \in Seq(Lists_)
        BY DEF IInv, ListsOK
    <2> HIDE DEF Lists_
    <2> QED BY <2>1, <2>2
<1>3. new \in Lists_ /\ new.nnames = Len(names) /\ new.names = names
    BY <1>2
<1>4. /\ handle_list' \in Seq(Lists_) /\ Len(handle_list') = Len(handle_list)
      /\ \A i \in DOMAIN handle_list' :
             i \in DOMAIN handle_list /\ handle_list'[i] = IF i = h THEN new ELSE handle_list[i]
    <2> HIDE DEF new, Lists_
    <2> QED BY <1>1, <1>2, <1>3
<1> HIDE DEF new
<1>5. ListsKeepCounts'
    BY <1>3, <1>4 DEF IInv, ListsOK, ListsKeepCounts
<1>6. ListsOK'
    BY <1>1, <1>4, <1>5 DEF IInv, ListsOK
<1> QED
    BY <1>6, ListsStep DEF Relist

LEMMA AddInv ==
    ASSUME IInv, NEW h \in DOMAIN handle_list, NEW p, thAddToList(h, p)
    PROVE  IInv'
<1> DEFINE vlist == daVarList(ctable, p)
           list == handle_list[h]
           names == Reverse(vlist) \o list.names
<1>1. vlist \in Seq(KnownNames(ctable))
    BY ListType, ClientsAre DEF IInv, ClientOK, Registry
<1>2. list.names \in Seq(KnownNames(ctable)) /\ list.nnames = Len(list.names)
    BY ListAt DEF IInv
<1> HIDE DEF vlist, list
<1>3. Reverse(vlist) \in Seq(KnownNames(ctable)) /\ Len(Reverse(vlist)) = Len(vlist)
    BY <1>1 DEF Reverse
<1>4. names \in Seq(KnownNames(ctable)) /\ list.nnames + Len(vlist) = Len(names)
    BY <1>1, <1>2, <1>3
<1>5. call.pc = "idle" /\ Relist(h, names, list.nnames + Len(vlist))
    BY DEF thAddToList, vlist, list
<1> HIDE DEF names
<1> QED
    BY <1>4, <1>5, RelistInv

LEMMA RemoveInv ==
    ASSUME IInv, NEW h \in DOMAIN handle_list, NEW p, thRemoveFromList(h, p)
    PROVE  IInv'
<1> DEFINE list == handle_list[h]
           left == Removed(list.names, daVarList(ctable, p))
<1>1. list.names \in Seq(KnownNames(ctable)) /\ list.nnames = Len(list.names)
    BY ListAt DEF IInv
<1>2. left \in Seq(KnownNames(ctable))
    <2> HIDE DEF list
    <2> QED BY <1>1, RemovedType
<1>3. call.pc = "idle" /\ Relist(h, left, list.nnames - (Len(list.names) - Len(left)))
    BY DEF thRemoveFromList
<1> HIDE DEF list, left
<1>4. list.nnames - (Len(list.names) - Len(left)) = Len(left)
    BY <1>1, <1>2
<1> QED
    BY <1>2, <1>3, <1>4, RelistInv

-----------------------------------------------------------------------------
(* The calls keep the invariant.                                             *)

\* A list is sent whole.
LEMMA RpcIs ==
    ASSUME ListsOK, NEW h \in DOMAIN handle_list
    PROVE  Rpc(h) = handle_list[h].names
<1> DEFINE names == handle_list[h].names
           n == Len(names)
<1>1. names \in Seq(KnownNames(ctable)) /\ handle_list[h].nnames = n
    BY ListAt
<1> HIDE DEF names
<1>2. n \in Nat /\ names = [k \in 1 .. n |-> names[k]]
    BY <1>1
<1>3. Min({n, n}) = n
    <2>1. {n, n} \in SUBSET Nat /\ {n, n} # {}
        BY <1>2
    <2>2. Min({n, n}) \in {n, n}
        BY <2>1, MinOf, Zenon
    <2> QED BY <2>2
<1>4. Rpc(h) = [k \in 1 .. n |-> names[k]]
    BY <1>1, <1>3 DEF Rpc, names
<1> QED
    BY <1>2, <1>4 DEF names

\* A request that is that of the call which begins.
LEMMA SendInv ==
    ASSUME IInv, call.pc = "idle", NEW r \in Requests, r.xid = xid + 1, xid' = xid + 1,
           requests' = Append(requests, r), ListsOK', CallOK', call'.pc = "reply", Asks(r)',
           UNCHANGED <<server, replies, inbox, ctable, cmem, past>>
    PROVE  IInv'
<1>1. QueuesOK'
    BY DEF IInv, QueuesOK, server
<1>2. RequestsOK'
    <2>1. /\ xid \in Nat /\ xid' = xid + 1 /\ requests \in Seq(Requests)
          /\ \A k \in DOMAIN requests : requests[k].xid <= xid
        BY DEF IInv, RequestsOK
    <2>2. requests' \in Seq(Requests) /\ Len(requests') = Len(requests) + 1
        BY <2>1
    <2>3. \A k \in DOMAIN requests' : \/ k = Len(requests') /\ requests'[k] = r
                                      \/ k \in DOMAIN requests /\ requests'[k] = requests[k]
        BY <2>1
    <2>4. \A k \in DOMAIN requests : requests[k] \in Requests /\ requests[k].xid \in Nat
        <3>1. \A q \in Requests : q.xid \in Nat
            BY DEF Requests
        <3> QED BY <2>1, <3>1
    <2>5. ASSUME NEW k \in DOMAIN requests'
          PROVE  /\ requests'[k].xid <= xid'
                 /\ requests'[k].xid = xid' => k = Len(requests')
                 /\ requests'[k].xid = xid' /\ call'.pc = "reply" => Asks(requests[k])'
        <3>1. CASE k = Len(requests') /\ requests'[k] = r
            <4>1. Asks(requests[k])'
                BY <3>1 DEF Asks
            <4> QED BY <2>1, <3>1, <4>1
        <3>2. CASE k \in DOMAIN requests /\ requests'[k] = requests[k]
            <4>1. requests[k].xid <= xid /\ requests[k].xid \in Nat
                BY <2>1, <2>4, <3>2
            <4> QED BY <2>1, <3>2, <4>1
        <3> QED BY <2>3, <3>1, <3>2
    <2> QED BY <2>1, <2>2, <2>5 DEF RequestsOK, Asks
<1>3. RepliesOK'
    BY DEF IInv, RepliesOK
<1>4. ServerOK'
    BY DEF IInv, ServerOK, server
<1>5. ClientOK'
    BY DEF IInv, ClientOK, Registry
<1> QED
    BY <1>1, <1>2, <1>3, <1>4, <1>5 DEF IInv

LEMMA KnownAreNames == \A table : Seq(KnownNames(table)) \subseteq Seq(Names)
<1> SUFFICES ASSUME NEW table, NEW s \in Seq(KnownNames(table)) PROVE s \in Seq(Names)
    OBVIOUS
<1>1. \A k \in 1 .. Len(s) : s[k] \in KnownNames(table)
    OBVIOUS
<1>2. s \in [1 .. Len(s) -> Names] /\ Len(s) \in Nat
    BY <1>1 DEF KnownNames
<1> QED
    BY <1>2, SeqDef

\* The names sent with a request stay with the list.
LEMMA SentInv ==
    ASSUME IInv, NEW h \in DOMAIN handle_list, ctable' = ctable,
           handle_list' = [handle_list EXCEPT ![h].rpc = Rpc(h)],
           pending_arg' \in {pending_arg, h}
    PROVE  /\ ListsOK' /\ DOMAIN handle_list' = DOMAIN handle_list
           /\ handle_list'[h].rpc = handle_list'[h].names
           /\ handle_list'[h].rpc = Rpc(h) /\ Rpc(h) \in Seq(Names)
<1> DEFINE Lists_ == [names : Seq(KnownNames(ctable)), nnames : Int, rpc : Seq(KnownNames(ctable))]
           new == [handle_list[h] EXCEPT !.rpc = Rpc(h)]
<1>1. /\ handle_list[h] \in Lists_ /\ handle_list[h].names \in Seq(KnownNames(ctable))
      /\ Rpc(h) = handle_list[h].names
    BY ListAt, RpcIs DEF IInv
<1>2. handle_list \in Seq(Lists_) /\ pending_arg \in 0 .. Len(handle_list) /\ h \in 0 .. Len(handle_list)
    BY DEF IInv, ListsOK
<1>3. /\ new \in Lists_ /\ new.nnames = handle_list[h].nnames
      /\ new.names = handle_list[h].names /\ new.rpc = Rpc(h)
    BY <1>1
<1>4. handle_list' = [handle_list EXCEPT ![h] = new]
    OBVIOUS
<1>5. /\ handle_list' \in Seq(Lists_) /\ Len(handle_list') = Len(handle_list)
      /\ DOMAIN handle_list' = DOMAIN handle_list
      /\ \A i \in DOMAIN handle_list : handle_list'[i] = IF i = h THEN new ELSE handle_list[i]
    <2> HIDE DEF new, Lists_
    <2> QED BY <1>2, <1>3, <1>4
<1> HIDE DEF new
<1>6. ListsKeepCounts'
    BY <1>3, <1>5 DEF IInv, ListsOK, ListsKeepCounts
<1>7. ListsOK'
    BY <1>2, <1>5, <1>6 DEF ListsOK
<1> QED
    BY <1>1, <1>3, <1>5, <1>7, KnownAreNames

LEMMA GetListInv ==
    ASSUME IInv, NEW h \in DOMAIN handle_list, thGetList(h)
    PROVE  IInv'
<1>1. /\ ListsOK' /\ DOMAIN handle_list' = DOMAIN handle_list
      /\ handle_list'[h].rpc = handle_list'[h].names
      /\ handle_list'[h].rpc = Rpc(h) /\ Rpc(h) \in Seq(Names)
    BY SentInv DEF thGetList
<1>2. PICK r : r = [proc |-> "readmultiple", xid |-> xid + 1, arg |-> Rpc(h)]
    OBVIOUS
<1>3. xid \in Nat
    BY DEF IInv, RequestsOK
<1>4. r \in Requests /\ r.proc = "readmultiple" /\ r.xid = xid + 1 /\ r.arg = Rpc(h)
    BY <1>1, <1>2, <1>3 DEF Requests
<1>5. call' = [pc |-> "reply", op |-> "get", handle |-> h, ret |-> 0]
      /\ xid' = xid + 1 /\ requests' = Append(requests, r) /\ call.pc = "idle"
    BY <1>2 DEF thGetList, Send
<1>6. CallOK'
    BY <1>1, <1>5 DEF CallOK
<1>7. Asks(r)' /\ call'.pc = "reply"
    BY <1>1, <1>4, <1>5 DEF Asks
<1> QED
    BY <1>1, <1>4, <1>5, <1>6, <1>7, SendInv DEF thGetList

LEMMA GetTestInv ==
    ASSUME IInv, NEW h \in DOMAIN handle_list, NEW t \in Tests, NEW w \in Waits,
           thGetList_test(h, t, w)
    PROVE  IInv'
<1>1. ListsOK' /\ Rpc(h) \in Seq(Names)
    BY SentInv DEF thGetList_test
<1>2. PICK r : r = [proc |-> "test", xid |-> xid + 1,
                    arg |-> [names |-> Rpc(h), test |-> t, max_event_wait |-> w,
                             xid |-> xid + 1]]
    OBVIOUS
<1>3. xid \in Nat
    BY DEF IInv, RequestsOK
<1>4. w \in Int
    BY RpcAssumption
<1>5. r \in Requests /\ r.proc = "test" /\ r.xid = xid + 1
    BY <1>1, <1>2, <1>3, <1>4 DEF Requests, TestReads
<1>6. call' = [pc |-> "reply", op |-> "test", handle |-> h, ret |-> 0]
      /\ xid' = xid + 1 /\ requests' = Append(requests, r) /\ call.pc = "idle"
    BY <1>2 DEF thGetList_test, Send
<1>7. CallOK' /\ Asks(r)' /\ call'.pc = "reply"
    BY <1>5, <1>6 DEF CallOK, Asks
<1> QED
    BY <1>1, <1>5, <1>6, <1>7, SendInv DEF thGetList_test

LEMMA ImportInv ==
    ASSUME IInv, NEW p \in ImportPatterns, thImportVars(p)
    PROVE  IInv'
<1>1. PICK r : r = [proc |-> "readpatternmatch", xid |-> xid + 1, arg |-> p]
    OBVIOUS
<1>2. xid \in Nat
    BY DEF IInv, RequestsOK
<1>3. r \in Requests /\ r.proc = "readpatternmatch" /\ r.xid = xid + 1
    BY <1>1, <1>2 DEF Requests
<1>4. call' = [pc |-> "reply", op |-> "import", handle |-> 0, ret |-> 0]
      /\ xid' = xid + 1 /\ requests' = Append(requests, r) /\ call.pc = "idle"
    BY <1>1 DEF thImportVars, Send
<1>5. CallOK' /\ Asks(r)' /\ call'.pc = "reply"
    BY <1>3, <1>4 DEF CallOK, Asks
<1>6. ListsOK'
    BY DEF thImportVars, client, IInv, ListsOK, ListsKeepCounts
<1> QED
    BY <1>3, <1>4, <1>5, <1>6, SendInv DEF thImportVars, client

LEMMA WriteInv ==
    ASSUME IInv, NEW write \in Writes, davar_writemultiple(write)
    PROVE  IInv'
<1>1. PICK r : r = [proc |-> "writemultiple", xid |-> xid + 1, arg |-> write]
    OBVIOUS
<1>2. xid \in Nat
    BY DEF IInv, RequestsOK
<1>3. r \in Requests /\ r.proc = "writemultiple" /\ r.xid = xid + 1
    BY <1>1, <1>2 DEF Requests
<1>4. call' = [pc |-> "reply", op |-> "write", handle |-> 0, ret |-> 0]
      /\ xid' = xid + 1 /\ requests' = Append(requests, r) /\ call.pc = "idle"
    BY <1>1 DEF davar_writemultiple, Send
<1>5. CallOK' /\ Asks(r)' /\ call'.pc = "reply"
    BY <1>3, <1>4 DEF CallOK, Asks
<1>6. ListsOK'
    BY DEF davar_writemultiple, client, IInv, ListsOK, ListsKeepCounts
<1> QED
    BY <1>3, <1>4, <1>5, <1>6, SendInv DEF davar_writemultiple, client

-----------------------------------------------------------------------------
(* What the client is answered, and what it makes of it.                     *)

\* What is read under a list of names.
LEMMA ReadsOfIs ==
    ASSUME NEW table, IsRegistry(table), BlocksCount(table), NEW mem, IsStorage(table, mem),
           NEW names \in Seq(Names)
    PROVE  LET vals == ReadsOf(table, mem, names)
           IN  /\ vals \in Seq(Values) /\ Len(vals) = Len(names) /\ DOMAIN vals = DOMAIN names
               /\ \A k \in DOMAIN names :
                      vals[k] = daVarReadVar(table, mem, names[k], DAVAR_NOINDEX)
               /\ Alike(names, vals)
<1> DEFINE vals == ReadsOf(table, mem, names)
           read(k) == daVarReadVar(table, mem, names[k], DAVAR_NOINDEX)
<1>1. /\ DOMAIN names = 1 .. Len(names) /\ Len(names) \in Nat
      /\ \A k \in 1 .. Len(names) : names[k] \in Seq(Words)
    BY DEF Names
<1>2. \A k \in 1 .. Len(names) : read(k) \in Values
    BY <1>1, ReadType
<1> HIDE DEF read
<1>3. vals = [k \in 1 .. Len(names) |-> read(k)]
    BY <1>1 DEF ReadsOf, read
<1>4. vals \in Seq(Values) /\ Len(vals) = Len(names) /\ DOMAIN vals = DOMAIN names
    <2>1. vals \in [1 .. Len(names) -> Values] /\ DOMAIN vals = 1 .. Len(names)
        BY <1>2, <1>3
    <2> HIDE DEF vals
    <2>2. vals \in Seq(Values)
        BY <1>1, <2>1, SeqDef
    <2> QED BY <1>1, <2>1, <2>2, LenProperties
<1>5. \A k \in DOMAIN names : vals[k] = read(k)
    BY <1>1, <1>3
<1>6. ASSUME NEW j \in DOMAIN names, NEW k \in DOMAIN names, Key(names[j]) = Key(names[k])
      PROVE  read(j) = read(k)
    BY <1>1, <1>6, ReadSameKey DEF read
<1> HIDE DEF vals
<1>7. Alike(names, vals)
    BY <1>5, <1>6 DEF Alike
<1> QED
    BY <1>4, <1>5, <1>7 DEF vals, read

\* What is read of the variables that match a pattern.
LEMMA MatchesOfIs ==
    ASSUME NEW table, IsRegistry(table), BlocksCount(table), NEW mem, IsStorage(table, mem), NEW p,
           NEW names, names = daVarList(table, p)
    PROVE  LET items == MatchesOf(table, mem, p)
               vals == ReadsOf(table, mem, names)
           IN  /\ items \in Seq(Items) /\ Len(items) = Len(names) /\ DOMAIN items = DOMAIN names
               /\ names = [k \in DOMAIN items |-> items[k].name]
               /\ vals = [k \in DOMAIN items |-> items[k].val]
<1> DEFINE items == MatchesOf(table, mem, p)
           vals == ReadsOf(table, mem, names)
           n == Len(names)
<1>1. names \in Seq(KnownNames(table)) /\ names \in Seq(Names)
    BY ListType, KnownAreNames
<1>2. /\ DOMAIN names = 1 .. n /\ n \in Nat /\ names = [k \in 1 .. n |-> names[k]]
      /\ \A k \in 1 .. n : names[k] \in Names /\ Known(table, names[k])
    <2>1. \A k \in 1 .. n : names[k] \in KnownNames(table)
        BY <1>1
    <2> QED BY <1>1, <2>1 DEF KnownNames
<1>3. /\ DOMAIN vals = 1 .. n
      /\ \A k \in 1 .. n : vals[k] = daVarReadVar(table, mem, names[k], DAVAR_NOINDEX)
    BY <1>1, <1>2, ReadsOfIs
<1>4. vals = [k \in 1 .. n |-> vals[k]]
    BY <1>2 DEF ReadsOf
<1>5. items = [k \in 1 .. n |-> [name |-> names[k], val |-> vals[k]]]
    BY <1>2 DEF MatchesOf
<1> HIDE DEF items, vals, n
<1>6. ASSUME NEW k \in 1 .. n PROVE [name |-> names[k], val |-> vals[k]] \in Items
    <2>1. vals[k] = Own(mem, daVarLookupP(table, names[k]))
        BY <1>2, <1>3, ReadKnown
    <2>2. daVarLookupP(table, names[k]) \in Entries(table)
        BY <1>2, Found DEF Names
    <2>3. /\ vals[k] \in Values /\ vals[k].valtype # DAVARERROR_RPC
          /\ vals[k].valtype # DAVARSTRING => vals[k].val # <<>>
        BY <2>1, <2>2, OwnType
    <2> QED BY <1>2, <2>3 DEF Items
<1>7. items \in Seq(Items) /\ DOMAIN items = 1 .. n /\ Len(items) = n
    <2>1. items \in [1 .. n -> Items] /\ DOMAIN items = 1 .. n
        BY <1>5, <1>6
    <2>2. items \in Seq(Items)
        BY <1>2, <2>1, SeqDef
    <2> QED BY <1>2, <2>1, <2>2, LenProperties
<1>8. /\ names = [k \in DOMAIN items |-> items[k].name]
      /\ vals = [k \in DOMAIN items |-> items[k].val]
    BY <1>2, <1>4, <1>5, <1>7
<1> QED
    BY <1>2, <1>7, <1>8 DEF items, vals, n

\* A step that leaves no reply, and the client in order.
LEMMA EndInv ==
    ASSUME IInv, ListsOK', CallOK', ClientOK', call'.pc # "reply", replies' = {},
           inbox' \in Seq(Seq(Values)), UNCHANGED <<server, requests, xid, past>>
    PROVE  IInv'
<1>1. QueuesOK'
    BY DEF IInv, QueuesOK, server
<1>2. RequestsOK'
    BY DEF IInv, RequestsOK
<1>3. RepliesOK'
    BY DEF RepliesOK
<1>4. ServerOK'
    BY DEF IInv, ServerOK, server
<1> QED
    BY <1>1, <1>2, <1>3, <1>4 DEF IInv

\* The client takes over what it has made of an answer.
LEMMA TakenInv ==
    ASSUME IInv, NEW done \in Clients, KnownNames(ctable) \subseteq KnownNames(done.table),
           ctable' = done.table, cmem' = done.mem, UNCHANGED <<handle_list, pending_arg>>
    PROVE  ListsOK' /\ ClientOK'
<1> DEFINE Lists_(K) == [names : Seq(K), nnames : Int, rpc : Seq(K)]
           K1 == KnownNames(ctable)
           K2 == KnownNames(done.table)
<1>1. [table |-> done.table, mem |-> done.mem, nerrors |-> 0] \in Clients
    BY ClientsAre, ClientsIs
<1>2. ClientOK'
    BY <1>1 DEF ClientOK, Registry
<1>3. handle_list \in Seq(Lists_(K1))
    BY DEF IInv, ListsOK
<1>4. handle_list \in Seq(Lists_(K2))
    <2>1. K1 \subseteq K2
        OBVIOUS
    <2> HIDE DEF K1, K2
    <2>2. ASSUME NEW s \in Seq(K1) PROVE s \in Seq(K2)
        <3>1. \A k \in 1 .. Len(s) : s[k] \in K2
            BY <2>1
        <3>2. s \in [1 .. Len(s) -> K2] /\ Len(s) \in Nat
            BY <3>1
        <3> QED BY <3>2, SeqDef
    <2>3. Lists_(K1) \subseteq Lists_(K2)
        BY <2>2
    <2> HIDE DEF Lists_
    <2>4. \A k \in 1 .. Len(handle_list) : handle_list[k] \in Lists_(K2)
        BY <1>3, <2>3
    <2>5. handle_list \in [1 .. Len(handle_list) -> Lists_(K2)] /\ Len(handle_list) \in Nat
        BY <1>3, <2>4
    <2> QED BY <2>5, SeqDef
<1>5. ListsKeepCounts' /\ pending_arg' \in 0 .. Len(handle_list')
    BY DEF IInv, ListsOK, ListsKeepCounts
<1> QED
    BY <1>2, <1>4, <1>5 DEF ListsOK

\* Serving one answer.
LEMMA ServeInv ==
    ASSUME IInv, call.pc # "reply", inbox # <<>>, Serve,
           UNCHANGED <<server, net, handle_list, pending_arg, call, xid, past>>
    PROVE  IInv'
<1> DEFINE vals == Head(inbox)
           names == handle_list[pending_arg].rpc
<1>1. /\ inbox \in Seq(Seq(Values)) /\ vals \in Seq(Values)
      /\ inbox' = Tail(inbox) /\ inbox' \in Seq(Seq(Values))
    BY DEF IInv, QueuesOK, Serve
<1>2. ListsOK' /\ ClientOK'
    <2>1. CASE pending_arg # 0 /\ Len(names) = Len(vals)
        <3>1. names \in Seq(KnownNames(ctable))
            <4>1. pending_arg \in DOMAIN handle_list
                BY <2>1 DEF IInv, ListsOK
            <4> QED BY <4>1, ListAt DEF IInv
        <3>2. PICK done : done = StoreAll(names, vals)
            OBVIOUS
        <3>3. ctable' = done.table /\ cmem' = done.mem
            BY <2>1, <3>2 DEF Serve, Taken
        <3> HIDE DEF names, vals
        <3>4. done \in Clients /\ done.table = ctable
            BY <1>1, <2>1, <3>1, <3>2, StoreAllIn DEF IInv, ClientOK
        <3> QED BY <3>3, <3>4, TakenInv
    <2>2. CASE ~(pending_arg # 0 /\ Len(names) = Len(vals))
        <3>1. UNCHANGED <<ctable, cmem>>
            BY <2>2 DEF Serve
        <3> QED BY <3>1 DEF IInv, ListsOK, ListsKeepCounts, ClientOK, Registry
    <2> QED BY <2>1, <2>2
<1>3. CallOK' /\ call'.pc # "reply"
    BY DEF IInv, CallOK
<1>4. replies' = {}
    BY DEF IInv, RepliesOK, net
<1> QED
    BY <1>1, <1>2, <1>3, <1>4, EndInv DEF net

\* The end of a wait.
LEMMA FinishInv ==
    ASSUME IInv, call.pc = "wait", NEW result, Finish(result)
    PROVE  IInv'
<1>1. CallOK' /\ call'.pc # "reply"
    BY DEF IInv, CallOK, Finish
<1>2. ListsOK' /\ ClientOK'
    BY DEF IInv, ListsOK, ListsKeepCounts, ClientOK, Registry, Finish
<1>3. replies' = {} /\ inbox' \in Seq(Seq(Values))
    BY DEF IInv, RepliesOK, QueuesOK, Finish, net
<1> QED
    BY <1>1, <1>2, <1>3, EndInv DEF Finish, net

LEMMA ReplyTimeoutInv ==
    ASSUME IInv, ReplyTimeout
    PROVE  IInv'
<1>1. CallOK' /\ call'.pc # "reply"
    BY DEF IInv, CallOK, ReplyTimeout
<1>2. ListsOK' /\ ClientOK'
    BY DEF IInv, ListsOK, ListsKeepCounts, ClientOK, Registry, ReplyTimeout, client
<1>3. replies' = {} /\ inbox' \in Seq(Seq(Values))
    BY DEF IInv, QueuesOK, ReplyTimeout
<1> QED
    BY <1>1, <1>2, <1>3, EndInv DEF ReplyTimeout

-----------------------------------------------------------------------------
(* The reply to a call.                                                      *)

Leaves(done) == ctable' = done.table /\ cmem' = done.mem /\ call'.ret = done.nerrors

\* A reply is taken as what was read for the call at one moment.
LEMMA ReplyIs ==
    ASSUME IInv, Reply
    PROVE  /\ replies' = {}
           /\ UNCHANGED <<server, requests, inbox, handle_list, pending_arg, xid, past>>
           /\ CallOK' /\ call'.pc # "reply"
           /\ \/ call.op \in {"test", "write"} /\ UNCHANGED <<ctable, cmem>>
              \/ /\ call.op = "get"
                 /\ \E m \in past :
                        Leaves(StoreAll(handle_list[call.handle].rpc,
                                        ReadsOf(stable, m, handle_list[call.handle].rpc)))
              \/ /\ call.op = "import"
                 /\ \E m \in past : \E p \in ImportPatterns :
                        /\ \A q \in replies : q.res = MatchesOf(stable, m, p)
                        /\ Leaves(Importing(MatchesOf(stable, m, p)))
<1>1. /\ replies' = {}
      /\ UNCHANGED <<server, requests, inbox, handle_list, pending_arg, xid, past>>
    BY DEF Reply
<1>2. /\ call.pc = "reply" /\ call.op \in {"get", "import", "write", "test"}
      /\ call = [pc |-> call.pc, op |-> call.op, handle |-> call.handle, ret |-> call.ret]
    BY DEF Reply, IInv, CallOK
<1> DEFINE get(r) == StoreAll(handle_list[call.handle].rpc, r.res)
           imported(r) == Importing(r.res)
           written(r) == [table |-> ctable, mem |-> cmem, nerrors |-> r.res]
<1>3. PICK r \in replies :
          \/ /\ call.op = "test"
             /\ call' = [call EXCEPT !.pc = "wait"]
             /\ UNCHANGED <<ctable, cmem>>
          \/ /\ call.op # "test"
             /\ Returns(CASE call.op = "get" -> get(r)
                          [] call.op = "import" -> imported(r)
                          [] call.op = "write" -> written(r))
    BY DEF Reply
<1> HIDE DEF get, imported, written
<1>4. \/ /\ call.op = "test"
         /\ call' = [call EXCEPT !.pc = "wait"]
         /\ UNCHANGED <<ctable, cmem>>
      \/ call.op = "get" /\ Returns(get(r))
      \/ call.op = "import" /\ Returns(imported(r))
      \/ call.op = "write" /\ Returns(written(r))
    <2> DEFINE done == CASE call.op = "get" -> get(r)
                         [] call.op = "import" -> imported(r)
                         [] call.op = "write" -> written(r)
    <2>1. /\ call.op = "get" => done = get(r)
          /\ call.op = "import" => done = imported(r)
          /\ call.op = "write" => done = written(r)
        OBVIOUS
    <2> HIDE DEF done
    <2>2. \/ /\ call.op = "test"
             /\ call' = [call EXCEPT !.pc = "wait"]
             /\ UNCHANGED <<ctable, cmem>>
          \/ call.op # "test" /\ Returns(done)
        BY <1>3 DEF done
    <2>3. CASE call.op = "test"
        BY <2>2, <2>3
    <2>4. CASE call.op # "test"
        <3>1. Returns(done)
            BY <2>2, <2>4
        <3>2. CASE call.op = "get"
            BY <2>1, <3>1, <3>2
        <3>3. CASE call.op = "import"
            BY <2>1, <3>1, <3>3
        <3>4. CASE call.op = "write"
            BY <2>1, <3>1, <3>4
        <3> QED BY <1>2, <2>4, <3>2, <3>3, <3>4
    <2> QED BY <2>3, <2>4
<1>5. \A done : Returns(done) => Leaves(done) /\ call'.pc = "idle" /\ CallOK'
    BY <1>2 DEF Returns, Leaves, CallOK
<1>6. CallOK' /\ call'.pc # "reply"
    <2>1. CASE call' = [call EXCEPT !.pc = "wait"]
        BY <1>2, <2>1 DEF CallOK
    <2> QED BY <1>4, <1>5, <2>1
<1>7. ASSUME call.op = "get"
      PROVE  \E m \in past : Leaves(StoreAll(handle_list[call.handle].rpc,
                                       ReadsOf(stable, m, handle_list[call.handle].rpc)))
    <2>1. PICK m \in past : r.res = ReadsOf(stable, m, handle_list[call.handle].rpc)
        BY <1>7 DEF IInv, RepliesOK, Answers
    <2>2. Leaves(get(r))
        BY <1>4, <1>5, <1>7
    <2> QED BY <2>1, <2>2 DEF get
<1>8. ASSUME call.op = "import"
      PROVE  \E m \in past : \E p \in ImportPatterns :
                 /\ \A q \in replies : q.res = MatchesOf(stable, m, p)
                 /\ Leaves(Importing(MatchesOf(stable, m, p)))
    <2>1. PICK m \in past, p \in ImportPatterns : r.res = MatchesOf(stable, m, p)
        BY <1>8 DEF IInv, RepliesOK, Answers
    <2>2. \A q \in replies : q = r
        BY DEF IInv, RepliesOK
    <2>3. Leaves(imported(r))
        BY <1>4, <1>5, <1>8
    <2> QED BY <2>1, <2>2, <2>3 DEF imported
<1>9. call.op \in {"test", "write"} => UNCHANGED <<ctable, cmem>>
    <2>1. CASE call.op = "test"
        BY <1>4, <2>1
    <2>2. CASE call.op = "write"
        <3>1. Returns(written(r))
            BY <1>4, <2>2
        <3> QED BY <3>1 DEF Returns, written
    <2> QED BY <2>1, <2>2
<1> QED
    BY <1>1, <1>2, <1>6, <1>7, <1>8, <1>9

\* Storage read at any moment so far is storage for the server's variables.
LEMMA ServerIs ==
    ASSUME IInv, NEW m \in past
    PROVE  IsRegistry(stable) /\ BlocksCount(stable) /\ IsStorage(stable, m)
    BY DEF IInv, ServerOK

\* A list got: without an error, the variables hold what was read.
LEMMA GetIs ==
    ASSUME IInv, call.pc = "reply", call.op = "get", NEW m \in past,
           NEW names, names = handle_list[call.handle].rpc
    PROVE  LET done == StoreAll(names, ReadsOf(stable, m, names))
           IN  /\ done \in Clients /\ done.table = ctable
               /\ names = handle_list[call.handle].names /\ names \in Seq(KnownNames(ctable))
               /\ done.nerrors = 0 =>
                      \A k \in DOMAIN names :
                          Matches(daVarReadVar(done.table, done.mem, names[k], DAVAR_NOINDEX),
                                  daVarReadVar(stable, m, names[k], DAVAR_NOINDEX))
<1>1. /\ call.handle \in DOMAIN handle_list /\ names = handle_list[call.handle].names
      /\ names \in Seq(KnownNames(ctable)) /\ names \in Seq(Names)
    <2>1. call.handle \in DOMAIN handle_list /\ names = handle_list[call.handle].names
        BY DEF IInv, CallOK
    <2>2. names \in Seq(KnownNames(ctable))
        BY <2>1, ListAt DEF IInv
    <2> QED BY <2>1, <2>2, KnownAreNames
<1> DEFINE vals == ReadsOf(stable, m, names)
<1>2. /\ vals \in Seq(Values) /\ Len(vals) = Len(names)
      /\ \A k \in DOMAIN names : vals[k] = daVarReadVar(stable, m, names[k], DAVAR_NOINDEX)
      /\ Alike(names, vals)
    BY <1>1, ServerIs, ReadsOfIs
<1> HIDE DEF vals
<1>3. PICK done : done = StoreAll(names, vals)
    OBVIOUS
<1>4. /\ done \in Clients /\ done.table = ctable
      /\ done.nerrors = 0 => Hold(done, names, vals, Len(names))
    BY <1>1, <1>2, <1>3, StoreAllIn DEF IInv, ClientOK
<1>5. ASSUME done.nerrors = 0, NEW k \in DOMAIN names
      PROVE  Matches(daVarReadVar(done.table, done.mem, names[k], DAVAR_NOINDEX),
                     daVarReadVar(stable, m, names[k], DAVAR_NOINDEX))
    <2>1. k \in 1 .. Len(names)
        BY <1>1
    <2>2. /\ names[k] \in KnownNames(done.table)
          /\ Matches(Own(done.mem, daVarLookupP(done.table, names[k])), vals[k])
        BY <1>4, <1>5, <2>1 DEF Hold
    <2>3. daVarReadVar(done.table, done.mem, names[k], DAVAR_NOINDEX)
          = Own(done.mem, daVarLookupP(done.table, names[k]))
        BY <2>2, ReadKnown DEF KnownNames
    <2> QED BY <1>2, <2>2, <2>3
<1> QED
    BY <1>1, <1>3, <1>4, <1>5 DEF vals

LEMMA ReplyInv ==
    ASSUME IInv, Reply
    PROVE  IInv'
<1>1. /\ replies' = {}
      /\ UNCHANGED <<server, requests, inbox, handle_list, pending_arg, xid, past>>
      /\ CallOK' /\ call'.pc # "reply"
    BY ReplyIs
<1>2. inbox' \in Seq(Seq(Values))
    BY <1>1 DEF IInv, QueuesOK
<1>3. ListsOK' /\ ClientOK'
    <2>1. CASE UNCHANGED <<ctable, cmem>>
        BY <1>1, <2>1 DEF IInv, ListsOK, ListsKeepCounts, ClientOK, Registry
    <2>2. CASE /\ call.op = "get"
               /\ \E m \in past :
                      Leaves(StoreAll(handle_list[call.handle].rpc,
                                      ReadsOf(stable, m, handle_list[call.handle].rpc)))
        <3>1. PICK m \in past : Leaves(StoreAll(handle_list[call.handle].rpc,
                                                ReadsOf(stable, m, handle_list[call.handle].rpc)))
            BY <2>2
        <3>2. PICK names : names = handle_list[call.handle].rpc
            OBVIOUS
        <3>3. PICK done : done = StoreAll(names, ReadsOf(stable, m, names))
            OBVIOUS
        <3>4. done \in Clients /\ done.table = ctable
            BY <2>2, <3>2, <3>3, GetIs DEF Reply
        <3>5. ctable' = done.table /\ cmem' = done.mem
            BY <3>1, <3>2, <3>3 DEF Leaves
        <3> QED BY <1>1, <3>4, <3>5, TakenInv
    <2>3. CASE /\ call.op = "import"
               /\ \E m \in past : \E p \in ImportPatterns :
                      Leaves(Importing(MatchesOf(stable, m, p)))
        <3>1. PICK m \in past, p \in ImportPatterns : Leaves(Importing(MatchesOf(stable, m, p)))
            BY <2>3
        <3>2. PICK items : items = MatchesOf(stable, m, p)
            OBVIOUS
        <3>3. PICK names : names = daVarList(stable, p)
            OBVIOUS
        <3>4. items \in Seq(Items)
            BY <3>2, <3>3, ServerIs, MatchesOfIs
        <3>5. PICK done : done = Importing(items)
            OBVIOUS
        <3>6. done \in Clients /\ KnownNames(ctable) \subseteq KnownNames(done.table)
            BY <3>4, <3>5, ImportingIn DEF IInv, ClientOK
        <3>7. ctable' = done.table /\ cmem' = done.mem
            BY <3>1, <3>2, <3>5 DEF Leaves
        <3> QED BY <1>1, <3>6, <3>7, TakenInv
    <2> QED BY <2>1, <2>2, <2>3, ReplyIs
<1> QED
    BY <1>1, <1>2, <1>3, EndInv

-----------------------------------------------------------------------------
(* The server keeps the invariant.                                           *)

\* The request at the head is served, or the end of the server: what becomes of
\* the connection.
LEMMA ServedInv ==
    ASSUME IInv, requests # <<>>, requests' = Tail(requests), NEW reply,
           \/ replies' = IF call.pc = "reply" /\ requests[1].xid = xid THEN {reply} ELSE replies
           \/ replies' = replies,
           call.pc = "reply" /\ requests[1].xid = xid => Answers(reply)',
           thCallBackListP' \in Seq(TestReads), ServerOK', UNCHANGED <<inbox, client, call, xid>>
    PROVE  IInv'
<1>1. ListsOK' /\ ClientOK'
    BY DEF IInv, ListsOK, ListsKeepCounts, ClientOK, Registry, client
<1>2. QueuesOK' /\ CallOK'
    BY DEF IInv, QueuesOK, CallOK, client
<1>3. /\ requests \in Seq(Requests) /\ requests' \in Seq(Requests)
      /\ Len(requests') = Len(requests) - 1 /\ Len(requests) \in Nat /\ 1 \in DOMAIN requests
      /\ \A k \in DOMAIN requests' : k + 1 \in DOMAIN requests /\ requests'[k] = requests[k + 1]
                                     /\ k \in Nat
    BY DEF IInv, RequestsOK
<1>4. RequestsOK'
    <2>1. ASSUME NEW k \in DOMAIN requests'
          PROVE  /\ requests'[k].xid <= xid'
                 /\ requests'[k].xid = xid' => k = Len(requests')
                 /\ requests'[k].xid = xid' /\ call'.pc = "reply" => Asks(requests[k])'
        <3>1. /\ requests[k + 1].xid <= xid
              /\ requests[k + 1].xid = xid => k + 1 = Len(requests)
              /\ requests[k + 1].xid = xid /\ call.pc = "reply" => Asks(requests[k + 1])
            BY <1>3 DEF IInv, RequestsOK
        <3>2. Asks(requests[k + 1]) => Asks(requests[k])'
            BY <1>3 DEF Asks, client
        <3> QED BY <1>3, <3>1, <3>2
    <2> QED BY <1>3, <2>1 DEF IInv, RequestsOK
<1>5. RepliesOK'
    <2>1. replies = {}
        BY DEF IInv, RepliesOK
    <2>2. CASE call.pc = "reply" /\ requests[1].xid = xid
        <3>1. Len(requests) = 1
            BY <1>3, <2>2 DEF IInv, RequestsOK
        <3>2. requests' = <<>>
            BY <1>3, <3>1
        <3>3. replies' \in {{reply}, {}}
            BY <2>1, <2>2
        <3> QED BY <2>2, <3>2, <3>3 DEF RepliesOK
    <2>3. CASE ~(call.pc = "reply" /\ requests[1].xid = xid)
        BY <2>1, <2>3 DEF RepliesOK
    <2> QED BY <2>2, <2>3
<1> QED
    BY <1>1, <1>2, <1>4, <1>5 DEF IInv

\* A write through any name keeps the server in order.
LEMMA ServerWrite ==
    ASSUME IInv, NEW write \in Writes, davar_writemultiple_1(write), event' = event
    PROVE  ServerOK'
<1> DEFINE w == daVarWriteVar(stable, smem, write.name, DAVAR_NOINDEX, write.val)
<1>1. /\ IsRegistry(stable) /\ Shared(stable) /\ BlocksCount(stable)
      /\ KnownNames(stable) = KnownNames(ServerTable)
      /\ event \in 0 .. MaxEvents
      /\ \A t \in 0 .. MaxEvents : IsStorage(stable, ServerMem(t))
      /\ smem \in past
      /\ \A m \in past : IsStorage(stable, m)
    BY DEF IInv, ServerOK
<1>2. write.name \in Seq(Words) /\ write.val \in Values
    BY RpcAssumption DEF Names
<1>3. Retitled(stable, w.table) /\ IsStorage(stable, w.mem)
    <2>1. IsStorage(stable, smem)
        BY <1>1
    <2> QED BY <1>1, <1>2, <2>1, WriteKeeps
<1>4. smem' = w.mem /\ stable' = w.table /\ past' = past \union {w.mem}
    BY DEF davar_writemultiple_1, WrittenBy
<1> HIDE DEF w
<1>5. /\ Shared(w.table) /\ BlocksCount(w.table) /\ IsRegistry(w.table)
      /\ \A m : IsStorage(stable, m) => IsStorage(w.table, m)
    BY <1>1, <1>3, RetitledKeeps DEF Retitled
<1>6. KnownNames(w.table) = KnownNames(stable)
    BY <1>3 DEF KnownNames, Retitled, Names
<1> QED
    BY <1>1, <1>3, <1>4, <1>5, <1>6 DEF ServerOK

LEMMA ServiceInv ==
    ASSUME IInv, davarsvr_1
    PROVE  IInv'
<1>1. PICK q : q = Head(requests)
    OBVIOUS
<1>2. /\ requests # <<>> /\ q = requests[1] /\ q \in Requests
      /\ requests[1].xid = xid /\ call.pc = "reply" => Asks(requests[1])
    <2>1. requests \in Seq(Requests) /\ requests # <<>>
        BY DEF davarsvr_1, IInv, RequestsOK
    <2>2. 1 \in DOMAIN requests /\ q = requests[1] /\ q \in Requests
        BY <1>1, <2>1
    <2> QED BY <2>1, <2>2 DEF IInv, RequestsOK
<1>3. requests' = Tail(requests) /\ UNCHANGED <<event, inbox, client, call, xid>>
    BY DEF davarsvr_1
<1>4. /\ q.proc \in {"readmultiple", "test", "readpatternmatch", "writemultiple"}
      /\ q.proc = "readmultiple" => q.arg \in Seq(Names)
      /\ q.proc = "test" => q.arg \in TestReads
      /\ q.proc = "readpatternmatch" => q.arg \in ImportPatterns
      /\ q.proc = "writemultiple" => q.arg \in Writes
    BY <1>2 DEF Requests
<1>5. thCallBackListP \in Seq(TestReads)
    BY DEF IInv, QueuesOK
<1>6. smem \in past
    BY DEF IInv, ServerOK
<1>7. CASE /\ q.proc = "readmultiple"
           /\ Respond(ReadAll(q.arg))
           /\ UNCHANGED <<up, smem, stable, past, thCallBackListP>>
    <2>1. PICK reply : reply = [res |-> ReadAll(q.arg)]
        OBVIOUS
    <2>2. reply.res = ReadsOf(stable, smem, q.arg)
        BY <2>1 DEF ReadAll, ReadsOf
    <2>3. call.pc = "reply" /\ requests[1].xid = xid => Answers(reply)'
        BY <1>2, <1>3, <1>6, <1>7, <2>2 DEF Asks, Answers, client
    <2>4. ServerOK'
        BY <1>3, <1>7 DEF IInv, ServerOK
    <2>5. replies' = IF call.pc = "reply" /\ requests[1].xid = xid THEN {reply} ELSE replies
        BY <1>1, <1>2, <1>7, <2>1 DEF Respond
    <2> QED BY <1>2, <1>3, <1>5, <1>7, <2>3, <2>4, <2>5, ServedInv
<1>8. CASE /\ q.proc = "readpatternmatch"
           /\ LET vlist == daVarList(stable, q.arg)
              IN  Respond([k \in DOMAIN vlist |->
                              [name |-> vlist[k], val |-> ReadAll(vlist)[k]]])
           /\ UNCHANGED <<up, smem, stable, past, thCallBackListP>>
    <2>1. PICK reply : reply = [res |-> MatchesOf(stable, smem, q.arg)]
        OBVIOUS
    <2>2. reply.res = MatchesOf(stable, smem, q.arg) /\ q.arg \in ImportPatterns
        BY <1>4, <1>8, <2>1
    <2>3. call.pc = "reply" /\ requests[1].xid = xid => Answers(reply)'
        BY <1>2, <1>3, <1>6, <1>8, <2>2 DEF Asks, Answers
    <2>4. ServerOK'
        BY <1>3, <1>8 DEF IInv, ServerOK
    <2>5. replies' = IF call.pc = "reply" /\ requests[1].xid = xid THEN {reply} ELSE replies
        <3>1. Respond(MatchesOf(stable, smem, q.arg))
            <4>1. \A v : ReadAll(v) = ReadsOf(stable, smem, v)
                BY DEF ReadAll, ReadsOf
            <4>2. PICK vlist : vlist = daVarList(stable, q.arg)
                OBVIOUS
            <4>3. Respond([k \in DOMAIN vlist |->
                              [name |-> vlist[k], val |-> ReadAll(vlist)[k]]])
                BY <1>8, <4>2
            <4>4. MatchesOf(stable, smem, q.arg)
                  = [k \in DOMAIN vlist |-> [name |-> vlist[k], val |-> ReadAll(vlist)[k]]]
                BY <4>1, <4>2 DEF MatchesOf
            <4> QED BY <4>3, <4>4
        <3> QED BY <1>1, <1>2, <2>1, <3>1 DEF Respond
    <2> QED BY <1>2, <1>3, <1>5, <1>8, <2>3, <2>4, <2>5, ServedInv
<1>9. CASE /\ q.proc = "writemultiple"
           /\ davar_writemultiple_1(q.arg)
           /\ UNCHANGED <<up, thCallBackListP>>
    <2>1. PICK res : Respond(res)
        BY <1>9 DEF davar_writemultiple_1, WrittenBy
    <2>2. PICK reply : reply = [res |-> res]
        OBVIOUS
    <2>3. call.pc = "reply" /\ requests[1].xid = xid => Answers(reply)'
        BY <1>2, <1>3, <1>9 DEF Asks, Answers
    <2>4. ServerOK'
        BY <1>3, <1>4, <1>9, ServerWrite
    <2>5. replies' = IF call.pc = "reply" /\ requests[1].xid = xid THEN {reply} ELSE replies
        BY <1>1, <1>2, <2>1, <2>2 DEF Respond
    <2> QED BY <1>2, <1>3, <1>5, <1>9, <2>3, <2>4, <2>5, ServedInv
<1>10. CASE /\ q.proc = "test"
            /\ davar_readmultiple_test_1(q.arg)
            /\ UNCHANGED <<smem, stable, past>>
    <2>1. PICK reply : reply = [res |-> S_SUCCESS]
        OBVIOUS
    <2>2. call.pc = "reply" /\ requests[1].xid = xid => Answers(reply)'
        BY <1>2, <1>3, <1>10 DEF Asks, Answers
    <2>3. ServerOK'
        BY <1>3, <1>10 DEF IInv, ServerOK
    <2>4. CASE thCallBackListP' = <<q.arg>> \o thCallBackListP /\ Respond(S_SUCCESS)
        <3>1. replies' = IF call.pc = "reply" /\ requests[1].xid = xid THEN {reply} ELSE replies
            BY <1>1, <1>2, <2>1, <2>4 DEF Respond
        <3>2. thCallBackListP' \in Seq(TestReads)
            BY <1>4, <1>5, <1>10, <2>4
        <3> QED BY <1>2, <1>3, <2>2, <2>3, <3>1, <3>2, ServedInv
    <2>5. CASE thCallBackListP' = <<>> /\ UNCHANGED replies
        <3>1. thCallBackListP' \in Seq(TestReads)
            BY <2>5
        <3>2. replies' = replies
            BY <2>5
        <3> QED BY <1>2, <1>3, <2>2, <2>3, <3>1, <3>2, ServedInv
    <2> QED BY <1>10, <2>4, <2>5 DEF davar_readmultiple_test_1
<1> QED
    <2> DEFINE A == /\ q.proc = "readmultiple"
                    /\ Respond(ReadAll(q.arg))
                    /\ UNCHANGED <<up, smem, stable, past, thCallBackListP>>
               B == /\ q.proc = "readpatternmatch"
                    /\ LET vlist == daVarList(stable, q.arg)
                       IN  Respond([k \in DOMAIN vlist |->
                              [name |-> vlist[k], val |-> ReadAll(vlist)[k]]])
                    /\ UNCHANGED <<up, smem, stable, past, thCallBackListP>>
               C == /\ q.proc = "writemultiple"
                    /\ davar_writemultiple_1(q.arg)
                    /\ UNCHANGED <<up, thCallBackListP>>
               D == /\ q.proc = "test"
                    /\ davar_readmultiple_test_1(q.arg)
                    /\ UNCHANGED <<smem, stable, past>>
    <2>1. A \/ B \/ C \/ D
        BY <1>1 DEF davarsvr_1
    <2> QED BY <1>7, <1>8, <1>9, <1>10, <2>1

LEMMA NextEventInv ==
    ASSUME IInv, NextEvent
    PROVE  IInv'
<1>1. ListsOK' /\ ClientOK'
    BY DEF IInv, ListsOK, ListsKeepCounts, ClientOK, Registry, client, NextEvent
<1>2. QueuesOK' /\ CallOK'
    BY DEF IInv, QueuesOK, CallOK, client, NextEvent
<1>3. RequestsOK'
    BY DEF IInv, RequestsOK, Asks, client, net, NextEvent
<1>4. RepliesOK'
    BY DEF IInv, RepliesOK, Answers, client, net, NextEvent
<1>5. ServerOK'
    <2>1. MaxEvents \in Nat
        BY RpcAssumption
    <2>2. event' \in 0 .. MaxEvents /\ smem' = ServerMem(event')
        BY <2>1 DEF IInv, ServerOK, NextEvent
    <2>3. IsStorage(stable, smem')
        BY <2>2 DEF IInv, ServerOK
    <2> QED BY <2>2, <2>3 DEF IInv, ServerOK, NextEvent
<1> QED
    BY <1>1, <1>2, <1>3, <1>4, <1>5 DEF IInv

LEMMA CallBackInv ==
    ASSUME IInv, daVarCallBack
    PROVE  IInv'
<1>0. /\ thCallBackListP \in Seq(TestReads) /\ Len(thCallBackListP) \in Nat
      /\ inbox \in Seq(Seq(Values))
    BY DEF IInv, QueuesOK
<1>1. UNCHANGED <<event, smem, stable, net, client, call, xid, past>>
    BY DEF daVarCallBack
<1>2. PICK late \in SUBSET DOMAIN thCallBackListP, unreachable \in SUBSET DOMAIN thCallBackListP :
          LET reached == InOrder({k \in DOMAIN thCallBackListP \ unreachable :
                                     Fires(k) \/ Out(k, late)})
          IN  /\ Scan(late)
              /\ inbox' = inbox \o [k \in DOMAIN reached |->
                                       IF Fires(reached[k])
                                       THEN ReadAll(thCallBackListP[reached[k]].names)
                                       ELSE <<>>]
    BY DEF daVarCallBack
<1>3. thCallBackListP' \in Seq(TestReads)
    <2> DEFINE K == {k \in DOMAIN thCallBackListP : ~Fires(k) /\ ~Out(k, late)}
               stay == InOrder(K)
    <2>1. thCallBackListP' = [k \in DOMAIN stay |-> Tried[stay[k]]]
        BY <1>2 DEF Scan
    <2>2. K \in SUBSET DOMAIN thCallBackListP
        OBVIOUS
    <2> HIDE DEF K
    <2>3. stay \in Seq(K)
        BY <1>0, <2>2, InOrderType
    <2> HIDE DEF stay
    <2>4. \A k \in DOMAIN thCallBackListP : Tried[k] \in TestReads
        <3> SUFFICES ASSUME NEW k \in DOMAIN thCallBackListP PROVE Tried[k] \in TestReads
            OBVIOUS
        <3>1. thCallBackListP[k] \in TestReads
            BY <1>0
        <3>2. Tried[k] = [thCallBackListP[k] EXCEPT !.max_event_wait = @ - 1]
            BY DEF Tried
        <3> QED BY <3>1, <3>2 DEF TestReads
    <2>5. /\ DOMAIN stay = 1 .. Len(stay) /\ Len(stay) \in Nat
          /\ \A k \in 1 .. Len(stay) : stay[k] \in DOMAIN thCallBackListP
        BY <2>2, <2>3
    <2>6. thCallBackListP' \in [1 .. Len(stay) -> TestReads]
        BY <2>1, <2>4, <2>5
    <2> QED BY <2>5, <2>6, SeqDef
<1>4. inbox' \in Seq(Seq(Values))
    <2> DEFINE K == {k \in DOMAIN thCallBackListP \ unreachable : Fires(k) \/ Out(k, late)}
               reached == InOrder(K)
               answer(k) == IF Fires(reached[k])
                            THEN ReadAll(thCallBackListP[reached[k]].names) ELSE <<>>
               answers == [k \in DOMAIN reached |-> answer(k)]
    <2>1. inbox' = inbox \o answers
        BY <1>2
    <2>2. K \in SUBSET DOMAIN thCallBackListP
        OBVIOUS
    <2> HIDE DEF K
    <2>3. reached \in Seq(K)
        BY <1>0, <2>2, InOrderType
    <2> HIDE DEF reached
    <2>4. /\ DOMAIN reached = 1 .. Len(reached) /\ Len(reached) \in Nat
          /\ \A k \in 1 .. Len(reached) : reached[k] \in DOMAIN thCallBackListP
        BY <2>2, <2>3
    <2>5. ASSUME NEW i \in DOMAIN thCallBackListP
          PROVE  ReadAll(thCallBackListP[i].names) \in Seq(Values)
        <3>1. thCallBackListP[i].names \in Seq(Names)
            <4>1. thCallBackListP[i] \in TestReads
                BY <1>0
            <4> QED BY <4>1 DEF TestReads
        <3>2. ReadsOf(stable, smem, thCallBackListP[i].names) \in Seq(Values)
            BY <3>1, ServerIs, ReadsOfIs DEF IInv, ServerOK
        <3>3. ReadAll(thCallBackListP[i].names) = ReadsOf(stable, smem, thCallBackListP[i].names)
            BY DEF ReadAll, ReadsOf
        <3> QED BY <3>2, <3>3
    <2>6. \A k \in 1 .. Len(reached) : answer(k) \in Seq(Values)
        BY <2>4, <2>5
    <2> HIDE DEF answer
    <2>7. answers \in [1 .. Len(reached) -> Seq(Values)]
        BY <2>4, <2>6
    <2>8. answers \in Seq(Seq(Values))
        BY <2>4, <2>7, SeqDef
    <2> QED BY <1>0, <2>1, <2>8
<1>5. ListsOK' /\ ClientOK' /\ CallOK'
    BY <1>1 DEF IInv, ListsOK, ListsKeepCounts, ClientOK, Registry, client, CallOK
<1>6. QueuesOK'
    BY <1>3, <1>4 DEF QueuesOK
<1>7. RequestsOK'
    BY <1>1 DEF IInv, RequestsOK, Asks, client, net
<1>8. RepliesOK'
    BY <1>1 DEF IInv, RepliesOK, Answers, client, net
<1>9. ServerOK'
    BY <1>1 DEF IInv, ServerOK
<1> QED
    BY <1>5, <1>6, <1>7, <1>8, <1>9 DEF IInv

-----------------------------------------------------------------------------
(* The theorems.                                                             *)

LEMMA StepInv == IInv /\ [Next]_vars => IInv'
<1> SUFFICES ASSUME IInv, [Next]_vars PROVE IInv'
    OBVIOUS
<1>1. CASE UNCHANGED vars
    <2>1. ListsOK' /\ ClientOK' /\ QueuesOK' /\ CallOK'
        BY <1>1 DEF vars, server, net, client, IInv, ListsOK, ListsKeepCounts, ClientOK, Registry,
                    QueuesOK, CallOK
    <2>2. RequestsOK'
        BY <1>1 DEF vars, server, net, client, IInv, RequestsOK, Asks
    <2>3. RepliesOK'
        BY <1>1 DEF vars, server, net, client, IInv, RepliesOK, Answers
    <2>4. ServerOK'
        BY <1>1 DEF vars, server, net, client, IInv, ServerOK
    <2> QED BY <2>1, <2>2, <2>3, <2>4 DEF IInv
<1>2. CASE Lists
    BY <1>2, CreateInv, AddInv, RemoveInv DEF Lists
<1>3. CASE Calls
    BY <1>3, GetListInv, GetTestInv, ImportInv, WriteInv DEF Calls
<1>4. CASE Waiting
    <2>1. CASE Reply
        BY <2>1, ReplyInv
    <2>2. CASE ReplyTimeout
        BY <2>2, ReplyTimeoutInv
    <2>3. CASE ServeWaiting
        BY <2>3, ServeInv DEF ServeWaiting
    <2>4. CASE Answered
        BY <2>4, FinishInv DEF Answered
    <2>5. CASE WaitTimeout
        BY <2>5, FinishInv DEF WaitTimeout
    <2>6. CASE WaitFails
        BY <2>6, FinishInv DEF WaitFails
    <2> QED BY <1>4, <2>1, <2>2, <2>3, <2>4, <2>5, <2>6 DEF Waiting
<1>5. CASE ServeIdle
    BY <1>5, ServeInv DEF ServeIdle
<1>6. CASE davarsvr_1
    BY <1>6, ServiceInv
<1>7. CASE NextEvent
    BY <1>7, NextEventInv
<1>8. CASE daVarCallBack
    BY <1>8, CallBackInv
<1> QED
    BY <1>1, <1>2, <1>3, <1>4, <1>5, <1>6, <1>7, <1>8 DEF Next

(* The invariant of the connection: a reply that stands is the one the call  *)
(* under way waits for, read of the server's storage at one moment.          *)
THEOREM InductiveInvariant == Spec => []IInv
    BY InitInv, StepInv, PTL DEF Spec

(* The count of a list is the number of its names, however the names were    *)
(* added and removed (thAddToList, thRemoveFromList).                        *)
THEOREM CountsAreKept == Spec => []ListsKeepCounts
<1>1. IInv => ListsKeepCounts
    BY DEF IInv, ListsOK
<1> QED
    BY <1>1, InductiveInvariant, PTL

\* A call that waits for its reply returns 0 only with the reply.
LEMMA OnlyReply ==
    ASSUME IInv, Next, call.pc = "reply", call'.pc = "idle", call'.ret = 0
    PROVE  Reply
<1>1. ~Lists
    BY DEF Lists, thCreateList, thAddToList, thRemoveFromList
<1>2. ~Calls
    BY DEF Calls, thGetList, thGetList_test, thImportVars, davar_writemultiple
<1>3. ~ReplyTimeout
    <2> SUFFICES ASSUME ReplyTimeout PROVE FALSE
        OBVIOUS
    <2>1. call' = [call EXCEPT !.pc = "idle", !.ret = -1]
          /\ call = [pc |-> call.pc, op |-> call.op, handle |-> call.handle, ret |-> call.ret]
        BY DEF ReplyTimeout, IInv, CallOK
    <2> QED BY <2>1
<1>4. ~ServeWaiting /\ ~Answered /\ ~WaitTimeout /\ ~WaitFails /\ ~ServeIdle
    BY DEF ServeWaiting, Answered, WaitTimeout, WaitFails, ServeIdle
<1>5. ~davarsvr_1 /\ ~NextEvent /\ ~daVarCallBack
    BY DEF davarsvr_1, NextEvent, daVarCallBack
<1> QED
    BY <1>1, <1>2, <1>3, <1>4, <1>5 DEF Next, Waiting

(* When thGetList returns 0, every variable of the list holds what the       *)
(* server's of the same name held, all of them at one and the same moment.   *)
THEOREM ListsAreSnapshots == Spec => SnapshotOfOneMoment
<1> DEFINE Gets == call.pc = "reply" /\ call.op = "get" /\ call'.pc = "idle" /\ call'.ret = 0
           Snapshot == \E m \in past : \A k \in DOMAIN handle_list[call.handle].names :
                           Agrees(handle_list[call.handle].names[k], ctable', cmem', m)
<1>1. ASSUME IInv, Next, Gets PROVE Snapshot
    <2>1. Reply
        BY <1>1, OnlyReply
    <2>2. PICK m \in past : Leaves(StoreAll(handle_list[call.handle].rpc,
                                            ReadsOf(stable, m, handle_list[call.handle].rpc)))
        BY <1>1, <2>1, ReplyIs
    <2>3. PICK names : names = handle_list[call.handle].rpc
        OBVIOUS
    <2>4. PICK done : done = StoreAll(names, ReadsOf(stable, m, names))
        OBVIOUS
    <2>5. ctable' = done.table /\ cmem' = done.mem /\ done.nerrors = 0
        BY <1>1, <2>2, <2>3, <2>4 DEF Leaves
    <2>6. /\ names = handle_list[call.handle].names
          /\ \A k \in DOMAIN names :
                 Matches(daVarReadVar(done.table, done.mem, names[k], DAVAR_NOINDEX),
                         daVarReadVar(stable, m, names[k], DAVAR_NOINDEX))
        BY <1>1, <2>3, <2>4, <2>5, GetIs
    <2> QED BY <2>5, <2>6 DEF Agrees
<1>2. IInv /\ [Next]_vars => [Gets => Snapshot]_vars
    BY <1>1
<1> QED
    BY <1>2, InductiveInvariant, PTL DEF Spec, SnapshotOfOneMoment

\* The names of the server's variables are plain, in whatever case they are written.
LEMMA ServerNamesPlain ==
    ASSUME IInv, NEW n \in KnownNames(stable)
    PROVE  Plain(n)
<1>1. n \in Names /\ n \in Seq(Words) /\ Known(ServerTable, n) /\ IsRegistry(ServerTable)
    BY RpcAssumption DEF IInv, ServerOK, KnownNames, Names
<1>2. PICK e \in Entries(ServerTable) : Key(e.name) = Key(n)
    BY <1>1, Found
<1>3. e.name \in Names /\ e.name \in Seq(Words)
    BY <1>1, EntryOf
<1>4. Len(e.name) = Len(n) /\ Len(n) \in DOMAIN n /\ Len(n) \in DOMAIN e.name
    <2>1. Len(e.name) = Len(n)
        BY <1>1, <1>2, <1>3, SameKeyPrefixes
    <2> QED BY <1>1, <1>3, <2>1 DEF Names
<1>5. Lower[n[Len(n)]] = Lower[e.name[Len(e.name)]]
    <2>1. Key(n)[Len(n)] = Lower[n[Len(n)]] /\ Key(e.name)[Len(n)] = Lower[e.name[Len(n)]]
        BY <1>1, <1>3, <1>4, KeyType
    <2> QED BY <1>2, <1>4, <2>1
<1> QED
    BY <1>5, PlainNames DEF Plain

(* When thImportVars returns 0, the reply lists the server's variables that  *)
(* match, and each of them is registered at the client with the value it had *)
(* at the server, registered anew where the value did not fit.               *)
THEOREM ImportsAreComplete == Spec => ImportIsComplete
<1> DEFINE Gets == call.pc = "reply" /\ call.op = "import" /\ call'.pc = "idle" /\ call'.ret = 0
           Complete == \E m \in past : \E p \in ImportPatterns :
                           /\ \A r \in replies :
                                  [k \in DOMAIN r.res |-> r.res[k].name] = daVarList(stable, p)
                           /\ \A n \in ToSet(daVarList(stable, p)) : Agrees(n, ctable', cmem', m)
<1>1. ASSUME IInv, Next, Gets PROVE Complete
    <2>1. Reply
        BY <1>1, OnlyReply
    <2>2. PICK m \in past, p \in ImportPatterns :
              /\ \A q \in replies : q.res = MatchesOf(stable, m, p)
              /\ Leaves(Importing(MatchesOf(stable, m, p)))
        BY <1>1, <2>1, ReplyIs
    <2>3. PICK names : names = daVarList(stable, p)
        OBVIOUS
    <2>4. PICK items : items = MatchesOf(stable, m, p)
        OBVIOUS
    <2>5. PICK vals : vals = ReadsOf(stable, m, names)
        OBVIOUS
    <2>6. /\ items \in Seq(Items) /\ Len(items) = Len(names) /\ DOMAIN items = DOMAIN names
          /\ names = [k \in DOMAIN items |-> items[k].name]
          /\ vals = [k \in DOMAIN items |-> items[k].val]
        BY <1>1, <2>3, <2>4, <2>5, ServerIs, MatchesOfIs
    <2>7. names \in Seq(KnownNames(stable)) /\ names \in Seq(Names)
        BY <1>1, <2>3, ServerIs, ListType, KnownAreNames
    <2>8. /\ \A k \in DOMAIN names : vals[k] = daVarReadVar(stable, m, names[k], DAVAR_NOINDEX)
          /\ Alike(names, vals)
        BY <1>1, <2>5, <2>7, ServerIs, ReadsOfIs
    <2>9. PICK done : done = Importing(items)
        OBVIOUS
    <2>10. ctable' = done.table /\ cmem' = done.mem /\ done.nerrors = 0
        BY <1>1, <2>2, <2>4, <2>9 DEF Leaves
    <2>11. \A k \in DOMAIN items : Plain(names[k])
        <3>1. \A k \in DOMAIN names : names[k] \in KnownNames(stable)
            BY <2>7
        <3> QED BY <1>1, <2>6, <3>1, ServerNamesPlain
    <2>12. Hold(done, names, vals, Len(items))
        BY <1>1, <2>6, <2>8, <2>9, <2>10, <2>11, ImportingIn DEF IInv, ClientOK
    <2>13. ASSUME NEW k \in DOMAIN names PROVE Agrees(names[k], ctable', cmem', m)
        <3>1. k \in 1 .. Len(items)
            BY <2>6, <2>7
        <3>2. /\ names[k] \in KnownNames(done.table)
              /\ Matches(Own(done.mem, daVarLookupP(done.table, names[k])), vals[k])
            BY <2>12, <3>1 DEF Hold
        <3>3. daVarReadVar(done.table, done.mem, names[k], DAVAR_NOINDEX)
              = Own(done.mem, daVarLookupP(done.table, names[k]))
            BY <3>2, ReadKnown DEF KnownNames
        <3> QED BY <2>8, <2>10, <3>2, <3>3 DEF Agrees
    <2>14. \A n \in ToSet(names) : Agrees(n, ctable', cmem', m)
        BY <2>13 DEF ToSet
    <2>15. \A r \in replies : [k \in DOMAIN r.res |-> r.res[k].name] = names
        BY <2>2, <2>4, <2>6
    <2> QED BY <2>3, <2>14, <2>15
<1>2. IInv /\ [Next]_vars => [Gets => Complete]_vars
    BY <1>1
<1> QED
    BY <1>2, InductiveInvariant, PTL DEF Spec, ImportIsComplete
=============================================================================
