----------------------------- MODULE MakeRootTree -----------------------------
(***************************************************************************)
(* make_root_tree.f with froot.c: turns the record stream SimC wrote to    *)
(* worksim/<infile>.bin into the tree h10.                                 *)
(*                                                                         *)
(* The values of a row are abstracted to the event they belong to, so that *)
(* a row mixed from two events shows.  SimC may have stopped anywhere in   *)
(* its output.  The stream holds real*8 numbers, the tree real*4, in which *)
(* integers are exact up to MaxExact (2^24) only.  An operator X_Mistake   *)
(* is X with a plausible mistake.                                          *)
(***************************************************************************)
EXTENDS Integers, Sequences

CONSTANTS
    NtupleSize,     \* variables in a row
    nev,            \* most rows converted (10000000)
    MaxExact,       \* largest integer all smaller ones are exact with
    MaxRows, MaxId  \* bounds on the rows written and on event ids

TreeAssumption ==
    /\ NtupleSize \in Nat \ {0}
    /\ nev \in Nat /\ MaxExact \in Nat /\ MaxRows \in Nat /\ MaxId \in Nat
    /\ MaxExact % 2 = 0
    /\ MaxId <= 2 * MaxExact

VARIABLES
    header,         \* how much of the header there is: "none", "size" or "whole"
    events,         \* the event of each row SimC began to write
    n_records,      \* records after the header
    pc,
    j, i,           \* the loops over rows and over the variables of one
    ntup_out,       \* the row being put together
    tree,           \* the rows filled
    root            \* the output file: "absent", "old", "recreated" or "written"

stream == <<header, events, n_records>>
vars == <<header, events, n_records, pc, j, i, ntup_out, tree, root>>

Init ==
    /\ header \in {"none", "size", "whole"}
    /\ events \in UNION {[1 .. n -> 0 .. MaxId] : n \in 0 .. MaxRows}
    /\ n_records \in {n \in 0 .. MaxRows * NtupleSize :
                          /\ n <= Len(events) * NtupleSize
                          /\ Len(events) > 0 => n > (Len(events) - 1) * NtupleSize}
    /\ pc = "header"
    /\ j = 1 /\ i = 1
    /\ ntup_out = [f \in 1 .. NtupleSize |-> 0]
    /\ tree = <<>>
    /\ root \in {"absent", "old"}

\* Conversion to real*4: to even neighbours beyond MaxExact, ties to even.
Single(x) ==
    IF x <= MaxExact \/ x % 2 = 0 THEN x
    ELSE IF (x + 1) % 4 = 0 THEN x + 1 ELSE x - 1

Position == (j - 1) * NtupleSize + i
Record(p) == events[((p - 1) \div NtupleSize) + 1]

OpensTree == header # "none"

(* Read NtupleSize, recreate the output, read the tags.  A read without      *)
(* iostat ends the program when there is nothing to read.                    *)
Header ==
    /\ pc = "header"
    /\ root' = IF OpensTree THEN "recreated" ELSE root
    /\ pc' = IF header = "whole" THEN "rows" ELSE "aborted"
    /\ UNCHANGED <<stream, j, i, ntup_out, tree>>

AtEnd == Position > n_records

(* One variable of the row.                                                  *)
ReadRecord ==
    /\ pc = "rows" /\ j <= nev /\ i <= NtupleSize
    /\ ~AtEnd
    /\ ntup_out' = [ntup_out EXCEPT ![i] = Single(Record(Position))]
    /\ i' = i + 1
    /\ UNCHANGED <<stream, pc, j, tree, root>>

FillNTBranch ==
    /\ pc = "rows" /\ j <= nev /\ i > NtupleSize
    /\ tree' = Append(tree, ntup_out)
    /\ j' = j + 1
    /\ i' = 1
    /\ UNCHANGED <<stream, pc, ntup_out, root>>

RowsAtEnd_PartialToo == IF i > 1 THEN Append(tree, ntup_out) ELSE tree
RowsAtEnd == tree

(* End of the stream (an incomplete row is dropped), or nev rows.            *)
RootNTOutp ==
    /\ pc = "rows"
    /\ (i <= NtupleSize /\ AtEnd) \/ j > nev
    /\ tree' = RowsAtEnd
    /\ root' = "written"
    /\ pc' = "done"
    /\ UNCHANGED <<stream, j, i, ntup_out>>

Terminated == pc \in {"done", "aborted"} /\ UNCHANGED vars

Next == Header \/ ReadRecord \/ FillNTBranch \/ RootNTOutp \/ Terminated

Spec == Init /\ [][Next]_vars

------------------------------------------------------------------------------
TypeOK ==
    /\ header \in {"none", "size", "whole"}
    /\ events \in Seq(Nat) /\ n_records \in Nat
    /\ pc \in {"header", "rows", "done", "aborted"}
    /\ j \in 1 .. nev + 1 /\ i \in 1 .. NtupleSize + 1
    /\ ntup_out \in [1 .. NtupleSize -> Nat]
    /\ tree \in Seq([1 .. NtupleSize -> Nat]) /\ Len(tree) + 1 = j
    /\ root \in {"absent", "old", "recreated", "written"}

(* Row k of the tree is row k of the stream, all of it from one event, and a *)
(* tree that is written has all rows SimC completed, up to nev.              *)
RowsAreWhole ==
    /\ Len(tree) <= Len(events)
    /\ \A k \in 1 .. Len(tree) :
           tree[k] = [f \in 1 .. NtupleSize |-> Single(events[k])]
    /\ root = "written" =>
           LET rows == n_records \div NtupleSize
           IN  Len(tree) = IF rows <= nev THEN rows ELSE nev
==============================================================================
