---------------------------- MODULE SelectAccepted ----------------------------
(***************************************************************************)
(* select_accepted_DIS_dat.C: for one spectrometer after the other,        *)
(* collect the event ids of its SimC tree and copy the lines of the dat    *)
(* file that have one of them, with the comments, to a selected dat file.  *)
(* The plots compare what the selected lines give with what the tree holds.*)
(*                                                                         *)
(* A line is its kind and, when its ten fields could be read, its event    *)
(* id.  A histogram is the sequence of the events it was filled for: that  *)
(* of Q2 stands for all of them, the one of W lacks the events without an  *)
(* invariant mass.                                                         *)
(* An operator X_Mistake is X with a plausible mistake.                    *)
(***************************************************************************)
EXTENDS Integers, Sequences, FiniteSets

CONSTANTS
    Specs,              \* the spectrometers, in the order they are processed
    Ids,                \* event ids that occur in trees and in dat files
    MaxLines, MaxRows   \* longest dat file and longest tree considered

Spectrometers == {Specs[k] : k \in DOMAIN Specs}

SelectAssumption ==
    /\ Specs \in Seq(Spectrometers)
    /\ \A j, l \in DOMAIN Specs : j # l => Specs[j] # Specs[l]
    /\ Ids \subseteq Nat
    /\ MaxLines \in Nat /\ MaxRows \in Nat

NoId == -1      \* what evtID and event_id_f start from

Line(kind, id) == [kind |-> kind, id |-> id]
Lines == {Line(kind, NoId) : kind \in {"empty", "comment", "malformed"}}
         \cup {Line("event", id) : id \in Ids}

VARIABLES
    dat,            \* the lines of inDatFile; <<>> also when it cannot be read
    dat_access,     \* "readable" or "unreadable"
    tree_access,    \* of each tree: "full", "no_branch" (no event_id) or "none"
    h10,            \* event_id of the rows of each tree
    writable,       \* can the selected dat file be created?
    k, pc, i,       \* the spectrometer, the place in ProcessOneSpectrometer, the line
    acceptedIDs,
    selected,       \* the lines written to each selected dat file
    nSelectedEvents,
    plots,          \* of each: the events its histograms were filled for
    output          \* of each: "none", "dat" or "dat and pdf"

inputs == <<dat, dat_access, tree_access, h10, writable>>
vars == <<dat, dat_access, tree_access, h10, writable, k, pc, i, acceptedIDs,
          selected, nSelectedEvents, plots, output>>

Inputs ==
    /\ dat \in UNION {[1 .. n -> Lines] : n \in 0 .. MaxLines}
    /\ dat_access \in {"readable", "unreadable"}
    /\ dat_access = "unreadable" => dat = <<>>
    /\ tree_access \in [Spectrometers -> {"full", "no_branch", "none"}]
    /\ h10 \in [Spectrometers -> UNION {[1 .. n -> Ids] : n \in 0 .. MaxRows}]
    /\ \A s \in Spectrometers : tree_access[s] = "none" => h10[s] = <<>>
    /\ writable \in [Spectrometers -> {"yes", "no"}]

NoPlots == [Q2 |-> <<>>, Q2_root |-> <<>>]

Start ==
    /\ k = 1 /\ pc = "ids" /\ i = 1
    /\ acceptedIDs = {}
    /\ selected = [s \in Spectrometers |-> <<>>]
    /\ nSelectedEvents = [s \in Spectrometers |-> 0]
    /\ plots = [s \in Spectrometers |-> NoPlots]
    /\ output = [s \in Spectrometers |-> "none"]

Init == Inputs /\ Start

------------------------------------------------------------------------------
spec == Specs[k]

(* ProcessOneSpectrometer returns, whatever happened; the next one follows.  *)
Return == k' = k + 1 /\ pc' = "ids"

IdsOf_NotCleared(s) == acceptedIDs \cup {h10[s][n] : n \in DOMAIN h10[s]}
(* A branch that is not there leaves event_id_f at -1 for every row.         *)
IdsOf(s) == {IF tree_access[s] = "full" THEN h10[s][n] ELSE NoId : n \in DOMAIN h10[s]}

(* Clear the set and read the ids of the tree, which must be there and must  *)
(* have rows.                                                                *)
ReadAcceptedIDs ==
    /\ k <= Len(Specs) /\ pc = "ids"
    /\ acceptedIDs' = IdsOf(spec)
    /\ IF tree_access[spec] # "none" /\ acceptedIDs' # {}
       THEN pc' = "open" /\ UNCHANGED k
       ELSE Return
    /\ UNCHANGED <<inputs, i, selected, nSelectedEvents, plots, output>>

OpenFiles ==
    /\ k <= Len(Specs) /\ pc = "open"
    /\ IF dat_access = "readable" /\ writable[spec] = "yes"
       THEN /\ output' = [output EXCEPT ![spec] = "dat"]
            /\ i' = 1
            /\ pc' = "histograms"
            /\ UNCHANGED k
       ELSE Return /\ UNCHANGED <<i, output>>
    /\ UNCHANGED <<inputs, acceptedIDs, selected, nSelectedEvents, plots>>

(* The histograms are made and those of the tree filled, once for each row.  *)
FillRootKinematicsHistograms ==
    /\ k <= Len(Specs) /\ pc = "histograms"
    /\ plots' = [plots EXCEPT ![spec] = [NoPlots EXCEPT !.Q2_root = h10[spec]]]
    /\ pc' = "lines"
    /\ UNCHANGED <<inputs, k, i, acceptedIDs, selected, nSelectedEvents, output>>

IsSelected(line) == line.kind = "event" /\ line.id \in acceptedIDs

IsCopied(line) == line.kind = "comment" \/ IsSelected(line)

Filled_BeforeSelection(h, line) ==
    IF line.kind = "event" THEN [h EXCEPT !.Q2 = Append(@, line.id)] ELSE h
(* The histograms of the selected lines.                                     *)
Filled(h, line) ==
    IF IsSelected(line) THEN [h EXCEPT !.Q2 = Append(@, line.id)] ELSE h

(* One line of the dat file.                                                 *)
ReadLine ==
    /\ k <= Len(Specs) /\ pc = "lines"
    /\ i <= Len(dat)
    /\ IF IsCopied(dat[i])
       THEN selected' = [selected EXCEPT ![spec] = Append(@, dat[i])]
       ELSE UNCHANGED selected
    /\ IF IsSelected(dat[i])
       THEN nSelectedEvents' = [nSelectedEvents EXCEPT ![spec] = @ + 1]
       ELSE UNCHANGED nSelectedEvents
    /\ plots' = [plots EXCEPT ![spec] = Filled(@, dat[i])]
    /\ i' = i + 1
    /\ UNCHANGED <<inputs, k, pc, acceptedIDs, output>>

(* The plots are drawn when any event was selected.                          *)
EndOfDat ==
    /\ k <= Len(Specs) /\ pc = "lines"
    /\ i > Len(dat)
    /\ output' = IF nSelectedEvents[spec] = 0 THEN output
                 ELSE [output EXCEPT ![spec] = "dat and pdf"]
    /\ Return
    /\ UNCHANGED <<inputs, i, acceptedIDs, selected, nSelectedEvents, plots>>

Over == k > Len(Specs)
Terminated == Over /\ UNCHANGED vars

Next ==
    \/ ReadAcceptedIDs \/ OpenFiles \/ FillRootKinematicsHistograms
    \/ ReadLine \/ EndOfDat
    \/ Terminated

Spec == Init /\ [][Next]_vars

------------------------------------------------------------------------------
TypeOK ==
    /\ dat \in Seq(Lines)
    /\ dat_access \in {"readable", "unreadable"}
    /\ tree_access \in [Spectrometers -> {"full", "no_branch", "none"}]
    /\ h10 \in [Spectrometers -> Seq(Ids)]
    /\ writable \in [Spectrometers -> {"yes", "no"}]
    /\ k \in 1 .. Len(Specs) + 1
    /\ pc \in {"ids", "open", "histograms", "lines"}
    /\ i \in 1 .. Len(dat) + 1
    /\ acceptedIDs \subseteq Ids \cup {NoId}
    /\ selected \in [Spectrometers -> Seq(Lines)]
    /\ nSelectedEvents \in [Spectrometers -> Nat]
    /\ plots \in [Spectrometers -> [Q2 : Seq(Ids), Q2_root : Seq(Ids)]]
    /\ output \in [Spectrometers -> {"none", "dat", "dat and pdf"}]

Processed == {Specs[n] : n \in 1 .. k - 1}

InTree(s, id) == tree_access[s] = "full" /\ \E n \in DOMAIN h10[s] : h10[s][n] = id

(* A list has the lines numbered in places, in their order: the n-th of      *)
(* these is its n-th.                                                        *)
Rank(places, n) == Cardinality({l \in places : l <= n})
Lists(list, lines, places) ==
    /\ Len(list) = Cardinality(places)
    /\ \A n \in places : list[Rank(places, n)] = lines[n]

IdOfLine == [n \in DOMAIN dat |-> dat[n].id]
Comments == {n \in DOMAIN dat : dat[n].kind = "comment"}
EventsOf(s) == {n \in DOMAIN dat : dat[n].kind = "event" /\ InTree(s, dat[n].id)}

Once(f) == \A x, y \in DOMAIN f : f[x] = f[y] => x = y
SameEvents(f, g) == Len(f) = Len(g) /\ {f[x] : x \in DOMAIN f} = {g[x] : x \in DOMAIN g}

(* The selected dat file of a spectrometer has the comments and the lines of *)
(* the events in its own tree, all of them, as often and in the order they   *)
(* are in the dat file, whatever the other spectrometer's tree holds; it is  *)
(* missing only for a reason of its own.  The plots, made when there is such *)
(* an event, show the events of that file against all rows of the tree: the  *)
(* same events, when the tree and the dat file have each of them once.       *)
SelectionIsExact ==
    \A s \in Processed :
        /\ output[s] = "none" <=> h10[s] = <<>> \/ dat_access = "unreadable" \/ writable[s] = "no"
        /\ output[s] # "none" =>
               /\ Lists(selected[s], dat, Comments \cup EventsOf(s))
               /\ output[s] = "dat and pdf" <=> EventsOf(s) # {}
        /\ output[s] = "dat and pdf" =>
               /\ Lists(plots[s].Q2, IdOfLine, EventsOf(s))
               /\ plots[s].Q2_root = h10[s]
               /\ /\ Once(h10[s]) /\ Once(plots[s].Q2)
                  /\ \A n \in DOMAIN h10[s] : \E l \in DOMAIN dat : dat[l].id = h10[s][n]
                  => SameEvents(plots[s].Q2, plots[s].Q2_root)
==============================================================================
