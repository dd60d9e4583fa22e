----------------------------- MODULE MergeSimcG4 -----------------------------
(***************************************************************************)
(* merge_simc_g4.C: index the Geant4 entries by EventID, then walk over    *)
(* the SimC rows and copy each with the Geant4 entry of the same event.    *)
(*                                                                         *)
(* A SimC event_id is a Float_t: an integer, or NotInteger when it is      *)
(* further than 1e-3 from one.  hodoposition and gemana have no event id   *)
(* of their own: their entries are addressed by the entry number found in  *)
(* hodoenergy.  An operator X_Mistake is X with a plausible mistake.       *)
(***************************************************************************)
EXTENDS Integers, Sequences, FiniteSets

CONSTANTS
    Ids,            \* the event ids that occur
    NotInteger,     \* a SimC event_id that is no integer
    MaxRows         \* the longest tree considered

ASSUME MergeAssumption ==
    /\ Ids \subseteq Int
    /\ NotInteger \notin Int
    /\ MaxRows \in Nat

VARIABLES
    files,          \* both files with all trees and branches, or not
    h10,            \* event_id of the SimC rows
    hodoenergy,     \* EventID of the hodoenergy entries
    n_pos, n_gem,   \* entries of hodoposition and gemana
    pc, i,
    g4_entry_by_event_id,
    out,            \* the output file: "absent", "old", "partial" or "written"
    simc_out, pos_out, ene_out, gem_out     \* entries filled in the output trees

inputs  == <<files, h10, hodoenergy, n_pos, n_gem>>
outputs == <<simc_out, pos_out, ene_out, gem_out>>
vars == <<files, h10, hodoenergy, n_pos, n_gem, pc, i, g4_entry_by_event_id,
          out, simc_out, pos_out, ene_out, gem_out>>

SeqUpTo(S) == UNION {[1 .. n -> S] : n \in 0 .. MaxRows}

Init ==
    /\ files \in {"readable", "unreadable"}
    /\ h10 \in SeqUpTo(Ids \cup {NotInteger})
    /\ hodoenergy \in SeqUpTo(Ids)
    /\ n_pos \in 0 .. MaxRows
    /\ n_gem \in 0 .. MaxRows
    /\ pc = "open"
    /\ i = 1
    /\ g4_entry_by_event_id = [id \in {} |-> 0]
    /\ out \in {"absent", "old"}
    /\ simc_out = <<>> /\ pos_out = <<>> /\ ene_out = <<>> /\ gem_out = <<>>

------------------------------------------------------------------------------
(* die_merge: gSystem->Exit(1).  Trees that were not written are lost.       *)
Die == /\ pc' = "died"
       /\ UNCHANGED <<inputs, i, g4_entry_by_event_id, out, outputs>>

SameEntryCounts_HodoOnly == n_pos = Len(hodoenergy)
SameEntryCounts == n_pos = Len(hodoenergy) /\ n_gem = Len(hodoenergy)

Open ==
    /\ pc = "open"
    /\ IF files = "readable" /\ SameEntryCounts
       THEN /\ pc' = "index"
            /\ UNCHANGED <<inputs, i, g4_entry_by_event_id, out, outputs>>
       ELSE Die

Duplicate(id) == id \in DOMAIN g4_entry_by_event_id

IndexWith(id, entry) ==
    [x \in DOMAIN g4_entry_by_event_id \cup {id} |->
        IF x = id THEN entry ELSE g4_entry_by_event_id[x]]

(* The loop that builds g4_entry_by_event_id; a second entry with an EventID *)
(* already seen is fatal.                                                    *)
Index ==
    /\ pc = "index"
    /\ i <= Len(hodoenergy)
    /\ IF Duplicate(hodoenergy[i])
       THEN Die
       ELSE /\ g4_entry_by_event_id' = IndexWith(hodoenergy[i], i)
            /\ i' = i + 1
            /\ UNCHANGED <<inputs, pc, out, outputs>>

Indexed_NotWaitedFor == TRUE
Indexed == i > Len(hodoenergy)

(* Create the output directory and RECREATE the file: an older output is     *)
(* gone from here on.  Either may fail.                                      *)
CreateOutput ==
    /\ pc = "index"
    /\ Indexed
    /\ \/ /\ out' = "partial"
          /\ pc' = "join"
          /\ i' = 1
          /\ UNCHANGED <<inputs, g4_entry_by_event_id, outputs>>
       \/ Die

EntryOf_OffByOne(id) == g4_entry_by_event_id[id] + 1
EntryOf(id) == g4_entry_by_event_id[id]

HasEntry_EntryZeroIsNone(id) ==
    id \in DOMAIN g4_entry_by_event_id /\ g4_entry_by_event_id[id] # 1
HasEntry(id) == id # NotInteger /\ id \in DOMAIN g4_entry_by_event_id

Unmatched_Skipped ==
    /\ i' = i + 1
    /\ UNCHANGED <<inputs, pc, g4_entry_by_event_id, out, outputs>>
Unmatched == Die

(* One SimC row: it must carry an integer id that the index knows; it is     *)
(* then filled together with the three Geant4 entries.                       *)
JoinRow ==
    /\ pc = "join"
    /\ i <= Len(h10)
    /\ IF HasEntry(h10[i])
       THEN LET g4_entry == EntryOf(h10[i])
            IN  /\ simc_out' = Append(simc_out, i)
                /\ pos_out' = Append(pos_out, g4_entry)
                /\ ene_out' = Append(ene_out, g4_entry)
                /\ gem_out' = Append(gem_out, g4_entry)
                /\ i' = i + 1
                /\ UNCHANGED <<inputs, pc, g4_entry_by_event_id, out>>
       ELSE Unmatched

(* fout.Write() and Close().                                                 *)
Write ==
    /\ pc = "join"
    /\ i > Len(h10)
    /\ out' = "written"
    /\ pc' = "done"
    /\ UNCHANGED <<inputs, i, g4_entry_by_event_id, outputs>>

Terminated == pc \in {"done", "died"} /\ UNCHANGED vars

Next == Open \/ Index \/ CreateOutput \/ JoinRow \/ Write \/ Terminated

Spec == Init /\ [][Next]_vars

------------------------------------------------------------------------------
Entries == 1 .. Len(hodoenergy)

TypeOK ==
    /\ files \in {"readable", "unreadable"}
    /\ h10 \in Seq(Ids \cup {NotInteger})
    /\ hodoenergy \in Seq(Ids)
    /\ n_pos \in Nat /\ n_gem \in Nat
    /\ pc \in {"open", "index", "join", "done", "died"}
    /\ i \in Nat \ {0}
    /\ DOMAIN g4_entry_by_event_id \subseteq Ids
    /\ \A id \in DOMAIN g4_entry_by_event_id : g4_entry_by_event_id[id] \in Entries
    /\ out \in {"absent", "old", "partial", "written"}
    /\ simc_out \in Seq(Nat)
    /\ pos_out \in Seq(Nat) /\ ene_out \in Seq(Nat) /\ gem_out \in Seq(Nat)

(* Each row already filled pairs a SimC row with the one Geant4 entry of the *)
(* same event, and the four output trees stay in step: entry k of each of    *)
(* them belongs to one event.                                                *)
RowsMatchEvents ==
    /\ Len(pos_out) = Len(simc_out)
    /\ pos_out = ene_out /\ gem_out = ene_out
    /\ \A k \in 1 .. Len(simc_out) :
           /\ simc_out[k] = k
           /\ ene_out[k] \in Entries
           /\ hodoenergy[ene_out[k]] = h10[k]
           /\ ene_out[k] <= n_pos /\ ene_out[k] <= n_gem

(* The index is exact on the entries already visited: it names each of them  *)
(* by its own id, so no two of them share one.                               *)
IndexIsExact ==
    LET seen == {k \in Entries : pc # "index" \/ k < i}
    IN  pc \in {"index", "join", "done"} =>
            /\ DOMAIN g4_entry_by_event_id = {hodoenergy[k] : k \in seen}
            /\ \A k \in seen : g4_entry_by_event_id[hodoenergy[k]] = k

(* A written output is complete: every SimC row is in it.  A run that died   *)
(* never leaves a file that passes for one.                                  *)
WrittenIsComplete ==
    /\ out = "written" <=> pc = "done"
    /\ pc = "done" => Len(simc_out) = Len(h10)

(* An output of an earlier merge survives every check made on the inputs as  *)
(* a whole: it is only given up for a fresh index without duplicates.        *)
OldOutputKeptUntilIndexed ==
    [][out = "old" /\ out' # "old" =>
           Cardinality(DOMAIN g4_entry_by_event_id) = Len(hodoenergy)]_vars

(* A merge that gives up has a reason in its inputs, unless it could not     *)
(* create its output, when no row has been filled.                           *)
DiesForAReason ==
    pc = "died" =>
        \/ files = "unreadable" \/ ~SameEntryCounts
        \/ \E j, k \in Entries : j # k /\ hodoenergy[j] = hodoenergy[k]
        \/ \E k \in 1 .. Len(h10) : \A j \in Entries : hodoenergy[j] # h10[k]
        \/ out # "partial" /\ Indexed

Join == INSTANCE EventJoin WITH
            left <- h10,
            right <- hodoenergy,
            outcome <- CASE pc = "done" -> <<"joined", [k \in DOMAIN simc_out |->
                                  [row |-> simc_out[k], entry |-> ene_out[k]]]>>
                         [] pc = "died" -> <<"failed">>
                         [] OTHER -> <<"none">>

(* The merge implements the join of the two tables on the event id.          *)
ImplementsJoin == Join!Spec
==============================================================================
