------------------------------ MODULE MCPipeline ------------------------------
(***************************************************************************)
(* The pipeline on samples of up to MaxEntries events, any of them with a  *)
(* zero momentum; or one of two of its programs alone, on inputs no run of *)
(* the pipeline makes: a stream that stops anywhere, and any dat file with *)
(* any tree, readable or not, for each of two spectrometers.               *)
(***************************************************************************)
EXTENDS Pipeline

CONSTANTS
    NtupleSize, nev, MaxStream, MaxId,  \* of the converter alone, see MakeRootTree
    Specs, Ids, MaxLines, MaxRows       \* of the selection alone, see SelectAccepted

\* Values of constants for TLC.
MCSpecs == <<"HMS", "SHMS">>

VARIABLES
    which,                                          \* what is run
    header, events, n_records,                      \* the stream
    x_dat, dat_access, tree_access, x_h10, writable \* inputs of the selection

t_inputs == <<header, events, n_records>>
x_inputs == <<x_dat, dat_access, tree_access, x_h10, writable>>

Converter == INSTANCE MakeRootTree WITH
                 MaxRows <- MaxStream, pc <- t_pc, j <- t_j, i <- t_i

Selection == INSTANCE SelectAccepted WITH
                 k <- x_k, pc <- x_pc, i <- x_i, output <- x_output,
                 dat <- x_dat, h10 <- x_h10

ASSUME InputsAssumption == Converter!TreeAssumption /\ Selection!SelectAssumption
ASSUME Tree!TreeAssumption /\ Select!SelectAssumption

\* Programs that are not run stay where they are.
NoStream == header = "none" /\ events = <<>> /\ n_records = 0
NoInputs == /\ x_dat = <<>> /\ dat_access = "none" /\ x_h10 = <<>>
            /\ tree_access = <<>> /\ writable = <<>>
NoTree == Tree!Init /\ root = "absent"
NoSample == /\ dat = Root2dat(<<Simc!Event>>) /\ ngen = 0 - 1 /\ hard_cuts = 0
            /\ Simc!Init
NoMerge == Merge!Init /\ out = "absent"

MCInit ==
    \/ /\ which = "pipeline" /\ Init
       /\ NoStream /\ NoInputs
    \/ /\ which = "make_root_tree" /\ Converter!Init
       /\ NoSample /\ Select!Start /\ NoMerge /\ NoInputs
    \/ /\ which = "select_accepted" /\ Selection!Init
       /\ NoSample /\ NoStream /\ NoTree /\ NoMerge

MCNext ==
    \/ /\ which = "pipeline" /\ Next
       /\ UNCHANGED <<which, t_inputs, x_inputs>>
    \/ /\ which = "make_root_tree" /\ Converter!Next
       /\ UNCHANGED <<which, s_vars, x_vars, m_vars, x_inputs>>
    \/ /\ which = "select_accepted" /\ Selection!Next
       /\ UNCHANGED <<which, s_vars, t_vars, m_vars, t_inputs>>

MCSpec == MCInit /\ [][MCNext]_<<vars, which, t_inputs, x_inputs>>

------------------------------------------------------------------------------
(* Row k of the tree is row k of the stream, all of it from one event, and a *)
(* tree that is written has all rows SimC completed, up to nev, wherever the *)
(* stream breaks off.                                                        *)
RowsAreWhole == which = "make_root_tree" => Converter!RowsAreWhole

(* The selected dat file of a spectrometer has the comments and the lines of *)
(* the events of its own tree, missing only for a reason of its own, and the *)
(* plots show those events against the rows of the tree.                     *)
SelectionIsExact == which = "select_accepted" => Selection!SelectionIsExact
==============================================================================
