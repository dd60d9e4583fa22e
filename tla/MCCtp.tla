------------------------------- MODULE MCCtp -------------------------------
(***************************************************************************)
(* The library as a program uses it (module Ctp), or lines given to its    *)
(* expressions one after the other (module CtpLines).                      *)
(***************************************************************************)
EXTENDS Ctp

MCLiterals == "0" :> [type |-> 0, val |-> <<0, 1>>] @@ "1" :> [type |-> 0, val |-> <<1, 1>>]
           @@ "2" :> [type |-> 0, val |-> <<2, 1>>] @@ "3" :> [type |-> 0, val |-> <<3, 1>>]
           @@ "2.5" :> [type |-> 1, val |-> <<5, 2>>]

\* The program registers what an event has and two parameters.
MCReg == <<"event", "x">> :> [type |-> OPRDOUBLE, ptr |-> 1]
      @@ <<"parm", "width">> :> [type |-> OPRFLOAT, ptr |-> 2]
      @@ <<"parm", "limits">> :> [type |-> OPRINT, ptr |-> 3]
MCMem == 1 :> [type |-> OPRDOUBLE, val |-> <<(<<0, 1>>)>>]
      @@ 2 :> [type |-> OPRFLOAT, val |-> <<(<<1, 1>>)>>]
      @@ 3 :> [type |-> OPRINT, val |-> <<(<<0, 1>>), (<<0, 1>>)>>]
MCEventVar == <<"event", "x">>

Begin(type, name, args) == [k |-> "begin", type |-> type, name |-> name, args |-> args]
End(type) == [k |-> "end", type |-> type]
Include(f) == [k |-> "include", name |-> f]
Parm(name, args) == [k |-> "parm", name |-> name, at |-> 0, args |-> args]
Declare(class, type, name, args) ==
    [k |-> "declare", class |-> class, type |-> type, name |-> name, args |-> args]
Test(l) == [k |-> "test", args |-> <<l>>]

MCFiles ==
    "cuts" :> <<Begin("parm", "cuts", <<"g">>),
                Declare("parm", OPRFLOAT, "edge", <<>>),
                Parm("width", <<(<<"2">>)>>), Parm("edge", <<(<<"width", "/", "2">>)>>),
                Parm("limits", <<(<<"2.5">>), (<<"2">>), (<<"3">>)>>),
                End("parm"),
                Include("tests")>>
 @@ "tests" :> <<Begin("test", "t", <<>>),
                 Test(<<"wide", "=", "x", ">", "width">>),
                 Test(<<"n", "=", "2", "*", "(", "x", ">", "edge", ")",
                        "-", "(", "x", "<", "limits", "[", "1", "]", ")">>),
                 End("test"), End("parm")>>
 @@ "list" :> <<Begin("parm", "list", <<"">>),
                Parm("width", <<(<<"2.5">>)>>),
                Parm("a", <<(<<"1">>), (<<"2">>)>>), Parm("", <<(<<"3">>)>>),
                Parm("", <<(<<"2.5">>), (<<"-", "1">>)>>),
                End("parm")>>
 @@ "again" :> <<Begin("parm", "cuts", <<"h">>),
                 Declare("parm", OPRFLOAT, "edge", <<>>),
                 Parm("width", <<(<<"1">>)>>), Parm("edge", <<(<<"width">>)>>),
                 Declare("parm", OPRDOUBLE, "depth", <<>>), Parm("depth", <<(<<"2.5">>)>>),
                 Parm("a", <<(<<"3">>)>>), End("parm")>>
MCMainFiles == {"cuts", "list", "again"}
MCSettings == {Parm("edge", <<(<<"2.5">>)>>), Parm("", <<(<<"3">>)>>),
               Parm("depth", <<(<<"2">>), (<<"3">>)>>)}

MCEvents == {<<1, 1>>, <<2, 1>>}
MCHolds(n, x, known) ==
    LET P(w, i, d) == IF w \in DOMAIN known THEN known[w][i] ELSE d
    IN  IF n = <<"test", "wide">> THEN Less(P("width", 1, <<1, 1>>), x)
        ELSE LET m == 2 * (IF Less(P("edge", 1, <<0, 1>>), x) THEN 1 ELSE 0)
                      - (IF Less(x, floatToLong(P("limits", 2, <<0, 1>>))) THEN 1 ELSE 0)
             IN  m # 0
MCGarbage == <<0, 1>>

-----------------------------------------------------------------------------
(* Lines.                                                                    *)

MCLineReg == <<"parm", "a">> :> [type |-> OPRINT, ptr |-> 1]
      @@ <<"parm", "v">> :> [type |-> OPRINT, ptr |-> 2]
      @@ <<"event", "x">> :> [type |-> OPRDOUBLE, ptr |-> 3]
      @@ <<"test", "t">> :> [type |-> OPRINT, ptr |-> 4]
MCLineMem == 1 :> [type |-> OPRINT, val |-> <<(<<3, 1>>)>>]
      @@ 2 :> [type |-> OPRINT, val |-> <<(<<1, 1>>), <<2, 1>>, <<0, 1>>>>]
      @@ 3 :> [type |-> OPRDOUBLE, val |-> <<(<<1, 2>>)>>]
      @@ 4 :> [type |-> OPRINT, val |-> <<(<<0, 1>>)>>]

Tree(k, w, args) == [k |-> k, w |-> w, args |-> args]
Leaf(w) == Tree("leaf", w, <<>>)
Leaves == {Leaf(w) : w \in {"2", "2.5", "a"}}
BinaryOps == {"||", "^^", "&&", "|", "^", "&", "==", "!=", "<", "<=", ">", ">=", "<<", ">>",
              "+", "-", "*", "/", "//", "%"}
Binary(ops, ls, rs) == {Tree("bin", o, <<l, r>>) : o \in ops, l \in ls, r \in rs}
Unaries(ts) == {Tree("un", o, <<t>>) : o \in {"-", "!", "~"}, t \in ts}
Elements == {Tree(k, "v", <<i>>) : k \in {"index", "element"},
                i \in {Leaf("1"), Leaf("a"), Leaf("2.5")} \union Binary({"-"}, {Leaf("a")}, {Leaf("1")})}
Called == {Tree("call", "abs", <<t>>) : t \in Unaries({Leaf("a"), Leaf("x")})}
             \union {Tree("call", "sqrt", <<Leaf("1")>>)}
Sets(lhs, rhs) == {Tree("set", "=", <<l, r>>) : l \in lhs, r \in rhs}
Small == Leaves \union Unaries(Leaves) \union Elements \union Called
Places == {Leaf("a"), Leaf("t"), Leaf("x")} \union Elements

Depth2 == Binary(BinaryOps, {Leaf("a"), Leaf("2.5")}, {Leaf("2")})
MCFew == Unaries({Leaf("a"), Leaf("2")}) \union Sets({Leaf("t"), Leaf("a")}, {Leaf("2.5"), Leaf("x")})
MCTrees ==
    MCFew \union Small \union Binary(BinaryOps, Small, Leaves) \union Binary(BinaryOps, Leaves, Small)
          \union Binary(BinaryOps, Depth2, Leaves) \union Binary(BinaryOps, Leaves, Depth2)
          \union Unaries(Depth2)
          \union Sets(Places, Small \union Depth2)
          \union Sets({Leaf("t")}, Sets(Places, Leaves))
          \union {Tree("comma", ",", <<p, q>>) : p \in Sets(Places, {Leaf("2.5"), Leaf("a")}),
                                                 q \in Sets({Leaf("a"), Leaf("t")}, {Leaf("x"), Leaf("a")})}

MCScraps == {<<"a", ")">>, <<"(", "a">>, <<"a", "+">>, <<"u", "+", "1">>, <<"w", "=", "2", "(">>}

VARIABLES which, static, reg, mem, line, lines

l_vars == <<static, reg, mem, line, lines>>

L == INSTANCE CtpLines WITH
         Trees <- MCTrees, Few <- MCFew, Scraps <- MCScraps,
         InitReg <- MCLineReg, InitMem <- MCLineMem, MAX_LINES <- 2
ASSUME L!CtpLinesAssumption

MCInit == which \in {"program", "lines"} /\ Init /\ L!Init

MCNext ==
    \/ which = "program" /\ Next /\ UNCHANGED <<which, l_vars>>
    \/ which = "lines" /\ L!Next /\ UNCHANGED <<which, vars>>

MCSpec == MCInit /\ [][MCNext]_<<vars, which, l_vars>>

\* A line of expressions comes out as what the tree it was written from means:
\* precedence, types, conversions, assignments and the kind of each minus.
LinesMeanTheirTrees == L!LinesMeanTheirTrees
=============================================================================
