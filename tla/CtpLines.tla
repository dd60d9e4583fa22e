------------------------------ MODULE CtpLines ------------------------------
(***************************************************************************)
(* Lines given to the expressions of CTP one after the other: evaluated at *)
(* once (itheval, dtheval: thEvalImed) or booked as a test and executed    *)
(* (thBookaTest, thExecuteCode).                                           *)
(*                                                                         *)
(* A line is made from a tree by writing it with as few parentheses as the *)
(* precedences of C allow, and is expected to do what the tree means.      *)
(* Lines that are no expression come between.                              *)
(***************************************************************************)
EXTENDS CtpExpr

CONSTANTS
    Trees,          \* trees a line is made from
    Few,            \* those of them that a line may follow
    Scraps,         \* lines that are no expression
    InitReg,        \* the variables known at the start
    InitMem,        \* and their values
    MAX_LINES       \* lines given

CtpLinesAssumption == MAX_LINES \in Nat /\ Few \subseteq Trees

VARIABLES
    static,         \* what the parser keeps from line to line
    reg, mem,       \* the variables and their storage
    line,           \* the last line: how it began, was meant and came out
    lines           \* number of lines given

vars == <<static, reg, mem, line, lines>>

-----------------------------------------------------------------------------
(* Trees: [k, w, args].  A leaf is a number or a variable; "index" an element  *)
(* w of an array, "call" a function; "un", "bin", "set" and "comma" operators. *)

Level == "," :> 0 @@ "=" :> 1 @@ "||" :> 2 @@ "^^" :> 3 @@ "&&" :> 4 @@ "|" :> 5
      @@ "^" :> 6 @@ "&" :> 7 @@ "==" :> 8 @@ "!=" :> 8 @@ "<" :> 9 @@ "<=" :> 9
      @@ ">" :> 9 @@ ">=" :> 9 @@ "<<" :> 10 @@ ">>" :> 10 @@ "+" :> 11 @@ "-" :> 11
      @@ "*" :> 12 @@ "/" :> 12 @@ "//" :> 12 @@ "%" :> 12
Primary == 13

\* The line of a tree that stands where a level is asked for.  The operand of a
\* sign, and an assignment that is assigned, are put in parentheses.
RECURSIVE Written(_, _)
Written(t, level) ==
    LET lower == \/ t.k \in {"bin", "set", "comma"} /\ Level[t.w] < level
                 \/ t.k = "un" /\ level > Primary
        body == CASE t.k = "leaf" -> <<t.w>>
                  [] t.k = "index" -> <<t.w, "(">> \o Written(t.args[1], 1) \o <<")">>
                  [] t.k = "element" -> <<t.w, "[">> \o Written(t.args[1], 1) \o <<"]">>
                  [] t.k = "call" -> <<t.w, "(">> \o Written(t.args[1], 1) \o <<")">>
                  [] t.k = "un" -> <<t.w>> \o Written(t.args[1], Primary + 1)
                  [] t.k \in {"bin", "set", "comma"} ->
                         Written(t.args[1], Level[t.w]) \o <<t.w>>
                             \o Written(t.args[2], Level[t.w] + 1)
    IN  IF lower THEN <<"(">> \o body \o <<")">> ELSE body

\* What the variable a tree names is and where.
Entry(w) == InitReg[Resolved(InitReg, w)]
IsKnown(w) == Resolved(InitReg, w) # <<>>
Offset(t, x) == IF t.k = "leaf" THEN 1
                ELSE Converted(x.v, x.t, OPRINT)[1] + (IF t.k = "index" THEN 0 ELSE 1)

\* What a tree means: its type and value, and the storage after it; "ok" says that
\* the machine has no reason to stop.
RECURSIVE Meaning(_, _)
Meaning(t, m) ==
    LET one == Meaning(t.args[1], m)
        two == Meaning(t.args[2], one.m)
        ints == one.t = OPRINT /\ two.t = OPRINT
        Value(type, v, after, ok) == [t |-> type, v |-> v, m |-> after, ok |-> ok]
        Number(x) == Converted(x.v, x.t, OPRINT)[1]
        op == optable[t.w]
    IN  CASE t.k = "leaf" /\ t.w \in DOMAIN Literals ->
                 Value(Literals[t.w].type, Literals[t.w].val, m, TRUE)
          [] t.k = "leaf" /\ t.w \notin DOMAIN Literals ->
                 Value(Entry(t.w).type, m[Entry(t.w).ptr].val[1], m, TRUE)
          [] t.k \in {"index", "element"} ->
                 LET at == Offset(t, one)
                     inside == at \in DOMAIN one.m[Entry(t.w).ptr].val
                 IN  Value(Entry(t.w).type, IF inside THEN one.m[Entry(t.w).ptr].val[at] ELSE <<0, 1>>,
                           one.m, one.ok /\ inside)
          [] t.k = "call" ->
                 Value(intrinsic_functions[t.w][one.t + 1], Applied(t.w, one.t, one.v), one.m, one.ok)
          [] t.k = "un" ->
                 Value(IF t.w = "-" THEN one.t ELSE OPRINT,
                       Unary(IF t.w = "-" THEN "NEG" ELSE op, one.t, one.v), one.m, one.ok)
          [] t.k = "comma" -> Value(two.t, two.v, two.m, one.ok /\ two.ok)
          [] t.k = "bin" /\ op \in LogicOps ->
                 Value(OPRINT, Logical(op, Number(one), Number(two)), two.m, one.ok /\ two.ok)
          [] t.k = "bin" /\ op \in ArithmeticOps ->
                 Value(CASE op \in {"ADD", "SUB", "TIMES", "MOD"} -> IF ints THEN OPRINT ELSE OPRDOUBLE
                         [] op = "DIV" -> OPRDOUBLE
                         [] OTHER -> OPRINT,
                       IF op = "MOD" /\ two.v[1] = 0 THEN <<0, 1>> ELSE Arithmetic(op, one.v, two.v, ints),
                       two.m, one.ok /\ two.ok /\ ~(op = "MOD" /\ two.v[1] = 0))
          [] t.k = "set" ->
                 LET lhs == t.args[1]
                     index == IF lhs.k = "leaf" THEN Value(OPRINT, <<0, 1>>, m, TRUE)
                              ELSE Meaning(lhs.args[1], m)
                     rhs == Meaning(t.args[2], index.m)
                     e == Entry(lhs.w)
                     at == Offset(lhs, index)
                     inside == at \in DOMAIN rhs.m[e.ptr].val
                     v == Converted(rhs.v, rhs.t, e.type)
                 IN  Value(e.type, v, IF inside THEN [rhs.m EXCEPT ![e.ptr].val[at] = v] ELSE rhs.m,
                           index.ok /\ rhs.ok /\ inside)

IsAssignment(t) == t.k = "set" \/ (t.k = "comma" /\ t.args[1].k = "set")

-----------------------------------------------------------------------------

NoTree == [k |-> "none", w |-> "", args |-> <<>>]
NoLine == [how |-> "none", tree |-> NoTree, began |-> NoToken, before |-> InitMem,
           status |-> "S_SUCCESS", fault |-> "none", d |-> <<0, 1>>]

Init ==
    /\ static = NoToken
    /\ reg = InitReg
    /\ mem = InitMem
    /\ line = NoLine
    /\ lines = 0

\* The line as it came out: r is what became of it.
Came(how, t, r) ==
    /\ static' = r.static /\ reg' = r.reg /\ mem' = r.mem
    /\ line' = [how |-> how, tree |-> t, began |-> static, before |-> mem,
                status |-> r.status, fault |-> r.fault, d |-> r.d]

\* The line of a test block is booked, and the block executed once.
TestRun(b, run) == [static |-> b.static, reg |-> b.reg, mem |-> run.mem,
                    status |-> run.status, fault |-> run.fault, d |-> <<0, 1>>]
RunOnce(b) == TestRun(b, IF b.status = "S_FAILURE" THEN NotRun(b) ELSE thExecuteCode(b.code, b.mem))

\* After a line of a large tree no other is given.
Given(last) == lines < MAX_LINES /\ lines' = IF last THEN MAX_LINES ELSE lines + 1

EvaluateTree ==
    \E t \in IF lines = 0 THEN Trees ELSE Few :
        Given(t \notin Few) /\ Came("imed", t, thEvalImed(static, reg, mem, Written(t, 0)))

TestTree ==
    \E t \in IF lines = 0 THEN Trees ELSE Few :
        /\ IsAssignment(t)
        /\ Given(t \notin Few)
        /\ Came("test", t, RunOnce(thBookaTest(static, reg, mem, <<>>, Written(t, 0))))

EvaluateScrap == \E l \in Scraps : Given(FALSE) /\ Came("imed", NoTree, thEvalImed(static, reg, mem, l))

Next == EvaluateTree \/ TestTree \/ EvaluateScrap

Spec == Init /\ [][Next]_vars

-----------------------------------------------------------------------------
(* Properties.                                                               *)

\* A line comes out as what its tree means: the machine does not fault, the value
\* is that of the tree whatever the types, and the variables are those after it.
CameOut(l, after) ==
    LET meant == Meaning(l.tree, l.before)
    IN  l.tree # NoTree /\ meant.ok =>
            /\ l.status # "S_FAILURE"
            /\ l.fault = "none"
            /\ l.how = "imed" => l.d = meant.v
            /\ after = meant.m

\* So it is for each line that the parser begins with nothing kept (after a line
\* with an unmatched parenthesis it does keep something).
LinesMeanTheirTrees == line.began = NoToken => CameOut(line, mem)
=============================================================================
