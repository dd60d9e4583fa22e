------------------------------- MODULE CtpExpr -------------------------------
(***************************************************************************)
(* Expressions of the CTP library: the tokens of a line, the code made of  *)
(* them by operator precedence (thTestParse.c) and the stack machine that  *)
(* runs it (thTestExecute.c).                                              *)
(*                                                                         *)
(* A line is a sequence of lexemes: operators, numbers, names.  A number   *)
(* is a fraction <<n, d>>, so that division and rounding are exact; exp    *)
(* and the trigonometric functions are left out.  A registry reg maps      *)
(* names <<class, word>> to [type, ptr], mem maps the storage ptr points   *)
(* to to [type, val].  An operator X_Mistake is X with a plausible mistake.*)
(***************************************************************************)
EXTENDS Integers, Sequences, FiniteSets, TLC, SequencesExt, FiniteSetsExt

CONSTANTS
    Literals,       \* what a number stands for: [type, val]
    INT_MAX         \* the largest int

ASSUME CtpExprAssumption ==
    /\ \A x \in DOMAIN Literals : Literals[x].type \in {0, 1}
    /\ INT_MAX \in Nat

OPRINT == 0
OPRFLOAT == 1
OPRDOUBLE == 2
OPRSTRING == 3      \* not a type of an operand

-----------------------------------------------------------------------------
(* Numbers.                                                                  *)

Fraction(n, d) ==
    LET g == Max({f \in 1 .. d : n % f = 0 /\ d % f = 0})
    IN  <<n \div g, d \div g>>

Plus(p, q) == Fraction(p[1] * q[2] + q[1] * p[2], p[2] * q[2])
Minus(p) == <<-p[1], p[2]>>
Times(p, q) == Fraction(p[1] * q[1], p[2] * q[2])
Over(p, q) == LET sign == IF q[1] > 0 THEN 1 ELSE -1
              IN  Fraction(sign * p[1] * q[2], sign * p[2] * q[1])
Less(p, q) == p[1] * q[2] < q[1] * p[2]

\* The fractional part cut off, as the conversion of C does.
Truncated(p) == IF p[1] >= 0 THEN p[1] \div p[2] ELSE -((-p[1]) \div p[2])

\* int arithmetic, wrapping around.
Wrap(n) == ((n + INT_MAX + 1) % (2 * INT_MAX + 2)) - INT_MAX - 1
AsInt(n) == <<Wrap(n), 1>>
Truth(b) == IF b THEN <<1, 1>> ELSE <<0, 1>>

\* To the nearest int, halves away from zero.
floatToLong(p) == AsInt(Truncated(Plus(p, <<(IF p[1] > 0 THEN 1 ELSE -1), 2>>)))

\* A number as a value of another type.
Converted(p, from, to) == IF from # OPRINT /\ to = OPRINT THEN floatToLong(p) ELSE p

-----------------------------------------------------------------------------
(* Tokens.                                                                   *)

\* The operator a lexeme is when nothing around it says otherwise.
optable ==
       "(" :> "LP"        @@ ")" :> "RP"       @@ "[" :> "LINDEXB"  @@ "]" :> "RP"
    @@ "-" :> "SUB"       @@ "+" :> "ADD"      @@ "<" :> "ISLT"     @@ "<<" :> "SHL"
    @@ "<=" :> "ISLE"     @@ ">" :> "ISGT"     @@ ">>" :> "SHR"     @@ ">=" :> "ISGE"
    @@ "=" :> "EQUAL"     @@ "==" :> "ISEQUAL" @@ "!" :> "NOT"      @@ "!=" :> "ISNOTEQUAL"
    @@ "&" :> "BITAND"    @@ "&&" :> "LOGAND"  @@ "|" :> "BITOR"    @@ "||" :> "LOGOR"
    @@ "^" :> "BITXOR"    @@ "^^" :> "LOGXOR"  @@ "*" :> "TIMES"    @@ "/" :> "DIV"
    @@ "//" :> "IDIV"     @@ "%" :> "MOD"      @@ "~" :> "COMP"     @@ "," :> "COMMA"
IsOperator(x) == x \in DOMAIN optable

IndexOps == {"LINDEX", "LINDEXB", "LINDEXP", "LINDEXPB", "LFARG"}
UnaryOps == {"NEG", "NOT", "COMP"}

\* Types are numbered like those of operands.
intrinsic_functions ==
    "abs" :> <<OPRINT, OPRFLOAT, OPRDOUBLE>> @@ "sqrt" :> <<OPRDOUBLE, OPRDOUBLE, OPRDOUBLE>>

At(line, k) == IF k \in DOMAIN line THEN line[k] ELSE "end of line"

\* The place of the bracket that closes the one at k, past the line if none does.
Closing(line, k) ==
    LET Count(x, j) == Cardinality({i \in k + 1 .. j - 1 : line[i] = x})
        right == IF line[k] = "[" THEN "]" ELSE ")"
    IN  Min({Len(line) + 1} \union
            {j \in k + 1 .. Len(line) :
                /\ line[j] = right
                /\ Count("(", j) = Count(")", j)
                /\ Count("[", j) = Count("]", j)})

\* An element that is assigned to is left on the stack as a pointer.
Pointed(op, pointed) == IF ~pointed THEN op ELSE IF op = "LINDEX" THEN "LINDEXP" ELSE "LINDEXPB"

OperatorToken(line, k, lasttoktype) ==
    LET pointed == At(line, Closing(line, k) + 1) = "="
    IN  CASE At(line, k) = "end of line" -> "EOL"
          [] At(line, k) = "-" /\ lasttoktype = 0 -> "NEG"
          [] At(line, k) = "(" /\ lasttoktype = 1 -> Pointed("LINDEX", pointed)
          [] At(line, k) = "(" /\ lasttoktype = 3 -> "LFARG"
          [] At(line, k) = "[" -> Pointed("LINDEXB", pointed)
          [] OTHER -> optable[line[k]]

\* The classes a word is looked for in.
resultlistp == <<"test", "event", "parm">>
Resolved(reg, word) ==
    LET Hits == {c \in DOMAIN resultlistp : <<resultlistp[c], word>> \in DOMAIN reg}
    IN  IF Hits = {} THEN <<>> ELSE <<resultlistp[Min(Hits)], word>>

\* Whether the operand at k is what the line assigns to.
IsResult(line, k, lastop) ==
    /\ lastop \in {"none", "LOGOR", "LOGAND", "LOGXOR", "EQUAL", "COMMA", "LP"}
    /\ At(line, (IF At(line, k + 1) \in {"(", "["} THEN Closing(line, k + 1) ELSE k) + 1) = "="

-----------------------------------------------------------------------------
(* The code of a line.                                                       *)

\* Precedences; a bottom of the operator stack has 0.
Precedence ==
       "LP" :> 1 @@ "RP" :> 9 @@ "LINDEX" :> 26 @@ "LINDEXB" :> 26 @@ "LINDEXP" :> 26
    @@ "LINDEXPB" :> 26 @@ "LFARG" :> 27 @@ "EOL" :> 46 @@ "COMMA" :> 47 @@ "EQUAL" :> 64
    @@ "LOGOR" :> 131 @@ "LOGXOR" :> 132 @@ "LOGAND" :> 133 @@ "BITOR" :> 134
    @@ "BITXOR" :> 135 @@ "BITAND" :> 136 @@ "ISEQUAL" :> 169 @@ "ISNOTEQUAL" :> 169
    @@ "ISLT" :> 170 @@ "ISLE" :> 170 @@ "ISGT" :> 170 @@ "ISGE" :> 170 @@ "SHL" :> 187
    @@ "SHR" :> 187 @@ "ADD" :> 192 @@ "SUB" :> 192 @@ "TIMES" :> 208 @@ "DIV" :> 208
    @@ "IDIV" :> 208 @@ "MOD" :> 208 @@ "NEG" :> 224 @@ "NOT" :> 224 @@ "COMP" :> 224
Highest == 255

thGetResultType_IntQuotient(op, l, r) ==
    CASE op \in {"LINDEX", "LINDEXB", "LINDEXP", "LINDEXPB", "EQUAL"} -> l
      [] op = "NEG" -> r
      [] op \in {"ADD", "SUB", "TIMES", "MOD"} -> IF l = 0 /\ r = 0 THEN 0 ELSE 2
      [] OTHER -> 0
thGetResultType(op, l, r) ==
    CASE op \in {"LINDEX", "LINDEXB", "LINDEXP", "LINDEXPB", "EQUAL"} -> l
      [] op = "NEG" -> r
      [] op \in {"ADD", "SUB", "TIMES", "MOD"} -> IF l = 0 /\ r = 0 THEN 0 ELSE 2
      [] op = "DIV" -> 2
      [] OTHER -> 0

\* What stays from one line to the next, and a line being booked: b.codelast is
\* where its last operator or operand stands in b.code.  Below the stack of types
\* lies memory that holds zeros.
NoToken == [lasttoktype |-> 0, lastop |-> "none"]
Below == <<0, 0>>
Started(static, reg, mem, vlist) ==
    [code |-> <<>>, osp |-> <<>>, tsp |-> Below, codelast |-> 0, status |-> "S_SUCCESS",
     static |-> static, reg |-> reg, mem |-> mem, vlist |-> vlist]

TopPrecedence(b) == IF b.osp = <<>> THEN 0 ELSE Precedence[Last(b.osp)]
Pending(b, tokcomp) == TopPrecedence(b) >= tokcomp

\* The code of the pending operators a token has to wait for.  The bracket of an
\* index or of an argument ends them, and is itself code.
RECURSIVE RunDown(_, _, _)
RunDown(b, token, tokcomp) ==
    IF ~Pending(b, tokcomp) \/ Len(b.tsp) < 2 THEN [b |-> b, token |-> token]
    ELSE LET op == Last(b.osp)
             index == op \in IndexOps
             unary == op \in UnaryOps
             r == Last(b.tsp)
             l == IF unary THEN 0 ELSE b.tsp[Len(b.tsp) - 1]
             result == IF op = "LFARG"
                       THEN intrinsic_functions[l][r + 1] ELSE thGetResultType(op, l, r)
             left == Len(b.tsp) - (IF unary THEN 1 ELSE 2)
         IN  RunDown([b EXCEPT !.osp = Front(@),
                               !.tsp = Append(SubSeq(@, 1, left), result),
                               !.codelast = Len(b.code) + 1,
                               !.code = Append(@, [op |-> op, l |-> l, r |-> r, t |-> result])],
                     IF index /\ token = "RP" THEN "RINDEX" ELSE token,
                     IF index THEN Highest ELSE tokcomp)

Failed(b) == [b EXCEPT !.status = "S_FAILURE"]

\* The end of an expression, on a line or before a comma, has its value popped.
Pop(b, token) ==
    [b EXCEPT !.code = Append(@, [op |-> token, l |-> 0, r |-> Last(b.tsp), t |-> 0]),
              !.codelast = IF token = "COMMA" THEN Len(b.code) + 1 ELSE @,
              !.tsp = Front(@)]

\* The code an operator token makes; a right bracket removes the left one.
AfterRunDown(down) ==
    CASE down.token = "RINDEX" -> down.b
      [] down.token = "RP" -> IF down.b.osp # <<>> /\ Last(down.b.osp) = "LP"
                              THEN [down.b EXCEPT !.osp = Front(@)] ELSE Failed(down.b)
      [] down.token \in {"EOL", "COMMA"} ->
             IF down.b.tsp = <<>> THEN Failed(down.b) ELSE Pop(down.b, down.token)
      [] OTHER -> [down.b EXCEPT !.osp = Append(@, down.token)]
Operator(b, token) ==
    IF token = "LP" THEN [b EXCEPT !.osp = Append(@, token)]
    ELSE AfterRunDown(RunDown(b, token, IF token \in IndexOps THEN Highest ELSE Precedence[token]))

\* The code of an operand; a function leaves its own number as a type.
Operand(b, instruction, t, lasttoktype) ==
    [b EXCEPT !.code = Append(@, instruction), !.codelast = Len(b.code) + 1,
              !.tsp = Append(@, t), !.static = [lasttoktype |-> lasttoktype, lastop |-> "none"]]

Constant(t, v) == [op |-> "PUSH", l |-> 0, r |-> 0, t |-> t, v |-> v]
Variable(push, e) == [op |-> push, l |-> 0, r |-> 0, t |-> e.type, ptr |-> e.ptr]

\* A result the line makes known, an int of the class of tests.
NewPtr(mem) == Max({0} \union DOMAIN mem) + 1
Created(b, word) ==
    LET p == NewPtr(b.mem)
    IN  [b EXCEPT !.reg = (<<"test", word>> :> [type |-> OPRINT, ptr |-> p]) @@ @,
                  !.mem = (p :> [type |-> OPRINT, val |-> <<AsInt(0)>>]) @@ @]

\* The results of a block of tests are listed once; booking zeroes their scalers.
AddToList(vlist, name) ==
    IF name \in ToSet(vlist) THEN vlist ELSE Append(vlist, name)

VariableToken(b, name, push, result) ==
    LET listed == IF result /\ name # <<>> THEN [b EXCEPT !.vlist = AddToList(@, name)] ELSE b
    IN  IF name # <<>> /\ b.reg[name].type # OPRSTRING
        THEN Operand(listed, Variable(push, b.reg[name]), b.reg[name].type, 1)
        ELSE [Operand(listed, Constant(OPRINT, <<0, 1>>), OPRINT, 1) EXCEPT !.status = "S_TH_UNREG"]

OperandToken(b, line, k) ==
    LET word == line[k]
        next == At(line, k + 1)
        made == IF Resolved(b.reg, word) = <<>> /\ next = "=" THEN Created(b, word) ELSE b
    IN  CASE word \in DOMAIN Literals ->
                 Operand(b, Constant(Literals[word].type, Literals[word].val),
                         Literals[word].type, 1)
          [] word \in DOMAIN intrinsic_functions -> Operand(b, Constant(OPRINT, word), word, 3)
          [] OTHER -> VariableToken(made, Resolved(made.reg, word),
                                    IF next \in {"(", "[", "="} THEN "PUSHP" ELSE "PUSHV",
                                    IsResult(line, k, b.static.lastop))

\* A sign + is skipped; what it stands before is an operand, 0 when there is none.
UnaryPlus(b, line, k) == At(line, k) = "+" /\ b.static.lasttoktype = 0

\* Minus is a minus after ) or ].
AfterOperator(token) ==
    IF token = "EOL" THEN NoToken
    ELSE [lasttoktype |-> IF token = "RP" THEN 2 ELSE 0, lastop |-> token]

OperatorAt(b, token) == Operator([b EXCEPT !.static = AfterOperator(token)], token)

\* The lexemes of the line from the k-th on, and its end.
RECURSIVE Tokens(_, _, _)
Tokens(b, line, k) ==
    LET plus == UnaryPlus(b, line, k)
        at == IF plus THEN k + 1 ELSE k
        operand == ~IsOperator(At(line, at)) /\ at <= Len(line)
    IN  CASE k > Len(line) + 1 \/ b.status = "S_FAILURE" -> b
          [] OTHER ->
                 Tokens(CASE operand -> OperandToken(b, line, at)
                          [] plus /\ ~operand -> Operand(b, Constant(OPRINT, <<0, 1>>), OPRINT, 1)
                          [] OTHER -> OperatorAt(b, OperatorToken(line, k, b.static.lasttoktype)),
                        line, IF operand THEN at + 1 ELSE k + 1)

\* Books a line.  What the line made known stays when it is refused, its code does
\* not; a line with an unknown variable is booked all the same.
Booked(b) ==
    LET unbalanced == Len(b.tsp) # Len(Below) \/ b.osp # <<>>
    IN  IF b.status = "S_FAILURE" \/ unbalanced THEN [Failed(b) EXCEPT !.code = <<>>] ELSE b
thBookaTest(static, reg, mem, vlist, line) ==
    Booked(Tokens(Started(static, reg, mem, vlist), line, 1))

-----------------------------------------------------------------------------
(* The stack machine.                                                        *)

\* A cell of the stack is of one type, "P" a pointer; s.fault tells of a pop of a
\* cell of another size or type, of a pointer to nowhere and of a division of ints
\* that stops the program.
Cell(t, v) == [t |-> t, v |-> v]
Fault(s, why) == [s EXCEPT !.fault = why]
PushCell(s, n, t, v) == [s EXCEPT !.sp = Append(SubSeq(@, 1, Len(@) - n), Cell(t, v))]
IsTyped(s, types) ==
    /\ Len(s.sp) >= Len(types)
    /\ \A i \in DOMAIN types : s.sp[Len(s.sp) - Len(types) + i].t = types[i]

IsLive(mem, p, i, t) == p \in DOMAIN mem /\ mem[p].type = t /\ i \in DOMAIN mem[p].val

\* The bits of an int.
WIDTH == 1 + CHOOSE n \in 1 .. 32 : 2 ^ n > INT_MAX /\ 2 ^ (n - 1) <= INT_MAX

Bits(op, a, b) ==
    LET Bit(n, i) == ((n % 2 ^ WIDTH) \div 2 ^ i) % 2
        Of(x, y) == CASE op = "BITOR" -> IF x + y > 0 THEN 1 ELSE 0
                      [] op = "BITXOR" -> (x + y) % 2
                      [] op = "BITAND" -> x * y
    IN  FoldLeft(LAMBDA sum, i : sum + Of(Bit(a, i - 1), Bit(b, i - 1)) * 2 ^ (i - 1),
                 0, [i \in 1 .. WIDTH |-> i])

\* Logic, bits and shifts are done on ints; the machine takes the number of places
\* to shift modulo the width.
Logical(op, a, b) ==
    CASE op = "LOGOR" -> Truth(a # 0 \/ b # 0)
      [] op = "LOGXOR" -> Truth((a # 0) # (b # 0))
      [] op = "LOGAND" -> Truth(a # 0 /\ b # 0)
      [] op \in {"BITOR", "BITXOR", "BITAND"} -> AsInt(Bits(op, a, b))
      [] op = "SHL" -> AsInt(a * 2 ^ (b % WIDTH))
      [] op = "SHR" -> AsInt(a \div 2 ^ (b % WIDTH))

Comparisons == {"ISEQUAL", "ISNOTEQUAL", "ISLT", "ISGT", "ISLE", "ISGE"}

\* Comparisons, by the sign of the difference.
Compares(op, difference) ==
    CASE op = "ISEQUAL" -> difference = 0
      [] op = "ISNOTEQUAL" -> difference # 0
      [] op = "ISLT" -> difference < 0
      [] op = "ISGT" -> difference > 0
      [] op = "ISLE" -> difference <= 0
      [] op = "ISGE" -> difference >= 0

\* Arithmetic; a quotient by zero is zero, save for %.
Quotient(p, q) == IF q[1] = 0 THEN <<0, 1>> ELSE Over(p, q)
Exactly(op, p, q) ==
    CASE op = "ADD" -> Plus(p, q)
      [] op = "SUB" -> Plus(p, Minus(q))
      [] op = "TIMES" -> Times(p, q)
      [] op \in {"DIV", "IDIV"} -> Quotient(p, q)
      [] op = "MOD" -> Plus(p, Minus(Times(q, <<Truncated(Quotient(p, q)), 1>>)))

\* Operations on two ints are done in ints, but for a quotient.
Arithmetic(op, p, q, ints) ==
    CASE op \in Comparisons -> Truth(Compares(op, p[1] * q[2] - q[1] * p[2]))
      [] op \notin Comparisons /\ ints /\ op # "DIV" -> AsInt(Truncated(Exactly(op, p, q)))
      [] ~ints /\ op = "IDIV" -> floatToLong(Quotient(p, q))
      [] OTHER -> Exactly(op, p, q)

LogicOps == {"LOGOR", "LOGXOR", "LOGAND", "BITOR", "BITXOR", "BITAND", "SHL", "SHR"}
ArithmeticOps == Comparisons \union {"ADD", "SUB", "TIMES", "DIV", "IDIV", "MOD"}

Unary(op, t, p) ==
    CASE op = "NEG" -> IF t = OPRINT THEN AsInt(-p[1]) ELSE Minus(p)
      [] op = "NOT" -> Truth(Converted(p, t, OPRINT)[1] = 0)
      [] op = "COMP" -> AsInt(-Converted(p, t, OPRINT)[1] - 1)

\* Square roots are taken of squares only; that of a negative number is zero.
Applied(f, t, p) ==
    CASE f = "abs" -> IF p[1] < 0 THEN (IF t = OPRINT THEN AsInt(-p[1]) ELSE Minus(p)) ELSE p
      [] f = "sqrt" -> IF p[1] < 0 THEN <<0, 1>>
                       ELSE CHOOSE x \in (0 .. INT_MAX) \X (1 .. 4) :
                                Times(x, x) = p \/ \A y \in (0 .. INT_MAX) \X (1 .. 4) : Times(y, y) # p

\* A pointer moved by an index, counted from 1 in parentheses and from 0 in brackets.
Moved(op, pointer, q, t) ==
    [pointer EXCEPT !.off = @ + Converted(q, t, OPRINT)[1]
                              - (IF op \in {"LINDEX", "LINDEXP"} THEN 1 ELSE 0)]

\* What is popped of the stack is of the types the instruction names.
TypesPopped(i) ==
    CASE i.op \in {"PUSH", "PUSHP", "PUSHV"} -> <<>>
      [] i.op \in {"EOL", "COMMA"} \union UnaryOps -> <<i.r>>
      [] i.op = "LFARG" -> <<OPRINT, i.r>>
      [] i.op \in {"LINDEX", "LINDEXB", "LINDEXP", "LINDEXPB", "EQUAL"} -> <<"P", i.r>>
      [] OTHER -> <<i.l, i.r>>

\* The element a pointer points to replaces the n cells popped.
Fetched(s, n, pointer, t) ==
    IF IsLive(s.mem, pointer.ptr, pointer.off, t)
    THEN PushCell(s, n, t, s.mem[pointer.ptr].val[pointer.off]) ELSE Fault(s, "dead pointer")
Stored(s, pointer, t, v) ==
    IF IsLive(s.mem, pointer.ptr, pointer.off, t)
    THEN PushCell([s EXCEPT !.mem[pointer.ptr].val[pointer.off] = v], 2, t, v)
    ELSE Fault(s, "dead pointer")

\* An instruction, with the values on top of the stack.
Executed(s, i, under, top) ==
    CASE i.op = "PUSH" -> PushCell(s, 0, i.t, i.v)
      [] i.op = "PUSHP" -> PushCell(s, 0, "P", [ptr |-> i.ptr, off |-> 1])
      [] i.op = "PUSHV" -> Fetched(s, 0, [ptr |-> i.ptr, off |-> 1], i.t)
      [] i.op \in {"EOL", "COMMA"} -> [s EXCEPT !.sp = Front(@)]
      [] i.op = "LFARG" -> PushCell(s, 2, i.t, Applied(under, i.r, top))
      [] i.op \in {"LINDEX", "LINDEXB"} -> Fetched(s, 2, Moved(i.op, under, top, i.r), i.l)
      [] i.op \in {"LINDEXP", "LINDEXPB"} -> PushCell(s, 2, "P", Moved(i.op, under, top, i.r))
      [] i.op = "EQUAL" -> Stored(s, under, i.l, Converted(top, i.r, i.l))
      [] i.op \in LogicOps ->
             PushCell(s, 2, OPRINT, Logical(i.op, Converted(under, i.l, OPRINT)[1],
                                                  Converted(top, i.r, OPRINT)[1]))
      [] i.op \in ArithmeticOps ->
             IF i.op = "MOD" /\ top[1] = 0 THEN Fault(s, "division")
             ELSE PushCell(s, 2, i.t, Arithmetic(i.op, under, top, i.l = OPRINT /\ i.r = OPRINT))
      [] i.op \in UnaryOps -> PushCell(s, 1, i.t, Unary(i.op, i.r, top))

Step(s, i) ==
    CASE s.fault # "none" -> s
      [] s.fault = "none" /\ ~IsTyped(s, TypesPopped(i)) -> Fault(s, "stack")
      [] OTHER -> Executed(s, i, s.sp[Len(s.sp) - 1].v, s.sp[Len(s.sp)].v)

\* Runs code; what is left on the stack makes the run a failure.
Left(s) ==
    [mem |-> s.mem, fault |-> s.fault,
     status |-> IF s.fault = "none" /\ s.sp = <<>> THEN "S_SUCCESS" ELSE "S_FAILURE"]
thExecuteCode(code, mem) ==
    Left(FoldLeft(Step, [sp |-> <<>>, mem |-> mem, fault |-> "none"], code))

-----------------------------------------------------------------------------
(* Immediate evaluation: the code of the expression, without its end, between a *)
(* pointer to the result and the assignment to it.                             *)

ImedCode(b, result) ==
    <<[op |-> "PUSHP", l |-> 0, r |-> 0, t |-> OPRDOUBLE, ptr |-> result]>>
        \o SubSeq(b.code, 1, b.codelast)
        \o <<[op |-> "EQUAL", l |-> OPRDOUBLE, r |-> b.code[b.codelast].t, t |-> OPRDOUBLE],
             [op |-> "EOL", l |-> 0, r |-> OPRDOUBLE, t |-> 0]>>

\* What a line that cannot be booked comes to.
NotRun(b) == [mem |-> b.mem, fault |-> "none", status |-> "S_FAILURE"]
ImedRun(b, result) ==
    IF b.status # "S_SUCCESS" THEN NotRun(b)
    ELSE thExecuteCode(ImedCode(b, result),
                       (result :> [type |-> OPRDOUBLE, val |-> <<(<<0, 1>>)>>]) @@ b.mem)

\* A value that no int can be is given back as a number only.
ImedResult(b, run, value) ==
    LET huge == value[1] >= INT_MAX * value[2] \/ value[1] <= -INT_MAX * value[2]
    IN  [static |-> b.static, reg |-> b.reg, fault |-> run.fault,
         mem |-> [p \in DOMAIN b.mem |-> run.mem[p]],
         status |-> IF run.status = "S_SUCCESS" /\ huge THEN "S_INTOVF" ELSE run.status,
         d |-> value, lvalset |-> ~huge, i |-> IF huge THEN <<0, 1>> ELSE floatToLong(value)]
Imed(b, result, run) ==
    ImedResult(b, run, IF run.status = "S_SUCCESS" THEN run.mem[result].val[1] ELSE <<0, 1>>)

EvaluatedAt(b, result) == Imed(b, result, ImedRun(b, result))
EvalImed(b) == EvaluatedAt(b, NewPtr(b.mem))
thEvalImed(static, reg, mem, line) == EvalImed(thBookaTest(static, reg, mem, <<>>, line))
=============================================================================
