-------------------------------- MODULE Ctp --------------------------------
(***************************************************************************)
(* Parameter and test files of CTP: reading files into blocks (thLoad.c),  *)
(* groups of blocks (thGroup.c), booking of parameters (thParm.c) and of   *)
(* tests (thTest.c), and the calls a program makes for each event.         *)
(*                                                                         *)
(* A line of a file is a record of what there is on it:                    *)
(*   [k |-> "begin", type, name, args]  args: its words group=g, "" for a  *)
(*                                      word group without the =           *)
(*   [k |-> "end", type]        [k |-> "include", name]                    *)
(*   [k |-> "parm", name, at, args]     name(at) = args, name "" where the *)
(*                                      line goes on with the one before   *)
(*   [k |-> "declare", type, name, at, args]   #type class.name(args)      *)
(*   [k |-> "test", args]               args[1]: the lexemes of a test     *)
(***************************************************************************)
EXTENDS CtpExpr

CONSTANTS
    Files,          \* lines of the files there are
    MainFiles,      \* those that the program loads
    Events,         \* what the analysis finds in an event
    EVENTVAR,       \* name of the variable where it puts that
    HostReg,        \* variables registered by the program
    HostMem,        \* and their storage
    Settings,       \* lines given to thpset
    Garbage,        \* what is found in storage just allocated
    Holds(_, _, _), \* whether a flag is to be set in an event, parameters given
    MAX_LOADS, MAX_EVENTS, MAX_SETTINGS

ASSUME CtpAssumption == MainFiles \subseteq DOMAIN Files /\ {MAX_LOADS, MAX_EVENTS, MAX_SETTINGS} \subseteq Nat

VARIABLES
    ctp,            \* what the library keeps
    phase,          \* what the program is to call next
    calls,          \* numbers of loads, events and settings so far
    said,           \* the lines of parameters in the order they took effect
    seen            \* events each flag was to be set in since it was booked

vars == <<ctp, phase, calls, said, seen>>

NONE == -1

-----------------------------------------------------------------------------
(* Reading a file.  A reader has the lines left of the files that are open, the *)
(* block being read (a sequence of lines, <<>> outside of blocks) and what the   *)
(* library keeps.                                                                *)

Crash(s, why) == [s EXCEPT !.fault = why]

\* The groups of a block: all, and those it names or the default.  A word without
\* its = leaves in its place what the block read before had there.
BlockGroups(old, begin) ==
    LET Named(i) == IF begin.args[i] # "" THEN <<begin.type, begin.args[i]>>
                    ELSE IF i + 1 \in DOMAIN old THEN old[i + 1] ELSE <<>>
        words == [i \in DOMAIN begin.args |-> Named(i)]
        gap == Min({i \in DOMAIN words : words[i] = <<>>} \union {Len(words) + 1})
    IN  <<(<<begin.type, "all">>)>>
            \o IF words = <<>> THEN <<(<<begin.type, "default">>)>> ELSE SubSeq(words, 1, gap - 1)

\* A block read to its end is registered, not booked.  One of that name keeps its
\* place in its groups, and the code made of it.
thLoadBlock(s, lines) ==
    LET name == <<lines[1].type, lines[1].name>>
        toks == BlockGroups(s.toks, lines[1])
        known == name \in DOMAIN s.blocks
        block == [lines |-> lines, count |-> NONE,
                  code |-> IF known THEN s.blocks[name].code ELSE <<>>,
                  vlist |-> IF known THEN s.blocks[name].vlist ELSE <<>>]
        In(g) == IF g \in DOMAIN s.groups THEN s.groups[g] ELSE <<>>
    IN  [s EXCEPT !.toks = toks,
                  !.blocks = (name :> block) @@ @,
                  !.groups = [g \in ToSet(toks) |-> AddToList(In(g), name)] @@ @]

\* The lines of the open files; an #include that names no file, and a file that
\* ends within a block, make the next read use a file that is none.
RECURSIVE getblock(_, _, _)
getblock(open, block, s) ==
    LET line == Head(open[1])
        rest == <<Tail(open[1])>> \o Tail(open)
    IN  CASE open = <<>> -> IF block = <<>> THEN s ELSE Crash(thLoadBlock(s, block), "no file")
          [] open # <<>> /\ open[1] = <<>> -> getblock(Tail(open), block, s)
          [] open # <<>> /\ open[1] # <<>> /\ line.k = "include" ->
                 IF line.name \in DOMAIN Files
                 THEN getblock(<<Files[line.name]>> \o rest, block, s) ELSE Crash(s, "no file")
          [] open # <<>> /\ open[1] # <<>> /\ line.k # "include" ->
                 CASE block = <<>> -> getblock(rest, IF line.k = "begin" THEN <<line>> ELSE <<>>, s)
                   [] block # <<>> /\ line.k = "end" /\ line.type = block[1].type ->
                          getblock(rest, <<>>, thLoadBlock(s, block))
                   [] OTHER -> getblock(rest, Append(block, line), s)

thLoad(s, f) == IF f \in DOMAIN Files THEN getblock(<<Files[f]>>, <<>>, s) ELSE s

-----------------------------------------------------------------------------
(* Declared variables (thSpecial, thVarCreate).                              *)

Free(mem, p) == [q \in DOMAIN mem \ {p} |-> mem[q]]
SizeOf(s, name) == Len(s.mem[s.reg[name].ptr].val)
Storage(type, n) == [type |-> type, val |-> [i \in 1 .. n |-> Garbage]]

\* A dynamic variable with other storage in place of its own.  Growing it copies
\* what there was.
Reallocated(s, name, type, val) ==
    LET p == NewPtr(s.mem)
    IN  [s EXCEPT !.reg[name] = [type |-> type, ptr |-> p],
                  !.mem = (p :> [type |-> type, val |-> val]) @@ Free(@, s.reg[name].ptr)]

\* A variable CTP makes; the storage realloc gives keeps bits, not values, when the
\* type changes.
Made(s, name, type, n) ==
    LET p == NewPtr(s.mem)
    IN  [s EXCEPT !.reg = (name :> [type |-> type, ptr |-> p]) @@ @,
                  !.mem = (p :> Storage(type, n)) @@ @,
                  !.dyn = @ \union {name}]

Differs(s, name, type, n) == s.reg[name].type # type \/ SizeOf(s, name) # n

\* An expression evaluated in passing, and what that leaves behind.
Evaluate(s, arg) == thEvalImed(s.static, s.reg, s.mem, arg)
After(s, r) == [s EXCEPT !.static = r.static, !.reg = r.reg, !.mem = r.mem,
                         !.fault = IF r.fault = "none" THEN @ ELSE r.fault]

\* Redeclaring a variable of CTP as a double writes through a pointer never set.
Redeclared(s, name, type, n) ==
    LET kept(i) == IF i <= SizeOf(s, name) /\ s.reg[name].type = type
                   THEN s.mem[s.reg[name].ptr].val[i] ELSE Garbage
        moved == Reallocated(s, name, type, [i \in 1 .. n |-> kept(i)])
    IN  IF type = OPRDOUBLE THEN Crash(moved, "wild store") ELSE moved
Declared(s, line, n) ==
    LET name == <<line.class, line.name>>
    IN  CASE name \notin DOMAIN s.reg -> Made(s, name, line.type, n)
          [] name \in DOMAIN s.reg /\ name \in s.dyn /\ Differs(s, name, line.type, n) ->
                 Redeclared(s, name, line.type, n)
          [] OTHER -> s
Sized(s, line, r) ==
    IF r.status = "S_SUCCESS" THEN Declared(After(s, r), line, r.i[1]) ELSE After(s, r)
thVarCreate(s, line) ==
    IF line.args = <<>> THEN Declared(s, line, 1)
    ELSE Sized(s, line, Evaluate(s, line.args[1]))

-----------------------------------------------------------------------------
(* Parameters.  parm is what a line keeps for those that go on with it; its ptr  *)
(* is the storage as the line found it.  Parameters that are strings are left    *)
(* out.                                                                          *)

NoParm == [name |-> <<>>, index |-> 0, len |-> 0, type |-> NONE, ptr |-> 0, dyn |-> FALSE]

\* The variable on the left of a line, made an int array when nobody knows it.
ParmVariable(s, line) ==
    LET name == <<"parm", line.name>>
        t == IF name \in DOMAIN s.reg THEN s
             ELSE Made(s, name, OPRINT, line.at + Len(line.args))
    IN  [t EXCEPT !.parm = [name |-> name, index |-> line.at, len |-> SizeOf(t, name),
                            type |-> t.reg[name].type, ptr |-> t.reg[name].ptr,
                            dyn |-> name \in t.dyn]]

IsHeld(s) == s.parm.ptr \in DOMAIN s.mem /\ s.parm.type = s.mem[s.parm.ptr].type

\* The variable grows to hold the n values left of a line.  Doubles are taken for
\* floats there: the floats of another parameter, or none, are copied and freed, and
\* the values go on past the end of the old storage.
Resized(s, size) ==
    LET old == s.mem[s.parm.ptr].val
        t == Reallocated(s, s.parm.name, s.parm.type,
                    [i \in 1 .. size |-> IF i <= Len(old) THEN old[i] ELSE Garbage])
    IN  [t EXCEPT !.parm.len = size, !.parm.ptr = t.reg[s.parm.name].ptr]
Grown_OneShort(s, n) ==
    IF s.parm.type = OPRDOUBLE THEN Crash(s, "wild store")
    ELSE Resized(s, s.parm.index + n - 1)
Grown(s, n) ==
    IF s.parm.type = OPRDOUBLE THEN Crash(s, "wild store") ELSE Resized(s, s.parm.index + n)

\* An int array that is given a number with a fraction becomes one of floats.
Floated(s) ==
    LET t == Reallocated(s, s.parm.name, OPRFLOAT, s.mem[s.parm.ptr].val)
    IN  [t EXCEPT !.parm.type = OPRFLOAT, !.parm.ptr = t.reg[s.parm.name].ptr]

\* What looks like one number: figures and signs, with a point for a float.
IsNumber(arg) == ToSet(arg) \subseteq DOMAIN Literals \union {"+", "-"}
IsFloat(arg) == IsNumber(arg) /\ \E x \in ToSet(arg) \ {"+", "-"} : Literals[x].type = OPRFLOAT

\* A value is stored next; it is evaluated after the room was made, and that may
\* itself store.  Storage that is no longer the variable's is written all the same.
StoreValue(s, arg, r) ==
    LET lval == IF r.lvalset THEN r.i ELSE Garbage
        float == /\ s.parm.type = OPRINT /\ s.parm.dyn
                 /\ IsFloat(arg) \/ (~IsNumber(arg) /\ r.d # lval)
        held == IF float THEN Floated(s) ELSE s
        v == IF held.parm.type = OPRINT THEN lval ELSE r.d
    IN  [held EXCEPT !.mem[held.parm.ptr].val[held.parm.index + 1] = v, !.parm.index = @ + 1]
StoreEvaluated(s, arg, r) == StoreValue(After(s, r), arg, r)
StoreIn(room, arg) ==
    IF room.fault # "none" THEN room ELSE StoreEvaluated(room, arg, Evaluate(room, arg))
StoreParm(s, arg, n) ==
    IF ~IsHeld(s) THEN Crash(s, "wild store")
    ELSE StoreIn(IF s.parm.index >= s.parm.len THEN Grown(s, n) ELSE s, arg)

\* The values of a line in turn, until a variable of the program is full.
thParmLineSet(s, line) ==
    LET started == IF line.name = "" THEN s ELSE ParmVariable(s, line)
        n == Len(line.args)
        Next1(t, i) ==
            IF t.fault # "none" \/ (t.parm.index >= t.parm.len /\ ~t.parm.dyn) THEN t
            ELSE StoreParm(t, line.args[i], n - i + 1)
    IN  IF started.parm.type = NONE THEN started
        ELSE FoldLeft(Next1, started, [i \in 1 .. n |-> i])

\* A block of parameters is set line by line; each line tried is noted in said.
thLoadParameters(s, name) ==
    LET One(t, line) == CASE t.fault # "none" -> t
                          [] t.fault = "none" /\ line.k = "declare" -> thVarCreate(t, line)
                          [] t.fault = "none" /\ line.k = "parm" -> thParmLineSet(t, line)
                          [] OTHER -> t
    IN  FoldLeft(One, [s EXCEPT !.blocks[name].count = 1], Tail(s.blocks[name].lines))

-----------------------------------------------------------------------------
(* Tests.                                                                    *)

IsIntVariable(s, name) == s.reg[name].type = OPRINT

\* Each int result listed for a block has scalers, set to zero.
Scaled(s, names) ==
    [s EXCEPT !.scal = [n \in {m \in names : IsIntVariable(s, m)} |->
                            [i \in 1 .. SizeOf(s, n) |-> 0]] @@ @]

HasEqual(l) == \E k \in DOMAIN l : l[k] \in {"=", "==", "!=", "<=", ">="}

\* A test that cannot be booked leaves no code.
LineBooked(s, name, b) ==
    Scaled([s EXCEPT !.static = b.static, !.reg = b.reg, !.mem = b.mem,
                     !.blocks[name].vlist = b.vlist,
                     !.blocks[name].code = IF b.status = "S_FAILURE" THEN @ ELSE @ \o b.code],
           ToSet(b.vlist))
BookLine(s, name, l) ==
    IF ~HasEqual(l) THEN s
    ELSE LineBooked(s, name, thBookaTest(s.static, s.reg, s.mem, s.blocks[name].vlist, l))

thBookTests(s, name) ==
    LET One(t, line) == CASE t.fault # "none" -> t
                          [] t.fault = "none" /\ line.k = "declare" -> thVarCreate(t, line)
                          [] t.fault = "none" /\ line.k = "test" -> BookLine(t, name, line.args[1])
                          [] OTHER -> t
        begun == [s EXCEPT !.blocks[name].code = <<>>, !.blocks[name].vlist = <<>>]
        booked == FoldLeft(One, begun, Tail(s.blocks[name].lines))
    IN  [booked EXCEPT !.tblist = AddToList(@, name)]

-----------------------------------------------------------------------------
(* Groups.                                                                   *)

\* The blocks of a group that are not booked are, in the order of the files.
thBookGroup(s, g) ==
    LET One(t, name) ==
            IF t.fault # "none" \/ t.blocks[name].count # NONE THEN t
            ELSE LET begun == [t EXCEPT !.blocks[name].count = 0]
                 IN  IF g[1] = "parm" THEN thLoadParameters(begun, name)
                     ELSE thBookTests(begun, name)
    IN  IF g \in DOMAIN s.groups THEN FoldLeft(One, s, s.groups[g]) ELSE s

\* Parameters first.
thBook(s) == FoldLeft(thBookGroup, s, <<(<<"parm", "all">>), <<"test", "all">>>>)

\* The blocks of the group, or all that were booked when the tree is walked.
Blocks(s, walk) == IF walk THEN s.tblist
                   ELSE IF <<"test", "all">> \in DOMAIN s.groups THEN s.groups[<<"test", "all">>] ELSE <<>>

\* A walk counts the block even when its code leaves something on the stack.
BlockRun(t, name, walk, run) ==
    LET counted == walk \/ run.status = "S_SUCCESS"
    IN  CASE run.fault # "none" -> Crash(t, run.fault)
          [] run.fault = "none" /\ counted /\ t.blocks[name].count = NONE -> Crash(t, "no counter")
          [] OTHER -> [t EXCEPT !.mem = run.mem,
                                !.blocks[name].count = IF counted THEN @ + 1 ELSE @]
thExecuteTestsV(t, name, walk) ==
    BlockRun(t, name, walk, thExecuteCode(t.blocks[name].code, t.mem))

Counts_OneOnly(flag) == IF flag = <<1, 1>> THEN 1 ELSE 0
Counts(flag) == IF flag # <<0, 1>> THEN 1 ELSE 0

\* Each element of a result has its flag and its scaler.  A walk passes over results
\* without scalers; the calls for a group look for them.
OnResult(t, n, op, walk) ==
    LET flag == t.mem[t.reg[n].ptr].val
        New(i, count) == CASE i > SizeOf(t, n) -> count
                           [] op = "clear scalers" -> 0
                           [] OTHER -> count + Counts(flag[i])
    IN  CASE op = "clear flags" ->
                 [t EXCEPT !.mem[t.reg[n].ptr].val = [i \in DOMAIN @ |-> <<0, 1>>]]
          [] op # "clear flags" /\ n \in DOMAIN t.scal /\ Len(t.scal[n]) >= SizeOf(t, n) ->
                 [t EXCEPT !.scal[n] = [i \in DOMAIN @ |-> New(i, @[i])]]
          [] op # "clear flags" /\ n \notin DOMAIN t.scal /\ walk -> t
          [] OTHER -> Crash(t, "no scalers")

IntResults(s, name) == SelectSeq(s.blocks[name].vlist, LAMBDA n : IsIntVariable(s, n))

\* One of the calls of the program for each block in turn.  A block that was never
\* booked has no code to look at.
thWalkTree(s, op, walk) ==
    LET One(t, name) ==
            CASE t.fault # "none" -> t
              [] t.fault = "none" /\ name \notin ToSet(t.tblist) -> Crash(t, "no code")
              [] op = "execute" /\ t.fault = "none" /\ name \in ToSet(t.tblist) ->
                     thExecuteTestsV(t, name, walk)
              [] OTHER -> FoldLeft(LAMBDA u, n : OnResult(u, n, op, walk), t, IntResults(t, name))
    IN  FoldLeft(One, s, Blocks(s, walk))

-----------------------------------------------------------------------------
(* A program that uses the library: it loads files and books them, and for each *)
(* event clears the flags, executes the tests and increments the scalers.        *)

Init ==
    /\ ctp = [static |-> NoToken, reg |-> HostReg, mem |-> HostMem, dyn |-> {}, scal |-> <<>>,
              blocks |-> <<>>, groups |-> <<>>, toks |-> <<>>, tblist |-> <<>>,
              parm |-> NoParm, fault |-> "none"]
    /\ phase = "load"
    /\ calls = [loads |-> 0, events |-> 0, settings |-> 0]
    /\ said = <<>>
    /\ seen = <<>>

Runs == ctp.fault = "none"

Load(f) ==
    /\ Runs /\ phase \in {"load", "idle"} /\ calls.loads < MAX_LOADS
    /\ ctp' = thLoad(ctp, f)
    /\ phase' = "load"
    /\ calls' = [calls EXCEPT !.loads = @ + 1]
    /\ UNCHANGED <<said, seen>>

\* The lines of the blocks that are about to be booked.
Unbooked(type) ==
    LET g == <<type, "all">>
        names == IF g \in DOMAIN ctp.groups THEN ctp.groups[g] ELSE <<>>
        fresh == SelectSeq(names, LAMBDA n : ctp.blocks[n].count = NONE)
    IN  FlattenSeq([i \in DOMAIN fresh |-> Tail(ctp.blocks[fresh[i]].lines)])

\* The flags of tests: each line of the tests begins with its flag.
Flags(lines) == {<<"test", lines[i].args[1][1]>> : i \in {j \in DOMAIN lines : lines[j].k = "test"}}

Book ==
    /\ Runs /\ phase = "load"
    /\ ctp' = thBook(ctp)
    /\ phase' = "idle"
    /\ said' = said \o Unbooked("parm")
    /\ seen' = [n \in Flags(Unbooked("test")) |-> 0] @@ seen
    /\ UNCHANGED calls

ParmSet(line) ==
    /\ Runs /\ phase = "idle" /\ calls.settings < MAX_SETTINGS
    /\ ctp' = thParmLineSet(ctp, line)
    /\ said' = Append(said, line)
    /\ calls' = [calls EXCEPT !.settings = @ + 1]
    /\ UNCHANGED <<phase, seen>>

NextEvent(x, walk) ==
    /\ Runs /\ phase = "idle" /\ calls.events < MAX_EVENTS
    /\ ctp' = thWalkTree([ctp EXCEPT !.mem[HostReg[EVENTVAR].ptr].val = <<x>>], "clear flags", walk)
    /\ phase' = "execute"
    /\ calls' = [calls EXCEPT !.events = @ + 1]
    /\ UNCHANGED <<said, seen>>

Execute(walk) ==
    /\ Runs /\ phase = "execute"
    /\ ctp' = thWalkTree(ctp, "execute", walk)
    /\ phase' = "count"
    /\ UNCHANGED <<calls, said, seen>>

\* What lines of parameters say: the numbers of each.  A line says those after the
\* place it gives, or goes on.
ValueOf(arg, known) ==
    LET One(w) == IF w \in DOMAIN Literals THEN Literals[w].val ELSE known[w][1]
    IN  CASE Len(arg) = 1 -> One(arg[1])
          [] Len(arg) = 2 /\ arg[1] = "-" -> Minus(One(arg[2]))
          [] Len(arg) = 3 /\ arg[2] = "/" -> Over(One(arg[1]), One(arg[3]))
Stated(lines) ==
    LET One(t, line) ==
            LET name == IF line.name = "" THEN t.name ELSE line.name
                at == IF line.name = "" THEN t.at ELSE line.at
                had == IF name \in DOMAIN t.known THEN t.known[name] ELSE <<>>
                n == at + Len(line.args)
                New(i) == IF i \in at + 1 .. n THEN ValueOf(line.args[i - at], t.known) ELSE had[i]
            IN  IF line.k = "declare" \/ name = "" THEN t
                ELSE [name |-> name, at |-> n,
                      known |-> (name :> [i \in 1 .. Max({n, Len(had)}) |-> New(i)]) @@ t.known]
    IN  FoldLeft(One, [name |-> "", at |-> 0, known |-> <<>>], lines).known

Increment(walk) ==
    LET x == ctp.mem[HostReg[EVENTVAR].ptr].val[1]
    IN  /\ Runs /\ phase = "count"
        /\ ctp' = thWalkTree(ctp, "increment scalers", walk)
        /\ phase' = "idle"
        /\ seen' = [n \in DOMAIN seen |-> seen[n] + IF Holds(n, x, Stated(said)) THEN 1 ELSE 0]
        /\ UNCHANGED <<calls, said>>

ClearScalers(walk) ==
    /\ Runs /\ phase = "idle" /\ calls.events < MAX_EVENTS
    /\ ctp' = thWalkTree(ctp, "clear scalers", walk)
    /\ seen' = [n \in DOMAIN seen |-> 0]
    /\ UNCHANGED <<phase, calls, said>>

Next ==
    \/ \E f \in MainFiles : Load(f)
    \/ Book
    \/ \E line \in Settings : ParmSet(line)
    \/ \E x \in Events, walk \in BOOLEAN : NextEvent(x, walk)
    \/ \E walk \in BOOLEAN : Execute(walk) \/ Increment(walk) \/ ClearScalers(walk)

Spec == Init /\ [][Next]_vars

-----------------------------------------------------------------------------
(* Properties.                                                               *)

\* A scaler has counted the events its flag was to be set in since the test was
\* booked, with the parameters as they were at each event.
ScalersCountEvents ==
    Runs => \A n \in DOMAIN seen : n \in DOMAIN ctp.scal /\ ctp.scal[n][1] = seen[n]

\* A parameter has the numbers that the files and settings say last, in their
\* places: no digit after the point is lost as it grows and changes type.
ParametersHoldWhatIsWritten ==
    Runs => \A w \in DOMAIN Stated(said) :
        LET e == ctp.reg[<<"parm", w>>]
            val == ctp.mem[e.ptr].val
            whole == <<"parm", w>> \notin ctp.dyn /\ e.type = OPRINT
        IN  \A i \in DOMAIN Stated(said)[w] :
                \/ i \in DOMAIN val /\ val[i] = IF whole THEN floatToLong(Stated(said)[w][i])
                                                ELSE Stated(said)[w][i]
                \/ <<"parm", w>> \notin ctp.dyn /\ i \notin DOMAIN val

\* "Automatically up size for dynamic pars" (thParmLineSet): a parameter of CTP has
\* room for all that was written to it, whatever its type.
DynamicParametersGrow ==
    \A w \in DOMAIN Stated(said) :
        <<"parm", w>> \in ctp.dyn => Len(Stated(said)[w]) <= SizeOf(ctp, <<"parm", w>>)
=============================================================================
