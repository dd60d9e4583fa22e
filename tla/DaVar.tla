-------------------------------- MODULE DaVar --------------------------------
(***************************************************************************)
(* The registry of variables of the CTP library (daVarRegister.c with the  *)
(* hash table of daVarHashLib.c) and the access to a variable by name      *)
(* (daVarHandlers.c, thHandlers.c): titles, attributes and array elements. *)
(*                                                                         *)
(* A name is the sequence of the words between its dots, a string the      *)
(* sequence of its characters' codes.  Numbers are counted in halves, so   *)
(* that the rounding of a real written to an integer shows: an integer     *)
(* variable holds even numbers.  mem maps the storage varptr points to to  *)
(* its content.  An operator X_Mistake is X with a plausible mistake.      *)
(***************************************************************************)
EXTENDS Integers, Sequences, FiniteSets, TLC, SequencesExt, FiniteSetsExt

CONSTANTS
    Words,          \* the words names are made of, in any case
    Lower,          \* the lower-case form of a word
    Code,           \* what a lower-case word adds to the hash value
    TABLE_SIZE

ASSUME DaVarAssumption ==
    /\ Lower \in [Words -> Words]
    /\ \A w \in Words : Lower[Lower[w]] = Lower[w]
    /\ Code \in [Words -> Nat]
    /\ TABLE_SIZE \in Nat \ {0}

S_SUCCESS == 0
S_FAILURE == -1
S_DAVAR_REPLACED == -2
S_DAVAR_UNKNOWN == -3
S_DAVAR_UNKATTR == -4
S_DAVAR_TOOMANY == -5
S_DAVAR_ILLCONV == -6

DAVARINT == 1
DAVARFLOAT == 2
DAVARDOUBLE == 3
DAVARSTRING == 4
DAVARFSTRING == 5
DAVARERROR_RPC == 999
DAVAR_NOINDEX == -1
Blank == 32

-----------------------------------------------------------------------------
(* The hash table.                                                           *)

Key(name) == [k \in DOMAIN name |-> Lower[name[k]]]
daVarComp(n, m) == Key(n) = Key(m)

\* Names are short enough for the overflow into the top bits not to occur.
HashValue(key) ==
    LET hash[k \in 0 .. Len(key)] == IF k = 0 THEN 0 ELSE 16 * hash[k - 1] + Code[key[k]]
    IN  hash[Len(key)]
hashFunction(name) == HashValue(Key(name)) % TABLE_SIZE

crlHashCreate == [h \in 0 .. TABLE_SIZE - 1 |-> <<>>]

Chain(table, name) == table[hashFunction(name)]

\* The place in its chain of the entry of a name, 0 when there is none.
crlHashFind(table, name) ==
    LET Places == {k \in DOMAIN Chain(table, name) :
                       daVarComp(Chain(table, name)[k].name, name)}
    IN  IF Places = {} THEN 0 ELSE Min(Places)

Known(table, name) == crlHashFind(table, name) # 0

crlHashAdd(table, entry) ==
    IF Known(table, entry.name) THEN table
    ELSE [table EXCEPT ![hashFunction(entry.name)] = <<entry>> \o @]

\* What a registry is: every variable has a name, a size and storage, and stands
\* in the chain its name hashes to.
Names == Seq(Words) \ {<<>>}
Variables == [name : Names, title : Seq(Int), type : 1 .. 5, size : Nat \ {0}, flag : Int,
              ptr : Nat, hook : {"none", "block"}]
Entries(table) == UNION {ToSet(table[h]) : h \in DOMAIN table}
IsRegistry(table) ==
    /\ table \in [0 .. TABLE_SIZE - 1 -> Seq(Variables)]
    /\ \A h \in DOMAIN table : \A e \in ToSet(table[h]) : hashFunction(e.name) = h

\* Storage holds as much as the variable is registered with; the content of a C
\* string is as long as the string.
IsStorage(table, mem) ==
    \A e \in Entries(table) :
        /\ e.ptr \in DOMAIN mem
        /\ mem[e.ptr] \in Seq(Int)
        /\ e.type # DAVARSTRING => Len(mem[e.ptr]) = e.size

crlHashWalk(table) == FlattenSeq([h \in 1 .. TABLE_SIZE |-> table[h - 1]])

-----------------------------------------------------------------------------
(* Registration and lookup.                                                  *)

\* The entry of a known name.
daVarLookupP(table, name) == Chain(table, name)[crlHashFind(table, name)]

Update(table, name, entry) ==
    [table EXCEPT ![hashFunction(name)] =
        ReplaceAt(@, crlHashFind(table, name), entry)]

\* A definition replaced keeps the spelling it was first registered with.
daVarRegister(table, args) ==
    LET sized == [args EXCEPT !.size = IF @ <= 0 THEN 1 ELSE @]
    IN  IF Known(table, args.name)
        THEN [status |-> S_DAVAR_REPLACED,
              table |-> Update(table, args.name,
                           [sized EXCEPT !.name = daVarLookupP(table, args.name).name])]
        ELSE [status |-> S_SUCCESS, table |-> crlHashAdd(table, sized)]

\* The first of the name itself and the name under each of the classes.
daVarLookupPWithClass(table, name, prefixlist) ==
    LET Tries == <<name>> \o [c \in DOMAIN prefixlist |-> prefixlist[c] \o name]
        Hits == {k \in DOMAIN Tries : Known(table, Tries[k])}
    IN  IF Hits = {} THEN [status |-> S_DAVAR_UNKNOWN]
        ELSE [status |-> S_SUCCESS, varp |-> daVarLookupP(table, Tries[Min(Hits)])]

\* A pattern with a wildcard (here: name*) is matched with regard to case, one
\* without matches every name it is a beginning of in any case.
daVarMatches(pattern, name) ==
    IF pattern.wild THEN IsPrefix(pattern.name, name)
    ELSE IsPrefix(Key(pattern.name), Key(name))

Matching(entries, pattern) ==
    LET names[k \in 0 .. Len(entries)] ==
            IF k = 0 THEN <<>>
            ELSE IF daVarMatches(pattern, entries[k].name)
            THEN Append(names[k - 1], entries[k].name) ELSE names[k - 1]
    IN  names[Len(entries)]
daVarList(table, pattern) == Matching(crlHashWalk(table), pattern)

-----------------------------------------------------------------------------
(* Values, attributes and array elements.                                    *)

any(valtype, val) == [valtype |-> valtype, val |-> val]
Values == [valtype : {DAVARINT, DAVARFLOAT, DAVARSTRING, DAVARERROR_RPC}, val : Seq(Int)]

IsNumeric(e) == e.type \in {DAVARINT, DAVARFLOAT, DAVARDOUBLE}

\* To the nearest integer, halves away from zero.
floatToLong(h) == IF h > 0 THEN 2 * ((h + 1) \div 2) ELSE -2 * ((1 - h) \div 2)

kill_trailing(s) == SubSeq(s, 1, Max({0} \union {k \in DOMAIN s : s[k] # Blank}))

\* The content of storage once new has been written from position i + 1 on.
Overlay(old, i, new) ==
    [k \in DOMAIN old |-> IF k \in i + 1 .. i + Len(new) THEN new[k - i] ELSE old[k]]

\* The shortest beginning of the name that is registered, or none (<<>>).
daVarClassFind(table, name) ==
    LET Lengths == {k \in DOMAIN name : Known(table, SubSeq(name, 1, k))}
    IN  IF Lengths = {} THEN <<>> ELSE SubSeq(name, 1, Min(Lengths))

\* The variable is the name as it stands, or what is left of it when words are
\* taken off its end down to the class; the words taken off are the attribute.
daVarAttributeFind(table, name, varclass) ==
    LET Lengths == {k \in Len(varclass) .. Len(name) :
                        k = Len(varclass) \/ Known(table, SubSeq(name, 1, k))}
    IN  [varp |-> daVarLookupP(table, SubSeq(name, 1, Max(Lengths))),
         attribute |-> Key(SubSeq(name, Max(Lengths) + 1, Len(name)))]

IsValue(attribute) == attribute \in {<<>>, <<"value">>}

\* The value of a string cannot be read by element; the lists of the readable
\* and the writable attributes are abstracted to their lengths.
daVarRegRatr(mem, varp, attribute, index, lists) ==
    LET v == mem[varp.ptr]
        int(n) == any(DAVARINT, <<2 * n>>)
    IN  CASE IsValue(attribute) /\ IsNumeric(varp) ->
                 any(IF varp.type = DAVARINT THEN DAVARINT ELSE DAVARFLOAT,
                     IF index = DAVAR_NOINDEX THEN v ELSE <<v[index + 1]>>)
          [] IsValue(attribute) /\ ~IsNumeric(varp) /\ index = DAVAR_NOINDEX ->
                 any(DAVARSTRING, IF varp.type = DAVARSTRING THEN v ELSE kill_trailing(v))
          [] IsValue(attribute) /\ ~IsNumeric(varp) /\ index # DAVAR_NOINDEX ->
                 any(DAVARERROR_RPC, <<S_SUCCESS>>)
          [] attribute = <<"title">> -> any(DAVARSTRING, varp.title)
          [] attribute = <<"size">> -> int(varp.size)
          [] attribute = <<"type">> -> int(varp.type)
          [] attribute = <<"flag">> -> int(varp.flag)
          [] attribute = <<"watr">> -> any(DAVARSTRING, <<2>>)
          [] attribute = <<"ratr">> -> any(DAVARSTRING, <<lists>>)
          [] OTHER -> any(DAVARERROR_RPC, <<S_DAVAR_UNKATTR>>)

\* The two numeric types report a value too long and a conversion there is not
\* with each other's codes.
WriteStatus(varp, index, setval) ==
    LET fits == varp.size >= Len(setval.val) + index
    IN  CASE setval.valtype = DAVARINT ->
                 IF ~fits THEN S_DAVAR_TOOMANY
                 ELSE IF ~IsNumeric(varp) THEN S_DAVAR_ILLCONV ELSE S_SUCCESS
          [] setval.valtype = DAVARFLOAT ->
                 IF ~fits THEN S_DAVAR_ILLCONV
                 ELSE IF ~IsNumeric(varp) THEN S_DAVAR_TOOMANY ELSE S_SUCCESS
          [] setval.valtype = DAVARSTRING ->
                 IF IsNumeric(varp) THEN S_DAVAR_ILLCONV
                 ELSE IF ~fits THEN S_DAVAR_TOOMANY ELSE S_SUCCESS
          [] OTHER -> S_FAILURE

\* A C string ends where the string written ends, a Fortran string is padded;
\* one written beyond the end of a C string is not seen.
Written(varp, old, index, setval) ==
    CASE varp.type = DAVARINT ->
             Overlay(old, index, [k \in DOMAIN setval.val |-> floatToLong(setval.val[k])])
      [] varp.type \in {DAVARFLOAT, DAVARDOUBLE} -> Overlay(old, index, setval.val)
      [] varp.type = DAVARSTRING ->
             IF Len(old) < index THEN old ELSE SubSeq(old, 1, index) \o setval.val
      [] varp.type = DAVARFSTRING ->
             Overlay([k \in DOMAIN old |-> IF k > index THEN Blank ELSE old[k]],
                     index, setval.val)

\* The table and the storage after a write, and its status.
daVarRegWatr(table, mem, varp, attribute, index, setval) ==
    LET i == IF index = DAVAR_NOINDEX THEN 0 ELSE index
        status == CASE IsValue(attribute) -> WriteStatus(varp, i, setval)
                    [] attribute = <<"title">> ->
                           IF setval.valtype = DAVARSTRING THEN S_SUCCESS ELSE S_DAVAR_ILLCONV
                    [] OTHER -> S_DAVAR_UNKATTR
    IN  [status |-> status,
         table |-> IF status = S_SUCCESS /\ attribute = <<"title">>
                   THEN Update(table, varp.name, [varp EXCEPT !.title = setval.val])
                   ELSE table,
         mem |-> IF status = S_SUCCESS /\ IsValue(attribute)
                 THEN [mem EXCEPT ![varp.ptr] = Written(varp, @, i, setval)]
                 ELSE mem]

\* The handlers of a class of names: the usual ones, and those of a block.  The
\* counter of a block is its value under one more name, and a title written to a
\* block makes it be booked.
daVarRhandler(mem, found, index) == daVarRegRatr(mem, found.varp, found.attribute, index, 7)

thRHandler(mem, found, index) ==
    IF found.attribute = <<"scaler">> THEN any(DAVARINT, <<mem[found.varp.ptr][1]>>)
    ELSE daVarRegRatr(mem, found.varp, found.attribute, index, 8)

Handled(written, booked) ==
    [status |-> written.status, table |-> written.table, mem |-> written.mem,
     booked |-> booked]

daVarWhandler(table, mem, found, index, setval) ==
    Handled(daVarRegWatr(table, mem, found.varp, found.attribute, index, setval), FALSE)

thWHandler(table, mem, found, index, setval) ==
    LET written == daVarRegWatr(table, mem, found.varp, found.attribute, index, setval)
    IN  Handled(written, found.attribute = <<"title">> /\ written.status = S_SUCCESS)

IsBlock(table, varclass) == daVarLookupP(table, varclass).hook # "none"

ReadOf(table, mem, varclass, name, index) ==
    LET found == daVarAttributeFind(table, name, varclass)
    IN  CASE varclass = <<>> -> any(DAVARERROR_RPC, <<S_FAILURE>>)
          [] varclass # <<>> /\ IsBlock(table, varclass) -> thRHandler(mem, found, index)
          [] OTHER -> daVarRhandler(mem, found, index)

daVarReadVar(table, mem, name, index) ==
    ReadOf(table, mem, daVarClassFind(table, name), name, index)

WriteOf(table, mem, varclass, name, index, setval) ==
    LET found == daVarAttributeFind(table, name, varclass)
    IN  CASE varclass = <<>> ->
                 [status |-> S_FAILURE, table |-> table, mem |-> mem, booked |-> FALSE]
          [] varclass # <<>> /\ IsBlock(table, varclass) ->
                 thWHandler(table, mem, found, index, setval)
          [] OTHER -> daVarWhandler(table, mem, found, index, setval)

daVarWriteVar(table, mem, name, index, setval) ==
    WriteOf(table, mem, daVarClassFind(table, name), name, index, setval)
=============================================================================
