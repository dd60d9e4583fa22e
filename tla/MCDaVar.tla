------------------------------- MODULE MCDaVar -------------------------------
(* A server with an integer, a real, an array and a string; a client that has *)
(* the first in other case, the second as an integer and the array shorter.   *)
EXTENDS DaVarRpc

MCWords == {"a", "A", "p", "b", "s", "c", "value", "title", "size", "type", "flag",
            "watr", "ratr", "scaler"}
MCLower == [w \in MCWords |-> IF w = "A" THEN "a" ELSE w]
MCCode == [w \in MCWords |-> CASE w = "a" -> 1 [] w = "p" -> 2 [] w = "b" -> 1
                               [] w = "s" -> 3 [] w = "c" -> 5 [] OTHER -> 0]

V(name, type, size, ptr) ==
    [name |-> name, title |-> <<>>, type |-> type, size |-> size, flag |-> 0,
     ptr |-> ptr, hook |-> "none"]

RegisterAll(entries) ==
    FoldLeft(LAMBDA t, e : daVarRegister(t, e).table, crlHashCreate, entries)

MCServerTable == RegisterAll(<<V(<<"a">>, 1, 1, 1), V(<<"p">>, 1, 2, 2),
                               V(<<"p", "b">>, 2, 1, 3), V(<<"s">>, 5, 3, 4)>>)
MCServerMem(e) == (1 :> <<20 + 2 * e>> @@ 2 :> <<40 + 2 * e, 60 + 2 * e>>
                   @@ 3 :> <<81 + 2 * e>> @@ 4 :> <<97 + e, 98, Blank>>)

MCClientTable == RegisterAll(<<V(<<"A">>, 1, 1, 1), V(<<"p">>, 1, 1, 2),
                               V(<<"p", "b">>, 1, 1, 3), V(<<"c">>, 1, 0, 4)>>)
MCClientMem == (1 :> <<0>> @@ 2 :> <<0>> @@ 3 :> <<0>> @@ 4 :> <<0>>)

Prefix(n) == [wild |-> FALSE, name |-> n]
Wild(n) == [wild |-> TRUE, name |-> n]
MCListPatterns == {Prefix(<<"a">>), Prefix(<<"p">>)}
MCImportPatterns == {Wild(<<"p">>)}
MCTests == {{}, {1}}
MCWrites == {[name |-> <<"p">>, val |-> any(1, <<2>>)]}
==============================================================================
