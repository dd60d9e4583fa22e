------------------------------- MODULE DaVarRpc -------------------------------
(***************************************************************************)
(* Access to the variables of a running program from another one: the      *)
(* server side (daVarServ.c, daVarRpc_svc.c, daVarRpcProc.c), the client   *)
(* side (thClient.c with the stubs of daVarRpc_clnt.c) and the connection  *)
(* between them.                                                           *)
(*                                                                         *)
(* A call of the client is a request and the wait for its reply, which may *)
(* end in a timeout while the request still stands at the server.  A test  *)
(* read is acknowledged and queued; the server answers it by a call of its *)
(* own when the test comes true or time runs out, and the client serves    *)
(* that call while it waits in thGetList_test.  An answer stays in the     *)
(* client's socket until the client serves.  What a socket reports without *)
(* carrying an answer only makes the client look again and is left out.    *)
(* Test conditions are the events they are true of.  past and the number a *)
(* queued test read bears are history.  An operator X_Mistake is X with a  *)
(* plausible mistake.                                                      *)
(***************************************************************************)
EXTENDS DaVar

CONSTANTS
    ServerTable, ServerMem(_),  \* the server's registry; its storage at an event
    ClientTable, ClientMem,     \* the client's registry and storage at the start
    ListPatterns, ImportPatterns,   \* what lists and imports are asked for
    Tests,                      \* sets of events, the conditions of test reads
    Waits,                      \* values of max_event_wait
    Writes,                     \* [name, val] the client may write on the server
    MAXHANDLES,
    MaxCalls, MaxEvents, MaxNames   \* bounds

\* Variables registered with the same storage are registered alike; those of the
\* client's that differ in name have storage of their own.  The variables under
\* the classes of blocks are counters.
ASSUME RpcAssumption ==
    /\ \A table \in {ServerTable, ClientTable} :
           /\ IsRegistry(table)
           /\ \A c, e \in Entries(table) : c.ptr = e.ptr => c.type = e.type /\ c.size = e.size
    /\ \A t \in 0 .. MaxEvents : IsStorage(ServerTable, ServerMem(t))
    /\ \A c, e \in Entries(ServerTable) :
           c.hook # "none" /\ IsPrefix(Key(c.name), Key(e.name)) => IsNumeric(e)
    /\ IsStorage(ClientTable, ClientMem)
    /\ \A c, e \in Entries(ClientTable) : c.ptr = e.ptr => Key(c.name) = Key(e.name)
    /\ DOMAIN ClientMem \subseteq Nat /\ ClientMem \in [DOMAIN ClientMem -> Seq(Int)]
    /\ \E last \in DOMAIN ClientMem : \A p \in DOMAIN ClientMem : p <= last
    /\ \A w \in Writes : w.name \in Names /\ w.val \in Values
    /\ Waits \subseteq Int
    /\ {MAXHANDLES, MaxCalls, MaxEvents, MaxNames} \subseteq Nat

\* No variable of the server's bears the name of an attribute that can be written,
\* which would be taken for that attribute of a variable of the client's.
ASSUME PlainNames ==
    \A e \in Entries(ServerTable) : Lower[e.name[Len(e.name)]] \notin {"value", "title"}

VARIABLES
    up,                 \* server: has it not died?
    event, smem,        \* server: the event analysed, its storage
    stable,             \* server: its registry
    thCallBackListP,    \* server: test reads waiting, newest first
    requests, replies,  \* the connection, in both directions
    inbox,              \* answers to test reads in the client's socket
    ctable, cmem,       \* client: registry and storage
    handle_list,        \* client: lists of names, as asked and as sent
    pending_arg,        \* client: the handle of the test read waited for, or 0
    pending_flag,
    callback_result,
    call,               \* client: the call under way
    xid,                \* number of the last request
    past                \* the contents the server's storage has had

server == <<up, event, smem, stable, thCallBackListP>>
net == <<requests, replies>>
client == <<ctable, cmem, handle_list, pending_arg, pending_flag, callback_result>>
vars == <<server, net, inbox, client, call, xid, past>>

Idle(op, ret) == [pc |-> "idle", op |-> op, handle |-> 0, ret |-> ret]

Init ==
    /\ up = TRUE /\ event = 0 /\ smem = ServerMem(0) /\ stable = ServerTable
    /\ thCallBackListP = <<>>
    /\ requests = <<>> /\ replies = {} /\ inbox = <<>>
    /\ ctable = ClientTable /\ cmem = ClientMem
    /\ handle_list = <<>>
    /\ pending_arg = 0 /\ pending_flag = 0 /\ callback_result = 0
    /\ call = Idle("none", 0)
    /\ xid = 0
    /\ past = {ServerMem(0)}

-----------------------------------------------------------------------------
(* The lists of the client.                                                  *)

thCreateList ==
    /\ call.pc = "idle"
    /\ Len(handle_list) < MAXHANDLES
    /\ handle_list' = Append(handle_list, [names |-> <<>>, nnames |-> 0, rpc |-> <<>>])
    /\ call' = Idle("none", 0)
    /\ UNCHANGED <<server, net, inbox, ctable, cmem, pending_arg, pending_flag,
                   callback_result, xid, past>>

Relist(h, names, nnames) ==
    /\ handle_list' = [handle_list EXCEPT ![h].names = names, ![h].nnames = nnames]
    /\ call' = Idle("none", 0)
    /\ UNCHANGED <<server, net, inbox, ctable, cmem, pending_arg, pending_flag,
                   callback_result, xid, past>>

\* Names are put at the front one by one, duplicates included.
thAddToList(h, pattern) ==
    /\ call.pc = "idle"
    /\ LET vlist == daVarList(ctable, pattern)
           list == handle_list[h]
       IN  /\ list.nnames + Len(vlist) <= MaxNames
           /\ Relist(h, Reverse(vlist) \o list.names, list.nnames + Len(vlist))

\* Every name that agrees with one that matches goes, all its duplicates too.
Removed(names, vlist) ==
    LET left[k \in 0 .. Len(names)] ==
            IF k = 0 THEN <<>>
            ELSE IF \E l \in DOMAIN vlist : daVarComp(names[k], vlist[l])
            THEN left[k - 1] ELSE Append(left[k - 1], names[k])
    IN  left[Len(names)]

thRemoveFromList_CountsMatches(h, pattern) ==
    /\ call.pc = "idle"
    /\ LET vlist == daVarList(ctable, pattern)
       IN  Relist(h, Removed(handle_list[h].names, vlist),
                  handle_list[h].nnames - Len(vlist))
thRemoveFromList(h, pattern) ==
    /\ call.pc = "idle"
    /\ LET list == handle_list[h]
           left == Removed(list.names, daVarList(ctable, pattern))
       IN  Relist(h, left, list.nnames - (Len(list.names) - Len(left)))

-----------------------------------------------------------------------------
(* Calls of the client.                                                      *)

Send(proc, arg) ==
    /\ xid < MaxCalls
    /\ xid' = xid + 1
    /\ requests' = Append(requests, [proc |-> proc, xid |-> xid + 1, arg |-> arg])

\* The names in the form they are sent in, the first nnames of them.
Rpc(h) == [k \in 1 .. Min({handle_list[h].nnames, Len(handle_list[h].names)}) |->
              handle_list[h].names[k]]

thGetList(h) ==
    /\ call.pc = "idle"
    /\ Send("readmultiple", Rpc(h))
    /\ handle_list' = [handle_list EXCEPT ![h].rpc = Rpc(h)]
    /\ call' = [pc |-> "reply", op |-> "get", handle |-> h, ret |-> 0]
    /\ UNCHANGED <<server, replies, inbox, ctable, cmem, pending_arg, pending_flag,
                   callback_result, past>>

thGetList_test(h, test, max_event_wait) ==
    /\ call.pc = "idle"
    /\ Send("test", [names |-> Rpc(h), test |-> test, max_event_wait |-> max_event_wait,
                     xid |-> xid + 1])
    /\ handle_list' = [handle_list EXCEPT ![h].rpc = Rpc(h)]
    /\ pending_arg' = h /\ pending_flag' = 1
    /\ call' = [pc |-> "reply", op |-> "test", handle |-> h, ret |-> 0]
    /\ UNCHANGED <<server, replies, inbox, ctable, cmem, callback_result, past>>

thImportVars(pattern) ==
    /\ call.pc = "idle"
    /\ Send("readpatternmatch", pattern)
    /\ call' = [pc |-> "reply", op |-> "import", handle |-> 0, ret |-> 0]
    /\ UNCHANGED <<server, replies, inbox, client, past>>

davar_writemultiple(write) ==
    /\ call.pc = "idle"
    /\ Send("writemultiple", write)
    /\ call' = [pc |-> "reply", op |-> "write", handle |-> 0, ret |-> 0]
    /\ UNCHANGED <<server, replies, inbox, client, past>>

\* The values of a list written to the client's variables of the same names, and
\* how many could not be.
Counted(acc, w) == [table |-> w.table, mem |-> w.mem,
                    nerrors |-> acc.nerrors + IF w.status = S_SUCCESS THEN 0 ELSE 1]
Store(acc, name, val) ==
    IF val.valtype = DAVARERROR_RPC THEN [acc EXCEPT !.nerrors = @ + 1]
    ELSE Counted(acc, daVarWriteVar(acc.table, acc.mem, name, DAVAR_NOINDEX, val))

Registry == [table |-> ctable, mem |-> cmem, nerrors |-> 0]
StoreAll_NoErrors(names, vals) ==
    LET acc[k \in 0 .. Len(names)] ==
            IF k = 0 THEN Registry
            ELSE [Store(acc[k - 1], names[k], vals[k]) EXCEPT !.nerrors = 0]
    IN  acc[Len(names)]
StoreAll(names, vals) ==
    LET acc[k \in 0 .. Len(names)] ==
            IF k = 0 THEN Registry ELSE Store(acc[k - 1], names[k], vals[k])
    IN  acc[Len(names)]

\* A variable the value cannot be written to is registered anew, with storage of
\* its own and without its title, and written once more.
NewPtr(acc) == Max(DOMAIN acc.mem) + 1
Room(acc, item) ==
    [p \in DOMAIN acc.mem \union {NewPtr(acc)} |->
        IF p = NewPtr(acc) THEN [k \in DOMAIN item.val.val |-> 0] ELSE acc.mem[p]]
Anew(acc, item) ==
    daVarRegister(acc.table,
        [name |-> item.name, title |-> <<>>, type |-> item.val.valtype,
         size |-> Len(item.val.val) + (IF item.val.valtype = DAVARSTRING THEN 1 ELSE 0),
         flag |-> 12, ptr |-> NewPtr(acc), hook |-> "none"]).table
Renewed_NotWritten(acc, item) ==
    [status |-> S_SUCCESS, table |-> Anew(acc, item), mem |-> Room(acc, item)]
Renewed(acc, item) ==
    daVarWriteVar(Anew(acc, item), Room(acc, item), item.name, DAVAR_NOINDEX, item.val)

Imported(acc, item, w) ==
    CASE w.status = S_SUCCESS -> Counted(acc, w)
      [] w.status # S_SUCCESS /\ item.val.valtype = DAVARERROR_RPC ->
             [acc EXCEPT !.nerrors = @ + 1]
      [] OTHER -> Counted(acc, Renewed(acc, item))
Import(acc, item) ==
    Imported(acc, item, daVarWriteVar(acc.table, acc.mem, item.name, DAVAR_NOINDEX, item.val))

Importing(items) ==
    LET acc[k \in 0 .. Len(items)] == IF k = 0 THEN Registry ELSE Import(acc[k - 1], items[k])
    IN  acc[Len(items)]

\* The reply to the request of the call.
Returns(done) ==
    /\ ctable' = done.table /\ cmem' = done.mem
    /\ call' = [call EXCEPT !.pc = "idle", !.ret = done.nerrors]
Reply ==
    /\ call.pc = "reply"
    /\ \E r \in replies :
           \/ /\ call.op = "test"
              /\ call' = [call EXCEPT !.pc = "wait"]
              /\ UNCHANGED <<ctable, cmem>>
           \/ /\ call.op # "test"
              /\ Returns(CASE call.op = "get" -> StoreAll(handle_list[call.handle].rpc, r.res)
                           [] call.op = "import" -> Importing(r.res)
                           [] call.op = "write" -> [table |-> ctable, mem |-> cmem, nerrors |-> r.res])
    /\ replies' = {}
    /\ UNCHANGED <<server, requests, inbox, handle_list, pending_arg, pending_flag,
                   callback_result, xid, past>>

\* clnt_call gives up after TIMEOUT, or when the server is gone, whether the request
\* was served or not.
ReplyTimeout ==
    /\ call.pc = "reply"
    /\ replies' = {}
    /\ call' = [call EXCEPT !.pc = "idle", !.ret = -1]
    /\ UNCHANGED <<server, requests, inbox, client, xid, past>>

\* One answer served: the client's davar_readmultiple_test_cb_1.
Taken(done) == ctable' = done.table /\ cmem' = done.mem /\ callback_result' = done.nerrors
Serve ==
    LET vals == Head(inbox)
        names == handle_list[pending_arg].rpc
    IN  /\ inbox' = Tail(inbox)
        /\ pending_flag' = 0
        /\ IF pending_arg # 0 /\ Len(names) = Len(vals)
           THEN Taken(StoreAll(names, vals))
           ELSE /\ callback_result' = IF pending_arg = 0 THEN callback_result
                                      ELSE IF Len(vals) > 0 THEN -1 ELSE -2
                /\ UNCHANGED <<ctable, cmem>>

ServeWaiting ==
    /\ call.pc = "wait" /\ pending_flag = 1 /\ inbox # <<>>
    /\ Serve
    /\ UNCHANGED <<server, net, handle_list, pending_arg, call, xid, past>>

\* The program serves outside of a call, as a server of its own does (thservone).
ServeIdle ==
    /\ call.pc = "idle" /\ inbox # <<>>
    /\ Serve
    /\ UNCHANGED <<server, net, handle_list, pending_arg, call, xid, past>>

Finish(result) ==
    /\ callback_result' = result
    /\ pending_arg' = 0
    /\ call' = [call EXCEPT !.pc = "idle", !.ret = result]
    /\ UNCHANGED <<server, net, inbox, ctable, cmem, handle_list, pending_flag, xid, past>>

Answered == call.pc = "wait" /\ pending_flag = 0 /\ Finish(callback_result)

\* Nothing arrived for max_time_wait + 10 seconds.
WaitTimeout_Never == FALSE
WaitTimeout == call.pc = "wait" /\ pending_flag = 1 /\ inbox = <<>> /\ Finish(-2)

\* select fails, interrupted by a signal.
WaitFails == call.pc = "wait" /\ pending_flag = 1 /\ Finish(-3)

-----------------------------------------------------------------------------
(* The server.                                                               *)

Failures(statuses) == Cardinality({k \in DOMAIN statuses : statuses[k] # S_SUCCESS})

ReadAll(names) ==
    [k \in DOMAIN names |-> daVarReadVar(stable, smem, names[k], DAVAR_NOINDEX)]

\* A reply reaches the call it is for; one to a call given up is discarded.
Respond(res) ==
    replies' = IF call.pc = "reply" /\ Head(requests).xid = xid THEN {[res |-> res]}
               ELSE replies

WrittenBy(w) ==
    /\ smem' = w.mem /\ stable' = w.table
    /\ past' = past \union {w.mem}
    /\ Respond(Failures(<<w.status>>))
davar_writemultiple_1(arg) ==
    WrittenBy(daVarWriteVar(stable, smem, arg.name, DAVAR_NOINDEX, arg.val))

\* davar_readmultiple_test_1_svc hands on a pointer that it never sets, and
\* davar_readmultiple_test_1 looks up its caller with it.  If it happens to be the
\* right one, the request is queued.  If not, as when gcc optimises (a null pointer),
\* the server dies of it, with all that is queued.
davar_readmultiple_test_1(arg) ==
    \/ /\ thCallBackListP' = <<arg>> \o thCallBackListP
       /\ Respond(S_SUCCESS)
       /\ UNCHANGED up
    \/ /\ up' = FALSE
       /\ thCallBackListP' = <<>>
       /\ UNCHANGED replies

\* The request dispatched to the procedure it is for (davarsvr_1).
davarsvr_1 ==
    /\ up /\ requests # <<>>
    /\ requests' = Tail(requests)
    /\ LET r == Head(requests)
       IN  \/ /\ r.proc = "readmultiple"
              /\ Respond(ReadAll(r.arg))
              /\ UNCHANGED <<up, smem, stable, past, thCallBackListP>>
           \/ /\ r.proc = "readpatternmatch"
              /\ LET vlist == daVarList(stable, r.arg)
                 IN  Respond([k \in DOMAIN vlist |->
                                 [name |-> vlist[k], val |-> ReadAll(vlist)[k]]])
              /\ UNCHANGED <<up, smem, stable, past, thCallBackListP>>
           \/ /\ r.proc = "writemultiple"
              /\ davar_writemultiple_1(r.arg)
              /\ UNCHANGED <<up, thCallBackListP>>
           \/ /\ r.proc = "test"
              /\ davar_readmultiple_test_1(r.arg)
              /\ UNCHANGED <<smem, stable, past>>
    /\ UNCHANGED <<event, inbox, client, call, xid>>

\* The analysis of the next event changes the variables.
NextEvent ==
    /\ up /\ event < MaxEvents
    /\ event' = event + 1
    /\ smem' = ServerMem(event + 1)
    /\ past' = past \union {smem'}
    /\ UNCHANGED <<up, stable, thCallBackListP, net, inbox, client, call, xid>>

Tried == [k \in DOMAIN thCallBackListP |->
             [thCallBackListP[k] EXCEPT !.max_event_wait = @ - 1]]
Fires(k) == event \in thCallBackListP[k].test
Out(k, late) == Tried[k].max_event_wait < 0 \/ k \in late
\* The places in K in the order the queue is scanned in.
InOrder(K) ==
    LET passed[k \in 0 .. Len(thCallBackListP)] ==
            IF k = 0 THEN <<>>
            ELSE IF k \in K THEN Append(passed[k - 1], k) ELSE passed[k - 1]
    IN  passed[Len(thCallBackListP)]

\* One scan: every request waits an event less; those whose test is true or whose
\* time is out are dropped...
Scan_NoTimeout(late) ==
    LET stay == InOrder({k \in DOMAIN thCallBackListP : ~Fires(k)})
    IN  /\ thCallBackListP # <<>>
        /\ thCallBackListP' = [k \in DOMAIN stay |-> thCallBackListP[stay[k]]]
Scan(late) ==
    LET stay == InOrder({k \in DOMAIN thCallBackListP : ~Fires(k) /\ ~Out(k, late)})
    IN  /\ thCallBackListP # <<>>
        /\ thCallBackListP' = [k \in DOMAIN stay |-> Tried[stay[k]]]

\* ...and answered, unless the client cannot be reached.
daVarCallBack ==
    /\ \E late, unreachable \in SUBSET DOMAIN thCallBackListP :
           LET reached == InOrder({k \in DOMAIN thCallBackListP \ unreachable :
                                      Fires(k) \/ Out(k, late)})
           IN  /\ Scan(late)
               /\ inbox' = inbox \o [k \in DOMAIN reached |->
                                        IF Fires(reached[k])
                                        THEN ReadAll(thCallBackListP[reached[k]].names)
                                        ELSE <<>>]
    /\ UNCHANGED <<up, event, smem, stable, net, client, call, xid, past>>

-----------------------------------------------------------------------------
Lists ==
    \/ thCreateList
    \/ \E h \in DOMAIN handle_list, p \in ListPatterns : thAddToList(h, p)
    \/ \E h \in DOMAIN handle_list, p \in ListPatterns : thRemoveFromList(h, p)

Calls ==
    \/ \E h \in DOMAIN handle_list : thGetList(h)
    \/ \E h \in DOMAIN handle_list, t \in Tests, w \in Waits : thGetList_test(h, t, w)
    \/ \E p \in ImportPatterns : thImportVars(p)
    \/ \E w \in Writes : davar_writemultiple(w)

Waiting == Reply \/ ReplyTimeout \/ ServeWaiting \/ Answered \/ WaitTimeout \/ WaitFails

Next ==
    \/ Lists \/ Calls \/ Waiting \/ ServeIdle
    \/ davarsvr_1 \/ NextEvent \/ daVarCallBack

Spec == Init /\ [][Next]_vars

\* A client in a call goes on with it, and the server goes on scanning its queue;
\* neither a failing select nor that the server takes requests is promised.  The
\* conditions on serving and on scanning name the part of the step they are about.
FairSpec ==
    /\ Spec
    /\ WF_vars(ReplyTimeout \/ Reply)
    /\ WF_pending_flag(call.pc = "wait" /\ inbox # <<>> /\ pending_flag' = 0)
    /\ WF_vars(Answered) /\ WF_vars(WaitTimeout)
    /\ WF_thCallBackListP(\E late \in SUBSET DOMAIN thCallBackListP : Scan(late))

-----------------------------------------------------------------------------
(* Properties.                                                               *)

\* The count of a list, which thGetList sizes the request with, is the number of
\* its names after any sequence of additions and removals.
ListsKeepCounts ==
    \A h \in DOMAIN handle_list : handle_list[h].nnames = Len(handle_list[h].names)

\* A client's variable holds what the server's of the same name held: exactly,
\* or the nearest integers to it, or without the blanks at the end.
Matches(c, s) ==
    /\ s.valtype # DAVARERROR_RPC /\ c.valtype # DAVARERROR_RPC
    /\ IF c.valtype = DAVARSTRING THEN c.val \in {s.val, kill_trailing(s.val)}
       ELSE /\ Len(s.val) <= Len(c.val)
            /\ \A k \in DOMAIN s.val :
                   IF c.valtype = DAVARINT THEN c.val[k] - s.val[k] \in {-1, 0, 1}
                   ELSE c.val[k] = s.val[k]
Agrees(name, ct, cm, sm) ==
    Matches(daVarReadVar(ct, cm, name, DAVAR_NOINDEX),
            daVarReadVar(stable, sm, name, DAVAR_NOINDEX))

\* thGetList: "Returns 0 for total success": all variables of the list then hold
\* what the server's held at one and the same moment.
SnapshotOfOneMoment ==
    [][call.pc = "reply" /\ call.op = "get" /\ call'.pc = "idle" /\ call'.ret = 0 =>
           \E m \in past : \A k \in DOMAIN handle_list[call.handle].names :
               Agrees(handle_list[call.handle].names[k], ctable', cmem', m)]_vars

\* thImportVars: a total success leaves every variable of the server's that
\* matches registered at the client, with the value the server's had.
ImportIsComplete ==
    [][call.pc = "reply" /\ call.op = "import" /\ call'.pc = "idle" /\ call'.ret = 0 =>
           \E m \in past : \E p \in ImportPatterns :
               /\ \A r \in replies :
                      [k \in DOMAIN r.res |-> r.res[k].name] = daVarList(stable, p)
               /\ \A n \in ToSet(daVarList(stable, p)) : Agrees(n, ctable', cmem', m)]_vars

\* Every call of the client returns, whatever becomes of the requests and of the
\* answers, because each wait has an end of its own.
CallReturns == call.pc # "idle" ~> call.pc = "idle"

\* A test read does not stay in the server's queue for ever, even if its test never
\* comes true and however many are queued after it: it is given up after
\* max_event_wait scans.
Queued(x) == \E k \in DOMAIN thCallBackListP : thCallBackListP[k].xid = x
QueueDrains == \A x \in 1 .. MaxCalls : Queued(x) ~> ~Queued(x)
=============================================================================
