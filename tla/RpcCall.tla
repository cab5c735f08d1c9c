------------------------------ MODULE RpcCall ------------------------------
(***************************************************************************)
(* A JSON-RPC call from the command line to the node and back: the console or    *)
(* command process (src/rpcclient.cpp over walleve/http/httpget.cpp), the http    *)
(* server (walleve/http/httpserver.cpp), the RPC module that splits a batch into     *)
(* works and the worker threads that execute them (src/rpcmod.cpp).  The io thread,    *)
(* the module's event thread and the workers each take one event at a time; names        *)
(* may not resolve, connections may fail, answers may be late and processes may halt.     *)
(***************************************************************************)
EXTENDS Integers, Sequences

CONSTANTS
    RcUsers,            \* client processes
    RcThreads,          \* worker threads (-rpcthread)
    RcScripts           \* [calls: [RcUsers -> sequence of requests], byName: BOOLEAN,
                        \*  fails: resolutions and connections that may fail, halts: processes that may halt]

\* A method call of a request, and whether its method is known and succeeds; a request, which may be
\* a batch (arr), and whether it passes the checks of the server and the module (kind).
RcItems == [id : Nat, known : BOOLEAN, ok : BOOLEAN]
RcRequests == [kind : STRING, arr : BOOLEAN, items : Seq(RcItems)]

\* Calls are requests.
ASSUME RcScriptsAssumption ==
    \A s \in RcScripts : /\ s.calls \in [RcUsers -> Seq(RcRequests)]
                         /\ s.fails \in Nat /\ s.halts \in Nat /\ s.byName \in BOOLEAN

VARIABLES
    rcUser,             \* [user -> process]; see RcNewUser
    rcConn,             \* connections by the nonce the server gave them
    rcMod,              \* [q, work, id]: the module's events, mapWork and nWorkId
    rcPool,             \* [q, thr]: the workers' events and what each thread executes
    rcLeft              \* [fails, halts]

rcVars == <<rcUser, rcConn, rcMod, rcPool, rcLeft>>

HTTPGET_OK == 0
HTTPGET_CONNECT_FAILED == -1
HTTPGET_INVALID_NONCE == -2
HTTPGET_INTERRUPTED == -4
HTTPGET_RESP_TIMEOUT == -5
HTTPGET_RESOLVE_FAILED == -6
HTTPGET_ABORTED == -8
RcNone == <<>>
RcNewUser(calls) ==
    [calls |-> calls, pc |-> "idle",    \* "waiting": in WaitForComplete; "ended"
     n |-> 0,                           \* calls made
     req |-> "none",                    \* mapRequest: "resolve", "connect"
     dial |-> FALSE,                    \* a connection being set up
     conn |-> 0, op |-> "idle",         \* mapGetClient and what it waits for
     timer |-> FALSE,                   \* its timer is pending
     q |-> <<>>, got |-> <<>>,          \* answers posted, answers handled
     halted |-> FALSE]
RcRequest(u) == rcUser[u].calls[rcUser[u].n]
RcAnswer(code, body) == [code |-> code, body |-> body]
RcError(what) == RcAnswer(what, RcNone)

-----------------------------------------------------------------------------
(* The client's http connection (all on its io thread).                    *)
PostError(x, code) == [x EXCEPT !.q = Append(@, RcError(code))]

\* Slip: a connection closed with an error while a call is on it tells nobody.
CloseConnSilent(x, code) == [x EXCEPT !.timer = FALSE, !.conn = 0, !.op = "idle"]

CloseConn(x, code) ==
    [(IF code # HTTPGET_OK /\ x.op # "idle" THEN PostError(x, code) ELSE x)
        EXCEPT !.timer = FALSE, !.conn = 0, !.op = "idle"]

CloseNet(c) == [rcConn EXCEPT ![c].cOpen = FALSE, ![c].down = <<>>]

GetActivate(x, c) == [x EXCEPT !.conn = c, !.op = "write", !.timer = TRUE]

\* HandleEvent of an HttpGet event: the idle connection of the same caller is used again.
HttpGet(x, byName) ==
    IF x.conn # 0
    THEN IF x.op = "idle" THEN GetActivate(x, x.conn) ELSE PostError(x, HTTPGET_INVALID_NONCE)
    ELSE [x EXCEPT !.req = IF byName THEN "resolve" ELSE "connect", !.dial = ~byName]

RpcCalls(x) == [x EXCEPT !.pc = "waiting", !.n = @ + 1]
RpcGetResponse(u) ==
    /\ rcUser[u].pc = "idle" /\ ~rcUser[u].halted /\ rcUser[u].n < Len(rcUser[u].calls)
    /\ rcUser' = [rcUser EXCEPT ![u] = HttpGet(RpcCalls(@), rcLeft.byName)]
    /\ UNCHANGED <<rcConn, rcMod, rcPool, rcLeft>>

HostResolved(u) ==
    /\ rcUser[u].req = "resolve"
    /\ rcUser' = [rcUser EXCEPT ![u].req = "connect", ![u].dial = TRUE]
    /\ UNCHANGED <<rcConn, rcMod, rcPool, rcLeft>>

HostFailToResolve(u) ==
    /\ rcUser[u].req = "resolve" /\ rcLeft.fails > 0
    /\ rcUser' = [rcUser EXCEPT ![u] = PostError([@ EXCEPT !.req = "none"], HTTPGET_RESOLVE_FAILED)]
    /\ rcLeft' = [rcLeft EXCEPT !.fails = @ - 1]
    /\ UNCHANGED <<rcConn, rcMod, rcPool>>

\* A connection nobody asks for any more (the call was aborted) is shut down again.
ClientConnected(u) ==
    /\ rcUser[u].dial
    /\ rcConn' = Append(rcConn, [user |-> u, up |-> <<>>, down |-> <<>>, cOpen |-> rcUser[u].req = "connect",
                                 at |-> "accept", sOpen |-> TRUE, keep |-> FALSE, req |-> RcNone])
    /\ rcUser' = [rcUser EXCEPT ![u] = IF @.req = "connect"
                                       THEN GetActivate([@ EXCEPT !.req = "none", !.dial = FALSE], Len(rcConn) + 1)
                                       ELSE [@ EXCEPT !.dial = FALSE]]
    /\ UNCHANGED <<rcMod, rcPool, rcLeft>>

ClientFailToConnect(u) ==
    /\ rcUser[u].dial /\ rcLeft.fails > 0
    /\ rcUser' = [rcUser EXCEPT ![u] = IF @.req = "connect"
                                       THEN PostError([@ EXCEPT !.req = "none", !.dial = FALSE], HTTPGET_CONNECT_FAILED)
                                       ELSE [@ EXCEPT !.dial = FALSE]]
    /\ rcLeft' = [rcLeft EXCEPT !.fails = @ - 1]
    /\ UNCHANGED <<rcConn, rcMod, rcPool>>

GetHandleError(u) ==
    /\ rcUser' = [rcUser EXCEPT ![u] = CloseConn(@, HTTPGET_INTERRUPTED)]
    /\ rcConn' = CloseNet(rcUser[u].conn)
    /\ UNCHANGED <<rcMod, rcPool, rcLeft>>

\* Writing to a connection the server has closed may still succeed.
HandleWritenRequest(u) ==
    /\ rcUser[u].op = "write"
    /\ \/ /\ rcUser' = [rcUser EXCEPT ![u].op = "header"]
          /\ rcConn' = [rcConn EXCEPT ![rcUser[u].conn].up =
                           IF rcConn[rcUser[u].conn].sOpen THEN Append(@, RcRequest(u)) ELSE @]
          /\ UNCHANGED <<rcMod, rcPool, rcLeft>>
       \/ ~rcConn[rcUser[u].conn].sOpen /\ GetHandleError(u)

GetCompleted(x, a) == [x EXCEPT !.q = Append(@, a), !.timer = FALSE, !.op = "idle"]

\* The answer is complete; the server's error pages close the connection.
HandleClientCompleted(u, a) ==
    /\ rcUser' = [rcUser EXCEPT ![u] = IF a.code = 200 THEN GetCompleted(@, a)
                                       ELSE CloseConn(GetCompleted(@, a), HTTPGET_OK)]
    /\ rcConn' = [rcConn EXCEPT ![rcUser[u].conn].down = Tail(@), ![rcUser[u].conn].cOpen = a.code = 200]
    /\ UNCHANGED <<rcMod, rcPool, rcLeft>>

\* The payload may arrive with the header or after it.
GetReadHeader(u) ==
    /\ rcUser[u].op = "header"
    /\ \E c \in {rcConn[rcUser[u].conn]} :
          \/ c.down # <<>> /\ HandleClientCompleted(u, Head(c.down))
          \/ /\ c.down # <<>>
             /\ rcUser' = [rcUser EXCEPT ![u].op = "payload"]
             /\ UNCHANGED <<rcConn, rcMod, rcPool, rcLeft>>
          \/ c.down = <<>> /\ ~c.sOpen /\ GetHandleError(u)

GetReadPayload(u) ==
    /\ rcUser[u].op = "payload"
    /\ HandleClientCompleted(u, Head(rcConn[rcUser[u].conn].down))

GetTimeout(u) ==
    /\ rcUser[u].timer
    /\ rcUser' = [rcUser EXCEPT ![u] = CloseConn(@, HTTPGET_RESP_TIMEOUT)]
    /\ rcConn' = CloseNet(rcUser[u].conn)
    /\ UNCHANGED <<rcMod, rcPool, rcLeft>>

-----------------------------------------------------------------------------
(* The client process.                                                     *)

\* The module's thread handles the answer and wakes the caller.  A command process then ends.
HandleHttpGetRsp(u) ==
    /\ rcUser[u].q # <<>> /\ ~rcUser[u].halted
    /\ rcUser' = [rcUser EXCEPT ![u].q = Tail(@), ![u].got = Append(@, Head(rcUser[u].q)), ![u].pc = "idle"]
    /\ UNCHANGED <<rcConn, rcMod, rcPool, rcLeft>>

\* CancelCommand: the call under way is aborted, on its connection or still waiting for one.
HttpAbort(x) ==
    [(IF x.req # "none" THEN PostError(CloseConn(x, HTTPGET_ABORTED), HTTPGET_ABORTED) ELSE CloseConn(x, HTTPGET_ABORTED))
        EXCEPT !.req = "none"]

\* Halting: the module stops handling answers, the call is aborted and the caller's wait interrupted.
RpcClientHalt(u) ==
    /\ ~rcUser[u].halted
    /\ \/ rcUser[u].pc = "idle" /\ rcUser[u].n = Len(rcUser[u].calls) /\ rcLeft' = rcLeft
       \/ rcLeft.halts > 0 /\ rcLeft' = [rcLeft EXCEPT !.halts = @ - 1]
    /\ rcUser' = [rcUser EXCEPT ![u] = [HttpAbort(@) EXCEPT !.halted = TRUE, !.pc = "idle"]]
    /\ rcConn' = IF rcUser[u].conn = 0 THEN rcConn ELSE CloseNet(rcUser[u].conn)
    /\ UNCHANGED <<rcMod, rcPool>>

-----------------------------------------------------------------------------
(* The http server.                                                        *)
RcPost(e) == rcMod' = [rcMod EXCEPT !.q = Append(@, e)]

HttpActivate(c) == [c EXCEPT !.at = "header", !.keep = FALSE, !.up = <<>>, !.req = RcNone]

HttpClientAccepted(c) ==
    /\ rcConn[c].at = "accept"
    /\ rcConn' = [rcConn EXCEPT ![c].at = "header"]
    /\ UNCHANGED <<rcUser, rcMod, rcPool, rcLeft>>

RemoveClient(c) ==
    /\ rcConn' = [rcConn EXCEPT ![c].at = "gone", ![c].sOpen = FALSE]
    /\ RcPost([what |-> "broken", c |-> c])
    /\ UNCHANGED <<rcUser, rcPool, rcLeft>>

RespondError(c, code) ==
    /\ rcConn' = [rcConn EXCEPT ![c].at = "write", ![c].up = Tail(@), ![c].req = RcError(code)]
    /\ UNCHANGED <<rcUser, rcMod, rcPool, rcLeft>>

HandleClientRecv(c, r) ==
    \/ r.kind = "noauth" /\ RespondError(c, 401)
    \/ r.kind = "badform" /\ RespondError(c, 400)
    \/ /\ r.kind \notin {"noauth", "badform"}
       /\ rcConn' = [rcConn EXCEPT ![c].at = "busy", ![c].up = Tail(@), ![c].req = r]
       /\ RcPost([what |-> "req", c |-> c, r |-> r])
       /\ UNCHANGED <<rcUser, rcPool, rcLeft>>

ServerReadHeader(c) ==
    /\ rcConn[c].at = "header"
    /\ \/ /\ rcConn[c].up # <<>>
          /\ \/ Head(rcConn[c].up).kind = "badhead" /\ RemoveClient(c)
             \/ Head(rcConn[c].up).kind # "badhead" /\ HandleClientRecv(c, Head(rcConn[c].up))
             \/ /\ Head(rcConn[c].up).kind # "badhead"
                /\ rcConn' = [rcConn EXCEPT ![c].at = "payload"]
                /\ UNCHANGED <<rcUser, rcMod, rcPool, rcLeft>>
       \/ rcConn[c].up = <<>> /\ ~rcConn[c].cOpen /\ RemoveClient(c)

\* The rest of a request is lost when the client closes in the middle of it.
ServerReadPayload(c) ==
    /\ rcConn[c].at = "payload"
    /\ \/ HandleClientRecv(c, Head(rcConn[c].up))
       \/ ~rcConn[c].cOpen /\ RemoveClient(c)

\* The response is written; a kept connection reads its next request, another is removed.
HandleClientSent(c) ==
    \E sent \in {[rcConn EXCEPT ![c].down = IF rcConn[c].cOpen THEN Append(@, rcConn[c].req) ELSE @]} :
       IF rcConn[c].keep
       THEN /\ rcConn' = [sent EXCEPT ![c] = HttpActivate(@)]
            /\ UNCHANGED <<rcUser, rcMod, rcPool, rcLeft>>
       ELSE /\ rcConn' = [sent EXCEPT ![c].at = "gone", ![c].sOpen = FALSE]
            /\ RcPost([what |-> "broken", c |-> c])
            /\ UNCHANGED <<rcUser, rcPool, rcLeft>>

HandleWritenResponse(c) ==
    /\ rcConn[c].at = "write"
    /\ \/ HandleClientSent(c)
       \/ ~rcConn[c].cOpen /\ RemoveClient(c)

-----------------------------------------------------------------------------
(* The RPC module: one thread, one event at a time.                        *)
RcWork(c) == {w \in rcMod.work : w.c = c}
RcFront(c) == CHOOSE w \in RcWork(c) : \A v \in RcWork(c) : w.id <= v.id

\* Slip: the requests are taken from the back of the batch and numbered as they are handed out.
AssignWorkBack(pool, w) ==
    [pool EXCEPT !.q = @ \o [i \in 1..Len(w.items) |->
                                [c |-> w.c, id |-> w.id, sub |-> i, item |-> w.items[Len(w.items) + 1 - i]]]]

\* Every request of the batch goes to the workers under its place in the batch.
AssignWork(pool, w) ==
    [pool EXCEPT !.q = @ \o [i \in 1..Len(w.items) |-> [c |-> w.c, id |-> w.id, sub |-> i, item |-> w.items[i]]]]

\* A request of another version, or one that does not parse, is given up here: what went wrong is
\* written into a string that nothing sends.
HandleHttpReq(e) ==
    IF e.r.kind # "ok"
    THEN /\ rcMod' = [rcMod EXCEPT !.q = Tail(@)]
         /\ UNCHANGED rcPool
    ELSE \E w \in {[c |-> e.c, id |-> rcMod.id + 1, arr |-> e.r.arr, items |-> e.r.items,
                    resp |-> [i \in {} |-> RcNone]]} :
            /\ rcMod' = [rcMod EXCEPT !.q = Tail(@), !.id = @ + 1, !.work = @ \cup {w}]
            /\ rcPool' = IF RcWork(e.c) = {} THEN AssignWork(rcPool, w) ELSE rcPool

HandleHttpBroken(e) ==
    /\ rcMod' = [rcMod EXCEPT !.q = Tail(@), !.work = @ \ RcWork(e.c)]
    /\ UNCHANGED <<rcPool, rcConn>>

\* HandleEvent of an HttpRsp event: the io thread starts writing, if the connection is still there.
JsonReply(c, body) ==
    rcConn' = IF rcConn[c].at = "gone" THEN rcConn
              ELSE [rcConn EXCEPT ![c].at = "write", ![c].keep = TRUE, ![c].req = RcAnswer(200, body)]

RcResponses(w) == [i \in 1..Len(w.items) |-> w.resp[i]]

SaveResponse(w, e) ==
    [w EXCEPT !.resp = [i \in DOMAIN @ \cup {e.sub} |-> IF i \in DOMAIN @ THEN @[i] ELSE e.val]]

\* The last response of a work sends the answer and hands out the connection's next work.
FinishWork(e, w, v) ==
    IF DOMAIN v.resp # 1..Len(v.items)
    THEN /\ rcMod' = [rcMod EXCEPT !.q = Tail(@), !.work = (@ \ {w}) \cup {v}]
         /\ UNCHANGED <<rcPool, rcConn>>
    ELSE /\ JsonReply(e.c, RcResponses(v))
         /\ rcMod' = [rcMod EXCEPT !.q = Tail(@), !.work = @ \ {w}]
         /\ rcPool' = IF RcWork(e.c) = {w} THEN rcPool
                      ELSE AssignWork(rcPool, CHOOSE x \in RcWork(e.c) \ {w} :
                                                 \A y \in RcWork(e.c) \ {w} : x.id <= y.id)

HandleRPCModResponse(e) ==
    IF RcWork(e.c) = {} \/ (RcWork(e.c) # {} /\ (RcFront(e.c).id # e.id \/ e.sub \in DOMAIN RcFront(e.c).resp))
    THEN /\ rcMod' = [rcMod EXCEPT !.q = Tail(@)]
         /\ UNCHANGED <<rcPool, rcConn>>
    ELSE FinishWork(e, RcFront(e.c), SaveResponse(RcFront(e.c), e))

RPCModEvent ==
    /\ rcMod.q # <<>>
    /\ \/ Head(rcMod.q).what = "req" /\ HandleHttpReq(Head(rcMod.q)) /\ UNCHANGED rcConn
       \/ Head(rcMod.q).what = "broken" /\ HandleHttpBroken(Head(rcMod.q))
       \/ Head(rcMod.q).what = "resp" /\ HandleRPCModResponse(Head(rcMod.q))
    /\ UNCHANGED <<rcUser, rcLeft>>

-----------------------------------------------------------------------------
(* The worker threads.                                                     *)
WorkerTakes(t) ==
    /\ rcPool.thr[t] = RcNone /\ rcPool.q # <<>>
    /\ rcPool' = [rcPool EXCEPT !.q = Tail(@), !.thr[t] = Head(rcPool.q)]
    /\ UNCHANGED <<rcUser, rcConn, rcMod, rcLeft>>

\* An unknown method and a method that throws answer with an error.
Execute(item) == IF item.known /\ item.ok THEN <<"result", item.id>> ELSE <<"error", item.id>>

WorkerAnswers(t) ==
    /\ rcPool.thr[t] # RcNone
    /\ RcPost([what |-> "resp", c |-> rcPool.thr[t].c, id |-> rcPool.thr[t].id, sub |-> rcPool.thr[t].sub,
               val |-> Execute(rcPool.thr[t].item)])
    /\ rcPool' = [rcPool EXCEPT !.thr[t] = RcNone]
    /\ UNCHANGED <<rcUser, rcConn, rcLeft>>

-----------------------------------------------------------------------------
RcStart(s) ==
    /\ rcUser = [u \in RcUsers |-> RcNewUser(s.calls[u])]
    /\ rcConn = <<>>
    /\ rcMod = [q |-> <<>>, work |-> {}, id |-> 0]
    /\ rcPool = [q |-> <<>>, thr |-> [t \in RcThreads |-> RcNone]]
    /\ rcLeft = [fails |-> s.fails, halts |-> s.halts, byName |-> s.byName]
RcInit == \E s \in RcScripts : RcStart(s)

RcUserStep(u) ==
    \/ HostResolved(u) \/ ClientConnected(u) \/ HandleWritenRequest(u) \/ GetReadHeader(u)
    \/ GetReadPayload(u) \/ GetTimeout(u) \/ HandleHttpGetRsp(u)
RcServerStep(c) ==
    \/ HttpClientAccepted(c) \/ ServerReadHeader(c) \/ ServerReadPayload(c) \/ HandleWritenResponse(c)
RcWorkerStep(t) == WorkerTakes(t) \/ WorkerAnswers(t)

RcStep ==
    \/ \E u \in RcUsers : RcUserStep(u) \/ RpcGetResponse(u) \/ HostFailToResolve(u)
                             \/ ClientFailToConnect(u) \/ RpcClientHalt(u)
    \/ \E c \in 1..Len(rcConn) : RcServerStep(c)
    \/ RPCModEvent
    \/ \E t \in RcThreads : RcWorkerStep(t)

\* Threads run, timers fire and the kernel reports what happens to a connection.
RcFairness == \A u \in RcUsers : WF_rcVars(RcUserStep(u))
RcSpec == RcInit /\ [][RcStep]_rcVars /\ RcFairness

-----------------------------------------------------------------------------
\* What the server owes a request.
RcExpected(r) == [i \in 1..Len(r.items) |-> Execute(r.items[i])]

\* The answers a caller sees are the answers to its calls, in order, a batch in the order of its
\* requests however the workers' answers came in; otherwise the call was refused, or ended with an
\* error of the connection.  No answer is left over for the next call (GetResponse reuses nonce 1).
RcAnswersMatch ==
    \A u \in RcUsers : \E x \in {rcUser[u]} :
       /\ Len(x.got) + Len(x.q) <= x.n
       /\ \A i \in 1..Len(x.got) :
             /\ x.got[i].code = 200 => x.calls[i].kind = "ok" /\ x.got[i].body = RcExpected(x.calls[i])
             /\ x.got[i].code = 401 => x.calls[i].kind = "noauth"
             /\ x.got[i].code = 400 => x.calls[i].kind = "badform"

\* A request the module accepted is never forgotten: until the answer is being written, its event is
\* queued, or its work is listed and each request of the batch is answered or still with the workers.
RcRequestsKept ==
    \A c \in 1..Len(rcConn) :
       (rcConn[c].at = "busy" /\ rcConn[c].req.kind = "ok") =>
          \/ \E i \in 1..Len(rcMod.q) : rcMod.q[i].what = "req" /\ rcMod.q[i].c = c
          \/ \E w \in RcWork(c) : \A i \in 1..Len(w.items) :
                \/ i \in DOMAIN w.resp
                \/ \E k \in 1..Len(rcPool.q) : rcPool.q[k].id = w.id /\ rcPool.q[k].sub = i
                \/ \E t \in RcThreads : rcPool.thr[t] # RcNone /\ rcPool.thr[t].id = w.id /\ rcPool.thr[t].sub = i
                \/ \E k \in 1..Len(rcMod.q) : rcMod.q[k].what = "resp" /\ rcMod.q[k].id = w.id /\ rcMod.q[k].sub = i

\* A call returns to its caller: with an answer, with an error of the connection or of its timer.
RcCallsReturn == \A u \in RcUsers : []<>(rcUser[u].pc # "waiting")

\* Between a caller and the module nothing is mixed up and nothing is lost: answers match calls, and
\* a request that was accepted is with somebody until its answer is written.
RcExchangeKept == RcAnswersMatch /\ RcRequestsKept
=============================================================================
