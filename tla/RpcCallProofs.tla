--------------------------- MODULE RpcCallProofs ---------------------------
(***************************************************************************)
(* Proof that a call and its answer are not mixed up on their way through     *)
(* the client's connection, the http server, the RPC module and its workers,  *)
(* for any clients, calls, threads, failures and halts.                        *)
(***************************************************************************)
EXTENDS RpcCall, SequenceTheorems, TLAPS

RcValues == {"result", "error"} \X Nat
RcAnswers == [code : Int, body : Seq(RcValues)]
RcTasks == [c : Nat, id : Nat, sub : Nat, item : RcItems]
RcReqEvents == [what : {"req"}, c : Nat, r : RcRequests]
RcBrokenEvents == [what : {"broken"}, c : Nat]
RcRespEvents == [what : {"resp"}, c : Nat, id : Nat, sub : Nat, val : RcValues]
RcEvents == RcReqEvents \cup RcBrokenEvents \cup RcRespEvents
RcWorks == [c : Nat, id : Nat, arr : BOOLEAN, items : Seq(RcItems),
            resp : UNION {[D -> RcValues] : D \in SUBSET Nat}]
RcUserStates ==
    [calls : Seq(RcRequests), pc : {"idle", "waiting"}, n : Nat, req : {"none", "resolve", "connect"},
     dial : BOOLEAN, conn : Nat, op : {"idle", "write", "header", "payload"}, timer : BOOLEAN,
     q : Seq(RcAnswers), got : Seq(RcAnswers), halted : BOOLEAN]
RcConns ==
    [user : RcUsers, up : Seq(RcRequests), down : Seq(RcAnswers), cOpen : BOOLEAN,
     at : {"accept", "header", "payload", "busy", "write", "gone"}, sOpen : BOOLEAN, keep : BOOLEAN,
     req : RcRequests \cup RcAnswers \cup {RcNone}]

\* The parts of the state have their types.
UsersTyped == rcUser \in [RcUsers -> RcUserStates]
ConnsTyped ==
    /\ rcConn \in Seq(RcConns)
    /\ \A c \in 1..Len(rcConn) :
          /\ rcConn[c].at = "busy" => rcConn[c].req \in RcRequests
          /\ rcConn[c].at = "write" => rcConn[c].req \in RcAnswers
          /\ rcConn[c].at = "payload" => rcConn[c].up # <<>>
          /\ rcConn[c].sOpen <=> rcConn[c].at # "gone"
ModTyped == rcMod \in [q : Seq(RcEvents), work : SUBSET RcWorks, id : Nat]
PoolTyped == rcPool \in [q : Seq(RcTasks), thr : [RcThreads -> RcTasks \cup {RcNone}]]
LeftTyped == rcLeft \in [fails : Int, halts : Int, byName : BOOLEAN]
RcTyped == UsersTyped /\ ConnsTyped /\ ModTyped /\ PoolTyped /\ LeftTyped

\* An answer that may be given to the request r.
Fits(a, r) ==
    /\ a.code = 200 => r.kind = "ok" /\ a.body = RcExpected(r)
    /\ a.code = 401 => r.kind = "noauth"
    /\ a.code = 400 => r.kind = "badform"

\* The call is still on its way.
Pending(x) == x.op # "idle" \/ x.req # "none"

\* Each call has one place: on its way, answered but not handled, or handled.
UserRight(x) ==
    /\ x.n <= Len(x.calls)
    /\ x.conn = 0 => x.op = "idle"
    /\ x.req # "none" => x.conn = 0
    /\ x.timer => x.op # "idle"
    /\ x.halted => x.pc = "idle" /\ ~Pending(x) /\ x.conn = 0
    /\ Len(x.q) <= 1 /\ Len(x.got) + Len(x.q) <= x.n
    /\ Pending(x) => x.pc = "waiting" /\ x.q = <<>>
    /\ x.pc = "waiting" => Len(x.got) = x.n - 1
    /\ x.pc = "waiting" /\ ~Pending(x) => x.q # <<>>
    /\ x.pc = "idle" /\ ~x.halted => x.q = <<>> /\ Len(x.got) = x.n
    /\ \A i \in 1..Len(x.got) : Fits(x.got[i], x.calls[i])
    /\ x.q # <<>> => Fits(x.q[1], x.calls[Len(x.got) + 1])
UsersRight == \A u \in RcUsers : UserRight(rcUser[u])

\* Client and server agree on whose a connection is.
ConnsOwned ==
    /\ \A u \in RcUsers : rcUser[u].conn # 0 =>
          /\ rcUser[u].conn \in 1..Len(rcConn)
          /\ rcConn[rcUser[u].conn].user = u
          /\ rcConn[rcUser[u].conn].cOpen
    /\ \A c \in 1..Len(rcConn) : rcConn[c].cOpen => rcUser[rcConn[c].user].conn = c

\* What is under way on a connection that the client has open belongs to its present call.
Exchange(x, k) ==
    /\ k.at \in {"accept", "header", "payload"} /\ k.up # <<>> =>
          x.op = "header" /\ k.down = <<>> /\ k.up = <<x.calls[x.n]>>
    /\ k.at = "busy" => x.op = "header" /\ k.down = <<>> /\ k.req = x.calls[x.n]
    /\ k.at = "write" => x.op = "header" /\ k.down = <<>> /\ Fits(k.req, x.calls[x.n])
    /\ k.down # <<>> => x.op \in {"header", "payload"} /\ Len(k.down) = 1 /\ Fits(k.down[1], x.calls[x.n])
    /\ x.op = "payload" => k.down # <<>>
ConnsRight == \A c \in 1..Len(rcConn) : rcConn[c].cOpen => Exchange(rcUser[rcConn[c].user], rcConn[c])

\* A request is with the module once, as an event or as a work.
IsReq(e, c) == e.what = "req" /\ e.c = c
EventsRight ==
    /\ \A i \in 1..Len(rcMod.q) : rcMod.q[i].what = "req" =>
          /\ rcMod.q[i].c \in 1..Len(rcConn)
          /\ rcConn[rcMod.q[i].c].at = "busy" /\ rcConn[rcMod.q[i].c].req = rcMod.q[i].r
          /\ \A w \in rcMod.work : w.c # rcMod.q[i].c
          /\ \A j \in 1..Len(rcMod.q) : IsReq(rcMod.q[j], rcMod.q[i].c) => i = j
    /\ \A i \in 1..Len(rcMod.q) : rcMod.q[i].what = "broken" =>
          rcMod.q[i].c \in 1..Len(rcConn) /\ rcConn[rcMod.q[i].c].at = "gone"

WorksRight ==
    /\ \A w \in rcMod.work :
          /\ w.c \in 1..Len(rcConn) /\ w.id <= rcMod.id
          /\ rcConn[w.c].at = "busy" /\ rcConn[w.c].req.kind = "ok" /\ w.items = rcConn[w.c].req.items
          /\ DOMAIN w.resp \subseteq 1..Len(w.items)
          /\ \A i \in DOMAIN w.resp : w.resp[i] = Execute(w.items[i])
    /\ \A v, w \in rcMod.work : v.c = w.c \/ v.id = w.id => v = w

\* A request of a batch that is with the workers.
TaskFits(t, w) == t.id = w.id => t.c = w.c /\ t.sub \in 1..Len(w.items) /\ t.item = w.items[t.sub]
TaskRight(t, mod) == t.id <= mod.id /\ \A w \in mod.work : TaskFits(t, w)

\* A worker's answer that the module has not handled.
RespFits(e, w) ==
    e.id = w.id => e.c = w.c /\ e.sub \in 1..Len(w.items) /\ e.val = Execute(w.items[e.sub])
RespRight(e, mod) == e.what = "resp" => e.id <= mod.id /\ \A w \in mod.work : RespFits(e, w)
TasksRight ==
    /\ \A i \in 1..Len(rcPool.q) : TaskRight(rcPool.q[i], rcMod)
    /\ \A t \in RcThreads : rcPool.thr[t] # RcNone => TaskRight(rcPool.thr[t], rcMod)
    /\ \A i \in 1..Len(rcMod.q) : RespRight(rcMod.q[i], rcMod)

\* The request i of the batch w is answered or with somebody.
Served(mod, pool, w, i) ==
    \/ i \in DOMAIN w.resp
    \/ \E k \in 1..Len(pool.q) : pool.q[k].id = w.id /\ pool.q[k].sub = i
    \/ \E t \in RcThreads : pool.thr[t] # RcNone /\ pool.thr[t].id = w.id /\ pool.thr[t].sub = i
    \/ \E k \in 1..Len(mod.q) : mod.q[k].what = "resp" /\ mod.q[k].id = w.id /\ mod.q[k].sub = i
WorksServed == \A w \in rcMod.work : \A i \in 1..Len(w.items) : Served(rcMod, rcPool, w, i)

Accepted ==
    \A c \in 1..Len(rcConn) : rcConn[c].at = "busy" /\ rcConn[c].req.kind = "ok" =>
       \/ \E i \in 1..Len(rcMod.q) : IsReq(rcMod.q[i], c)
       \/ \E w \in rcMod.work : w.c = c

RcInv ==
    /\ RcTyped /\ UsersRight /\ ConnsOwned /\ ConnsRight
    /\ EventsRight /\ WorksRight /\ TasksRight /\ WorksServed /\ Accepted

-----------------------------------------------------------------------------
(* Sequences.                                                              *)
LEMMA NonEmpty ==
    ASSUME NEW S, NEW s \in Seq(S), s # <<>>
    PROVE  /\ Len(s) \in Nat /\ Len(s) >= 1 /\ 1 \in 1..Len(s) /\ Head(s) = s[1] /\ s[1] \in S
           /\ Tail(s) \in Seq(S) /\ Len(Tail(s)) = Len(s) - 1
           /\ \A i \in 1..Len(Tail(s)) : i + 1 \in 1..Len(s) /\ Tail(s)[i] = s[i + 1]
           /\ \A i \in 1..Len(s) : i # 1 => i - 1 \in 1..Len(Tail(s)) /\ Tail(s)[i - 1] = s[i]
  OBVIOUS

LEMMA OneElement ==
    ASSUME NEW S, NEW s \in Seq(S), s # <<>>, Len(s) <= 1
    PROVE  Len(s) = 1 /\ Tail(s) = <<>>
  <1>1. Len(s) \in Nat /\ Len(s) >= 1 /\ Tail(s) \in Seq(S) /\ Len(Tail(s)) = Len(s) - 1
    BY NonEmpty
  <1>2. Len(s) = 1 /\ Len(Tail(s)) = 0
    BY <1>1
  <1> QED
    BY <1>1, <1>2, EmptySeq, Zenon

LEMMA AppendIs ==
    ASSUME NEW S, NEW s \in Seq(S), NEW e \in S
    PROVE  /\ Append(s, e) \in Seq(S) /\ Len(s) \in Nat /\ Len(Append(s, e)) = Len(s) + 1
           /\ Append(s, e) # <<>> /\ Append(s, e)[Len(s) + 1] = e
           /\ \A i \in 1..Len(s) : i \in 1..Len(Append(s, e)) /\ Append(s, e)[i] = s[i]
           /\ \A i \in 1..Len(Append(s, e)) : i # Len(s) + 1 => i \in 1..Len(s)
  <1>1. /\ Append(s, e) \in Seq(S) /\ Len(s) \in Nat /\ Len(Append(s, e)) = Len(s) + 1
        /\ Append(s, e)[Len(s) + 1] = e
        /\ \A i \in 1..Len(s) : Append(s, e)[i] = s[i]
    OBVIOUS
  <1>2. Append(s, e) # <<>>
    BY <1>1
  <1>3. /\ \A i \in 1..Len(s) : i \in 1..Len(Append(s, e))
        /\ \A i \in 1..Len(Append(s, e)) : i # Len(s) + 1 => i \in 1..Len(s)
    BY <1>1
  <1> QED
    BY <1>1, <1>2, <1>3

-----------------------------------------------------------------------------
(* The client's process.                                                   *)

\* An error fits every request.
\* The codes of errors of the connection.
RcErrors == Int \ {HTTPGET_OK, 200, 400, 401}

LEMMA ErrorFits ==
    ASSUME NEW code \in RcErrors, NEW r
    PROVE  /\ RcError(code) \in RcAnswers
           /\ Fits(RcError(code), r)
           /\ RcError(code).code = code
  BY DEF RcErrors, RcError, RcAnswer, RcAnswers, Fits, RcNone

LEMMA AppendTyped ==
    ASSUME NEW x \in RcUserStates, NEW a \in RcAnswers
    PROVE  Append(x.q, a) \in Seq(RcAnswers)
  BY DEF RcUserStates

LEMMA ErrorCodes ==
    /\ HTTPGET_RESOLVE_FAILED \in RcErrors
    /\ HTTPGET_CONNECT_FAILED \in RcErrors
    /\ HTTPGET_INTERRUPTED \in RcErrors
    /\ HTTPGET_RESP_TIMEOUT \in RcErrors
    /\ HTTPGET_ABORTED \in RcErrors
  BY DEF HTTPGET_RESOLVE_FAILED, HTTPGET_CONNECT_FAILED, HTTPGET_INTERRUPTED, HTTPGET_RESP_TIMEOUT,
         HTTPGET_ABORTED, HTTPGET_OK, RcErrors

LEMMA PostFits ==
    ASSUME NEW x \in RcUserStates, NEW code \in RcErrors, NEW r
    PROVE  /\ RcError(code) \in RcAnswers
           /\ Fits(RcError(code), r)
           /\ Append(x.q, RcError(code)) \in Seq(RcAnswers)
  BY ErrorFits, AppendTyped, Zenon

\* A call on its way that gets an answer has one place.
Answered(x, y, a) ==
    /\ y \in RcUserStates
    /\ y.calls = x.calls /\ y.n = x.n /\ y.pc = x.pc /\ y.halted = x.halted
    /\ y.q = Append(x.q, a) /\ y.got = x.got /\ y.op = "idle" /\ ~y.timer /\ y.req = "none"

LEMMA AnsweredRight ==
    ASSUME NEW x \in RcUserStates, UserRight(x), Pending(x),
           NEW a \in RcAnswers, Fits(a, x.calls[x.n]), NEW y, Answered(x, y, a)
    PROVE  UserRight(y)
  <1> USE DEF Answered
  <1>1. x.pc = "waiting" /\ x.q = <<>> /\ Len(x.got) = x.n - 1 /\ ~x.halted
    BY DEF UserRight, RcUserStates
  <1>2. Append(x.q, a) = <<a>>
    BY <1>1
  <1>3. Len(y.q) = 1 /\ y.q[1] = a /\ y.q # <<>>
    BY <1>2
  <1>4. ~Pending(y) /\ ~y.halted /\ ~y.timer
    BY <1>1 DEF Pending
  <1>5. Len(x.got) \in Nat /\ x.n \in Nat /\ Len(x.calls) \in Nat
    BY DEF RcUserStates
  <1>6. Fits(y.q[1], y.calls[Len(y.got) + 1])
    BY <1>1, <1>3, <1>5
  <1>7. /\ x.n <= Len(x.calls)
        /\ \A i \in 1..Len(x.got) : Fits(x.got[i], x.calls[i])
    BY DEF UserRight
  <1> QED
    BY <1>1, <1>3, <1>4, <1>5, <1>6, <1>7 DEF UserRight

\* Where one process changes, and changes rightly, all are right.
LEMMA UserStepRight ==
    ASSUME UsersTyped, UsersRight, NEW u \in RcUsers, NEW y \in RcUserStates, UserRight(y),
           rcUser' = [rcUser EXCEPT ![u] = y]
    PROVE  UsersTyped' /\ UsersRight'
  <1>1. UsersTyped'
    BY DEF UsersTyped
  <1>2. ASSUME NEW v \in RcUsers PROVE UserRight(rcUser'[v])
    <2>1. CASE v = u BY <2>1 DEF UsersTyped
    <2>2. CASE v # u BY <2>2 DEF UsersTyped, UsersRight
    <2> QED BY <2>1, <2>2
  <1> QED
    BY <1>1, <1>2 DEF UsersRight

LEMMA ConnTyped ==
    ASSUME ConnsTyped, NEW c \in 1..Len(rcConn)
    PROVE  /\ Len(rcConn) \in Nat /\ c \in Nat /\ c # 0
           /\ rcConn[c] \in RcConns
           /\ rcConn[c].user \in RcUsers
           /\ rcConn[c].up \in Seq(RcRequests) /\ rcConn[c].down \in Seq(RcAnswers)
  <1>1. rcConn \in Seq(RcConns)
    BY DEF ConnsTyped
  <1>2. Len(rcConn) \in Nat /\ rcConn[c] \in RcConns
    BY <1>1
  <1> QED
    BY <1>2 DEF RcConns

\* The connections of the others are untouched when one process changes and keeps its own.
LEMMA UserKeepsConn ==
    ASSUME UsersTyped, ConnsTyped, ConnsOwned, ConnsRight, NEW u \in RcUsers, NEW y \in RcUserStates,
           rcUser' = [rcUser EXCEPT ![u] = y], rcConn' = rcConn,
           y.conn = rcUser[u].conn, y.conn # 0 => Exchange(y, rcConn[y.conn])
    PROVE  ConnsTyped' /\ ConnsOwned' /\ ConnsRight'
  <1>1. rcUser'[u] = y /\ \A v \in RcUsers : v # u => rcUser'[v] = rcUser[v]
    BY DEF UsersTyped
  <1>2. ConnsTyped'
    BY DEF ConnsTyped
  <1>3. \A v \in RcUsers : rcUser'[v].conn = rcUser[v].conn
    BY <1>1
  <1>4. \A c \in 1..Len(rcConn) : rcConn[c].user \in RcUsers
    BY ConnTyped, Zenon
  <1>5. ConnsOwned'
    BY <1>3, <1>4 DEF ConnsOwned
  <1>6. ASSUME NEW c \in 1..Len(rcConn), rcConn[c].cOpen
        PROVE  Exchange(rcUser'[rcConn[c].user], rcConn[c])
    <2>1. CASE rcConn[c].user = u
      <3>1. y.conn = c
        BY <1>6, <2>1 DEF ConnsOwned
      <3>2. y.conn # 0
        BY <3>1
      <3> QED BY <1>1, <2>1, <3>1, <3>2, Zenon
    <2>2. CASE rcConn[c].user # u
      BY <1>1, <1>4, <1>6, <2>2, Zenon DEF ConnsRight
    <2> QED BY <2>1, <2>2
  <1>7. ConnsRight'
    BY <1>6 DEF ConnsRight
  <1> QED
    BY <1>2, <1>5, <1>7

\* What a connection has to be by itself.
ConnRight(k) ==
    /\ k \in RcConns
    /\ k.at = "busy" => k.req \in RcRequests
    /\ k.at = "write" => k.req \in RcAnswers
    /\ k.at = "payload" => k.up # <<>>
    /\ k.sOpen <=> k.at # "gone"

LEMMA ConnStepTyped ==
    ASSUME ConnsTyped, NEW c \in 1..Len(rcConn), NEW k, ConnRight(k), rcConn' = [rcConn EXCEPT ![c] = k]
    PROVE  /\ ConnsTyped'
           /\ Len(rcConn') = Len(rcConn)
           /\ rcConn'[c] = k
           /\ \A d \in 1..Len(rcConn) : d # c => rcConn'[d] = rcConn[d]
  <1>1. rcConn \in Seq(RcConns) /\ k \in RcConns
    BY DEF ConnsTyped, ConnRight
  <1>2. /\ rcConn' \in Seq(RcConns) /\ Len(rcConn') = Len(rcConn)
        /\ rcConn'[c] = k
        /\ \A d \in 1..Len(rcConn) : d # c => rcConn'[d] = rcConn[d]
    BY <1>1
  <1>3. ASSUME NEW d \in 1..Len(rcConn')
        PROVE  ConnRight(rcConn'[d])
    <2>1. CASE d = c BY <1>2, <2>1, Zenon
    <2>2. CASE d # c
      <3>1. rcConn'[d] = rcConn[d] /\ d \in 1..Len(rcConn)
        BY <1>2, <2>2
      <3>2. rcConn[d] \in RcConns
        BY <3>1, ConnTyped, Zenon
      <3> QED BY <3>1, <3>2 DEF ConnsTyped, ConnRight
    <2> QED BY <2>1, <2>2
  <1>4. ConnsTyped'
    BY <1>2, <1>3, ZenonT(40) DEF ConnsTyped, ConnRight
  <1> QED
    BY <1>2, <1>4

\* A process and its connection change together.
LEMMA UserAndConn ==
    ASSUME UsersTyped, ConnsTyped, ConnsOwned, ConnsRight, NEW u \in RcUsers, NEW y \in RcUserStates,
           rcUser' = [rcUser EXCEPT ![u] = y], rcUser[u].conn # 0,
           NEW k, ConnRight(k), k.user = u,
           rcConn' = [rcConn EXCEPT ![rcUser[u].conn] = k],
           \/ k.cOpen /\ y.conn = rcUser[u].conn /\ Exchange(y, k)
           \/ ~k.cOpen /\ y.conn = 0
    PROVE  ConnsTyped' /\ ConnsOwned' /\ ConnsRight'
  <1> DEFINE c == rcUser[u].conn
  <1>1. rcUser'[u] = y /\ \A v \in RcUsers : v # u => rcUser'[v] = rcUser[v]
    BY Zenon DEF UsersTyped
  <1>2. c \in 1..Len(rcConn) /\ rcConn[c].user = u /\ rcConn[c].cOpen
    BY DEF ConnsOwned
  <1>3. rcConn' = [rcConn EXCEPT ![c] = k]
    OBVIOUS
  <1> HIDE DEF c
  <1>4. /\ ConnsTyped'
        /\ Len(rcConn') = Len(rcConn)
        /\ rcConn'[c] = k
        /\ \A d \in 1..Len(rcConn) : d # c => rcConn'[d] = rcConn[d]
    BY <1>2, <1>3, ConnStepTyped, Zenon
  <1>5. c # 0 /\ \A d \in 1..Len(rcConn) : rcConn[d].user \in RcUsers
    BY <1>2, ConnTyped, Zenon
  <1>6. ASSUME NEW v \in RcUsers, rcUser'[v].conn # 0
        PROVE  /\ rcUser'[v].conn \in 1..Len(rcConn')
               /\ rcConn'[rcUser'[v].conn].user = v
               /\ rcConn'[rcUser'[v].conn].cOpen
    <2>1. CASE v = u
      BY <1>1, <1>2, <1>4, <1>6, <2>1 DEF c
    <2>2. CASE v # u
      <3>1. rcUser'[v] = rcUser[v]
        BY <1>1, <2>2, Zenon
      <3>2. /\ rcUser[v].conn \in 1..Len(rcConn)
            /\ rcConn[rcUser[v].conn].user = v
            /\ rcConn[rcUser[v].conn].cOpen
        BY <3>1, <1>6 DEF ConnsOwned
      <3>3. rcUser[v].conn # c
        BY <3>2, <1>2, <2>2, Zenon
      <3> QED BY <3>1, <3>2, <3>3, <1>4, Zenon
    <2> QED BY <2>1, <2>2, Zenon
  <1>7. ASSUME NEW d \in 1..Len(rcConn), rcConn'[d].cOpen
        PROVE  /\ rcUser'[rcConn'[d].user].conn = d
               /\ Exchange(rcUser'[rcConn'[d].user], rcConn'[d])
    <2>1. CASE d = c
      BY <1>1, <1>4, <1>7, <2>1 DEF c
    <2>2. CASE d # c
      <3>1. rcConn'[d] = rcConn[d]
        BY <1>4, <2>2, Zenon
      <3>2. /\ rcUser[rcConn[d].user].conn = d
            /\ Exchange(rcUser[rcConn[d].user], rcConn[d])
        BY <3>1, <1>7, Zenon DEF ConnsOwned, ConnsRight
      <3>3. rcConn[d].user # u
        BY <3>2, <2>2 DEF c
      <3> QED BY <3>1, <3>2, <3>3, <1>1, <1>5, Zenon
    <2> QED BY <2>1, <2>2, Zenon
  <1> QED
    BY <1>4, <1>6, <1>7 DEF ConnsOwned, ConnsRight

\* The server changes a connection.
LEMMA ServerStepRight ==
    ASSUME ConnsTyped, ConnsOwned, ConnsRight, rcUser' = rcUser, NEW c \in 1..Len(rcConn),
           NEW k, ConnRight(k), k.user = rcConn[c].user, k.cOpen = rcConn[c].cOpen,
           rcConn' = [rcConn EXCEPT ![c] = k],
           k.cOpen => Exchange(rcUser[k.user], k)
    PROVE  ConnsTyped' /\ ConnsOwned' /\ ConnsRight'
  <1>1. /\ ConnsTyped'
        /\ Len(rcConn') = Len(rcConn)
        /\ rcConn'[c] = k
        /\ \A d \in 1..Len(rcConn) : d # c => rcConn'[d] = rcConn[d]
    BY ConnStepTyped, Zenon
  <1>2. \A d \in 1..Len(rcConn) : rcConn'[d].user = rcConn[d].user /\ rcConn'[d].cOpen = rcConn[d].cOpen
    BY <1>1, Zenon
  <1>3. ConnsOwned'
    BY <1>1, <1>2 DEF ConnsOwned
  <1>4. ASSUME NEW d \in 1..Len(rcConn), rcConn'[d].cOpen
        PROVE  Exchange(rcUser[rcConn'[d].user], rcConn'[d])
    <2>1. CASE d = c BY <1>1, <1>4, <2>1, Zenon
    <2>2. CASE d # c BY <1>1, <1>4, <2>2, Zenon DEF ConnsRight
    <2> QED BY <2>1, <2>2
  <1>5. ConnsRight'
    BY <1>1, <1>4 DEF ConnsRight
  <1> QED
    BY <1>1, <1>3, <1>5, Zenon

\* What the module and its workers hold depends only on which connections are busy, and with what.
ModuleRight == EventsRight /\ WorksRight /\ TasksRight /\ WorksServed /\ Accepted

LEMMA ModuleKept ==
    ASSUME ConnsTyped, ModuleRight, rcMod' = rcMod, rcPool' = rcPool,
           Len(rcConn') \in Nat, Len(rcConn) <= Len(rcConn'),
           \A c \in 1..Len(rcConn) : rcConn[c].at \in {"busy", "gone"} =>
              rcConn'[c].at = rcConn[c].at /\ rcConn'[c].req = rcConn[c].req,
           \A c \in 1..Len(rcConn') : rcConn'[c].at = "busy" => c \in 1..Len(rcConn) /\ rcConn[c].at = "busy"
    PROVE  ModuleRight'
  <1>1. Len(rcConn) \in Nat
    BY DEF ConnsTyped
  <1>2. 1..Len(rcConn) \subseteq 1..Len(rcConn')
    BY <1>1
  <1>a. \A c \in 1..Len(rcConn) : rcConn[c].at = "busy" \/ rcConn[c].at = "gone" =>
           rcConn'[c].at = rcConn[c].at /\ rcConn'[c].req = rcConn[c].req
    BY Zenon
  <1>b. EventsRight /\ WorksRight
    BY Zenon DEF ModuleRight
  <1>3. EventsRight'
    <2>1. ASSUME NEW i \in 1..Len(rcMod.q), rcMod.q[i].what = "req"
          PROVE  /\ rcMod.q[i].c \in 1..Len(rcConn')
                 /\ rcConn'[rcMod.q[i].c].at = "busy" /\ rcConn'[rcMod.q[i].c].req = rcMod.q[i].r
                 /\ \A w \in rcMod.work : w.c # rcMod.q[i].c
                 /\ \A j \in 1..Len(rcMod.q) : IsReq(rcMod.q[j], rcMod.q[i].c) => i = j
      <3>1. /\ rcMod.q[i].c \in 1..Len(rcConn)
            /\ rcConn[rcMod.q[i].c].at = "busy" /\ rcConn[rcMod.q[i].c].req = rcMod.q[i].r
            /\ \A w \in rcMod.work : w.c # rcMod.q[i].c
            /\ \A j \in 1..Len(rcMod.q) : IsReq(rcMod.q[j], rcMod.q[i].c) => i = j
        BY <1>b, <2>1, Zenon DEF EventsRight
      <3> QED BY <1>2, <1>a, <3>1, Zenon
    <2>2. ASSUME NEW i \in 1..Len(rcMod.q), rcMod.q[i].what = "broken"
          PROVE  rcMod.q[i].c \in 1..Len(rcConn') /\ rcConn'[rcMod.q[i].c].at = "gone"
      <3>1. rcMod.q[i].c \in 1..Len(rcConn) /\ rcConn[rcMod.q[i].c].at = "gone"
        BY <1>b, <2>2, Zenon DEF EventsRight
      <3> QED BY <1>2, <1>a, <3>1, Zenon
    <2> QED BY <2>1, <2>2, Zenon DEF EventsRight
  <1>4. WorksRight'
    <2>1. ASSUME NEW w \in rcMod.work
          PROVE  /\ w.c \in 1..Len(rcConn') /\ rcConn'[w.c].at = "busy"
                 /\ rcConn'[w.c].req = rcConn[w.c].req
      <3>1. w.c \in 1..Len(rcConn) /\ rcConn[w.c].at = "busy"
        BY <1>b, Zenon DEF WorksRight
      <3> QED BY <1>2, <1>a, <3>1, Zenon
    <2> QED BY <1>b, <2>1, ZenonT(40) DEF WorksRight
  <1>5. TasksRight' /\ WorksServed'
    BY DEF ModuleRight, TasksRight, WorksServed, Served
  <1>6. Accepted'
    BY Zenon DEF ModuleRight, Accepted
  <1> QED
    BY <1>3, <1>4, <1>5, <1>6, Zenon DEF ModuleRight

LEMMA ModuleSame ==
    ASSUME ModuleRight, rcMod' = rcMod, rcPool' = rcPool, rcConn' = rcConn
    PROVE  ModuleRight'
  BY DEF ModuleRight, EventsRight, WorksRight, TasksRight, WorksServed, Served, Accepted

LEMMA WorkSame ==
    ASSUME EventsRight, WorksRight, Accepted, rcMod' = rcMod, rcConn' = rcConn
    PROVE  EventsRight' /\ WorksRight' /\ Accepted'
  BY DEF EventsRight, WorksRight, Accepted

LEMMA RestTyped ==
    ASSUME ModTyped, PoolTyped, LeftTyped, rcMod' = rcMod, rcPool' = rcPool,
           \/ rcLeft' = rcLeft
           \/ rcLeft' = [rcLeft EXCEPT !.fails = @ - 1]
           \/ rcLeft' = [rcLeft EXCEPT !.halts = @ - 1]
    PROVE  ModTyped' /\ PoolTyped' /\ LeftTyped'
  BY DEF ModTyped, PoolTyped, LeftTyped

\* RcInv with its parts as the lemmas use them.
LEMMA RcInvParts ==
    RcInv <=> /\ UsersTyped /\ ConnsTyped /\ ModTyped /\ PoolTyped /\ LeftTyped
              /\ UsersRight /\ ConnsOwned /\ ConnsRight /\ ModuleRight
  BY DEF RcInv, RcTyped, ModuleRight

LEMMA RcInvPartsNext ==
    RcInv' <=> /\ UsersTyped' /\ ConnsTyped' /\ ModTyped' /\ PoolTyped' /\ LeftTyped'
               /\ UsersRight' /\ ConnsOwned' /\ ConnsRight' /\ ModuleRight'
  BY DEF RcInv, RcTyped, ModuleRight

LEMMA UserOf ==
    ASSUME UsersTyped, UsersRight, NEW u \in RcUsers
    PROVE  rcUser[u] \in RcUserStates /\ UserRight(rcUser[u])
  BY DEF UsersTyped, UsersRight

\* A step of one process that leaves its connection as it is.
LEMMA UserAlone ==
    ASSUME RcInv, NEW u \in RcUsers, NEW y \in RcUserStates, UserRight(y),
           rcUser' = [rcUser EXCEPT ![u] = y], rcConn' = rcConn, rcMod' = rcMod, rcPool' = rcPool,
           \/ rcLeft' = rcLeft
           \/ rcLeft' = [rcLeft EXCEPT !.fails = @ - 1],
           y.conn = rcUser[u].conn, y.conn # 0 => Exchange(y, rcConn[y.conn])
    PROVE  RcInv'
  BY RcInvParts, RcInvPartsNext, UserStepRight, UserKeepsConn, ModuleSame, RestTyped, Zenon

LEMMA ExchangeOf ==
    ASSUME ConnsOwned, ConnsRight, NEW u \in RcUsers, rcUser[u].conn # 0
    PROVE  /\ rcUser[u].conn \in 1..Len(rcConn)
           /\ rcConn[rcUser[u].conn].user = u /\ rcConn[rcUser[u].conn].cOpen
           /\ Exchange(rcUser[u], rcConn[rcUser[u].conn])
  BY DEF ConnsOwned, ConnsRight

-----------------------------------------------------------------------------
LEMMA RpcGetResponseRight ==
    ASSUME RcInv, NEW u \in RcUsers, RpcGetResponse(u)
    PROVE  RcInv'
  <1> DEFINE x == rcUser[u]
             y == HttpGet(RpcCalls(x), rcLeft.byName)
  <1>1. x \in RcUserStates /\ UserRight(x)
    BY RcInvParts, UserOf, Zenon
  <1>2. x.pc = "idle" /\ ~x.halted /\ x.n < Len(x.calls)
    BY DEF RpcGetResponse
  <1>3. rcUser' = [rcUser EXCEPT ![u] = y] /\ UNCHANGED <<rcConn, rcMod, rcPool, rcLeft>>
    BY Zenon DEF RpcGetResponse
  <1>4. x.op = "idle" /\ x.req = "none" /\ x.q = <<>> /\ Len(x.got) = x.n
    BY <1>1, <1>2 DEF UserRight, Pending
  <1>5. rcLeft.byName \in BOOLEAN
    BY RcInvParts, Zenon DEF LeftTyped
  <1>6. x.conn # 0 => Exchange(x, rcConn[x.conn])
    BY RcInvParts, ExchangeOf
  <1> HIDE DEF x
  <1>7. x.n + 1 \in Nat
    BY <1>1 DEF RcUserStates
  <1>8. /\ y \in RcUserStates
        /\ y.calls = x.calls /\ y.n = x.n + 1 /\ y.pc = "waiting" /\ y.conn = x.conn /\ y.halted = x.halted
        /\ y.q = x.q /\ y.got = x.got
        /\ IF x.conn = 0 THEN y.op = "idle" /\ y.req # "none" /\ y.timer = x.timer ELSE y.op = "write" /\ y.req = "none"
    <2> DEFINE z == RpcCalls(x)
    <2>1. /\ z \in RcUserStates
          /\ z.calls = x.calls /\ z.n = x.n + 1 /\ z.pc = "waiting" /\ z.conn = x.conn /\ z.halted = x.halted
          /\ z.q = x.q /\ z.got = x.got /\ z.op = "idle" /\ z.req = "none" /\ z.timer = x.timer
      BY <1>1, <1>4, <1>7, Zenon DEF RpcCalls, RcUserStates
    <2> HIDE DEF z
    <2>2. CASE x.conn = 0
      <3>1. y = [z EXCEPT !.req = IF rcLeft.byName THEN "resolve" ELSE "connect", !.dial = ~rcLeft.byName]
        BY <2>1, <2>2 DEF HttpGet, z
      <3>2. /\ (IF rcLeft.byName THEN "resolve" ELSE "connect") \in {"resolve", "connect"}
            /\ (~rcLeft.byName) \in BOOLEAN
        BY <1>5, Zenon
      <3> QED BY <3>1, <3>2, <2>1, <2>2, ZenonT(40) DEF RcUserStates
    <2>3. CASE x.conn # 0
      <3>1. y = [z EXCEPT !.conn = z.conn, !.op = "write", !.timer = TRUE]
        BY <2>1, <2>3 DEF HttpGet, GetActivate, z
      <3> QED BY <3>1, <2>1, <2>3, ZenonT(40) DEF RcUserStates
    <2> QED BY <2>2, <2>3
  <1> HIDE DEF y
  <1>9. UserRight(y)
    <2>1. x.n \in Nat /\ Len(x.calls) \in Nat
      BY <1>1 DEF RcUserStates
    <2> QED
      BY <1>1, <1>2, <1>4, <1>8, <2>1 DEF UserRight, Pending
  <1>10. y.conn # 0 => Exchange(y, rcConn[y.conn])
    BY <1>4, <1>6, <1>8, Zenon DEF Exchange
  <1> QED
    BY <1>3, <1>8, <1>9, <1>10, UserAlone, Zenon DEF x

LEMMA HostResolvedRight ==
    ASSUME RcInv, NEW u \in RcUsers, HostResolved(u)
    PROVE  RcInv'
  <1> DEFINE x == rcUser[u]
             y == [x EXCEPT !.req = "connect", !.dial = TRUE]
  <1>1. x \in RcUserStates /\ UserRight(x)
    BY RcInvParts, UserOf
  <1>2. x.req = "resolve" /\ rcUser' = [rcUser EXCEPT ![u] = y] /\ UNCHANGED <<rcConn, rcMod, rcPool, rcLeft>>
    BY RcInvParts, Zenon DEF HostResolved, UsersTyped, RcUserStates
  <1>3. x.conn = 0
    BY <1>1, <1>2 DEF UserRight
  <1> HIDE DEF x
  <1>4. /\ y \in RcUserStates
        /\ y.calls = x.calls /\ y.n = x.n /\ y.pc = x.pc /\ y.conn = 0 /\ y.halted = x.halted
        /\ y.q = x.q /\ y.got = x.got /\ y.op = x.op /\ y.timer = x.timer /\ y.req = "connect"
    BY <1>1, <1>3, Zenon DEF RcUserStates
  <1> HIDE DEF y
  <1>5. UserRight(y)
    BY <1>1, <1>2, <1>4, Zenon DEF UserRight, Pending
  <1> QED
    BY <1>2, <1>3, <1>4, <1>5, UserAlone, Zenon DEF x

LEMMA HostFailToResolveRight ==
    ASSUME RcInv, NEW u \in RcUsers, HostFailToResolve(u)
    PROVE  RcInv'
  <1> DEFINE x == rcUser[u]
             y == PostError([x EXCEPT !.req = "none"], HTTPGET_RESOLVE_FAILED)
             a == RcError(HTTPGET_RESOLVE_FAILED)
  <1>1. x \in RcUserStates /\ UserRight(x)
    BY RcInvParts, UserOf
  <1>2. /\ x.req = "resolve" /\ rcUser' = [rcUser EXCEPT ![u] = y] /\ UNCHANGED <<rcConn, rcMod, rcPool>>
        /\ rcLeft' = [rcLeft EXCEPT !.fails = @ - 1]
    BY Zenon DEF HostFailToResolve
  <1>3. x.conn = 0 /\ x.op = "idle" /\ ~x.timer /\ Pending(x)
    BY <1>1, <1>2, Zenon DEF UserRight, Pending, RcUserStates
  <1>4. a \in RcAnswers /\ Fits(a, x.calls[x.n]) /\ Append(x.q, a) \in Seq(RcAnswers)
    BY <1>1, ErrorCodes, PostFits, Zenon
  <1> HIDE DEF x
  <1>5. Answered(x, y, a) /\ y \in RcUserStates /\ y.conn = 0
    BY <1>1, <1>3, <1>4, Zenon DEF RcUserStates, PostError, Answered
  <1> HIDE DEF y, a
  <1>6. UserRight(y)
    BY <1>1, <1>3, <1>4, <1>5, AnsweredRight, Zenon
  <1> QED
    BY <1>2, <1>3, <1>5, <1>6, UserAlone, Zenon DEF x

LEMMA HandleHttpGetRspRight ==
    ASSUME RcInv, NEW u \in RcUsers, HandleHttpGetRsp(u)
    PROVE  RcInv'
  <1> DEFINE x == rcUser[u]
             y == [x EXCEPT !.q = Tail(@), !.got = Append(@, Head(x.q)), !.pc = "idle"]
  <1>1. x \in RcUserStates /\ UserRight(x)
    BY RcInvParts, UserOf
  <1>2. /\ x.q # <<>> /\ ~x.halted /\ UNCHANGED <<rcConn, rcMod, rcPool, rcLeft>>
        /\ rcUser' = [rcUser EXCEPT ![u] = y]
    BY RcInvParts, Zenon DEF HandleHttpGetRsp, UsersTyped
  <1>3. x.conn # 0 => Exchange(x, rcConn[x.conn])
    BY RcInvParts, ExchangeOf
  <1> HIDE DEF x
  <1>4. x.q \in Seq(RcAnswers) /\ x.got \in Seq(RcAnswers) /\ x.n \in Nat
    BY <1>1, Zenon DEF RcUserStates
  <1>5. Len(x.q) <= 1
    BY <1>1 DEF UserRight
  <1>6. /\ Tail(x.q) = <<>> /\ Tail(x.q) \in Seq(RcAnswers) /\ Head(x.q) = x.q[1] /\ Head(x.q) \in RcAnswers
        /\ Append(x.got, Head(x.q)) \in Seq(RcAnswers) /\ Len(Append(x.got, Head(x.q))) = Len(x.got) + 1
    BY <1>2, <1>4, <1>5, NonEmpty, OneElement, AppendIs
  <1>7. /\ x.pc = "waiting" /\ ~Pending(x) /\ Len(x.got) = x.n - 1
        /\ Fits(x.q[1], x.calls[Len(x.got) + 1])
    BY <1>1, <1>2, <1>4 DEF UserRight, RcUserStates
  <1>8. /\ y \in RcUserStates
        /\ y.calls = x.calls /\ y.n = x.n /\ y.pc = "idle" /\ y.conn = x.conn /\ y.halted = x.halted
        /\ y.q = <<>> /\ y.got = Append(x.got, Head(x.q)) /\ y.op = x.op /\ y.timer = x.timer /\ y.req = x.req
    BY <1>1, <1>6, Zenon DEF RcUserStates
  <1> HIDE DEF y
  <1>9. ASSUME NEW i \in 1..Len(y.got) PROVE Fits(y.got[i], y.calls[i])
    <2>1. CASE i = Len(x.got) + 1
      BY <2>1, <1>4, <1>6, <1>7, <1>8
    <2>2. CASE i # Len(x.got) + 1
      <3>1. i \in 1..Len(x.got) /\ y.got[i] = x.got[i]
        BY <2>2, <1>4, <1>6, <1>8
      <3> QED BY <3>1, <1>1, <1>8, Zenon DEF UserRight
    <2> QED BY <2>1, <2>2, Zenon
  <1>10. UserRight(y)
    BY <1>1, <1>2, <1>4, <1>6, <1>7, <1>8, <1>9 DEF UserRight, Pending
  <1>11. y.conn # 0 => Exchange(y, rcConn[y.conn])
    BY <1>3, <1>8, Zenon DEF Exchange
  <1> QED
    BY <1>2, <1>8, <1>10, <1>11, UserAlone, Zenon DEF x

LEMMA ClientFailToConnectRight ==
    ASSUME RcInv, NEW u \in RcUsers, ClientFailToConnect(u)
    PROVE  RcInv'
  <1> DEFINE x == rcUser[u]
             a == RcError(HTTPGET_CONNECT_FAILED)
             y == PostError([x EXCEPT !.req = "none", !.dial = FALSE], HTTPGET_CONNECT_FAILED)
             z == [x EXCEPT !.dial = FALSE]
  <1>1. x \in RcUserStates /\ UserRight(x)
    BY RcInvParts, UserOf
  <1>2. /\ UNCHANGED <<rcConn, rcMod, rcPool>> /\ rcLeft' = [rcLeft EXCEPT !.fails = @ - 1]
        /\ rcUser' = [rcUser EXCEPT ![u] = IF x.req = "connect" THEN y ELSE z]
    BY DEF ClientFailToConnect
  <1>3. x.conn # 0 => Exchange(x, rcConn[x.conn])
    BY RcInvParts, ExchangeOf
  <1>4. CASE x.req = "connect"
    <2>1. x.conn = 0 /\ x.op = "idle" /\ ~x.timer /\ Pending(x)
      BY <1>1, <1>4 DEF UserRight, Pending, RcUserStates
    <2>2. a \in RcAnswers /\ Fits(a, x.calls[x.n]) /\ Append(x.q, a) \in Seq(RcAnswers)
      BY <1>1, ErrorCodes, PostFits, Zenon
    <2> HIDE DEF x
    <2>3. Answered(x, y, a) /\ y \in RcUserStates /\ y.conn = 0
      BY <1>1, <2>1, <2>2, Zenon DEF RcUserStates, PostError, Answered
    <2> HIDE DEF y, a
    <2>4. UserRight(y)
      BY <1>1, <2>1, <2>2, <2>3, AnsweredRight, Zenon
    <2> QED
      BY <1>2, <1>4, <2>1, <2>3, <2>4, UserAlone, ZenonT(40) DEF x
  <1>5. CASE x.req # "connect"
    <2> HIDE DEF x
    <2>1. /\ z \in RcUserStates
          /\ z.calls = x.calls /\ z.n = x.n /\ z.pc = x.pc /\ z.conn = x.conn /\ z.halted = x.halted
          /\ z.q = x.q /\ z.got = x.got /\ z.op = x.op /\ z.timer = x.timer /\ z.req = x.req
      BY <1>1, Zenon DEF RcUserStates
    <2> HIDE DEF z
    <2>2. UserRight(z)
      BY <1>1, <2>1, Zenon DEF UserRight, Pending
    <2>3. z.conn # 0 => Exchange(z, rcConn[z.conn])
      BY <1>3, <2>1 DEF Exchange
    <2> QED
      BY <1>2, <1>5, <2>1, <2>2, <2>3, UserAlone, Zenon DEF x
  <1> QED
    BY <1>4, <1>5, Zenon

\* A process and its connection change, and the server's side of it does not.
UserMoves(u, y) ==
    /\ y \in RcUserStates /\ UserRight(y)
    /\ rcUser' = [rcUser EXCEPT ![u] = y] /\ UNCHANGED <<rcMod, rcPool>>
    /\ \/ rcLeft' = rcLeft
       \/ rcLeft' = [rcLeft EXCEPT !.halts = @ - 1]
ConnMoves(c, k) ==
    /\ ConnRight(k) /\ rcConn' = [rcConn EXCEPT ![c] = k]
    /\ k.user = rcConn[c].user /\ k.at = rcConn[c].at /\ k.req = rcConn[c].req
OwnConn(x, y, k) ==
    \/ k.cOpen /\ y.conn = x.conn /\ Exchange(y, k)
    \/ ~k.cOpen /\ y.conn = 0

LEMMA UserWithConn ==
    ASSUME RcInv, NEW u \in RcUsers, NEW y, NEW k, UserMoves(u, y), rcUser[u].conn # 0,
           ConnMoves(rcUser[u].conn, k), OwnConn(rcUser[u], y, k)
    PROVE  RcInv'
  <1> USE DEF UserMoves, ConnMoves, OwnConn
  <1>0. k.user = u
    BY RcInvParts, ExchangeOf, Zenon
  <1>1. UsersTyped' /\ UsersRight'
    BY RcInvParts, UserStepRight, Zenon
  <1>2. ConnsTyped' /\ ConnsOwned' /\ ConnsRight'
    BY <1>0, RcInvParts, UserAndConn, Zenon
  <1>3. ModTyped' /\ PoolTyped' /\ LeftTyped'
    BY RcInvParts, RestTyped
  <1> DEFINE c == rcUser[u].conn
  <1>4. c \in 1..Len(rcConn)
    BY RcInvParts, ExchangeOf, Zenon
  <1>5. ConnsTyped /\ ModuleRight
    BY RcInvParts, Zenon
  <1>6. rcConn' = [rcConn EXCEPT ![c] = k] /\ k.at = rcConn[c].at /\ k.req = rcConn[c].req
    OBVIOUS
  <1> HIDE DEF c
  <1>7. /\ Len(rcConn') = Len(rcConn) /\ rcConn'[c] = k
        /\ \A d \in 1..Len(rcConn) : d # c => rcConn'[d] = rcConn[d]
    BY <1>4, <1>5, <1>6, ConnStepTyped, ZenonT(40)
  <1>8. \A d \in 1..Len(rcConn) : rcConn'[d].at = rcConn[d].at /\ rcConn'[d].req = rcConn[d].req
    BY <1>6, <1>7, Zenon
  <1>9. Len(rcConn) \in Nat
    BY <1>5 DEF ConnsTyped
  <1>10. ModuleRight'
    BY <1>5, <1>7, <1>8, <1>9, ModuleKept
  <1> QED
    BY <1>1, <1>2, <1>3, <1>10, RcInvPartsNext, Zenon

\* A connection that its client closes.
Closed(j) == [j EXCEPT !.cOpen = FALSE, !.down = <<>>]

LEMMA ClosedConn ==
    ASSUME ConnsTyped, NEW c \in 1..Len(rcConn), rcConn' = CloseNet(c)
    PROVE  ConnMoves(c, Closed(rcConn[c])) /\ ~Closed(rcConn[c]).cOpen
  <1> DEFINE j == rcConn[c]
             k == Closed(j)
  <1>1. j \in RcConns
    BY ConnTyped
  <1>2. rcConn' = [rcConn EXCEPT ![c] = k]
    <2>1. rcConn \in Seq(RcConns) BY Zenon DEF ConnsTyped
    <2> QED BY <1>1, <2>1, Zenon DEF CloseNet, Closed
  <1>3. /\ j.at = "busy" => j.req \in RcRequests
        /\ j.at = "write" => j.req \in RcAnswers
        /\ j.at = "payload" => j.up # <<>>
        /\ j.sOpen <=> j.at # "gone"
    BY DEF ConnsTyped
  <1>4. <<>> \in Seq(RcAnswers)
    OBVIOUS
  <1> HIDE DEF j
  <1>5. /\ k \in RcConns
        /\ k.user = j.user /\ k.at = j.at /\ k.req = j.req /\ k.up = j.up /\ k.sOpen = j.sOpen /\ ~k.cOpen
    BY <1>1, <1>4, Zenon DEF RcConns, Closed
  <1> HIDE DEF k
  <1>6. ConnRight(k)
    BY <1>3, <1>5, Zenon DEF ConnRight
  <1> QED
    BY <1>2, <1>5, <1>6, Zenon DEF j, k, ConnMoves

\* A new connection, which is the process's own if that still wants one.
LEMMA ClientConnectedRight ==
    ASSUME RcInv, NEW u \in RcUsers, ClientConnected(u)
    PROVE  RcInv'
  <1> DEFINE x == rcUser[u]
             n == Len(rcConn) + 1
             k == [user |-> u, up |-> <<>>, down |-> <<>>, cOpen |-> x.req = "connect",
                   at |-> "accept", sOpen |-> TRUE, keep |-> FALSE, req |-> RcNone]
             y == IF x.req = "connect" THEN GetActivate([x EXCEPT !.req = "none", !.dial = FALSE], n)
                  ELSE [x EXCEPT !.dial = FALSE]
  <1>1. x \in RcUserStates /\ UserRight(x)
    BY RcInvParts, UserOf
  <1>2. /\ rcConn' = Append(rcConn, k) /\ rcUser' = [rcUser EXCEPT ![u] = y]
        /\ UNCHANGED <<rcMod, rcPool, rcLeft>>
    BY DEF ClientConnected
  <1>3. rcConn \in Seq(RcConns) /\ Len(rcConn) \in Nat /\ n \in Nat /\ n # 0
    BY RcInvParts DEF ConnsTyped
  <1>4. /\ ConnRight(k)
        /\ k.user = u /\ k.at = "accept" /\ k.up = <<>> /\ k.down = <<>>
        /\ k.cOpen <=> x.req = "connect"
    <2>1. /\ <<>> \in Seq(RcAnswers) /\ <<>> \in Seq(RcRequests)
          /\ (x.req = "connect") \in BOOLEAN
      OBVIOUS
    <2>2. k \in RcConns
      BY <2>1, Zenon DEF RcConns
    <2> QED BY <2>2, Zenon DEF ConnRight
  <1>5. x.req = "connect" => x.conn = 0 /\ Pending(x)
    BY <1>1, Zenon DEF UserRight, Pending
  <1> HIDE DEF x
  <1>6. /\ y \in RcUserStates
        /\ y.calls = x.calls /\ y.n = x.n /\ y.pc = x.pc /\ y.halted = x.halted
        /\ y.q = x.q /\ y.got = x.got
        /\ IF x.req = "connect" THEN y.conn = n /\ y.op = "write" /\ y.req = "none"
           ELSE y.conn = x.conn /\ y.op = x.op /\ y.req = x.req /\ y.timer = x.timer
    <2>1. CASE x.req = "connect"
      <3>1. y = [[x EXCEPT !.req = "none", !.dial = FALSE] EXCEPT !.conn = n, !.op = "write", !.timer = TRUE]
        BY <2>1, Zenon DEF GetActivate
      <3> HIDE DEF y, n
      <3> QED BY <1>1, <1>3, <2>1, <3>1, Zenon DEF RcUserStates
    <2>2. CASE x.req # "connect"
      BY <1>1, <2>2, Zenon DEF RcUserStates
    <2> QED BY <2>1, <2>2, Zenon
  <1> HIDE DEF y, k
  <1>7. UserRight(y)
    BY <1>1, <1>3, <1>5, <1>6, Zenon DEF UserRight, Pending
  <1>8. UsersTyped' /\ UsersRight'
    BY <1>2, <1>6, <1>7, RcInvParts, UserStepRight, Zenon
  <1>9. /\ rcConn' \in Seq(RcConns) /\ Len(rcConn') = n /\ rcConn'[n] = k
        /\ \A d \in 1..Len(rcConn) : d \in 1..n /\ d # n /\ d # 0 /\ rcConn'[d] = rcConn[d]
        /\ \A d \in 1..n : d # n => d \in 1..Len(rcConn)
        /\ n \in 1..n
    BY <1>2, <1>3, <1>4, AppendIs DEF ConnRight
  <1>10. \A d \in 1..Len(rcConn) : rcConn[d].user \in RcUsers
    BY ConnTyped, RcInvParts, Zenon
  <1>11. rcUser'[u] = y /\ \A v \in RcUsers : v # u => rcUser'[v] = rcUser[v]
    BY <1>2, RcInvParts, Zenon DEF UsersTyped
  <1>12. ConnsOwned /\ ConnsRight /\ ConnsTyped /\ ModuleRight
    BY RcInvParts, Zenon
  <1> HIDE DEF n
  <1>13. ConnsTyped'
    <2>1. ASSUME NEW d \in 1..n PROVE ConnRight(rcConn'[d])
      <3>1. CASE d = n BY <3>1, <1>4, <1>9, Zenon
      <3>2. CASE d # n
        <4>1. d \in 1..Len(rcConn) /\ rcConn'[d] = rcConn[d] /\ rcConn[d] \in RcConns
          BY <3>2, <1>9, <1>12, ConnTyped, Zenon
        <4> QED BY <4>1, <1>12, Zenon DEF ConnsTyped, ConnRight
      <3> QED BY <3>1, <3>2, Zenon
    <2> QED BY <2>1, <1>9, Zenon DEF ConnsTyped, ConnRight
  <1>14. ASSUME NEW v \in RcUsers, rcUser'[v].conn # 0
         PROVE  /\ rcUser'[v].conn \in 1..n
                /\ rcConn'[rcUser'[v].conn].user = v
                /\ rcConn'[rcUser'[v].conn].cOpen
    <2>1. CASE v = u /\ x.req = "connect"
      BY <2>1, <1>4, <1>6, <1>9, <1>11, Zenon
    <2>2. CASE ~(v = u /\ x.req = "connect")
      <3>1. rcUser'[v].conn = rcUser[v].conn
        BY <2>2, <1>6, <1>11, Zenon DEF x
      <3>2. /\ rcUser[v].conn \in 1..Len(rcConn) /\ rcConn[rcUser[v].conn].user = v
            /\ rcConn[rcUser[v].conn].cOpen
        BY <3>1, <1>12, <1>14, Zenon DEF ConnsOwned
      <3> QED BY <3>1, <3>2, <1>9
    <2> QED BY <2>1, <2>2, Zenon
  <1>15. ASSUME NEW d \in 1..n, rcConn'[d].cOpen
         PROVE  /\ rcUser'[rcConn'[d].user].conn = d
                /\ Exchange(rcUser'[rcConn'[d].user], rcConn'[d])
    <2>1. CASE d = n
      <3>1. x.req = "connect" /\ rcConn'[d] = k /\ rcUser'[rcConn'[d].user] = y
        BY <2>1, <1>4, <1>9, <1>11, <1>15, ZenonT(40)
      <3> QED BY <2>1, <3>1, <1>4, <1>6, Zenon DEF Exchange
    <2>2. CASE d # n
      <3>1. d \in 1..Len(rcConn) /\ rcConn'[d] = rcConn[d] /\ d # 0
        BY <2>2, <1>9, Zenon
      <3>2. rcUser[rcConn[d].user].conn = d /\ Exchange(rcUser[rcConn[d].user], rcConn[d])
        BY <3>1, <1>12, <1>15, ZenonT(40) DEF ConnsOwned, ConnsRight
      <3>3. CASE rcConn[d].user = u
        <4>1. x.conn = d /\ x.req # "connect"
          BY <3>1, <3>2, <3>3, <1>5, Zenon DEF x
        <4> QED BY <4>1, <3>1, <3>2, <3>3, <1>6, <1>11 DEF Exchange, x
      <3>4. CASE rcConn[d].user # u
        BY <3>1, <3>2, <3>4, <1>10, <1>11, Zenon
      <3> QED BY <3>3, <3>4, Zenon
    <2> QED BY <2>1, <2>2, Zenon
  <1>16. ConnsOwned' /\ ConnsRight'
    BY <1>9, <1>14, <1>15, Zenon DEF ConnsOwned, ConnsRight
  <1>17. ModuleRight'
    <2>1. Len(rcConn) <= Len(rcConn') /\ Len(rcConn') \in Nat
      BY <1>3, <1>9 DEF n
    <2>2. \A c \in 1..Len(rcConn') : rcConn'[c].at = "busy" => c \in 1..Len(rcConn) /\ rcConn[c].at = "busy"
      BY <1>4, <1>9
    <2> QED BY <2>1, <2>2, <1>2, <1>9, <1>12, ModuleKept, Zenon
  <1> QED
    BY <1>2, <1>8, <1>13, <1>16, <1>17, RcInvParts, RcInvPartsNext, RestTyped, Zenon

\* What CloseConn does to a call that is on its connection.
LEMMA CloseConnIs ==
    ASSUME NEW x \in RcUserStates, UserRight(x), x.op # "idle",
           NEW code \in RcErrors
    PROVE  /\ CloseConn(x, code) \in RcUserStates
           /\ UserRight(CloseConn(x, code))
           /\ CloseConn(x, code).conn = 0 /\ CloseConn(x, code).req = "none"
           /\ ~Pending(CloseConn(x, code)) /\ CloseConn(x, code).halted = x.halted
           /\ x.conn # 0 /\ x.req = "none"
  <1> DEFINE y == CloseConn(x, code)
             a == RcError(code)
  <1>1. x.conn # 0 /\ x.req = "none" /\ Pending(x)
    BY Zenon DEF UserRight, Pending
  <1>2. a \in RcAnswers /\ Fits(a, x.calls[x.n]) /\ Append(x.q, a) \in Seq(RcAnswers)
    BY PostFits, Zenon
  <1>3. y = [[x EXCEPT !.q = Append(@, a)] EXCEPT !.timer = FALSE, !.conn = 0, !.op = "idle"]
    BY ZenonT(40) DEF CloseConn, PostError, RcErrors
  <1>4. 0 \in Nat
    OBVIOUS
  <1> HIDE DEF y, a
  <1>5. Answered(x, y, a) /\ y \in RcUserStates /\ y.conn = 0
    BY <1>1, <1>2, <1>3, <1>4, Zenon DEF RcUserStates, Answered
  <1>6. UserRight(y)
    BY <1>1, <1>2, <1>5, AnsweredRight
  <1>7. ~Pending(y) /\ y.req = "none" /\ y.halted = x.halted
    BY <1>5 DEF Pending, Answered
  <1> QED
    BY <1>1, <1>5, <1>6, <1>7, Zenon DEF y

\* The client closes its connection with an error.
LEMMA CloseConnRight ==
    ASSUME RcInv, NEW u \in RcUsers, rcUser[u].op # "idle",
           NEW code \in RcErrors,
           rcUser' = [rcUser EXCEPT ![u] = CloseConn(@, code)], rcConn' = CloseNet(rcUser[u].conn),
           UNCHANGED <<rcMod, rcPool, rcLeft>>
    PROVE  RcInv'
  <1> DEFINE y == CloseConn(rcUser[u], code)
             c == rcUser[u].conn
             k == Closed(rcConn[c])
  <1>1. /\ y \in RcUserStates /\ UserRight(y) /\ y.conn = 0 /\ c # 0
    BY RcInvParts, UserOf, CloseConnIs, Zenon
  <1>2. UserMoves(u, y)
    BY <1>1, Zenon DEF UserMoves
  <1>3. c \in 1..Len(rcConn) /\ ConnsTyped
    BY <1>1, RcInvParts, ExchangeOf, Zenon
  <1>4. ConnMoves(c, k) /\ ~k.cOpen
    BY <1>3, ClosedConn
  <1>5. OwnConn(rcUser[u], y, k)
    BY <1>1, <1>4, Zenon DEF OwnConn
  <1> HIDE DEF y, k
  <1> QED
    BY <1>1, <1>2, <1>4, <1>5, UserWithConn, Zenon

LEMMA GetHandleErrorRight ==
    ASSUME RcInv, NEW u \in RcUsers, rcUser[u].op # "idle", GetHandleError(u)
    PROVE  RcInv'
  <1>1. HTTPGET_INTERRUPTED \in RcErrors
    BY ErrorCodes, Zenon
  <1> QED
    BY <1>1, CloseConnRight, Zenon DEF GetHandleError

LEMMA GetTimeoutRight ==
    ASSUME RcInv, NEW u \in RcUsers, GetTimeout(u)
    PROVE  RcInv'
  <1>1. HTTPGET_RESP_TIMEOUT \in RcErrors
    BY ErrorCodes, Zenon
  <1>2. rcUser[u].op # "idle"
    BY RcInvParts, UserOf, Zenon DEF GetTimeout, UserRight
  <1> QED
    BY <1>1, <1>2, CloseConnRight, Zenon DEF GetTimeout

LEMMA HandleWritenRequestRight ==
    ASSUME RcInv, NEW u \in RcUsers, HandleWritenRequest(u)
    PROVE  RcInv'
  <1> DEFINE x == rcUser[u]
             j == rcConn[x.conn]
             y == [x EXCEPT !.op = "header"]
             k == [j EXCEPT !.up = IF j.sOpen THEN Append(@, RcRequest(u)) ELSE @]
  <1>1. x.op = "write"
    BY DEF HandleWritenRequest
  <1>2. CASE ~j.sOpen /\ GetHandleError(u)
    BY <1>1, <1>2, GetHandleErrorRight, Zenon
  <1>3. CASE /\ rcUser' = [rcUser EXCEPT ![u].op = "header"]
             /\ rcConn' = [rcConn EXCEPT ![x.conn].up = IF j.sOpen THEN Append(@, RcRequest(u)) ELSE @]
             /\ UNCHANGED <<rcMod, rcPool, rcLeft>>
    <2>1. x \in RcUserStates /\ UserRight(x)
      BY RcInvParts, UserOf
    <2>2. x.conn # 0 /\ Pending(x) /\ x.req = "none" /\ x.pc = "waiting" /\ x.q = <<>> /\ Len(x.got) = x.n - 1
      BY <1>1, <2>1, Zenon DEF UserRight, Pending
    <2>3. /\ x.conn \in 1..Len(rcConn) /\ j.user = u /\ j.cOpen /\ Exchange(x, j)
      BY <2>2, RcInvParts, ExchangeOf, Zenon
    <2>4. /\ j \in RcConns /\ ConnRight(j) /\ j.up \in Seq(RcRequests)
      <3>1. ConnsTyped BY RcInvParts, Zenon
      <3>2. j \in RcConns /\ j.up \in Seq(RcRequests)
        BY <2>3, <3>1, ConnTyped, Zenon
      <3> QED BY <2>3, <3>1, <3>2, Zenon DEF ConnsTyped, ConnRight
    <2>5. x.calls[x.n] \in RcRequests
      <3>1. x.n \in Nat /\ Len(x.got) \in Nat /\ x.n <= Len(x.calls) /\ x.calls \in Seq(RcRequests)
        BY <2>1 DEF RcUserStates, UserRight
      <3>2. x.n \in 1..Len(x.calls)
        BY <3>1, <2>2
      <3> QED BY <3>1, <3>2
    <2>6. /\ rcUser' = [rcUser EXCEPT ![u] = y] /\ rcConn' = [rcConn EXCEPT ![x.conn] = k]
      BY <1>3, Zenon
    <2>7. RcRequest(u) = x.calls[x.n]
      BY Zenon DEF RcRequest
    <2>8. j.sOpen => j.up = <<>> /\ j.at \in {"accept", "header"}
      <3>1. j.at \in {"accept", "header", "payload", "busy", "write", "gone"}
        BY <2>4 DEF RcConns
      <3>2. j.sOpen => j.at # "gone"
        BY <2>4, Zenon DEF ConnRight
      <3>3. j.at = "payload" => j.up # <<>>
        BY <2>4 DEF ConnRight
      <3> QED BY <1>1, <2>3, <3>1, <3>2, <3>3, Zenon DEF Exchange
    <2> HIDE DEF x, j
    <2>9. /\ y \in RcUserStates
          /\ y.calls = x.calls /\ y.n = x.n /\ y.pc = x.pc /\ y.conn = x.conn /\ y.halted = x.halted
          /\ y.q = x.q /\ y.got = x.got /\ y.op = "header" /\ y.timer = x.timer /\ y.req = x.req
      BY <2>1, Zenon DEF RcUserStates
    <2> HIDE DEF y
    <2>10. ConnMoves(x.conn, k) /\ OwnConn(x, y, k)
      <3>1. CASE j.sOpen
        <4>0. j.up = <<>>
          BY <2>8, <3>1, Zenon
        <4>1. Append(j.up, RcRequest(u)) = <<x.calls[x.n]>>
          BY <2>7, <4>0
        <4>2. k = [j EXCEPT !.up = <<x.calls[x.n]>>] /\ <<x.calls[x.n]>> \in Seq(RcRequests) /\ <<x.calls[x.n]>> # <<>>
          BY <4>1, <2>5, <3>1
        <4> HIDE DEF k
        <4>3. /\ k \in RcConns /\ k.up = <<x.calls[x.n]>> /\ k.at = j.at /\ k.req = j.req /\ k.user = j.user
              /\ k.cOpen = j.cOpen /\ k.sOpen = j.sOpen /\ k.down = j.down
          BY <2>4, <4>2, Zenon DEF RcConns
        <4>4. ConnRight(k)
          BY <2>4, <4>2, <4>3, Zenon DEF ConnRight
        <4>5. Exchange(y, k)
          BY <1>1, <2>3, <2>8, <2>9, <3>1, <4>3, Zenon DEF Exchange
        <4> QED
          BY <2>3, <4>3, <4>4, <4>5, <2>9, <2>6, Zenon DEF OwnConn, ConnMoves, j
      <3>2. CASE ~j.sOpen
        <4>1. k = j
          BY <2>4, <3>2, Zenon DEF RcConns
        <4>2. j.at = "gone"
          BY <2>4, <3>2, Zenon DEF ConnRight
        <4>3. Exchange(y, j)
          BY <1>1, <2>3, <2>9, <4>2, Zenon DEF Exchange
        <4> QED
          BY <2>3, <2>4, <4>1, <4>3, <2>9, <2>6, Zenon DEF OwnConn, ConnMoves, j
      <3> QED
        BY <3>1, <3>2
    <2> HIDE DEF y, k
    <2>12. UserRight(y)
      BY <1>1, <2>1, <2>2, <2>9, Zenon DEF UserRight, Pending
    <2>13. UserMoves(u, y)
      BY <1>3, <2>6, <2>9, <2>12, Zenon DEF UserMoves
    <2> QED
      BY <2>2, <2>10, <2>13, UserWithConn, Zenon DEF x
  <1> QED
    BY <1>2, <1>3, Zenon DEF HandleWritenRequest

\* The answer on the connection fits the call.
LEMMA CompletedRight ==
    ASSUME RcInv, NEW u \in RcUsers, rcUser[u].conn # 0, rcConn[rcUser[u].conn].down # <<>>,
           HandleClientCompleted(u, Head(rcConn[rcUser[u].conn].down))
    PROVE  RcInv'
  <1> DEFINE x == rcUser[u]
             j == rcConn[x.conn]
             a == Head(j.down)
             z == GetCompleted(x, a)
             y == IF a.code = 200 THEN z ELSE CloseConn(z, HTTPGET_OK)
             b == a.code = 200
             k == [j EXCEPT !.down = Tail(@), !.cOpen = b]
  <1>1. x \in RcUserStates /\ UserRight(x)
    BY RcInvParts, UserOf, Zenon
  <1>2. x.conn # 0 /\ x.conn \in 1..Len(rcConn) /\ j.user = u /\ j.cOpen /\ Exchange(x, j)
    BY RcInvParts, ExchangeOf
  <1>3. j \in RcConns /\ j.down \in Seq(RcAnswers) /\ j.down # <<>>
    BY <1>2, RcInvParts, ConnTyped, Zenon
  <1>4. ConnRight(j)
    BY <1>2, <1>3, RcInvParts, Zenon DEF ConnsTyped, ConnRight
  <1>5. x.op \in {"header", "payload"} /\ Len(j.down) = 1 /\ Len(j.down) <= 1 /\ Fits(j.down[1], x.calls[x.n])
    <2>1. x.op \in {"header", "payload"} /\ Len(j.down) = 1 /\ Fits(j.down[1], x.calls[x.n])
      BY <1>2, <1>3, Zenon DEF Exchange
    <2> QED BY <2>1
  <1>6. a = j.down[1] /\ a \in RcAnswers /\ Tail(j.down) = <<>> /\ Fits(a, x.calls[x.n])
    <2>1. j.down[1] \in RcAnswers /\ Head(j.down) = j.down[1] /\ Tail(j.down) = <<>>
      BY <1>3, <1>5, NonEmpty, OneElement, ZenonT(40)
    <2> QED BY <1>5, <2>1, Zenon
  <1>7. Pending(x) /\ x.req = "none"
    BY <1>1, <1>2, <1>5, Zenon DEF UserRight, Pending
  <1>8. Append(x.q, a) \in Seq(RcAnswers) /\ <<>> \in Seq(RcAnswers) /\ b \in BOOLEAN /\ 0 \in Nat
    <2>1. Append(x.q, a) \in Seq(RcAnswers)
      <3> HIDE DEF x, a
      <3> QED BY <1>1, <1>6, AppendTyped, Zenon
    <2>2. b \in BOOLEAN
      BY Zenon
    <2> HIDE DEF x, a, b
    <2> QED BY <2>1, <2>2
  <1>9. /\ rcUser' = [rcUser EXCEPT ![u] = y] /\ UNCHANGED <<rcMod, rcPool, rcLeft>>
        /\ rcConn' = [rcConn EXCEPT ![x.conn].down = Tail(@), ![x.conn].cOpen = b]
    BY DEF HandleClientCompleted
  <1>10. rcConn' = [rcConn EXCEPT ![x.conn] = k]
    <2>1. rcConn \in Seq(RcConns) BY RcInvParts DEF ConnsTyped
    <2> QED BY <1>2, <1>9, <2>1, ZenonT(40)
  <1> HIDE DEF x, j, a, b
  <1>11. /\ Answered(x, z, a) /\ z.conn = x.conn
    BY <1>1, <1>7, <1>8, Zenon DEF GetCompleted, Answered, RcUserStates
  <1> HIDE DEF z
  <1>12. /\ Answered(x, y, a) /\ (a.code = 200 => y.conn = x.conn) /\ (a.code # 200 => y.conn = 0)
    <2>1. CASE a.code = 200 BY <2>1, <1>11, Zenon
    <2>2. CASE a.code # 200
      <3>1. y = [z EXCEPT !.timer = FALSE, !.conn = 0, !.op = "idle"]
        BY <2>2, Zenon DEF CloseConn
      <3> HIDE DEF y
      <3>2. z \in RcUserStates
        BY <1>11 DEF Answered
      <3>3. /\ y \in RcUserStates
            /\ y.calls = z.calls /\ y.n = z.n /\ y.pc = z.pc /\ y.conn = 0 /\ y.halted = z.halted
            /\ y.q = z.q /\ y.got = z.got /\ y.op = "idle" /\ ~y.timer /\ y.req = z.req
        BY <3>1, <3>2, <1>8, Zenon DEF RcUserStates
      <3> QED BY <2>2, <3>3, <1>11 DEF Answered
    <2> QED BY <2>1, <2>2, Zenon
  <1>13. /\ k \in RcConns /\ k.up = j.up /\ k.at = j.at /\ k.req = j.req /\ k.user = j.user
         /\ k.cOpen = b /\ k.sOpen = j.sOpen /\ k.down = <<>>
    BY <1>3, <1>6, <1>8, Zenon DEF RcConns
  <1> HIDE DEF y, k
  <1>14. ConnMoves(x.conn, k)
    <2>1. ConnRight(k)
      BY <1>4, <1>13, Zenon DEF ConnRight
    <2> QED BY <2>1, <1>10, <1>13, Zenon DEF ConnMoves, j
  <1>15. UserMoves(u, y)
    <2>1. y \in RcUserStates BY <1>12, Zenon DEF Answered
    <2>2. UserRight(y)
      BY <1>1, <1>6, <1>7, <1>12, AnsweredRight, Zenon
    <2> QED BY <2>1, <2>2, <1>9, Zenon DEF UserMoves
  <1>16. OwnConn(x, y, k)
    <2>1. CASE a.code = 200
      <3>1. y.op = "idle" /\ j.at \notin {"busy", "write"} /\ (j.at \in {"accept", "header", "payload"} => j.up = <<>>)
        BY <1>2, <1>3, <1>12, Zenon DEF Exchange, Answered
      <3>2. Exchange(y, k)
        BY <3>1, <1>13, Zenon DEF Exchange
      <3> QED BY <2>1, <3>2, <1>12, <1>13, Zenon DEF OwnConn, b
    <2>2. CASE a.code # 200
      BY <2>2, <1>12, <1>13, Zenon DEF OwnConn, b
    <2> QED BY <2>1, <2>2
  <1> QED
    BY <1>2, <1>14, <1>15, <1>16, UserWithConn, Zenon DEF x

LEMMA GetReadPayloadRight ==
    ASSUME RcInv, NEW u \in RcUsers, GetReadPayload(u)
    PROVE  RcInv'
  <1>1. rcUser[u].op = "payload" /\ HandleClientCompleted(u, Head(rcConn[rcUser[u].conn].down))
    BY Zenon DEF GetReadPayload
  <1>2. rcUser[u].conn # 0
    BY <1>1, RcInvParts, UserOf, Zenon DEF UserRight
  <1>3. rcConn[rcUser[u].conn].down # <<>>
    BY <1>1, <1>2, RcInvParts, ExchangeOf, Zenon DEF Exchange
  <1> QED
    BY <1>1, <1>2, <1>3, CompletedRight, Zenon

LEMMA GetReadHeaderRight ==
    ASSUME RcInv, NEW u \in RcUsers, GetReadHeader(u)
    PROVE  RcInv'
  <1> DEFINE x == rcUser[u]
             j == rcConn[x.conn]
             y == [x EXCEPT !.op = "payload"]
  <1>1. x \in RcUserStates /\ UserRight(x)
    BY RcInvParts, UserOf
  <1>2. x.op = "header"
    BY Zenon DEF GetReadHeader
  <1>3. x.conn # 0 /\ Pending(x)
    BY <1>1, <1>2, Zenon DEF UserRight, Pending
  <1>4. Exchange(x, j)
    BY <1>3, RcInvParts, ExchangeOf, Zenon
  <1>5. CASE j.down # <<>> /\ HandleClientCompleted(u, Head(j.down))
    BY <1>3, <1>5, CompletedRight, Zenon
  <1>6. CASE ~j.sOpen /\ GetHandleError(u)
    BY <1>2, <1>6, GetHandleErrorRight, Zenon
  <1>7. CASE /\ j.down # <<>>
             /\ rcUser' = [rcUser EXCEPT ![u].op = "payload"]
             /\ UNCHANGED <<rcConn, rcMod, rcPool, rcLeft>>
    <2>1. rcUser' = [rcUser EXCEPT ![u] = y]
      BY <1>7, Zenon
    <2> HIDE DEF x, j
    <2>2. /\ y \in RcUserStates
          /\ y.calls = x.calls /\ y.n = x.n /\ y.pc = x.pc /\ y.conn = x.conn /\ y.halted = x.halted
          /\ y.q = x.q /\ y.got = x.got /\ y.op = "payload" /\ y.timer = x.timer /\ y.req = x.req
      BY <1>1, Zenon DEF RcUserStates
    <2> HIDE DEF y
    <2>3. UserRight(y)
      BY <1>1, <1>2, <1>3, <2>2, Zenon DEF UserRight, Pending
    <2>4. Exchange(y, j)
      BY <1>4, <1>7, <2>2, Zenon DEF Exchange
    <2> QED
      BY <1>7, <2>1, <2>2, <2>3, <2>4, UserAlone, Zenon DEF x, j
  <1> QED
    BY <1>5, <1>6, <1>7, Zenon DEF GetReadHeader

LEMMA RpcClientHaltRight ==
    ASSUME RcInv, NEW u \in RcUsers, RpcClientHalt(u)
    PROVE  RcInv'
  <1> DEFINE x == rcUser[u]
             y == [HttpAbort(x) EXCEPT !.halted = TRUE, !.pc = "idle"]
  <1>1. x \in RcUserStates /\ UserRight(x)
    BY RcInvParts, UserOf
  <1>2. /\ rcUser' = [rcUser EXCEPT ![u] = y] /\ UNCHANGED <<rcMod, rcPool>>
        /\ rcConn' = IF x.conn = 0 THEN rcConn ELSE CloseNet(x.conn)
        /\ ~x.halted
        /\ \/ rcLeft' = rcLeft
           \/ rcLeft' = [rcLeft EXCEPT !.halts = @ - 1]
    BY DEF RpcClientHalt
  <1> HIDE DEF x
  <1>3. \E z : /\ z \in RcUserStates /\ UserRight(z) /\ ~Pending(z) /\ z.conn = 0
               /\ y = [z EXCEPT !.halted = TRUE, !.pc = "idle"]
    <2>1. HTTPGET_ABORTED \in RcErrors
      BY ErrorCodes, Zenon
    <2> DEFINE w == CloseConn(x, HTTPGET_ABORTED)
    <2>2. CASE x.op # "idle"
      <3>1. /\ w \in RcUserStates /\ UserRight(w) /\ w.conn = 0 /\ w.req = "none" /\ ~Pending(w) /\ x.req = "none"
        BY <1>1, <2>1, <2>2, CloseConnIs, Zenon
      <3> HIDE DEF w
      <3>2. HttpAbort(x) = [w EXCEPT !.req = "none"]
        BY <3>1, Zenon DEF HttpAbort, w
      <3>3. HttpAbort(x) = w
        BY <3>1, <3>2, ZenonT(40) DEF RcUserStates
      <3> QED BY <3>1, <3>3, Zenon
    <2>3. CASE x.op = "idle"
      <3>0. w = [x EXCEPT !.timer = FALSE, !.conn = 0, !.op = "idle"]
        BY <2>3, Zenon DEF CloseConn
      <3>1. CASE x.req # "none"
        <4> DEFINE a == RcError(HTTPGET_ABORTED)
                   z == HttpAbort(x)
        <4>1. z = [PostError(w, HTTPGET_ABORTED) EXCEPT !.req = "none"]
          BY <3>1, Zenon DEF HttpAbort
        <4>2. z = [[[x EXCEPT !.timer = FALSE, !.conn = 0, !.op = "idle"] EXCEPT !.q = Append(x.q, a)] EXCEPT !.req = "none"]
          BY <3>0, <4>1, <1>1, Zenon DEF PostError, RcUserStates
        <4>3. a \in RcAnswers /\ Fits(a, x.calls[x.n]) /\ Append(x.q, a) \in Seq(RcAnswers) /\ 0 \in Nat
          BY <1>1, <2>1, PostFits, Zenon
        <4> HIDE DEF z, a
        <4>4. Answered(x, z, a) /\ z.conn = 0 /\ z \in RcUserStates
          BY <1>1, <4>2, <4>3, Zenon DEF Answered, RcUserStates
        <4>5. UserRight(z)
          BY <1>1, <3>1, <4>3, <4>4, AnsweredRight, Zenon DEF Pending
        <4>6. ~Pending(z)
          BY <4>4, Zenon DEF Answered, Pending
        <4> QED BY <4>4, <4>5, <4>6, Zenon DEF z
      <3>2. CASE x.req = "none"
        <4> DEFINE z == HttpAbort(x)
        <4>1. z = [[x EXCEPT !.timer = FALSE, !.conn = 0, !.op = "idle"] EXCEPT !.req = "none"] /\ 0 \in Nat
          BY <3>0, <3>2, Zenon DEF HttpAbort
        <4> HIDE DEF z
        <4>2. /\ z \in RcUserStates
              /\ z.calls = x.calls /\ z.n = x.n /\ z.pc = x.pc /\ z.conn = 0 /\ z.halted = x.halted
              /\ z.q = x.q /\ z.got = x.got /\ z.op = "idle" /\ ~z.timer /\ z.req = "none"
          BY <1>1, <4>1, Zenon DEF RcUserStates
        <4>3. UserRight(z) /\ ~Pending(z)
          BY <1>1, <2>3, <3>2, <4>2, Zenon DEF UserRight, Pending
        <4> QED BY <4>2, <4>3, Zenon DEF z
      <3> QED BY <3>1, <3>2, Zenon
    <2> QED BY <2>2, <2>3, Zenon
  <1> HIDE DEF y
  <1>4. PICK z : /\ z \in RcUserStates /\ UserRight(z) /\ ~Pending(z) /\ z.conn = 0
                 /\ y = [z EXCEPT !.halted = TRUE, !.pc = "idle"]
    BY <1>3, Zenon
  <1>5. /\ y \in RcUserStates /\ y.conn = 0
        /\ y.calls = z.calls /\ y.n = z.n /\ y.pc = "idle" /\ y.halted
        /\ y.q = z.q /\ y.got = z.got /\ y.op = z.op /\ y.timer = z.timer /\ y.req = z.req
    BY <1>4, Zenon DEF RcUserStates
  <1>6. UserRight(y)
    BY <1>4, <1>5, Zenon DEF UserRight, Pending
  <1>7. UserMoves(u, y)
    BY <1>2, <1>5, <1>6, Zenon DEF UserMoves
  <1>8. CASE x.conn = 0
    <2>1. rcConn' = rcConn
      BY <1>2, <1>8
    <2>2. UsersTyped' /\ UsersRight' /\ ConnsTyped' /\ ConnsOwned' /\ ConnsRight'
      BY <1>2, <1>5, <1>6, <1>8, <2>1, RcInvParts, UserStepRight, UserKeepsConn, Zenon DEF x
    <2>3. ModuleRight' /\ ModTyped' /\ PoolTyped' /\ LeftTyped'
      BY <1>2, <2>1, RcInvParts, ModuleSame, RestTyped, Zenon
    <2> QED BY <2>2, <2>3, RcInvPartsNext, Zenon
  <1>9. CASE x.conn # 0
    <2>1. rcUser[u].conn \in 1..Len(rcConn) /\ ConnsTyped
      BY <1>9, RcInvParts, ExchangeOf, Zenon DEF x
    <2>2. /\ ConnMoves(rcUser[u].conn, Closed(rcConn[rcUser[u].conn])) /\ ~Closed(rcConn[rcUser[u].conn]).cOpen
      BY <1>2, <1>9, <2>1, ClosedConn, Zenon DEF x
    <2>3. OwnConn(rcUser[u], y, Closed(rcConn[rcUser[u].conn]))
      BY <1>5, <2>2, Zenon DEF OwnConn
    <2> QED BY <1>7, <1>9, <2>2, <2>3, UserWithConn, Zenon DEF x
  <1> QED
    BY <1>8, <1>9, Zenon

-----------------------------------------------------------------------------
(* The http server.                                                        *)

\* The server changes its side of a connection.
ServerMoves(c, k) ==
    /\ ConnRight(k) /\ rcConn' = [rcConn EXCEPT ![c] = k]
    /\ k.user = rcConn[c].user /\ k.cOpen = rcConn[c].cOpen
    /\ k.cOpen => Exchange(rcUser[k.user], k)

LEMMA ServerMovesIs ==
    ASSUME RcInv, NEW c \in 1..Len(rcConn), NEW k, ServerMoves(c, k), rcUser' = rcUser
    PROVE  /\ UsersTyped' /\ UsersRight' /\ ConnsTyped' /\ ConnsOwned' /\ ConnsRight'
           /\ Len(rcConn) \in Nat /\ Len(rcConn') = Len(rcConn) /\ rcConn'[c] = k
           /\ \A d \in 1..Len(rcConn) : d # c => rcConn'[d] = rcConn[d]
  <1>1. UsersTyped' /\ UsersRight'
    BY RcInvParts, Zenon DEF UsersTyped, UsersRight
  <1>2. ConnsTyped' /\ ConnsOwned' /\ ConnsRight'
    BY RcInvParts, ServerStepRight, Zenon DEF ServerMoves
  <1>3. /\ Len(rcConn') = Len(rcConn) /\ rcConn'[c] = k
        /\ \A d \in 1..Len(rcConn) : d # c => rcConn'[d] = rcConn[d]
    BY RcInvParts, ConnStepTyped, Zenon DEF ServerMoves
  <1>4. Len(rcConn) \in Nat
    BY RcInvParts DEF ConnsTyped
  <1> QED
    BY <1>1, <1>2, <1>3, <1>4, Zenon

\* It tells the module nothing.
LEMMA ServerQuiet ==
    ASSUME RcInv, NEW c \in 1..Len(rcConn), NEW k, ServerMoves(c, k), k.at # "busy",
           rcConn[c].at \notin {"busy", "gone"}, UNCHANGED <<rcUser, rcMod, rcPool, rcLeft>>
    PROVE  RcInv'
  <1>1. /\ UsersTyped' /\ UsersRight' /\ ConnsTyped' /\ ConnsOwned' /\ ConnsRight'
        /\ Len(rcConn) \in Nat /\ Len(rcConn') = Len(rcConn) /\ rcConn'[c] = k
        /\ \A d \in 1..Len(rcConn) : d # c => rcConn'[d] = rcConn[d]
    BY ServerMovesIs, Zenon
  <1>2. ModuleRight'
    BY <1>1, RcInvParts, ModuleKept
  <1>3. ModTyped' /\ PoolTyped' /\ LeftTyped'
    BY RcInvParts, RestTyped, Zenon
  <1> QED
    BY <1>1, <1>2, <1>3, RcInvPartsNext, Zenon

\* Whoever has a request of a batch keeps it while the module gets events.
LEMMA ServedGrows ==
    ASSUME NEW w, NEW i, Served(rcMod, rcPool, w, i), rcPool' = rcPool,
           \A k \in 1..Len(rcMod.q) : k \in 1..Len(rcMod'.q) /\ rcMod'.q[k] = rcMod.q[k]
    PROVE  Served(rcMod', rcPool', w, i)
  <1>1. CASE \E k \in 1..Len(rcMod.q) : rcMod.q[k].what = "resp" /\ rcMod.q[k].id = w.id /\ rcMod.q[k].sub = i
    <2>1. PICK k \in 1..Len(rcMod.q) : rcMod.q[k].what = "resp" /\ rcMod.q[k].id = w.id /\ rcMod.q[k].sub = i
      BY <1>1, Zenon
    <2>2. k \in 1..Len(rcMod'.q) /\ rcMod'.q[k].what = "resp" /\ rcMod'.q[k].id = w.id /\ rcMod'.q[k].sub = i
      BY <2>1
    <2> QED BY <2>2, Zenon DEF Served
  <1>2. CASE \/ i \in DOMAIN w.resp
             \/ \E k \in 1..Len(rcPool.q) : rcPool.q[k].id = w.id /\ rcPool.q[k].sub = i
             \/ \E t \in RcThreads : rcPool.thr[t] # RcNone /\ rcPool.thr[t].id = w.id /\ rcPool.thr[t].sub = i
    BY <1>2, Zenon DEF Served
  <1> QED
    BY <1>1, <1>2, Zenon DEF Served

\* The module gets an event.
LEMMA QueueGrows ==
    ASSUME ModTyped, NEW e \in RcEvents, RcPost(e)
    PROVE  /\ ModTyped'
           /\ rcMod'.work = rcMod.work /\ rcMod'.id = rcMod.id
           /\ Len(rcMod.q) \in Nat /\ Len(rcMod'.q) = Len(rcMod.q) + 1
           /\ rcMod'.q[Len(rcMod.q) + 1] = e
           /\ \A i \in 1..Len(rcMod.q) : i \in 1..Len(rcMod'.q) /\ rcMod'.q[i] = rcMod.q[i]
           /\ \A i \in 1..Len(rcMod'.q) : i # Len(rcMod.q) + 1 => i \in 1..Len(rcMod.q)
  <1>1. rcMod.q \in Seq(RcEvents)
    BY Zenon DEF ModTyped
  <1>2. /\ Append(rcMod.q, e) \in Seq(RcEvents) /\ Len(rcMod.q) \in Nat
        /\ Len(Append(rcMod.q, e)) = Len(rcMod.q) + 1 /\ Append(rcMod.q, e)[Len(rcMod.q) + 1] = e
        /\ \A i \in 1..Len(rcMod.q) : i \in 1..Len(Append(rcMod.q, e)) /\ Append(rcMod.q, e)[i] = rcMod.q[i]
        /\ \A i \in 1..Len(Append(rcMod.q, e)) : i # Len(rcMod.q) + 1 => i \in 1..Len(rcMod.q)
    BY <1>1, AppendIs
  <1>3. /\ rcMod' \in [q : Seq(RcEvents), work : SUBSET RcWorks, id : Nat]
        /\ rcMod'.work = rcMod.work /\ rcMod'.id = rcMod.id /\ rcMod'.q = Append(rcMod.q, e)
    BY <1>2, Zenon DEF RcPost, ModTyped
  <1> QED
    BY <1>2, <1>3, Zenon DEF ModTyped

\* The server tells it of a new request, or that a connection is gone.
Told(c, k, e) ==
    /\ rcConn[c].at \notin {"busy", "gone"} /\ RcPost(e)
    /\ \/ k.at = "gone" /\ e = [what |-> "broken", c |-> c]
       \/ k.at = "busy" /\ k.req \in RcRequests /\ e = [what |-> "req", c |-> c, r |-> k.req]

LEMMA ServerTells ==
    ASSUME RcInv, NEW c \in 1..Len(rcConn), NEW k, ServerMoves(c, k), NEW e, Told(c, k, e),
           UNCHANGED <<rcUser, rcPool, rcLeft>>
    PROVE  RcInv'
  <1>1. /\ UsersTyped' /\ UsersRight' /\ ConnsTyped' /\ ConnsOwned' /\ ConnsRight'
        /\ Len(rcConn) \in Nat /\ Len(rcConn') = Len(rcConn) /\ rcConn'[c] = k
        /\ \A d \in 1..Len(rcConn) : d # c => rcConn'[d] = rcConn[d]
    BY ServerMovesIs, Zenon
  <1>2. e \in RcEvents /\ e.c = c /\ e.what # "resp" /\ (e.what = "req" => k.at = "busy" /\ k.req = e.r)
        /\ (e.what = "broken" => k.at = "gone") /\ (k.at = "busy" => e.what = "req") /\ k.at \in {"busy", "gone"}
    <2>1. c \in Nat
      BY <1>1
    <2>2. CASE k.at = "gone" /\ e = [what |-> "broken", c |-> c]
      BY <2>1, <2>2, Zenon DEF RcEvents, RcBrokenEvents
    <2>3. CASE k.at = "busy" /\ k.req \in RcRequests /\ e = [what |-> "req", c |-> c, r |-> k.req]
      BY <2>1, <2>3, Zenon DEF RcEvents, RcReqEvents
    <2> QED BY <2>2, <2>3, Zenon DEF Told
  <1>3. ModuleRight /\ ModTyped
    BY RcInvParts, Zenon
  <1>4. /\ ModTyped'
        /\ rcMod'.work = rcMod.work /\ rcMod'.id = rcMod.id
        /\ Len(rcMod.q) \in Nat /\ Len(rcMod'.q) = Len(rcMod.q) + 1
        /\ rcMod'.q[Len(rcMod.q) + 1] = e
        /\ \A i \in 1..Len(rcMod.q) : i \in 1..Len(rcMod'.q) /\ rcMod'.q[i] = rcMod.q[i]
        /\ \A i \in 1..Len(rcMod'.q) : i # Len(rcMod.q) + 1 => i \in 1..Len(rcMod.q)
    BY <1>2, <1>3, QueueGrows, Zenon DEF Told
  <1>5. rcConn[c].at # "busy" /\ rcConn[c].at # "gone"
    BY Zenon DEF Told
  <1>6. \A w \in rcMod.work : w.c # c
    BY <1>3, <1>5, Zenon DEF ModuleRight, WorksRight
  <1>7. \A i \in 1..Len(rcMod.q) : rcMod.q[i].what \in {"req", "broken"} => rcMod.q[i].c # c
    BY <1>3, <1>5, Zenon DEF ModuleRight, EventsRight
  <1>8. EventsRight'
    <2>1. ASSUME NEW i \in 1..Len(rcMod'.q), rcMod'.q[i].what = "req"
          PROVE  /\ rcMod'.q[i].c \in 1..Len(rcConn')
                 /\ rcConn'[rcMod'.q[i].c].at = "busy" /\ rcConn'[rcMod'.q[i].c].req = rcMod'.q[i].r
                 /\ \A w \in rcMod'.work : w.c # rcMod'.q[i].c
                 /\ \A j \in 1..Len(rcMod'.q) : IsReq(rcMod'.q[j], rcMod'.q[i].c) => i = j
      <3>1. CASE i = Len(rcMod.q) + 1
        BY <2>1, <3>1, <1>1, <1>2, <1>4, <1>6, <1>7, ZenonT(40) DEF IsReq
      <3>2. CASE i # Len(rcMod.q) + 1
        <4>1. i \in 1..Len(rcMod.q) /\ rcMod'.q[i] = rcMod.q[i] /\ rcMod.q[i].c # c
          BY <2>1, <3>2, <1>4, <1>7, Zenon
        <4>2. /\ rcMod.q[i].c \in 1..Len(rcConn)
              /\ rcConn[rcMod.q[i].c].at = "busy" /\ rcConn[rcMod.q[i].c].req = rcMod.q[i].r
              /\ \A w \in rcMod.work : w.c # rcMod.q[i].c
              /\ \A j \in 1..Len(rcMod.q) : IsReq(rcMod.q[j], rcMod.q[i].c) => i = j
          BY <2>1, <4>1, <1>3, Zenon DEF ModuleRight, EventsRight
        <4>3. rcMod.q[i].c \in 1..Len(rcConn') /\ rcConn'[rcMod.q[i].c] = rcConn[rcMod.q[i].c]
          BY <4>1, <4>2, <1>1, Zenon
        <4>4. ASSUME NEW j \in 1..Len(rcMod'.q), IsReq(rcMod'.q[j], rcMod.q[i].c) PROVE i = j
          <5>1. j # Len(rcMod.q) + 1
            BY <4>1, <4>4, <1>2, <1>4, Zenon DEF IsReq
          <5> QED BY <4>2, <4>4, <5>1, <1>4, Zenon
        <4>5. \A w \in rcMod'.work : w.c # rcMod.q[i].c
          BY <4>2, <1>4, Zenon
        <4> HIDE DEF IsReq
        <4> QED BY <4>1, <4>2, <4>3, <4>4, <4>5, Zenon
      <3> QED BY <3>1, <3>2, Zenon
    <2>2. ASSUME NEW i \in 1..Len(rcMod'.q), rcMod'.q[i].what = "broken"
          PROVE  rcMod'.q[i].c \in 1..Len(rcConn') /\ rcConn'[rcMod'.q[i].c].at = "gone"
      <3>1. CASE i = Len(rcMod.q) + 1
        BY <2>2, <3>1, <1>1, <1>2, <1>4, Zenon
      <3>2. CASE i # Len(rcMod.q) + 1
        <4>1. i \in 1..Len(rcMod.q) /\ rcMod'.q[i] = rcMod.q[i] /\ rcMod.q[i].c # c
          BY <2>2, <3>2, <1>4, <1>7, Zenon
        <4>2. rcMod.q[i].c \in 1..Len(rcConn) /\ rcConn[rcMod.q[i].c].at = "gone"
          BY <2>2, <4>1, <1>3, ZenonT(40) DEF ModuleRight, EventsRight
        <4> QED BY <4>1, <4>2, <1>1, Zenon
      <3> QED BY <3>1, <3>2, Zenon
    <2> QED BY <2>1, <2>2, Zenon DEF EventsRight
  <1>9. WorksRight'
    <2>1. \A w \in rcMod.work : w.c \in 1..Len(rcConn) /\ rcConn'[w.c] = rcConn[w.c]
      BY <1>1, <1>3, <1>6, Zenon DEF ModuleRight, WorksRight
    <2> QED BY <2>1, <1>1, <1>3, <1>4 DEF ModuleRight, WorksRight
  <1>10. TasksRight'
    <2>1. \A t : (TaskRight(t, rcMod) => TaskRight(t, rcMod')) /\ (RespRight(t, rcMod) => RespRight(t, rcMod'))
      BY <1>4, Zenon DEF TaskRight, RespRight
    <2>2. ASSUME NEW i \in 1..Len(rcMod'.q) PROVE RespRight(rcMod'.q[i], rcMod')
      <3>1. CASE i = Len(rcMod.q) + 1
        BY <3>1, <1>2, <1>4, Zenon DEF RespRight
      <3>2. CASE i # Len(rcMod.q) + 1
        BY <3>2, <2>1, <1>3, <1>4, Zenon DEF ModuleRight, TasksRight
      <3> QED BY <3>1, <3>2, Zenon
    <2> QED BY <2>1, <2>2, <1>3, Zenon DEF ModuleRight, TasksRight
  <1>11. WorksServed'
    <2>1. ASSUME NEW w \in rcMod.work, NEW i \in 1..Len(w.items) PROVE Served(rcMod', rcPool', w, i)
      <3>1. Served(rcMod, rcPool, w, i)
        BY <1>3, Zenon DEF ModuleRight, WorksServed
      <3>2. \A k1 \in 1..Len(rcMod.q) : k1 \in 1..Len(rcMod'.q) /\ rcMod'.q[k1] = rcMod.q[k1]
        BY <1>4, Zenon
      <3> QED BY <3>1, <3>2, ServedGrows, Zenon
    <2> QED BY <2>1, <1>4, Zenon DEF WorksServed
  <1>12. Accepted'
    <2>1. ASSUME NEW d \in 1..Len(rcConn), rcConn'[d].at = "busy", rcConn'[d].req.kind = "ok"
          PROVE  \/ \E i \in 1..Len(rcMod'.q) : IsReq(rcMod'.q[i], d)
                 \/ \E w \in rcMod.work : w.c = d
      <3>1. CASE d = c
        <4>1. Len(rcMod.q) + 1 \in 1..Len(rcMod'.q)
          BY <1>4
        <4>2. IsReq(rcMod'.q[Len(rcMod.q) + 1], d)
          BY <2>1, <3>1, <1>1, <1>2, <1>4, Zenon DEF IsReq
        <4> QED BY <4>1, <4>2, Zenon
      <3>2. CASE d # c
        BY <2>1, <3>2, <1>1, <1>3, <1>4, Zenon DEF ModuleRight, Accepted
      <3> QED BY <3>1, <3>2, Zenon
    <2> QED BY <2>1, <1>1, <1>4, Zenon DEF Accepted
  <1>13. PoolTyped' /\ LeftTyped'
    BY RcInvParts, Zenon DEF PoolTyped, LeftTyped
  <1> QED
    BY <1>1, <1>4, <1>8, <1>9, <1>10, <1>11, <1>12, <1>13, RcInvPartsNext, Zenon DEF ModuleRight

LEMMA ServerConn ==
    ASSUME RcInv, NEW c \in 1..Len(rcConn)
    PROVE  /\ ConnRight(rcConn[c])
           /\ rcConn[c].cOpen => Exchange(rcUser[rcConn[c].user], rcConn[c])
  <1>1. ConnsTyped /\ ConnsRight
    BY RcInvParts, Zenon
  <1>2. rcConn[c] \in RcConns
    BY <1>1, ConnTyped, Zenon
  <1>3. ConnRight(rcConn[c])
    BY <1>1, <1>2, Zenon DEF ConnsTyped, ConnRight
  <1> QED
    BY <1>1, <1>3, Zenon DEF ConnsRight

LEMMA HttpClientAcceptedRight ==
    ASSUME RcInv, NEW c \in 1..Len(rcConn), HttpClientAccepted(c)
    PROVE  RcInv'
  <1> DEFINE j == rcConn[c]
             k == [j EXCEPT !.at = "header"]
             x == rcUser[j.user]
  <1>1. j.at = "accept" /\ UNCHANGED <<rcUser, rcMod, rcPool, rcLeft>>
    BY Zenon DEF HttpClientAccepted
  <1>2. ConnRight(j) /\ (j.cOpen => Exchange(x, j))
    BY ServerConn
  <1>3. rcConn' = [rcConn EXCEPT ![c] = k]
    BY Zenon DEF HttpClientAccepted
  <1> HIDE DEF j, x
  <1>4. /\ k \in RcConns /\ k.at = "header" /\ k.req = j.req /\ k.user = j.user /\ k.up = j.up
        /\ k.cOpen = j.cOpen /\ k.sOpen = j.sOpen /\ k.down = j.down
    BY <1>2, Zenon DEF RcConns, ConnRight
  <1> HIDE DEF k
  <1>5. ConnRight(k)
    BY <1>1, <1>2, <1>4, Zenon DEF ConnRight
  <1>6. Exchange(x, j) => Exchange(x, k)
    BY <1>1, <1>4, Zenon DEF Exchange
  <1>7. ServerMoves(c, k)
    BY <1>2, <1>3, <1>4, <1>5, <1>6, Zenon DEF ServerMoves, j, x
  <1>8. k.at # "busy" /\ rcConn[c].at \notin {"busy", "gone"}
    BY <1>1, <1>4, Zenon DEF j
  <1> QED
    BY <1>1, <1>7, <1>8, ServerQuiet, Zenon

LEMMA RemoveClientRight ==
    ASSUME RcInv, NEW c \in 1..Len(rcConn), rcConn[c].at \notin {"busy", "gone"},
           rcConn[c].at = "write" => ~rcConn[c].cOpen, RemoveClient(c)
    PROVE  RcInv'
  <1> DEFINE j == rcConn[c]
             k == [j EXCEPT !.at = "gone", !.sOpen = FALSE]
             x == rcUser[j.user]
             e == [what |-> "broken", c |-> c]
  <1>1. RcPost(e) /\ UNCHANGED <<rcUser, rcPool, rcLeft>>
    BY Zenon DEF RemoveClient
  <1>2. ConnRight(j) /\ (j.cOpen => Exchange(x, j))
    BY ServerConn
  <1>3. rcConn' = [rcConn EXCEPT ![c] = k]
    BY Zenon DEF RemoveClient
  <1> HIDE DEF j, x
  <1>4. /\ k \in RcConns /\ k.at = "gone" /\ k.user = j.user
        /\ k.cOpen = j.cOpen /\ ~k.sOpen /\ k.down = j.down
    BY <1>2, Zenon DEF RcConns, ConnRight
  <1> HIDE DEF k
  <1>5. ConnRight(k)
    BY <1>4, Zenon DEF ConnRight
  <1>6. Exchange(x, j) => Exchange(x, k)
    BY <1>4 DEF Exchange
  <1>7. ServerMoves(c, k)
    BY <1>2, <1>3, <1>4, <1>5, <1>6, Zenon DEF ServerMoves, j, x
  <1>8. Told(c, k, e)
    BY <1>1, <1>4, Zenon DEF Told
  <1> QED
    BY <1>1, <1>7, <1>8, ServerTells, Zenon

\* What the server reads is the client's present request.
LEMMA RequestRead ==
    ASSUME RcInv, NEW c \in 1..Len(rcConn), rcConn[c].at \in {"header", "payload"}, rcConn[c].up # <<>>
    PROVE  /\ Head(rcConn[c].up) \in RcRequests /\ Tail(rcConn[c].up) \in Seq(RcRequests)
           /\ rcConn[c].cOpen => LET x == rcUser[rcConn[c].user]
                                 IN  /\ x.op = "header" /\ rcConn[c].down = <<>> /\ Tail(rcConn[c].up) = <<>>
                                     /\ Head(rcConn[c].up) = x.calls[x.n]
  <1>1. rcConn[c].up \in Seq(RcRequests)
    BY RcInvParts, ConnTyped, Zenon
  <1>2. Head(rcConn[c].up) \in RcRequests /\ Tail(rcConn[c].up) \in Seq(RcRequests)
    BY <1>1, NonEmpty, ZenonT(40)
  <1> DEFINE x == rcUser[rcConn[c].user]
  <1>3. ASSUME rcConn[c].cOpen
        PROVE  x.op = "header" /\ rcConn[c].down = <<>> /\ rcConn[c].up = <<x.calls[x.n]>>
    BY <1>3, ServerConn, Zenon DEF Exchange
  <1>4. ASSUME rcConn[c].up = <<x.calls[x.n]>>
        PROVE  Tail(rcConn[c].up) = <<>> /\ Head(rcConn[c].up) = x.calls[x.n]
    BY <1>4
  <1> QED
    BY <1>2, <1>3, <1>4, Zenon

LEMMA RespondErrorRight ==
    ASSUME RcInv, NEW c \in 1..Len(rcConn), rcConn[c].at \in {"header", "payload"}, rcConn[c].up # <<>>,
           NEW code, RcError(code) \in RcAnswers, Fits(RcError(code), Head(rcConn[c].up)), RespondError(c, code)
    PROVE  RcInv'
  <1> DEFINE a == RcError(code)
             j == rcConn[c]
             x == rcUser[j.user]
             r == Head(j.up)
             k == [j EXCEPT !.at = "write", !.up = Tail(@), !.req = a]
  <1>1. /\ r \in RcRequests /\ Tail(j.up) \in Seq(RcRequests)
        /\ j.cOpen => x.op = "header" /\ j.down = <<>> /\ Tail(j.up) = <<>> /\ r = x.calls[x.n]
    BY RequestRead, Zenon
  <1>2. ConnRight(j) /\ (j.cOpen => Exchange(x, j))
    BY ServerConn, Zenon
  <1>3. j.at \notin {"busy", "gone"} /\ Fits(a, r) /\ a \in RcAnswers
    OBVIOUS
  <1>4. rcConn' = [rcConn EXCEPT ![c] = k] /\ UNCHANGED <<rcUser, rcMod, rcPool, rcLeft>>
    <2>1. UNCHANGED <<rcUser, rcMod, rcPool, rcLeft>>
      BY Zenon DEF RespondError
    <2>2. rcConn' = [rcConn EXCEPT ![c].at = "write", ![c].up = Tail(@), ![c].req = a]
      BY DEF RespondError
    <2> HIDE DEF a
    <2>3. rcConn' = [rcConn EXCEPT ![c] = k]
      BY <2>2, Zenon
    <2> HIDE DEF k
    <2> QED BY <2>1, <2>3, Zenon
  <1> HIDE DEF j, x, r, a
  <1>5. /\ k \in RcConns /\ k.at = "write" /\ k.req = a /\ k.up = Tail(j.up)
        /\ k.user = j.user /\ k.cOpen = j.cOpen /\ k.sOpen = j.sOpen /\ k.down = j.down
    BY <1>1, <1>2, <1>3, Zenon DEF RcConns, ConnRight
  <1> HIDE DEF k
  <1>6. ConnRight(k)
    BY <1>2, <1>3, <1>5, Zenon DEF ConnRight
  <1>7. j.cOpen => Exchange(x, k)
    BY <1>1, <1>3, <1>5, Zenon DEF Exchange
  <1>8. ServerMoves(c, k)
    BY <1>4, <1>5, <1>6, <1>7, Zenon DEF ServerMoves, j, x
  <1>9. k.at # "busy" /\ rcConn[c].at \notin {"busy", "gone"}
    BY <1>3, <1>5, Zenon DEF j
  <1> QED
    BY <1>4, <1>8, <1>9, ServerQuiet, Zenon

\* The server takes the request in one piece: it is then refused, or goes to the module.
LEMMA HandleClientRecvRight ==
    ASSUME RcInv, NEW c \in 1..Len(rcConn), rcConn[c].at \in {"header", "payload"}, rcConn[c].up # <<>>,
           HandleClientRecv(c, Head(rcConn[c].up))
    PROVE  RcInv'
  <1> DEFINE j == rcConn[c]
             x == rcUser[j.user]
             r == Head(j.up)
             k(at, req) == [j EXCEPT !.at = at, !.up = Tail(@), !.req = req]
  <1>1. /\ r \in RcRequests /\ Tail(j.up) \in Seq(RcRequests)
        /\ j.cOpen => x.op = "header" /\ j.down = <<>> /\ Tail(j.up) = <<>> /\ r = x.calls[x.n]
    BY RequestRead, Zenon
  <1>2. ConnRight(j) /\ (j.cOpen => Exchange(x, j))
    BY ServerConn, Zenon
  <1>3. j.at \notin {"busy", "gone"}
    OBVIOUS
  <1>4. ASSUME NEW code \in {400, 401}, r.kind = IF code = 400 THEN "badform" ELSE "noauth", RespondError(c, code)
        PROVE  RcInv'
    <2> DEFINE a == RcError(code)
    <2>1. a \in RcAnswers /\ Fits(a, r)
      <3>1. a = [code |-> code, body |-> <<>>]
        BY Zenon DEF RcError, RcAnswer, RcNone
      <3>2. <<>> \in Seq(RcValues) /\ code \in Int
        OBVIOUS
      <3>3. a \in RcAnswers /\ a.code = code
        BY <3>1, <3>2 DEF RcAnswers
      <3> QED BY <1>4, <3>3 DEF Fits
    <2> QED
      BY <1>4, <2>1, RespondErrorRight
  <1>5. ASSUME rcConn' = [rcConn EXCEPT ![c].at = "busy", ![c].up = Tail(@), ![c].req = r],
               RcPost([what |-> "req", c |-> c, r |-> r]), UNCHANGED <<rcUser, rcPool, rcLeft>>
        PROVE  RcInv'
    <2> DEFINE kk == k("busy", r)
               e == [what |-> "req", c |-> c, r |-> r]
    <2>1. rcConn' = [rcConn EXCEPT ![c] = kk]
      BY <1>5, Zenon
    <2>2. RcPost(e)
      BY <1>5
    <2> HIDE DEF j, x, r
    <2>3. /\ kk \in RcConns /\ kk.at = "busy" /\ kk.req = r /\ kk.up = Tail(j.up)
          /\ kk.user = j.user /\ kk.cOpen = j.cOpen /\ kk.sOpen = j.sOpen /\ kk.down = j.down
      BY <1>1, <1>2, Zenon DEF RcConns, ConnRight
    <2> HIDE DEF kk
    <2>4. ConnRight(kk)
      BY <1>1, <1>2, <1>3, <2>3, Zenon DEF ConnRight
    <2>5. j.cOpen => Exchange(x, kk)
      BY <1>1, <2>3, Zenon DEF Exchange
    <2>6. ServerMoves(c, kk)
      BY <2>1, <2>3, <2>4, <2>5, Zenon DEF ServerMoves, j, x
    <2>7. Told(c, kk, e)
      BY <1>1, <1>3, <2>2, <2>3, Zenon DEF Told, j
    <2> HIDE DEF e
    <2> QED
      BY <1>5, <2>6, <2>7, ServerTells, Zenon
  <1> QED
    BY <1>4, <1>5 DEF HandleClientRecv

LEMMA ServerReadHeaderRight ==
    ASSUME RcInv, NEW c \in 1..Len(rcConn), ServerReadHeader(c)
    PROVE  RcInv'
  <1> DEFINE j == rcConn[c]
             k == [j EXCEPT !.at = "payload"]
             x == rcUser[j.user]
  <1>1. j.at = "header" /\ j.at \notin {"busy", "gone"} /\ j.at # "write"
    BY Zenon DEF ServerReadHeader
  <1>2. CASE RemoveClient(c)
    BY <1>1, <1>2, RemoveClientRight, Zenon
  <1>3. CASE j.up # <<>> /\ HandleClientRecv(c, Head(j.up))
    BY <1>1, <1>3, HandleClientRecvRight, Zenon
  <1>4. ASSUME j.up # <<>>, rcConn' = [rcConn EXCEPT ![c].at = "payload"],
               UNCHANGED <<rcUser, rcMod, rcPool, rcLeft>>
        PROVE  RcInv'
    <2>1. ConnRight(j) /\ (j.cOpen => Exchange(x, j))
      BY ServerConn
    <2>2. rcConn' = [rcConn EXCEPT ![c] = k]
      BY <1>4, Zenon
    <2> HIDE DEF j, x
    <2>3. /\ k \in RcConns /\ k.at = "payload" /\ k.req = j.req /\ k.user = j.user /\ k.up = j.up
          /\ k.cOpen = j.cOpen /\ k.sOpen = j.sOpen /\ k.down = j.down
      BY <2>1, Zenon DEF RcConns, ConnRight
    <2> HIDE DEF k
    <2>4. ConnRight(k)
      BY <1>1, <1>4, <2>1, <2>3, Zenon DEF ConnRight
    <2>5. Exchange(x, j) => Exchange(x, k)
      BY <1>1, <2>3, Zenon DEF Exchange
    <2>6. ServerMoves(c, k)
      BY <2>1, <2>2, <2>3, <2>4, <2>5, Zenon DEF ServerMoves, j, x
    <2>7. k.at # "busy" /\ rcConn[c].at \notin {"busy", "gone"}
      BY <1>1, <2>3, Zenon DEF j
    <2> QED
      BY <1>4, <2>6, <2>7, ServerQuiet, Zenon
  <1> QED
    BY <1>2, <1>3, <1>4, Zenon DEF ServerReadHeader

LEMMA ServerReadPayloadRight ==
    ASSUME RcInv, NEW c \in 1..Len(rcConn), ServerReadPayload(c)
    PROVE  RcInv'
  <1>1. rcConn[c].at = "payload"
    BY Zenon DEF ServerReadPayload
  <1>2. rcConn[c].up # <<>>
    BY <1>1, ServerConn, Zenon DEF ConnRight
  <1>3. CASE HandleClientRecv(c, Head(rcConn[c].up))
    BY <1>1, <1>2, <1>3, HandleClientRecvRight, Zenon
  <1>4. CASE RemoveClient(c)
    <2>1. rcConn[c].at \notin {"busy", "gone"} /\ rcConn[c].at # "write"
      BY <1>1, Zenon
    <2> QED BY <1>4, <2>1, RemoveClientRight, Zenon
  <1> QED
    BY <1>3, <1>4, Zenon DEF ServerReadPayload

\* The connection after its answer was written: kept for the next request, or closed.
Sent(j) == [j EXCEPT !.down = IF j.cOpen THEN Append(@, j.req) ELSE @]
Ended(j) == [j EXCEPT !.at = "gone", !.sOpen = FALSE]

LEMMA SentIs ==
    ASSUME NEW j, ConnRight(j), j.at = "write", NEW x, j.cOpen => Exchange(x, j)
    PROVE  /\ Sent(j) \in RcConns /\ Sent(j).at = "write" /\ Sent(j).user = j.user /\ Sent(j).cOpen = j.cOpen
           /\ Sent(j).sOpen = j.sOpen /\ Sent(j).req = j.req
           /\ j.cOpen => /\ x.op = "header" /\ Fits(j.req, x.calls[x.n])
                         /\ Len(Sent(j).down) = 1 /\ Sent(j).down[1] = j.req
  <1>1. j \in RcConns /\ j.req \in RcAnswers /\ j.down \in Seq(RcAnswers)
    BY Zenon DEF ConnRight, RcConns
  <1>2. ASSUME j.cOpen
        PROVE  x.op = "header" /\ Fits(j.req, x.calls[x.n]) /\ j.down = <<>>
    BY <1>2, Zenon DEF Exchange
  <1> DEFINE d == IF j.cOpen THEN Append(j.down, j.req) ELSE j.down
  <1>3. Append(j.down, j.req) \in Seq(RcAnswers) /\ Len(Append(j.down, j.req)) = Len(j.down) + 1
        /\ Append(j.down, j.req)[Len(j.down) + 1] = j.req
    BY <1>1, AppendIs
  <1>4. j.down = <<>> => Len(Append(j.down, j.req)) = 1 /\ Append(j.down, j.req)[1] = j.req
    BY <1>3
  <1>5. d \in Seq(RcAnswers) /\ (j.cOpen => d = Append(j.down, j.req))
    BY <1>1, <1>3, Zenon
  <1>6. Sent(j) = [j EXCEPT !.down = d]
    BY DEF Sent
  <1> HIDE DEF d
  <1>7. /\ Sent(j) \in RcConns /\ Sent(j).at = j.at /\ Sent(j).user = j.user /\ Sent(j).cOpen = j.cOpen
        /\ Sent(j).sOpen = j.sOpen /\ Sent(j).req = j.req /\ Sent(j).down = d
    BY <1>1, <1>5, <1>6, Zenon DEF RcConns
  <1>8. j.cOpen => /\ x.op = "header" /\ Fits(j.req, x.calls[x.n])
                   /\ Len(d) = 1 /\ d[1] = j.req
    BY <1>2, <1>4, <1>5, Zenon
  <1> QED
    BY <1>7, <1>8, Zenon

\* What is left to do once the connection is kept or closed.
LEMMA AfterSent ==
    ASSUME NEW j, ConnRight(j), j.at = "write", NEW x, j.cOpen => Exchange(x, j),
           NEW k \in {HttpActivate(Sent(j)), Ended(Sent(j))}
    PROVE  /\ ConnRight(k) /\ k.user = j.user /\ k.cOpen = j.cOpen /\ (k.cOpen => Exchange(x, k))
           /\ k.at = IF k = Ended(Sent(j)) THEN "gone" ELSE "header"
  <1> DEFINE s == Sent(j)
  <1>1. /\ s \in RcConns /\ s.at = "write" /\ s.user = j.user /\ s.cOpen = j.cOpen
        /\ s.sOpen = j.sOpen /\ s.req = j.req
        /\ j.cOpen => x.op = "header" /\ Fits(j.req, x.calls[x.n]) /\ Len(s.down) = 1 /\ s.down[1] = j.req
    BY SentIs, Zenon
  <1>2. j.sOpen
    BY Zenon DEF ConnRight
  <1> HIDE DEF s
  <1>3. CASE k = HttpActivate(s)
    <2>1. <<>> \in Seq(RcRequests) /\ RcNone \in RcRequests \cup RcAnswers \cup {RcNone}
      OBVIOUS
    <2>2. /\ k \in RcConns /\ k.at = "header" /\ k.user = s.user /\ k.cOpen = s.cOpen
          /\ k.sOpen = s.sOpen /\ k.down = s.down /\ k.up = <<>>
      BY <1>1, <1>3, <2>1, Zenon DEF RcConns, HttpActivate
    <2>3. ConnRight(k)
      BY <1>1, <1>2, <2>2, Zenon DEF ConnRight
    <2>4. j.cOpen => Exchange(x, k)
      BY <1>1, <2>2, Zenon DEF Exchange
    <2>5. k # Ended(s)
      <3>1. Ended(s).at = "gone"
        BY <1>1, Zenon DEF Ended, RcConns
      <3> QED BY <2>2, <3>1, Zenon
    <2> QED BY <1>1, <2>2, <2>3, <2>4, <2>5, Zenon DEF s
  <1>4. CASE k = Ended(s)
    <2>1. /\ k \in RcConns /\ k.at = "gone" /\ k.user = s.user /\ k.cOpen = s.cOpen
          /\ ~k.sOpen /\ k.down = s.down
      BY <1>1, <1>4, Zenon DEF RcConns, Ended
    <2>2. ConnRight(k)
      BY <2>1, Zenon DEF ConnRight
    <2>3. j.cOpen => Exchange(x, k)
      BY <1>1, <2>1, Zenon DEF Exchange
    <2> QED BY <1>1, <1>4, <2>1, <2>2, <2>3, Zenon DEF s
  <1> QED
    BY <1>3, <1>4, Zenon DEF s

LEMMA HandleClientSentRight ==
    ASSUME RcInv, NEW c \in 1..Len(rcConn), rcConn[c].at = "write", HandleClientSent(c)
    PROVE  RcInv'
  <1> DEFINE j == rcConn[c]
             x == rcUser[j.user]
             sent == [rcConn EXCEPT ![c].down = IF rcConn[c].cOpen THEN Append(@, rcConn[c].req) ELSE @]
             kept == HttpActivate(Sent(j))
             gone == Ended(Sent(j))
             e == [what |-> "broken", c |-> c]
  <1>1. ConnRight(j) /\ j.at = "write" /\ (j.cOpen => Exchange(x, j))
    BY ServerConn, Zenon
  <1>2. rcConn \in Seq(RcConns)
    BY RcInvParts, Zenon DEF ConnsTyped
  <1>3. sent = [rcConn EXCEPT ![c] = Sent(j)] /\ sent \in Seq(RcConns) /\ Len(sent) = Len(rcConn) /\ sent[c] = Sent(j)
    <2>1. Sent(j) \in RcConns
      BY <1>1, SentIs, Zenon
    <2>2. sent = [rcConn EXCEPT ![c] = Sent(j)]
      BY DEF Sent
    <2> HIDE DEF sent, j
    <2> QED BY <1>2, <2>1, <2>2
  <1>4. CASE /\ rcConn' = [sent EXCEPT ![c] = HttpActivate(@)]
             /\ UNCHANGED <<rcUser, rcMod, rcPool, rcLeft>>
    <2>1. rcConn' = [rcConn EXCEPT ![c] = kept]
      <3> HIDE DEF sent, j
      <3>1. rcConn' = [sent EXCEPT ![c] = HttpActivate(Sent(j))]
        BY <1>3, <1>4, Zenon
      <3> QED BY <3>1, <1>2, <1>3, ZenonT(40)
    <2>2. ConnRight(kept) /\ kept.user = j.user /\ kept.cOpen = j.cOpen /\ (kept.cOpen => Exchange(x, kept))
          /\ kept.at \in {"gone", "header"}
      BY <1>1, AfterSent, Zenon
    <2> HIDE DEF kept, j, x
    <2>3. ServerMoves(c, kept)
      BY <2>1, <2>2, Zenon DEF ServerMoves, j, x
    <2>4. kept.at # "busy" /\ rcConn[c].at \notin {"busy", "gone"}
      BY <1>1, <2>2, Zenon DEF j
    <2> QED
      BY <1>4, <2>3, <2>4, ServerQuiet, ZenonT(40)
  <1>5. CASE /\ rcConn' = [sent EXCEPT ![c].at = "gone", ![c].sOpen = FALSE]
             /\ RcPost(e) /\ UNCHANGED <<rcUser, rcPool, rcLeft>>
    <2>1. rcConn' = [rcConn EXCEPT ![c] = gone]
      <3> HIDE DEF sent, j
      <3>1. [sent EXCEPT ![c].at = "gone", ![c].sOpen = FALSE] = [sent EXCEPT ![c] = Ended(sent[c])]
        BY <1>3, Zenon DEF Ended
      <3>2. rcConn' = [sent EXCEPT ![c] = gone]
        BY <1>3, <1>5, <3>1, Zenon
      <3> HIDE DEF gone
      <3> QED BY <3>2, <1>2, <1>3, Zenon
    <2>2. ConnRight(gone) /\ gone.user = j.user /\ gone.cOpen = j.cOpen /\ (gone.cOpen => Exchange(x, gone))
          /\ gone.at = "gone"
      BY <1>1, AfterSent, Zenon
    <2> HIDE DEF gone, j, x
    <2>3. ServerMoves(c, gone)
      BY <2>1, <2>2, Zenon DEF ServerMoves, j, x
    <2>4. Told(c, gone, e)
      BY <1>1, <1>5, <2>2, Zenon DEF Told, j
    <2> HIDE DEF e
    <2> QED
      BY <1>5, <2>3, <2>4, ServerTells, Zenon
  <1> QED
    BY <1>4, <1>5, Zenon DEF HandleClientSent

LEMMA HandleWritenResponseRight ==
    ASSUME RcInv, NEW c \in 1..Len(rcConn), HandleWritenResponse(c)
    PROVE  RcInv'
  <1>1. rcConn[c].at = "write" /\ rcConn[c].at \notin {"busy", "gone"}
    BY Zenon DEF HandleWritenResponse
  <1>2. CASE HandleClientSent(c)
    BY <1>1, <1>2, HandleClientSentRight, Zenon
  <1>3. CASE ~rcConn[c].cOpen /\ RemoveClient(c)
    BY <1>1, <1>3, RemoveClientRight, Zenon
  <1> QED
    BY <1>2, <1>3, Zenon DEF HandleWritenResponse

-----------------------------------------------------------------------------
(* The RPC module.                                                         *)

\* The module takes its first event.
Taken == ModTyped /\ rcMod.q # <<>> /\ rcMod'.q = Tail(rcMod.q)

LEMMA QueueShrinks ==
    ASSUME Taken
    PROVE  /\ Len(rcMod.q) \in Nat /\ 1 \in 1..Len(rcMod.q)
           /\ Head(rcMod.q) = rcMod.q[1] /\ Head(rcMod.q) \in RcEvents
           /\ rcMod'.q \in Seq(RcEvents)
           /\ \A i \in 1..Len(rcMod'.q) : i + 1 \in 1..Len(rcMod.q) /\ i + 1 # 1 /\ rcMod'.q[i] = rcMod.q[i + 1]
           /\ \A i \in 1..Len(rcMod.q) : i # 1 => i - 1 \in 1..Len(rcMod'.q) /\ rcMod'.q[i - 1] = rcMod.q[i]
  <1>1. rcMod.q \in Seq(RcEvents) /\ rcMod.q # <<>> /\ rcMod'.q = Tail(rcMod.q)
    BY DEF Taken, ModTyped
  <1>2. \A i \in 1..Len(rcMod'.q) : i + 1 # 1
    OBVIOUS
  <1> QED
    BY <1>1, <1>2, NonEmpty

LEMMA EventsAfter ==
    ASSUME Taken, EventsRight, Len(rcConn') = Len(rcConn),
           \A d \in 1..Len(rcConn) : rcConn[d].at = "gone" => rcConn'[d].at = "gone",
           \A i \in 1..Len(rcMod.q) : i # 1 /\ rcMod.q[i].what = "req" =>
              /\ rcConn'[rcMod.q[i].c] = rcConn[rcMod.q[i].c]
              /\ \A w \in rcMod'.work : w.c # rcMod.q[i].c
    PROVE  EventsRight'
  <1>1. /\ Len(rcMod.q) \in Nat
        /\ \A i \in 1..Len(rcMod'.q) : i + 1 \in 1..Len(rcMod.q) /\ i + 1 # 1 /\ rcMod'.q[i] = rcMod.q[i + 1]
    BY QueueShrinks, Zenon
  <1>2. ASSUME NEW i \in 1..Len(rcMod'.q), rcMod'.q[i].what = "req"
        PROVE  /\ rcMod'.q[i].c \in 1..Len(rcConn')
               /\ rcConn'[rcMod'.q[i].c].at = "busy" /\ rcConn'[rcMod'.q[i].c].req = rcMod'.q[i].r
               /\ \A w \in rcMod'.work : w.c # rcMod'.q[i].c
               /\ \A j \in 1..Len(rcMod'.q) : IsReq(rcMod'.q[j], rcMod'.q[i].c) => i = j
    <2> DEFINE e == rcMod.q[i + 1]
    <2>1. i + 1 \in 1..Len(rcMod.q) /\ i + 1 # 1 /\ rcMod'.q[i] = e /\ e.what = "req"
      BY <1>1, <1>2, Zenon
    <2>2. /\ e.c \in 1..Len(rcConn) /\ rcConn[e.c].at = "busy" /\ rcConn[e.c].req = e.r
          /\ \A j \in 1..Len(rcMod.q) : IsReq(rcMod.q[j], e.c) => i + 1 = j
      BY <2>1, Zenon DEF EventsRight
    <2>3. rcConn'[e.c] = rcConn[e.c] /\ \A w \in rcMod'.work : w.c # e.c
      BY <2>1, Zenon
    <2>4. ASSUME NEW j \in 1..Len(rcMod'.q), IsReq(rcMod'.q[j], e.c) PROVE i = j
      <3>1. j + 1 \in 1..Len(rcMod.q) /\ IsReq(rcMod.q[j + 1], e.c)
        BY <1>1, <2>4, Zenon
      <3>2. i + 1 = j + 1
        BY <2>2, <3>1, Zenon
      <3> QED BY <3>2
    <2> HIDE DEF e
    <2> QED BY <2>1, <2>2, <2>3, <2>4, Zenon
  <1>3. ASSUME NEW i \in 1..Len(rcMod'.q), rcMod'.q[i].what = "broken"
        PROVE  rcMod'.q[i].c \in 1..Len(rcConn') /\ rcConn'[rcMod'.q[i].c].at = "gone"
    <2>1. i + 1 \in 1..Len(rcMod.q) /\ rcMod'.q[i] = rcMod.q[i + 1]
      BY <1>1, Zenon
    <2>2. rcMod.q[i + 1].c \in 1..Len(rcConn) /\ rcConn[rcMod.q[i + 1].c].at = "gone"
      BY <1>3, <2>1, Zenon DEF EventsRight
    <2> QED BY <2>1, <2>2, Zenon
  <1> QED
    BY <1>2, <1>3, Zenon DEF EventsRight

\* A list of works that follows another: nothing of the workers fits worse into it.
Follows(m, n) ==
    /\ m.id \in Nat /\ n.id \in Nat /\ m.id <= n.id
    /\ \A v \in n.work : \/ v.id \in Nat /\ v.id > m.id
                         \/ \E w \in m.work : v.id = w.id /\ v.c = w.c /\ v.items = w.items

LEMMA RightAfter ==
    ASSUME NEW m, NEW n, Follows(m, n), NEW t, t.id \in Nat
    PROVE  /\ TaskRight(t, m) => TaskRight(t, n)
           /\ RespRight(t, m) => RespRight(t, n)
  <1>1. m.id \in Nat /\ n.id \in Nat /\ m.id <= n.id
    BY Zenon DEF Follows
  <1>2. ASSUME t.id <= m.id, NEW v \in n.work, ~(v.id \in Nat /\ v.id > m.id)
        PROVE  /\ (\A w \in m.work : TaskFits(t, w)) => TaskFits(t, v)
               /\ (\A w \in m.work : RespFits(t, w)) => RespFits(t, v)
    <2>1. PICK w \in m.work : v.id = w.id /\ v.c = w.c /\ v.items = w.items
      BY <1>2, Zenon DEF Follows
    <2> QED BY <2>1, Zenon DEF TaskFits, RespFits
  <1>3. ASSUME t.id <= m.id, NEW v \in n.work, v.id \in Nat /\ v.id > m.id
        PROVE  TaskFits(t, v) /\ RespFits(t, v)
    <2>1. t.id # v.id
      BY <1>1, <1>3
    <2> QED BY <2>1, Zenon DEF TaskFits, RespFits
  <1>4. t.id <= m.id => t.id <= n.id
    BY <1>1
  <1>5. ASSUME TaskRight(t, m) PROVE TaskRight(t, n)
    BY <1>2, <1>3, <1>4, <1>5, Zenon DEF TaskRight
  <1>6. ASSUME RespRight(t, m) PROVE RespRight(t, n)
    BY <1>2, <1>3, <1>4, <1>6, Zenon DEF RespRight
  <1> QED BY <1>5, <1>6, Zenon

\* Whoever has a request of a batch keeps it while the module takes another event.
LEMMA ServedAfter ==
    ASSUME Taken, NEW w, NEW i, NEW v, Served(rcMod, rcPool, w, i), v.id = w.id,
           DOMAIN w.resp \subseteq DOMAIN v.resp,
           Head(rcMod.q).what = "resp" /\ Head(rcMod.q).id = w.id /\ Head(rcMod.q).sub = i => i \in DOMAIN v.resp
    PROVE  Served(rcMod', rcPool, v, i)
  <1>1. CASE \E k \in 1..Len(rcMod.q) : rcMod.q[k].what = "resp" /\ rcMod.q[k].id = w.id /\ rcMod.q[k].sub = i
    <2>1. PICK k \in 1..Len(rcMod.q) : rcMod.q[k].what = "resp" /\ rcMod.q[k].id = w.id /\ rcMod.q[k].sub = i
      BY <1>1, Zenon
    <2>2. CASE k = 1
      <3>1. i \in DOMAIN v.resp
        BY <2>1, <2>2, QueueShrinks, Zenon
      <3> QED BY <3>1, Zenon DEF Served
    <2>3. CASE k # 1
      <3>1. k - 1 \in 1..Len(rcMod'.q) /\ rcMod'.q[k - 1] = rcMod.q[k]
        BY <2>3, QueueShrinks, Zenon
      <3>2. rcMod'.q[k - 1].what = "resp" /\ rcMod'.q[k - 1].id = v.id /\ rcMod'.q[k - 1].sub = i
        BY <2>1, <3>1, Zenon
      <3> QED BY <3>1, <3>2, Zenon DEF Served
    <2> QED BY <2>2, <2>3, Zenon
  <1>2. CASE \/ i \in DOMAIN w.resp
             \/ \E k \in 1..Len(rcPool.q) : rcPool.q[k].id = w.id /\ rcPool.q[k].sub = i
             \/ \E t \in RcThreads : rcPool.thr[t] # RcNone /\ rcPool.thr[t].id = w.id /\ rcPool.thr[t].sub = i
    BY <1>2, Zenon DEF Served
  <1> QED
    BY <1>1, <1>2, Zenon DEF Served

LEMMA AcceptedAfter ==
    ASSUME Taken, Accepted, NEW d \in 1..Len(rcConn), rcConn[d].at = "busy", rcConn[d].req.kind = "ok",
           ~IsReq(Head(rcMod.q), d)
    PROVE  \/ \E i \in 1..Len(rcMod'.q) : IsReq(rcMod'.q[i], d)
           \/ \E w \in rcMod.work : w.c = d
  <1>1. ASSUME NEW i \in 1..Len(rcMod.q), IsReq(rcMod.q[i], d)
        PROVE  \E k \in 1..Len(rcMod'.q) : IsReq(rcMod'.q[k], d)
    <2>1. i # 1
      BY <1>1, QueueShrinks, Zenon
    <2>2. i - 1 \in 1..Len(rcMod'.q) /\ rcMod'.q[i - 1] = rcMod.q[i]
      BY <2>1, QueueShrinks, Zenon
    <2> QED BY <1>1, <2>2, Zenon
  <1> QED
    BY <1>1, Zenon DEF Accepted

LEMMA TaskTyped ==
    ASSUME PoolTyped
    PROVE  /\ \A i \in 1..Len(rcPool.q) : rcPool.q[i] \in RcTasks /\ rcPool.q[i].id \in Nat
           /\ \A t \in RcThreads : rcPool.thr[t] # RcNone => rcPool.thr[t] \in RcTasks /\ rcPool.thr[t].id \in Nat
           /\ \A x \in RcTasks : x # RcNone /\ x.c \in Nat /\ x.id \in Nat /\ x.sub \in Nat /\ x.item \in RcItems
  <1>1. rcPool.q \in Seq(RcTasks) /\ rcPool.thr \in [RcThreads -> RcTasks \cup {RcNone}]
    BY Zenon DEF PoolTyped
  <1>2. \A x \in RcTasks : x.c \in Nat /\ x.id \in Nat /\ x.sub \in Nat /\ x.item \in RcItems
    BY DEF RcTasks
  <1>3. ASSUME NEW x \in RcTasks PROVE x # RcNone
    <2>1. "id" \in DOMAIN x
      BY Zenon DEF RcTasks
    <2>2. DOMAIN RcNone = {}
      BY DEF RcNone
    <2> QED BY <2>1, <2>2, Zenon
  <1>4. /\ \A i \in 1..Len(rcPool.q) : rcPool.q[i] \in RcTasks
        /\ \A t \in RcThreads : rcPool.thr[t] # RcNone => rcPool.thr[t] \in RcTasks
    BY <1>1
  <1> QED
    BY <1>2, <1>3, <1>4, Zenon

LEMMA EventTyped ==
    ASSUME NEW e \in RcEvents
    PROVE  /\ e.what \in {"req", "broken", "resp"} /\ e.c \in Nat
           /\ e.what = "req" => e.r \in RcRequests
           /\ e.what = "resp" => e.id \in Nat /\ e.sub \in Nat /\ e.val \in RcValues
  BY Zenon DEF RcEvents, RcReqEvents, RcBrokenEvents, RcRespEvents

LEMMA RespsAfter ==
    ASSUME Taken, TasksRight, Follows(rcMod, rcMod')
    PROVE  \A i \in 1..Len(rcMod'.q) : RespRight(rcMod'.q[i], rcMod')
  <1>1. SUFFICES ASSUME NEW i \in 1..Len(rcMod'.q), rcMod'.q[i].what = "resp"
                 PROVE  RespRight(rcMod'.q[i], rcMod')
    BY Zenon DEF RespRight
  <1>2. i + 1 \in 1..Len(rcMod.q) /\ rcMod'.q[i] = rcMod.q[i + 1] /\ rcMod'.q \in Seq(RcEvents)
    BY QueueShrinks, Zenon
  <1>3. rcMod'.q[i].id \in Nat
    BY <1>1, <1>2, EventTyped
  <1>4. RespRight(rcMod'.q[i], rcMod)
    BY <1>2, Zenon DEF TasksRight
  <1> QED
    BY <1>3, <1>4, RightAfter, Zenon

LEMMA TasksAfter ==
    ASSUME Taken, PoolTyped, TasksRight, Follows(rcMod, rcMod'), rcPool' = rcPool
    PROVE  TasksRight'
  <1>1. \A i \in 1..Len(rcPool.q) : TaskRight(rcPool.q[i], rcMod')
    BY TaskTyped, RightAfter, Zenon DEF TasksRight
  <1>2. \A t \in RcThreads : rcPool.thr[t] # RcNone => TaskRight(rcPool.thr[t], rcMod')
    BY TaskTyped, RightAfter, Zenon DEF TasksRight
  <1> QED
    BY <1>1, <1>2, RespsAfter, Zenon DEF TasksRight

\* An event that nobody waits for.
LEMMA Dropped ==
    ASSUME RcInv, rcMod.q # <<>>, rcMod' = [rcMod EXCEPT !.q = Tail(@)], UNCHANGED <<rcUser, rcConn, rcPool, rcLeft>>,
           Head(rcMod.q).what = "req" => Head(rcMod.q).r.kind # "ok",
           Head(rcMod.q).what = "resp" =>
              \A w \in rcMod.work : w.id = Head(rcMod.q).id => Head(rcMod.q).sub \in DOMAIN w.resp
    PROVE  RcInv'
  <1>1. /\ UsersTyped /\ ConnsTyped /\ ModTyped /\ PoolTyped /\ LeftTyped
        /\ UsersRight /\ ConnsOwned /\ ConnsRight /\ ModuleRight
    BY RcInvParts, Zenon
  <1>2. /\ UsersTyped' /\ ConnsTyped' /\ PoolTyped' /\ LeftTyped'
        /\ UsersRight' /\ ConnsOwned' /\ ConnsRight'
    BY <1>1, Zenon DEF UsersTyped, ConnsTyped, PoolTyped, LeftTyped, UsersRight, ConnsOwned, ConnsRight
  <1>3. /\ rcMod'.work = rcMod.work /\ rcMod'.id = rcMod.id /\ rcMod'.q = Tail(rcMod.q)
        /\ Taken
    BY <1>1, Zenon DEF ModTyped, Taken
  <1>4. ModTyped'
    <2>1. Tail(rcMod.q) \in Seq(RcEvents)
      BY <1>3, QueueShrinks, Zenon
    <2> QED BY <1>1, <2>1, Zenon DEF ModTyped
  <1>5. EventsRight'
    BY <1>1, <1>3, EventsAfter, Zenon DEF ModuleRight, EventsRight
  <1>6. WorksRight'
    BY <1>1, <1>3, Zenon DEF ModuleRight, WorksRight
  <1>7. TasksRight'
    <2>1. rcMod.id \in Nat
      BY <1>1, Zenon DEF ModTyped
    <2>2. Follows(rcMod, rcMod')
      BY <1>3, <2>1 DEF Follows
    <2> QED BY <1>1, <1>3, <2>2, TasksAfter, Zenon DEF ModuleRight
  <1>8. WorksServed'
    <2>1. ASSUME NEW w \in rcMod.work, NEW i \in 1..Len(w.items) PROVE Served(rcMod', rcPool, w, i)
      <3>1. Served(rcMod, rcPool, w, i)
        BY <1>1, Zenon DEF ModuleRight, WorksServed
      <3> QED BY <1>3, <3>1, ServedAfter, Zenon
    <2> QED BY <2>1, <1>3, Zenon DEF WorksServed
  <1>9. Accepted'
    <2>1. ASSUME NEW d \in 1..Len(rcConn), rcConn[d].at = "busy", rcConn[d].req.kind = "ok"
          PROVE  \/ \E i \in 1..Len(rcMod'.q) : IsReq(rcMod'.q[i], d)
                 \/ \E w \in rcMod.work : w.c = d
      <3>1. ~IsReq(Head(rcMod.q), d)
        <4>1. SUFFICES ASSUME IsReq(Head(rcMod.q), d) PROVE FALSE
          OBVIOUS
        <4>2. Head(rcMod.q) = rcMod.q[1] /\ 1 \in 1..Len(rcMod.q)
          BY <1>3, QueueShrinks, Zenon
        <4>3. rcConn[d].req = Head(rcMod.q).r
          BY <4>1, <4>2, <1>1, Zenon DEF ModuleRight, EventsRight, IsReq
        <4> QED BY <2>1, <4>1, <4>3, Zenon DEF IsReq
      <3>2. Accepted
        BY <1>1, Zenon DEF ModuleRight
      <3> QED BY <1>3, <2>1, <3>1, <3>2, AcceptedAfter, Zenon
    <2> QED BY <2>1, <1>3, Zenon DEF Accepted
  <1> QED
    BY <1>2, <1>4, <1>5, <1>6, <1>7, <1>8, <1>9, RcInvPartsNext, Zenon DEF ModuleRight

\* A connection has one work at most, and that is the one at its front.
LEMMA FrontIs ==
    ASSUME RcInv, NEW c, RcWork(c) # {}
    PROVE  RcFront(c) \in rcMod.work /\ RcFront(c).c = c /\ RcWork(c) = {RcFront(c)}
  <1>1. WorksRight /\ ModTyped
    BY RcInvParts, Zenon DEF ModuleRight
  <1>2. PICK w \in rcMod.work : w.c = c
    BY Zenon DEF RcWork
  <1>3. RcWork(c) = {w}
    BY <1>1, <1>2, Zenon DEF RcWork, WorksRight
  <1>4. w.id \in Nat
    BY <1>1, <1>2, Zenon DEF ModTyped, RcWorks
  <1>5. \A v \in RcWork(c) : w.id <= v.id
    BY <1>3, <1>4
  <1>6. RcFront(c) = w
    BY <1>3, <1>5, Zenon DEF RcFront
  <1> QED
    BY <1>2, <1>3, <1>6, Zenon

\* Every request of a new batch goes to the workers.
LEMMA AssignWorkIs ==
    ASSUME PoolTyped, NEW w \in RcWorks, rcPool' = AssignWork(rcPool, w)
    PROVE  /\ PoolTyped' /\ rcPool'.thr = rcPool.thr
           /\ Len(rcPool.q) \in Nat /\ Len(w.items) \in Nat /\ Len(rcPool'.q) = Len(rcPool.q) + Len(w.items)
           /\ \A i \in 1..Len(rcPool.q) : i \in 1..Len(rcPool'.q) /\ rcPool'.q[i] = rcPool.q[i]
           /\ \A i \in 1..Len(w.items) :
                 /\ Len(rcPool.q) + i \in 1..Len(rcPool'.q)
                 /\ rcPool'.q[Len(rcPool.q) + i] = [c |-> w.c, id |-> w.id, sub |-> i, item |-> w.items[i]]
           /\ \A k \in 1..Len(rcPool'.q) : k \in 1..Len(rcPool.q) \/ \E i \in 1..Len(w.items) : k = Len(rcPool.q) + i
  <1> DEFINE f(i) == [c |-> w.c, id |-> w.id, sub |-> i, item |-> w.items[i]]
             s == [i \in 1..Len(w.items) |-> f(i)]
  <1>1. w.c \in Nat /\ w.id \in Nat /\ w.items \in Seq(RcItems) /\ rcPool.q \in Seq(RcTasks)
    BY Zenon DEF RcWorks, PoolTyped
  <1>2. \A i \in 1..Len(w.items) : f(i) \in RcTasks
    BY <1>1 DEF RcTasks
  <1>3. rcPool' = [rcPool EXCEPT !.q = @ \o s]
    BY Zenon DEF AssignWork
  <1> HIDE DEF f
  <1>4. s \in Seq(RcTasks) /\ Len(s) = Len(w.items) /\ Len(w.items) \in Nat /\ \A i \in 1..Len(w.items) : s[i] = f(i)
    BY <1>1, <1>2
  <1> HIDE DEF s
  <1>5. /\ rcPool.q \o s \in Seq(RcTasks) /\ Len(rcPool.q) \in Nat /\ Len(rcPool.q \o s) = Len(rcPool.q) + Len(s)
        /\ \A i \in 1..Len(rcPool.q) : (rcPool.q \o s)[i] = rcPool.q[i]
        /\ \A i \in 1..Len(s) : (rcPool.q \o s)[Len(rcPool.q) + i] = s[i]
    <2> DEFINE q == rcPool.q
    <2>1. q \in Seq(RcTasks) BY <1>1, Zenon
    <2> HIDE DEF q
    <2>2. q \o s \in Seq(RcTasks) /\ Len(q) \in Nat /\ Len(q \o s) = Len(q) + Len(s)
      BY <1>4, <2>1
    <2>3. \A i \in 1..Len(q) : (q \o s)[i] = q[i]
      BY <1>4, <2>1
    <2>4. \A i \in 1..Len(s) : (q \o s)[Len(q) + i] = s[i]
      BY <1>4, <2>1
    <2> QED BY <2>2, <2>3, <2>4, Zenon DEF q
  <1>6. /\ rcPool' \in [q : Seq(RcTasks), thr : [RcThreads -> RcTasks \cup {RcNone}]]
        /\ rcPool'.thr = rcPool.thr /\ rcPool'.q = rcPool.q \o s
    BY <1>3, <1>5, Zenon DEF PoolTyped
  <1>7. Len(rcPool'.q) = Len(rcPool.q) + Len(w.items) /\ Len(rcPool.q) \in Nat /\ Len(w.items) \in Nat
    BY <1>4, <1>5, <1>6, Zenon
  <1>8. /\ \A i \in 1..Len(rcPool.q) : i \in 1..Len(rcPool'.q)
        /\ \A i \in 1..Len(w.items) : Len(rcPool.q) + i \in 1..Len(rcPool'.q)
        /\ \A k \in 1..Len(rcPool'.q) : k \notin 1..Len(rcPool.q) =>
              k - Len(rcPool.q) \in 1..Len(w.items) /\ k = Len(rcPool.q) + (k - Len(rcPool.q))
    <2>1. \A m, n \in Nat :
             /\ \A i \in 1..m : i \in 1..(m + n)
             /\ \A i \in 1..n : m + i \in 1..(m + n)
             /\ \A k \in 1..(m + n) : k \notin 1..m => k - m \in 1..n /\ k = m + (k - m)
      OBVIOUS
    <2> QED BY <1>7, <2>1, ZenonT(40)
  <1>9. \A k \in 1..Len(rcPool'.q) : k \in 1..Len(rcPool.q) \/ \E i \in 1..Len(w.items) : k = Len(rcPool.q) + i
    BY <1>8, Zenon
  <1>10. PoolTyped'
    BY <1>6, Zenon DEF PoolTyped
  <1>11. /\ \A i \in 1..Len(rcPool.q) : rcPool'.q[i] = rcPool.q[i]
         /\ \A i \in 1..Len(w.items) : rcPool'.q[Len(rcPool.q) + i] = f(i)
    BY <1>4, <1>5, <1>6, ZenonT(40)
  <1>12. \A i \in 1..Len(w.items) :
            rcPool'.q[Len(rcPool.q) + i] = [c |-> w.c, id |-> w.id, sub |-> i, item |-> w.items[i]]
    BY <1>11, Zenon DEF f
  <1> QED
    BY <1>6, <1>7, <1>8, <1>9, <1>10, <1>11, <1>12, Zenon

\* The module starts a batch.
LEMMA HandleHttpReqRight ==
    ASSUME RcInv, rcMod.q # <<>>, Head(rcMod.q).what = "req", HandleHttpReq(Head(rcMod.q)),
           UNCHANGED <<rcUser, rcConn, rcLeft>>
    PROVE  RcInv'
  <1> DEFINE e == Head(rcMod.q)
             w == [c |-> e.c, id |-> rcMod.id + 1, arr |-> e.r.arr, items |-> e.r.items,
                   resp |-> [i \in {} |-> RcNone]]
  <1>1. CASE e.r.kind # "ok"
    <2>1. rcMod' = [rcMod EXCEPT !.q = Tail(@)] /\ rcPool' = rcPool
      BY <1>1, Zenon DEF HandleHttpReq
    <2> QED BY <1>1, <2>1, Dropped, Zenon
  <1>2. CASE e.r.kind = "ok"
    <2>1. /\ UsersTyped /\ ConnsTyped /\ ModTyped /\ PoolTyped /\ LeftTyped
          /\ UsersRight /\ ConnsOwned /\ ConnsRight /\ ModuleRight
      BY RcInvParts, Zenon
    <2>2. /\ UsersTyped' /\ ConnsTyped' /\ LeftTyped'
          /\ UsersRight' /\ ConnsOwned' /\ ConnsRight'
      BY <2>1, Zenon DEF UsersTyped, ConnsTyped, LeftTyped, UsersRight, ConnsOwned, ConnsRight
    <2>3. /\ rcMod' = [rcMod EXCEPT !.q = Tail(@), !.id = @ + 1, !.work = @ \cup {w}]
          /\ rcPool' = IF RcWork(e.c) = {} THEN AssignWork(rcPool, w) ELSE rcPool
      BY <1>2, Zenon DEF HandleHttpReq
    <2>4. rcMod'.q = Tail(rcMod.q) /\ rcMod'.id = rcMod.id + 1 /\ rcMod'.work = rcMod.work \cup {w} /\ rcMod.id \in Nat
      <3> HIDE DEF w
      <3> QED BY <2>1, <2>3, Zenon DEF ModTyped
    <2>5. Taken
      BY <2>1, <2>4, Zenon DEF Taken
    <2>6. /\ 1 \in 1..Len(rcMod.q) /\ e = rcMod.q[1] /\ e.c \in Nat /\ e.r \in RcRequests /\ Tail(rcMod.q) \in Seq(RcEvents)
      BY <2>4, <2>5, QueueShrinks, EventTyped, ZenonT(40)
    <2>7. /\ e.c \in 1..Len(rcConn) /\ rcConn[e.c].at = "busy" /\ rcConn[e.c].req = e.r
          /\ \A v \in rcMod.work : v.c # e.c
          /\ \A j \in 1..Len(rcMod.q) : IsReq(rcMod.q[j], e.c) => j = 1
      BY <2>1, <2>6 DEF ModuleRight, EventsRight
    <2>8. w \in RcWorks /\ w.c = e.c /\ w.id = rcMod.id + 1 /\ w.items = e.r.items /\ DOMAIN w.resp = {}
      <3>1. e.r.arr \in BOOLEAN /\ e.r.items \in Seq(RcItems)
        BY <2>6, Zenon DEF RcRequests
      <3>2. [i \in {} |-> RcNone] \in UNION {[D -> RcValues] : D \in SUBSET Nat}
        <4>1. [i \in {} |-> RcNone] \in [{} -> RcValues] /\ {} \in SUBSET Nat
          OBVIOUS
        <4> QED BY <4>1, Zenon
      <3>3. rcMod.id + 1 \in Nat
        BY <2>4
      <3>4. DOMAIN [i \in {} |-> RcNone] = {}
        OBVIOUS
      <3> HIDE DEF e
      <3> QED BY <2>6, <3>1, <3>2, <3>3, <3>4, ZenonT(40) DEF RcWorks
    <2> HIDE DEF w
    <2>9. rcPool' = AssignWork(rcPool, w)
      BY <2>3, <2>7, Zenon DEF RcWork
    <2>10. /\ PoolTyped' /\ rcPool'.thr = rcPool.thr
           /\ Len(rcPool.q) \in Nat
           /\ \A i \in 1..Len(rcPool.q) : i \in 1..Len(rcPool'.q) /\ rcPool'.q[i] = rcPool.q[i]
           /\ \A i \in 1..Len(w.items) :
                 /\ Len(rcPool.q) + i \in 1..Len(rcPool'.q)
                 /\ rcPool'.q[Len(rcPool.q) + i] = [c |-> w.c, id |-> w.id, sub |-> i, item |-> w.items[i]]
           /\ \A k \in 1..Len(rcPool'.q) : k \in 1..Len(rcPool.q) \/ \E i \in 1..Len(w.items) : k = Len(rcPool.q) + i
      BY <2>1, <2>8, <2>9, AssignWorkIs, Zenon
    <2>11. ModTyped'
      <3>1. rcMod.id + 1 \in Nat /\ Tail(rcMod.q) \in Seq(RcEvents) /\ rcMod.work \cup {w} \in SUBSET RcWorks
        BY <2>1, <2>4, <2>6, <2>8 DEF ModTyped
      <3> QED BY <2>1, <2>3, <3>1, Zenon DEF ModTyped
    <2>12. EventsRight'
      <3>1. ASSUME NEW i \in 1..Len(rcMod.q), i # 1, rcMod.q[i].what = "req"
            PROVE  \A v \in rcMod'.work : v.c # rcMod.q[i].c
        <4>1. \A v \in rcMod.work : v.c # rcMod.q[i].c
          BY <2>1, <3>1, Zenon DEF ModuleRight, EventsRight
        <4>2. rcMod.q[i].c # e.c
          BY <2>7, <3>1, Zenon DEF IsReq
        <4> QED BY <2>4, <2>8, <4>1, <4>2, Zenon
      <3>2. EventsRight
        BY <2>1, Zenon DEF ModuleRight
      <3> QED BY <2>5, <3>1, <3>2, EventsAfter, Zenon
    <2>13. WorksRight'
      <3>1. WorksRight /\ \A v \in rcMod.work : v.id \in Nat
        BY <2>1, Zenon DEF ModuleRight, ModTyped, RcWorks
      <3>2. \A v \in rcMod.work : v.id <= rcMod.id /\ v.id <= rcMod.id + 1 /\ v.id # w.id /\ v.c # w.c
        BY <2>4, <2>7, <2>8, <3>1 DEF WorksRight
      <3>3. ASSUME NEW v \in rcMod'.work
            PROVE  /\ v.c \in 1..Len(rcConn) /\ v.id <= rcMod'.id
                   /\ rcConn[v.c].at = "busy" /\ rcConn[v.c].req.kind = "ok" /\ v.items = rcConn[v.c].req.items
                   /\ DOMAIN v.resp \subseteq 1..Len(v.items)
                   /\ \A i \in DOMAIN v.resp : v.resp[i] = Execute(v.items[i])
        <4>1. CASE v = w
          BY <1>2, <2>4, <2>7, <2>8, <4>1
        <4>2. CASE v \in rcMod.work
          BY <2>4, <3>1, <3>2, <4>2, Zenon DEF WorksRight
        <4> QED BY <2>4, <4>1, <4>2, ZenonT(40)
      <3>4. \A v, u \in rcMod'.work : v.c = u.c \/ v.id = u.id => v = u
        BY <2>4, <3>1, <3>2, ZenonT(40) DEF WorksRight
      <3> QED BY <3>3, <3>4, Zenon DEF WorksRight
    <2>14. Follows(rcMod, rcMod')
      BY <2>4, <2>8 DEF Follows
    <2>15. TasksRight'
      <3>1. TasksRight
        BY <2>1, Zenon DEF ModuleRight
      <3>2. \A k \in 1..Len(rcPool.q) : TaskRight(rcPool.q[k], rcMod')
        BY <2>1, <2>14, <3>1, TaskTyped, RightAfter, ZenonT(40) DEF TasksRight
      <3>3. \A t \in RcThreads : rcPool.thr[t] # RcNone => TaskRight(rcPool.thr[t], rcMod')
        BY <2>1, <2>14, <3>1, TaskTyped, RightAfter, ZenonT(40) DEF TasksRight
      <3>4. ASSUME NEW i \in 1..Len(w.items)
            PROVE  TaskRight([c |-> w.c, id |-> w.id, sub |-> i, item |-> w.items[i]], rcMod')
        <4> DEFINE t == [c |-> w.c, id |-> w.id, sub |-> i, item |-> w.items[i]]
        <4>1. t.c = w.c /\ t.id = w.id /\ t.sub = i /\ t.item = w.items[i]
          OBVIOUS
        <4> HIDE DEF t
        <4>2. t.id <= rcMod'.id
          BY <2>4, <2>8, <4>1
        <4>3. \A v \in rcMod'.work : v.id = w.id => v = w
          BY <2>4, <2>13, Zenon DEF WorksRight
        <4>4. \A v \in rcMod'.work : TaskFits(t, v)
          BY <4>1, <4>3, Zenon DEF TaskFits
        <4> QED BY <4>2, <4>4, Zenon DEF TaskRight, t
      <3>5. ASSUME NEW k \in 1..Len(rcPool'.q) PROVE TaskRight(rcPool'.q[k], rcMod')
        <4>1. CASE k \in 1..Len(rcPool.q)
          BY <2>10, <3>2, <4>1, ZenonT(40)
        <4>2. ASSUME NEW i \in 1..Len(w.items), k = Len(rcPool.q) + i PROVE TaskRight(rcPool'.q[k], rcMod')
          BY <2>10, <3>4, <4>2, ZenonT(40)
        <4> QED BY <2>10, <4>1, <4>2, Zenon
      <3>6. \A i \in 1..Len(rcMod'.q) : RespRight(rcMod'.q[i], rcMod')
        BY <2>5, <2>14, <3>1, RespsAfter, Zenon
      <3> QED BY <2>10, <3>3, <3>5, <3>6, ZenonT(40) DEF TasksRight
    <2>16. WorksServed'
      <3>1. ASSUME NEW v \in rcMod.work, NEW i \in 1..Len(v.items) PROVE Served(rcMod', rcPool', v, i)
        <4>1. Served(rcMod, rcPool, v, i)
          BY <2>1, Zenon DEF ModuleRight, WorksServed
        <4>2. Served(rcMod', rcPool, v, i)
          BY <2>5, <4>1, ServedAfter, Zenon
        <4> QED BY <2>10, <4>2, Zenon DEF Served
      <3>2. ASSUME NEW i \in 1..Len(w.items) PROVE Served(rcMod', rcPool', w, i)
        <4> DEFINE k == Len(rcPool.q) + i
        <4>0. k \in 1..Len(rcPool'.q) /\ rcPool'.q[k] = [c |-> w.c, id |-> w.id, sub |-> i, item |-> w.items[i]]
          BY <2>10, ZenonT(40)
        <4>1. k \in 1..Len(rcPool'.q) /\ rcPool'.q[k].id = w.id /\ rcPool'.q[k].sub = i
          <5> HIDE DEF k
          <5> QED BY <4>0
        <4> HIDE DEF k
        <4> QED BY <4>1, Zenon DEF Served
      <3> QED BY <2>4, <3>1, <3>2, Zenon DEF WorksServed
    <2>17. Accepted'
      <3>1. ASSUME NEW d \in 1..Len(rcConn), rcConn[d].at = "busy", rcConn[d].req.kind = "ok"
            PROVE  \/ \E i \in 1..Len(rcMod'.q) : IsReq(rcMod'.q[i], d)
                   \/ \E v \in rcMod'.work : v.c = d
        <4>1. CASE d = e.c
          BY <2>4, <2>8, <4>1, Zenon
        <4>2. CASE d # e.c
          <5>1. ~IsReq(Head(rcMod.q), d) /\ Accepted
            BY <2>1, <4>2, Zenon DEF ModuleRight, IsReq
          <5>2. \/ \E i \in 1..Len(rcMod'.q) : IsReq(rcMod'.q[i], d)
                \/ \E v \in rcMod.work : v.c = d
            BY <2>5, <3>1, <5>1, AcceptedAfter, ZenonT(40)
          <5> QED BY <2>4, <5>2, Zenon
        <4> QED BY <4>1, <4>2, Zenon
      <3> QED BY <3>1, Zenon DEF Accepted
    <2> QED
      BY <2>2, <2>10, <2>11, <2>12, <2>13, <2>15, <2>16, <2>17, RcInvPartsNext, ZenonT(40) DEF ModuleRight
  <1> QED
    BY <1>1, <1>2, Zenon

LEMMA HandleHttpBrokenRight ==
    ASSUME RcInv, rcMod.q # <<>>, Head(rcMod.q).what = "broken", HandleHttpBroken(Head(rcMod.q)),
           UNCHANGED <<rcUser, rcLeft>>
    PROVE  RcInv'
  <1> DEFINE e == Head(rcMod.q)
  <1>1. ModTyped /\ EventsRight /\ WorksRight
    BY RcInvParts, Zenon DEF ModuleRight
  <1>2. 1 \in 1..Len(rcMod.q) /\ e = rcMod.q[1]
    <2>1. rcMod.q \in Seq(RcEvents)
      BY <1>1, Zenon DEF ModTyped
    <2> QED BY <2>1, NonEmpty, Zenon
  <1>3. rcConn[e.c].at = "gone"
    BY <1>1, <1>2, Zenon DEF EventsRight
  <1>4. RcWork(e.c) = {}
    BY <1>1, <1>3, Zenon DEF RcWork, WorksRight
  <1>5. rcMod' = [rcMod EXCEPT !.q = Tail(@)]
    <2>1. rcMod' = [rcMod EXCEPT !.q = Tail(@), !.work = @ \ {}]
      BY <1>4, Zenon DEF HandleHttpBroken
    <2> QED BY <1>1, <2>1, Zenon DEF ModTyped
  <1>6. UNCHANGED <<rcPool, rcConn>>
    BY Zenon DEF HandleHttpBroken
  <1> QED
    BY <1>5, <1>6, Dropped, Zenon

\* A response of the batch w is written down in v.
Saves(w, e, v) ==
    /\ w \in rcMod.work /\ e = Head(rcMod.q) /\ e.what = "resp" /\ e.id = w.id /\ e.sub \notin DOMAIN w.resp
    /\ v = SaveResponse(w, e)

LEMMA SaveResponseIs ==
    ASSUME RcInv, Taken, NEW w, NEW e, NEW v, Saves(w, e, v)
    PROVE  /\ w \in RcWorks /\ v \in RcWorks /\ v.c = w.c /\ v.id = w.id /\ v.items = w.items
           /\ e.c = w.c /\ e.sub \in 1..Len(w.items)
           /\ DOMAIN w.resp \subseteq DOMAIN v.resp /\ e.sub \in DOMAIN v.resp
           /\ DOMAIN v.resp \subseteq 1..Len(w.items)
           /\ \A i \in DOMAIN v.resp : v.resp[i] = Execute(w.items[i]) /\ v.resp[i] \in RcValues
  <1> DEFINE r == [i \in DOMAIN w.resp \cup {e.sub} |-> IF i \in DOMAIN w.resp THEN w.resp[i] ELSE e.val]
             E == DOMAIN w.resp \cup {e.sub}
  <1>1. ModTyped /\ WorksRight /\ TasksRight
    BY RcInvParts, Zenon DEF ModuleRight
  <1>2. /\ w \in rcMod.work /\ e.what = "resp" /\ e.id = w.id /\ e.sub \notin DOMAIN w.resp
        /\ v = [w EXCEPT !.resp = r]
    BY Zenon DEF Saves, SaveResponse
  <1>3. e = rcMod.q[1] /\ 1 \in 1..Len(rcMod.q) /\ e \in RcEvents
    BY QueueShrinks, Zenon DEF Saves
  <1>4. e.sub \in Nat /\ e.val \in RcValues
    BY <1>2, <1>3, EventTyped, Zenon
  <1>5. e.c = w.c /\ e.sub \in 1..Len(w.items) /\ e.val = Execute(w.items[e.sub])
    BY <1>1, <1>2, <1>3, Zenon DEF TasksRight, RespRight, RespFits
  <1>6. w \in RcWorks /\ DOMAIN w.resp \subseteq 1..Len(w.items)
        /\ \A i \in DOMAIN w.resp : w.resp[i] = Execute(w.items[i])
    BY <1>1, <1>2, Zenon DEF ModTyped, WorksRight
  <1>7. PICK D \in SUBSET Nat : w.resp \in [D -> RcValues]
    BY <1>6, Zenon DEF RcWorks
  <1>8. r = [i \in E |-> IF i \in DOMAIN w.resp THEN w.resp[i] ELSE e.val]
    OBVIOUS
  <1>9. /\ DOMAIN r = E /\ r \in [E -> RcValues] /\ E \in SUBSET Nat
        /\ \A i \in E : r[i] = (IF i \in DOMAIN w.resp THEN w.resp[i] ELSE e.val) /\ r[i] \in RcValues
    <2> HIDE DEF r
    <2> QED BY <1>4, <1>7, <1>8, Zenon
  <1>10. r \in UNION {[F -> RcValues] : F \in SUBSET Nat}
    <2> HIDE DEF r, E
    <2> QED BY <1>9, Zenon
  <1> HIDE DEF r
  <1>11. v \in RcWorks /\ v.c = w.c /\ v.id = w.id /\ v.items = w.items /\ v.resp = r
    BY <1>2, <1>6, <1>10, Zenon DEF RcWorks
  <1>12. DOMAIN v.resp = E
    BY <1>9, <1>11, Zenon
  <1>13. ASSUME NEW i \in DOMAIN v.resp PROVE v.resp[i] = Execute(w.items[i]) /\ v.resp[i] \in RcValues
    <2>1. i \in E /\ v.resp[i] = r[i]
      BY <1>11, <1>12, Zenon
    <2> HIDE DEF E
    <2>2. CASE i \in DOMAIN w.resp
      BY <1>6, <1>9, <2>1, <2>2, Zenon
    <2>3. CASE i \notin DOMAIN w.resp
      <3>1. i = e.sub
        BY <2>1, <2>3, Zenon DEF E
      <3> QED BY <1>5, <1>9, <2>1, <2>3, <3>1, Zenon
    <2> QED BY <2>2, <2>3, Zenon
  <1> QED
    BY <1>5, <1>6, <1>11, <1>12, <1>13, Zenon

\* Nobody else's request was answered by e.
LEMMA ServedElse ==
    ASSUME RcInv, Taken, NEW w, NEW e, NEW v, Saves(w, e, v), NEW u \in rcMod.work, u # w, NEW i \in 1..Len(u.items)
    PROVE  Served(rcMod', rcPool, u, i)
  <1>1. WorksRight /\ WorksServed
    BY RcInvParts, Zenon DEF ModuleRight
  <1>2. u.id # Head(rcMod.q).id
    BY <1>1, Zenon DEF WorksRight, Saves
  <1>3. Served(rcMod, rcPool, u, i)
    BY <1>1, Zenon DEF WorksServed
  <1> QED
    BY <1>2, <1>3, ServedAfter, Zenon

\* The batch goes on.
LEMMA ResponseSaved ==
    ASSUME RcInv, rcMod.q # <<>>, NEW w, NEW e, NEW v, Saves(w, e, v),
           rcMod' = [rcMod EXCEPT !.q = Tail(@), !.work = (@ \ {w}) \cup {v}],
           UNCHANGED <<rcUser, rcConn, rcPool, rcLeft>>
    PROVE  RcInv'
  <1>1. /\ UsersTyped /\ ConnsTyped /\ ModTyped /\ PoolTyped /\ LeftTyped
        /\ UsersRight /\ ConnsOwned /\ ConnsRight /\ ModuleRight
    BY RcInvParts, Zenon
  <1>2. /\ UsersTyped' /\ ConnsTyped' /\ PoolTyped' /\ LeftTyped'
        /\ UsersRight' /\ ConnsOwned' /\ ConnsRight'
    BY <1>1, Zenon DEF UsersTyped, ConnsTyped, PoolTyped, LeftTyped, UsersRight, ConnsOwned, ConnsRight
  <1>3. /\ rcMod'.work = (rcMod.work \ {w}) \cup {v} /\ rcMod'.id = rcMod.id /\ rcMod'.q = Tail(rcMod.q)
        /\ Taken /\ rcMod.id \in Nat
    BY <1>1, Zenon DEF ModTyped, Taken
  <1>4. /\ w \in RcWorks /\ v \in RcWorks /\ v.c = w.c /\ v.id = w.id /\ v.items = w.items
        /\ e.c = w.c /\ e.sub \in 1..Len(w.items)
        /\ DOMAIN w.resp \subseteq DOMAIN v.resp /\ e.sub \in DOMAIN v.resp
        /\ DOMAIN v.resp \subseteq 1..Len(w.items)
        /\ \A i \in DOMAIN v.resp : v.resp[i] = Execute(w.items[i]) /\ v.resp[i] \in RcValues
    BY <1>3, SaveResponseIs, Zenon
  <1>5. w \in rcMod.work /\ e = Head(rcMod.q) /\ e.what = "resp" /\ e.id = w.id
    BY DEF Saves
  <1>6. ModTyped'
    <2>1. Tail(rcMod.q) \in Seq(RcEvents) /\ (rcMod.work \ {w}) \cup {v} \in SUBSET RcWorks
      BY <1>1, <1>3, <1>4, QueueShrinks, ZenonT(40) DEF ModTyped
    <2> QED BY <1>1, <2>1, ZenonT(40) DEF ModTyped
  <1>7. \A u \in rcMod'.work : \E x \in rcMod.work : u.id = x.id /\ u.c = x.c /\ u.items = x.items
    BY <1>3, <1>4, <1>5, Zenon
  <1>8. EventsRight'
    <2>1. EventsRight
      BY <1>1, Zenon DEF ModuleRight
    <2>2. \A i \in 1..Len(rcMod.q) : rcMod.q[i].what = "req" => \A u \in rcMod'.work : u.c # rcMod.q[i].c
      BY <1>7, <2>1 DEF EventsRight
    <2> QED BY <1>3, <2>1, <2>2, EventsAfter, Zenon
  <1>9. WorksRight'
    <2>1. WorksRight
      BY <1>1, Zenon DEF ModuleRight
    <2>2. ASSUME NEW u \in rcMod'.work
          PROVE  /\ u.c \in 1..Len(rcConn) /\ u.id <= rcMod'.id
                 /\ rcConn[u.c].at = "busy" /\ rcConn[u.c].req.kind = "ok" /\ u.items = rcConn[u.c].req.items
                 /\ DOMAIN u.resp \subseteq 1..Len(u.items)
                 /\ \A i \in DOMAIN u.resp : u.resp[i] = Execute(u.items[i])
      <3>1. CASE u = v
        BY <1>3, <1>4, <1>5, <2>1, <3>1, ZenonT(40) DEF WorksRight
      <3>2. CASE u \in rcMod.work
        BY <1>3, <2>1, <3>2, ZenonT(40) DEF WorksRight
      <3> QED BY <1>3, <3>1, <3>2, Zenon
    <2>3. \A x, u \in rcMod.work : x.c = u.c \/ x.id = u.id => x = u
      BY <2>1, Zenon DEF WorksRight
    <2>4. ASSUME NEW x \in rcMod'.work, NEW u \in rcMod'.work, x.c = u.c \/ x.id = u.id PROVE x = u
      BY <1>3, <1>4, <1>5, <2>3, <2>4
    <2> QED BY <2>2, <2>4, Zenon DEF WorksRight
  <1>10. TasksRight'
    <2>1. Follows(rcMod, rcMod')
      BY <1>3, <1>7 DEF Follows
    <2> QED BY <1>1, <1>3, <2>1, TasksAfter, Zenon DEF ModuleRight
  <1>11. WorksServed'
    <2>1. ASSUME NEW i \in 1..Len(v.items) PROVE Served(rcMod', rcPool, v, i)
      <3>1. Served(rcMod, rcPool, w, i)
        BY <1>1, <1>4, <1>5, Zenon DEF ModuleRight, WorksServed
      <3>2. Head(rcMod.q).sub = i => i \in DOMAIN v.resp
        BY <1>4, <1>5, Zenon
      <3> QED BY <1>3, <1>4, <3>1, <3>2, ServedAfter, ZenonT(40)
    <2>2. \A u \in rcMod.work : u # w => \A i \in 1..Len(u.items) : Served(rcMod', rcPool, u, i)
      BY <1>3, ServedElse, Zenon
    <2> QED BY <1>3, <2>1, <2>2, Zenon DEF WorksServed
  <1>12. Accepted'
    <2>1. ASSUME NEW d \in 1..Len(rcConn), rcConn[d].at = "busy", rcConn[d].req.kind = "ok"
          PROVE  \/ \E i \in 1..Len(rcMod'.q) : IsReq(rcMod'.q[i], d)
                 \/ \E u \in rcMod'.work : u.c = d
      <3>1. ~IsReq(Head(rcMod.q), d) /\ Accepted
        BY <1>1, <1>5, Zenon DEF ModuleRight, IsReq
      <3>2. \/ \E i \in 1..Len(rcMod'.q) : IsReq(rcMod'.q[i], d)
            \/ \E u \in rcMod.work : u.c = d
        BY <1>3, <2>1, <3>1, AcceptedAfter, Zenon
      <3>3. ASSUME NEW u \in rcMod.work, u.c = d PROVE \E x \in rcMod'.work : x.c = d
        BY <1>3, <1>4, <3>3, Zenon
      <3> QED BY <3>2, <3>3, Zenon
    <2> QED BY <2>1, Zenon DEF Accepted
  <1> QED
    BY <1>2, <1>6, <1>8, <1>9, <1>10, <1>11, <1>12, RcInvPartsNext, ZenonT(40) DEF ModuleRight

\* The batch is complete and its answer on the way to the client.
LEMMA ResponseComplete ==
    ASSUME RcInv, rcMod.q # <<>>, NEW w, NEW e, NEW v, Saves(w, e, v), DOMAIN v.resp = 1..Len(v.items),
           JsonReply(e.c, RcResponses(v)), rcMod' = [rcMod EXCEPT !.q = Tail(@), !.work = @ \ {w}],
           UNCHANGED <<rcUser, rcPool, rcLeft>>
    PROVE  RcInv'
  <1> DEFINE c == w.c
             j == rcConn[c]
             x == rcUser[j.user]
             b == RcResponses(v)
             a == RcAnswer(200, b)
             k == [j EXCEPT !.at = "write", !.keep = TRUE, !.req = a]
  <1>1. /\ UsersTyped /\ ConnsTyped /\ ModTyped /\ PoolTyped /\ LeftTyped
        /\ UsersRight /\ ConnsOwned /\ ConnsRight /\ ModuleRight
    BY RcInvParts, Zenon
  <1>2. PoolTyped' /\ LeftTyped'
    BY <1>1, Zenon DEF PoolTyped, LeftTyped
  <1>3. /\ rcMod'.work = rcMod.work \ {w} /\ rcMod'.id = rcMod.id /\ rcMod'.q = Tail(rcMod.q)
        /\ Taken /\ rcMod.id \in Nat
    BY <1>1, Zenon DEF ModTyped, Taken
  <1>4. /\ w \in RcWorks /\ v.items = w.items /\ e.c = c
        /\ \A i \in DOMAIN v.resp : v.resp[i] = Execute(w.items[i]) /\ v.resp[i] \in RcValues
    BY <1>3, SaveResponseIs
  <1>5. w \in rcMod.work /\ e = Head(rcMod.q) /\ e.what = "resp" /\ e.id = w.id
    BY Zenon DEF Saves
  <1>6. /\ c \in 1..Len(rcConn) /\ j.at = "busy" /\ j.req.kind = "ok" /\ w.items = j.req.items
        /\ \A u \in rcMod.work : u.c = c => u = w
    BY <1>1, <1>5, Zenon DEF ModuleRight, WorksRight
  <1>7. ConnRight(j) /\ (j.cOpen => Exchange(x, j))
    BY <1>6, ServerConn, Zenon
  <1>8. a \in RcAnswers /\ Fits(a, j.req)
    <2>1. Len(w.items) \in Nat
      BY <1>4 DEF RcWorks
    <2>2. b = [i \in 1..Len(w.items) |-> v.resp[i]]
      BY <1>4, Zenon DEF RcResponses
    <2>3. \A i \in 1..Len(w.items) : v.resp[i] = Execute(w.items[i]) /\ v.resp[i] \in RcValues
      BY <1>4, Zenon
    <2>4. b \in Seq(RcValues)
      BY <2>1, <2>2, <2>3
    <2>5. b = RcExpected(j.req)
      BY <1>6, <2>2, <2>3, Zenon DEF RcExpected
    <2> HIDE DEF b
    <2>6. a = [code |-> 200, body |-> b]
      BY Zenon DEF RcAnswer
    <2>7. a \in RcAnswers /\ a.code = 200 /\ a.body = b
      BY <2>4, <2>6 DEF RcAnswers
    <2> QED BY <1>6, <2>5, <2>7 DEF Fits
  <1>9. rcConn' = [rcConn EXCEPT ![c] = k]
    <2>1. rcConn' = [rcConn EXCEPT ![c].at = "write", ![c].keep = TRUE, ![c].req = a]
      BY <1>4, <1>6, Zenon DEF JsonReply
    <2> HIDE DEF a, c
    <2> QED BY <2>1, <1>6, Zenon
  <1> HIDE DEF c, j, x, a, b
  <1>10. /\ k \in RcConns /\ k.at = "write" /\ k.req = a /\ k.user = j.user
         /\ k.cOpen = j.cOpen /\ k.sOpen = j.sOpen /\ k.down = j.down
    BY <1>7, <1>8, Zenon DEF RcConns, ConnRight
  <1> HIDE DEF k
  <1>11. ConnRight(k)
    BY <1>6, <1>7, <1>8, <1>10, Zenon DEF ConnRight
  <1>12. Exchange(x, j) => Exchange(x, k)
    BY <1>6, <1>8, <1>10, Zenon DEF Exchange
  <1>13. ServerMoves(c, k)
    BY <1>7, <1>9, <1>10, <1>11, <1>12, Zenon DEF ServerMoves, j, x
  <1>14. /\ UsersTyped' /\ UsersRight' /\ ConnsTyped' /\ ConnsOwned' /\ ConnsRight'
         /\ Len(rcConn) \in Nat /\ Len(rcConn') = Len(rcConn) /\ rcConn'[c] = k
         /\ \A d \in 1..Len(rcConn) : d # c => rcConn'[d] = rcConn[d]
    BY <1>6, <1>13, ServerMovesIs, Zenon
  <1>15. ModTyped'
    <2>1. Tail(rcMod.q) \in Seq(RcEvents) /\ rcMod.work \ {w} \in SUBSET RcWorks
      BY <1>1, <1>3, QueueShrinks, ZenonT(40) DEF ModTyped
    <2> QED BY <1>1, <2>1, Zenon DEF ModTyped
  <1>16. EventsRight'
    <2>1. EventsRight
      BY <1>1, Zenon DEF ModuleRight
    <2>2. \A i \in 1..Len(rcMod.q) : rcMod.q[i].what = "req" =>
             /\ rcConn'[rcMod.q[i].c] = rcConn[rcMod.q[i].c]
             /\ \A u \in rcMod'.work : u.c # rcMod.q[i].c
      BY <1>3, <1>5, <1>14, <2>1, ZenonT(40) DEF EventsRight, c
    <2>3. \A d \in 1..Len(rcConn) : rcConn[d].at = "gone" => rcConn'[d].at = "gone"
      BY <1>6, <1>14, ZenonT(40) DEF j
    <2> QED BY <1>3, <1>14, <2>1, <2>2, <2>3, EventsAfter, ZenonT(40)
  <1>17. WorksRight'
    <2>1. WorksRight
      BY <1>1, Zenon DEF ModuleRight
    <2>2. \A u \in rcMod'.work : u \in rcMod.work /\ u.c # c
      BY <1>3, <1>6, Zenon
    <2>3. \A u \in rcMod'.work : u.c \in 1..Len(rcConn) /\ rcConn'[u.c] = rcConn[u.c]
      BY <1>14, <2>1, <2>2, Zenon DEF WorksRight
    <2> QED BY <1>3, <1>14, <2>1, <2>2, <2>3 DEF WorksRight
  <1>18. TasksRight'
    <2>1. Follows(rcMod, rcMod')
      BY <1>3 DEF Follows
    <2> QED BY <1>1, <1>3, <2>1, TasksAfter, Zenon DEF ModuleRight
  <1>19. WorksServed'
    <2>1. \A u \in rcMod.work : u # w => \A i \in 1..Len(u.items) : Served(rcMod', rcPool, u, i)
      BY <1>3, ServedElse, ZenonT(40)
    <2> QED BY <1>3, <2>1, Zenon DEF WorksServed
  <1>20. Accepted'
    <2>1. ASSUME NEW d \in 1..Len(rcConn), rcConn'[d].at = "busy", rcConn'[d].req.kind = "ok"
          PROVE  \/ \E i \in 1..Len(rcMod'.q) : IsReq(rcMod'.q[i], d)
                 \/ \E u \in rcMod'.work : u.c = d
      <3>1. d # c /\ rcConn'[d] = rcConn[d]
        BY <1>10, <1>14, <2>1, ZenonT(40)
      <3>2. ~IsReq(Head(rcMod.q), d) /\ Accepted
        BY <1>1, <1>5, Zenon DEF ModuleRight, IsReq
      <3>3. \/ \E i \in 1..Len(rcMod'.q) : IsReq(rcMod'.q[i], d)
            \/ \E u \in rcMod.work : u.c = d
        BY <1>3, <2>1, <3>1, <3>2, AcceptedAfter, ZenonT(40)
      <3> QED BY <1>3, <3>1, <3>3, Zenon DEF c
    <2> QED BY <2>1, <1>14, Zenon DEF Accepted
  <1> QED
    BY <1>2, <1>14, <1>15, <1>16, <1>17, <1>18, <1>19, <1>20, RcInvPartsNext, ZenonT(40) DEF ModuleRight

LEMMA HandleRPCModResponseRight ==
    ASSUME RcInv, rcMod.q # <<>>, Head(rcMod.q).what = "resp", HandleRPCModResponse(Head(rcMod.q)),
           UNCHANGED <<rcUser, rcLeft>>
    PROVE  RcInv'
  <1> DEFINE e == Head(rcMod.q)
             w == RcFront(e.c)
             v == SaveResponse(w, e)
  <1>1. ModTyped /\ TasksRight
    BY RcInvParts, Zenon DEF ModuleRight
  <1>2. 1 \in 1..Len(rcMod.q) /\ e = rcMod.q[1]
    <2>1. rcMod.q \in Seq(RcEvents)
      BY <1>1, Zenon DEF ModTyped
    <2> QED BY <2>1, NonEmpty, Zenon
  <1>3. CASE RcWork(e.c) = {} \/ (RcWork(e.c) # {} /\ (w.id # e.id \/ e.sub \in DOMAIN w.resp))
    <2>1. rcMod' = [rcMod EXCEPT !.q = Tail(@)] /\ UNCHANGED <<rcPool, rcConn>>
      BY <1>3, Zenon DEF HandleRPCModResponse
    <2>2. ASSUME NEW u \in rcMod.work, u.id = e.id PROVE e.sub \in DOMAIN u.resp
      <3>1. e.c = u.c
        BY <1>1, <1>2, <2>2, Zenon DEF TasksRight, RespRight, RespFits
      <3>2. u \in RcWork(e.c)
        BY <3>1, Zenon DEF RcWork
      <3>3. u = w
        BY <3>2, FrontIs, Zenon
      <3> QED BY <1>3, <2>2, <3>2, <3>3, Zenon
    <2> QED BY <2>1, <2>2, Dropped, Zenon
  <1>4. CASE ~(RcWork(e.c) = {} \/ (RcWork(e.c) # {} /\ (w.id # e.id \/ e.sub \in DOMAIN w.resp)))
    <2>1. RcWork(e.c) # {} /\ w.id = e.id /\ e.sub \notin DOMAIN w.resp /\ FinishWork(e, w, v)
      BY <1>4, Zenon DEF HandleRPCModResponse
    <2>2. w \in rcMod.work /\ w.c = e.c /\ RcWork(e.c) = {w}
      BY <2>1, FrontIs, Zenon
    <2>3. Saves(w, e, v)
      BY <2>1, <2>2, Zenon DEF Saves
    <2> HIDE DEF e, w, v
    <2>4. CASE DOMAIN v.resp # 1..Len(v.items)
      <3>1. rcMod' = [rcMod EXCEPT !.q = Tail(@), !.work = (@ \ {w}) \cup {v}] /\ UNCHANGED <<rcPool, rcConn>>
        BY <2>1, <2>4, Zenon DEF FinishWork
      <3> QED BY <2>3, <3>1, ResponseSaved, Zenon
    <2>5. CASE DOMAIN v.resp = 1..Len(v.items)
      <3>1. /\ JsonReply(e.c, RcResponses(v)) /\ rcMod' = [rcMod EXCEPT !.q = Tail(@), !.work = @ \ {w}]
            /\ rcPool' = rcPool
        BY <2>1, <2>2, <2>5, Zenon DEF FinishWork
      <3> QED BY <2>3, <2>5, <3>1, ResponseComplete, Zenon
    <2> QED BY <2>4, <2>5, Zenon
  <1> QED
    BY <1>3, <1>4, Zenon

LEMMA RPCModEventRight ==
    ASSUME RcInv, RPCModEvent
    PROVE  RcInv'
  <1>1. rcMod.q # <<>> /\ UNCHANGED <<rcUser, rcLeft>>
    BY Zenon DEF RPCModEvent
  <1>2. CASE Head(rcMod.q).what = "req" /\ HandleHttpReq(Head(rcMod.q)) /\ UNCHANGED rcConn
    BY <1>1, <1>2, HandleHttpReqRight, Zenon
  <1>3. CASE Head(rcMod.q).what = "broken" /\ HandleHttpBroken(Head(rcMod.q))
    BY <1>1, <1>3, HandleHttpBrokenRight, Zenon
  <1>4. CASE Head(rcMod.q).what = "resp" /\ HandleRPCModResponse(Head(rcMod.q))
    BY <1>1, <1>4, HandleRPCModResponseRight, Zenon
  <1> QED
    BY <1>2, <1>3, <1>4, Zenon DEF RPCModEvent

-----------------------------------------------------------------------------
(* The worker threads.                                                     *)
LEMMA WorkerTakesRight ==
    ASSUME RcInv, NEW t \in RcThreads, WorkerTakes(t)
    PROVE  RcInv'
  <1>1. /\ UsersTyped /\ ConnsTyped /\ ModTyped /\ PoolTyped /\ LeftTyped
        /\ UsersRight /\ ConnsOwned /\ ConnsRight /\ ModuleRight
    BY RcInvParts, Zenon
  <1>2. /\ rcPool.thr[t] = RcNone /\ rcPool.q # <<>> /\ UNCHANGED <<rcUser, rcConn, rcMod, rcLeft>>
        /\ rcPool' = [rcPool EXCEPT !.q = Tail(@), !.thr[t] = Head(rcPool.q)]
    BY ZenonT(40) DEF WorkerTakes
  <1>3. /\ UsersTyped' /\ ConnsTyped' /\ ModTyped' /\ LeftTyped'
        /\ UsersRight' /\ ConnsOwned' /\ ConnsRight' /\ EventsRight' /\ WorksRight' /\ Accepted'
    <2>1. UsersTyped' /\ ConnsTyped' /\ ModTyped' /\ LeftTyped'
      BY <1>1, <1>2, Zenon DEF UsersTyped, ConnsTyped, ModTyped, LeftTyped
    <2>2. UsersRight' /\ ConnsOwned' /\ ConnsRight'
      BY <1>1, <1>2, Zenon DEF UsersRight, ConnsOwned, ConnsRight
    <2>3. EventsRight' /\ WorksRight' /\ Accepted'
      BY <1>1, <1>2, WorkSame, Zenon DEF ModuleRight
    <2> QED
      BY <2>1, <2>2, <2>3, Zenon
  <1>4. /\ rcPool.q \in Seq(RcTasks) /\ rcPool.thr \in [RcThreads -> RcTasks \cup {RcNone}]
        /\ rcPool'.q = Tail(rcPool.q) /\ rcPool'.thr = [rcPool.thr EXCEPT ![t] = Head(rcPool.q)]
        /\ rcPool' = [q |-> rcPool'.q, thr |-> rcPool'.thr]
    BY <1>1, <1>2, Zenon DEF PoolTyped
  <1>5. /\ 1 \in 1..Len(rcPool.q) /\ Head(rcPool.q) = rcPool.q[1] /\ Head(rcPool.q) \in RcTasks /\ Len(rcPool.q) \in Nat
        /\ Tail(rcPool.q) \in Seq(RcTasks)
        /\ \A i \in 1..Len(rcPool'.q) : i + 1 \in 1..Len(rcPool.q) /\ rcPool'.q[i] = rcPool.q[i + 1]
        /\ \A i \in 1..Len(rcPool.q) : i # 1 => i - 1 \in 1..Len(rcPool'.q) /\ rcPool'.q[i - 1] = rcPool.q[i]
    BY <1>2, <1>4, NonEmpty
  <1>6. /\ rcPool'.thr \in [RcThreads -> RcTasks \cup {RcNone}] /\ rcPool'.thr[t] = Head(rcPool.q)
        /\ \A s \in RcThreads : s # t => rcPool'.thr[s] = rcPool.thr[s]
    BY <1>4, <1>5, Zenon
  <1>7. PoolTyped'
    BY <1>4, <1>5, <1>6, Zenon DEF PoolTyped
  <1>8. TasksRight'
    <2>1. TasksRight
      BY <1>1, Zenon DEF ModuleRight
    <2>2. \A i \in 1..Len(rcPool'.q) : TaskRight(rcPool'.q[i], rcMod)
      BY <1>5, <2>1, Zenon DEF TasksRight
    <2>3. \A s \in RcThreads : rcPool'.thr[s] # RcNone => TaskRight(rcPool'.thr[s], rcMod)
      BY <1>5, <1>6, <2>1, Zenon DEF TasksRight
    <2> QED BY <1>2, <2>1, <2>2, <2>3, Zenon DEF TasksRight
  <1>9. WorksServed'
    <2>1. ASSUME NEW w \in rcMod.work, NEW i \in 1..Len(w.items) PROVE Served(rcMod, rcPool', w, i)
      <3>1. Served(rcMod, rcPool, w, i)
        BY <1>1, Zenon DEF ModuleRight, WorksServed
      <3>2. ASSUME NEW k \in 1..Len(rcPool.q), rcPool.q[k].id = w.id, rcPool.q[k].sub = i
            PROVE  Served(rcMod, rcPool', w, i)
        <4>1. CASE k = 1
          <5>1. rcPool'.thr[t] # RcNone /\ rcPool'.thr[t].id = w.id /\ rcPool'.thr[t].sub = i
            BY <1>1, <1>5, <1>6, <3>2, <4>1, TaskTyped, Zenon
          <5> QED BY <5>1, Zenon DEF Served
        <4>2. CASE k # 1
          <5>1. k - 1 \in 1..Len(rcPool'.q) /\ rcPool'.q[k - 1].id = w.id /\ rcPool'.q[k - 1].sub = i
            BY <1>5, <3>2, <4>2, Zenon
          <5> QED BY <5>1, Zenon DEF Served
        <4> QED BY <4>1, <4>2, Zenon
      <3>3. ASSUME NEW s \in RcThreads, rcPool.thr[s] # RcNone, rcPool.thr[s].id = w.id, rcPool.thr[s].sub = i
            PROVE  Served(rcMod, rcPool', w, i)
        <4>1. rcPool'.thr[s] = rcPool.thr[s]
          BY <1>2, <1>6, <3>3, Zenon
        <4> QED BY <3>3, <4>1, Zenon DEF Served
      <3>4. CASE \/ i \in DOMAIN w.resp
                 \/ \E k \in 1..Len(rcMod.q) : rcMod.q[k].what = "resp" /\ rcMod.q[k].id = w.id /\ rcMod.q[k].sub = i
        BY <3>4, Zenon DEF Served
      <3> QED BY <3>1, <3>2, <3>3, <3>4, Zenon DEF Served
    <2> QED BY <1>2, <2>1, Zenon DEF WorksServed
  <1> QED
    BY <1>3, <1>7, <1>8, <1>9, RcInvPartsNext, Zenon DEF ModuleRight

LEMMA ExecuteIs ==
    ASSUME NEW item \in RcItems
    PROVE  Execute(item) \in RcValues
  BY Zenon DEF Execute, RcItems, RcValues

LEMMA WorkerAnswersRight ==
    ASSUME RcInv, NEW t \in RcThreads, WorkerAnswers(t)
    PROVE  RcInv'
  <1> DEFINE x == rcPool.thr[t]
             e == [what |-> "resp", c |-> x.c, id |-> x.id, sub |-> x.sub, val |-> Execute(x.item)]
  <1>1. /\ UsersTyped /\ ConnsTyped /\ ModTyped /\ PoolTyped /\ LeftTyped
        /\ UsersRight /\ ConnsOwned /\ ConnsRight /\ ModuleRight
    BY RcInvParts, Zenon
  <1>2. /\ x # RcNone /\ RcPost(e) /\ UNCHANGED <<rcUser, rcConn, rcLeft>>
        /\ rcPool' = [rcPool EXCEPT !.thr[t] = RcNone]
    BY Zenon DEF WorkerAnswers
  <1>3. /\ UsersTyped' /\ ConnsTyped' /\ LeftTyped'
        /\ UsersRight' /\ ConnsOwned' /\ ConnsRight'
    BY <1>1, <1>2, Zenon DEF UsersTyped, ConnsTyped, LeftTyped, UsersRight, ConnsOwned, ConnsRight
  <1>4. x \in RcTasks /\ x.c \in Nat /\ x.id \in Nat /\ x.sub \in Nat /\ Execute(x.item) \in RcValues
    BY <1>1, <1>2, TaskTyped, ExecuteIs, Zenon
  <1>5. TaskRight(x, rcMod)
    BY <1>1, <1>2, Zenon DEF ModuleRight, TasksRight
  <1>6. /\ rcPool'.q = rcPool.q /\ rcPool'.thr = [rcPool.thr EXCEPT ![t] = RcNone]
        /\ rcPool.thr \in [RcThreads -> RcTasks \cup {RcNone}]
        /\ PoolTyped'
    BY <1>1, <1>2, Zenon DEF PoolTyped
  <1>7. rcPool'.thr[t] = RcNone /\ \A s \in RcThreads : s # t => rcPool'.thr[s] = rcPool.thr[s]
    BY <1>6, Zenon
  <1> HIDE DEF x
  <1>8. /\ e \in RcEvents /\ e.what = "resp" /\ e.c = x.c /\ e.id = x.id /\ e.sub = x.sub
        /\ e.val = Execute(x.item)
    BY <1>4, Zenon DEF RcEvents, RcRespEvents
  <1> HIDE DEF e
  <1>9. /\ ModTyped'
        /\ rcMod'.work = rcMod.work /\ rcMod'.id = rcMod.id
        /\ Len(rcMod.q) \in Nat /\ Len(rcMod'.q) = Len(rcMod.q) + 1
        /\ rcMod'.q[Len(rcMod.q) + 1] = e
        /\ \A i \in 1..Len(rcMod.q) : i \in 1..Len(rcMod'.q) /\ rcMod'.q[i] = rcMod.q[i]
        /\ \A i \in 1..Len(rcMod'.q) : i # Len(rcMod.q) + 1 => i \in 1..Len(rcMod.q)
    BY <1>1, <1>2, <1>8, QueueGrows, Zenon
  <1>10. \A i \in 1..Len(rcMod'.q) : rcMod'.q[i].what # "resp" => i \in 1..Len(rcMod.q) /\ rcMod'.q[i] = rcMod.q[i]
    BY <1>8, <1>9, Zenon
  <1>11. EventsRight'
    <2>1. EventsRight
      BY <1>1, Zenon DEF ModuleRight
    <2>2. ASSUME NEW i \in 1..Len(rcMod'.q), rcMod'.q[i].what = "req"
          PROVE  /\ rcMod'.q[i].c \in 1..Len(rcConn)
                 /\ rcConn[rcMod'.q[i].c].at = "busy" /\ rcConn[rcMod'.q[i].c].req = rcMod'.q[i].r
                 /\ \A w \in rcMod.work : w.c # rcMod'.q[i].c
                 /\ \A j \in 1..Len(rcMod'.q) : IsReq(rcMod'.q[j], rcMod'.q[i].c) => i = j
      <3>1. i \in 1..Len(rcMod.q) /\ rcMod'.q[i] = rcMod.q[i]
        BY <1>10, <2>2, Zenon
      <3>2. /\ rcMod.q[i].c \in 1..Len(rcConn)
            /\ rcConn[rcMod.q[i].c].at = "busy" /\ rcConn[rcMod.q[i].c].req = rcMod.q[i].r
            /\ \A w \in rcMod.work : w.c # rcMod.q[i].c
            /\ \A j \in 1..Len(rcMod.q) : IsReq(rcMod.q[j], rcMod.q[i].c) => i = j
        BY <2>1, <2>2, <3>1, Zenon DEF EventsRight
      <3>3. ASSUME NEW j \in 1..Len(rcMod'.q), IsReq(rcMod'.q[j], rcMod.q[i].c) PROVE i = j
        <4>1. j \in 1..Len(rcMod.q) /\ rcMod'.q[j] = rcMod.q[j]
          BY <1>10, <3>3, Zenon DEF IsReq
        <4> QED BY <3>2, <3>3, <4>1, Zenon
      <3> QED BY <3>1, <3>2, <3>3, Zenon
    <2>3. ASSUME NEW i \in 1..Len(rcMod'.q), rcMod'.q[i].what = "broken"
          PROVE  rcMod'.q[i].c \in 1..Len(rcConn) /\ rcConn[rcMod'.q[i].c].at = "gone"
      BY <1>10, <2>1, <2>3, Zenon DEF EventsRight
    <2> QED BY <1>2, <1>9, <2>2, <2>3, ZenonT(40) DEF EventsRight
  <1>12. WorksRight'
    BY <1>1, <1>2, <1>9, ZenonT(40) DEF ModuleRight, WorksRight
  <1>13. TasksRight'
    <2>1. TasksRight
      BY <1>1 DEF ModuleRight
    <2>2. \A s : (TaskRight(s, rcMod) => TaskRight(s, rcMod')) /\ (RespRight(s, rcMod) => RespRight(s, rcMod'))
      BY <1>9, Zenon DEF TaskRight, RespRight
    <2>3. RespRight(e, rcMod)
      BY <1>5, <1>8, Zenon DEF TaskRight, TaskFits, RespRight, RespFits
    <2>4. \A i \in 1..Len(rcMod'.q) : RespRight(rcMod'.q[i], rcMod')
      BY <1>9, <2>1, <2>2, <2>3, Zenon DEF TasksRight
    <2>5. \A s \in RcThreads : rcPool'.thr[s] # RcNone => TaskRight(rcPool'.thr[s], rcMod')
      BY <1>7, <2>1, <2>2, Zenon DEF TasksRight
    <2> QED BY <1>6, <2>1, <2>2, <2>4, <2>5, Zenon DEF TasksRight
  <1>14. WorksServed'
    <2>1. ASSUME NEW w \in rcMod.work, NEW i \in 1..Len(w.items) PROVE Served(rcMod', rcPool', w, i)
      <3>1. Served(rcMod, rcPool, w, i)
        BY <1>1, Zenon DEF ModuleRight, WorksServed
      <3>2. ASSUME NEW s \in RcThreads, rcPool.thr[s] # RcNone, rcPool.thr[s].id = w.id, rcPool.thr[s].sub = i
            PROVE  Served(rcMod', rcPool', w, i)
        <4>1. CASE s = t
          <5> DEFINE k == Len(rcMod.q) + 1
          <5>1. k \in 1..Len(rcMod'.q) /\ rcMod'.q[k] = e
            BY <1>9
          <5>2. rcMod'.q[k].what = "resp" /\ rcMod'.q[k].id = w.id /\ rcMod'.q[k].sub = i
            BY <1>8, <3>2, <4>1, <5>1, Zenon DEF x
          <5> HIDE DEF k
          <5> QED BY <5>1, <5>2, Zenon DEF Served
        <4>2. CASE s # t
          <5>1. rcPool'.thr[s] = rcPool.thr[s]
            BY <1>7, <4>2, Zenon
          <5> QED BY <3>2, <5>1, Zenon DEF Served
        <4> QED BY <4>1, <4>2, Zenon
      <3>3. ASSUME NEW k \in 1..Len(rcMod.q), rcMod.q[k].what = "resp", rcMod.q[k].id = w.id, rcMod.q[k].sub = i
            PROVE  Served(rcMod', rcPool', w, i)
        <4>1. k \in 1..Len(rcMod'.q) /\ rcMod'.q[k] = rcMod.q[k]
          BY <1>9, Zenon
        <4> QED BY <3>3, <4>1, Zenon DEF Served
      <3>4. CASE \/ i \in DOMAIN w.resp
                 \/ \E k \in 1..Len(rcPool.q) : rcPool.q[k].id = w.id /\ rcPool.q[k].sub = i
        BY <1>6, <3>4, Zenon DEF Served
      <3> QED BY <3>1, <3>2, <3>3, <3>4, Zenon DEF Served
    <2> QED BY <1>9, <2>1, Zenon DEF WorksServed
  <1>15. Accepted'
    BY <1>1, <1>2, <1>9, Zenon DEF ModuleRight, Accepted
  <1> QED
    BY <1>3, <1>6, <1>9, <1>11, <1>12, <1>13, <1>14, <1>15, RcInvPartsNext, ZenonT(40) DEF ModuleRight

-----------------------------------------------------------------------------
(* The result.                                                             *)
LEMMA RcInitRight ==
    ASSUME RcInit
    PROVE  RcInv
  <1>1. PICK s \in RcScripts : RcStart(s)
    BY Zenon DEF RcInit
  <1>2. s.calls \in [RcUsers -> Seq(RcRequests)] /\ s.fails \in Nat /\ s.halts \in Nat /\ s.byName \in BOOLEAN
    BY RcScriptsAssumption, Zenon
  <1>3. <<>> \in Seq(RcAnswers) /\ <<>> \in Seq(RcConns) /\ <<>> \in Seq(RcEvents) /\ <<>> \in Seq(RcTasks)
    OBVIOUS
  <1>4. ASSUME NEW u \in RcUsers PROVE RcNewUser(s.calls[u]) \in RcUserStates /\ UserRight(RcNewUser(s.calls[u]))
    <2> DEFINE f == s.calls[u]
               x == RcNewUser(f)
    <2>1. f \in Seq(RcRequests) /\ Len(f) \in Nat
      BY <1>2
    <2> HIDE DEF f
    <2>2. /\ x.calls = f /\ x.pc = "idle" /\ x.n = 0 /\ x.req = "none" /\ ~x.dial /\ x.conn = 0 /\ x.op = "idle"
          /\ ~x.timer /\ x.q = <<>> /\ x.got = <<>> /\ ~x.halted
      BY Zenon DEF RcNewUser
    <2>3. x \in RcUserStates
      BY <1>3, <2>1, Zenon DEF RcNewUser, RcUserStates
    <2> HIDE DEF x
    <2>4. Len(x.q) = 0 /\ Len(x.got) = 0
      BY <2>2, Zenon
    <2>5. UserRight(x)
      BY <2>1, <2>2, <2>4 DEF UserRight, Pending
    <2> QED BY <2>3, <2>5, Zenon DEF x, f
  <1>5. UsersTyped /\ UsersRight
    BY <1>1, <1>4, Zenon DEF RcStart, UsersTyped, UsersRight
  <1>6. rcConn = <<>> /\ Len(rcConn) = 0 /\ ConnsTyped
    BY <1>1, <1>3 DEF RcStart, ConnsTyped
  <1>7. ModTyped /\ rcMod.q = <<>> /\ Len(rcMod.q) = 0 /\ rcMod.work = {}
    BY <1>1, <1>3, Zenon DEF RcStart, ModTyped
  <1>8. PoolTyped /\ Len(rcPool.q) = 0 /\ \A t \in RcThreads : rcPool.thr[t] = RcNone
    BY <1>1, <1>3, ZenonT(40) DEF RcStart, PoolTyped
  <1>9. LeftTyped
    BY <1>1, <1>2 DEF RcStart, LeftTyped
  <1>10. ConnsOwned /\ ConnsRight
    <2>1. \A u \in RcUsers : rcUser[u].conn = 0
      BY <1>1, Zenon DEF RcStart, RcNewUser
    <2> QED BY <1>6, <2>1 DEF ConnsOwned, ConnsRight
  <1>11. ModuleRight
    <2>1. \A i : i \notin 1..0
      OBVIOUS
    <2>2. EventsRight
      BY <1>7, <2>1, Zenon DEF EventsRight
    <2>3. WorksRight
      BY <1>7, Zenon DEF WorksRight
    <2>4. TasksRight
      BY <1>7, <1>8, <2>1, Zenon DEF TasksRight
    <2>5. WorksServed
      BY <1>7, Zenon DEF WorksServed
    <2>6. Accepted
      BY <1>6, <2>1, Zenon DEF Accepted
    <2> QED BY <2>2, <2>3, <2>4, <2>5, <2>6, Zenon DEF ModuleRight
  <1> QED
    BY <1>5, <1>6, <1>7, <1>8, <1>9, <1>10, <1>11, RcInvParts, Zenon

LEMMA RcInvExchange ==
    ASSUME RcInv
    PROVE  RcExchangeKept
  <1>1. UsersRight /\ WorksServed /\ Accepted
    BY RcInvParts, Zenon DEF ModuleRight
  <1>2. RcAnswersMatch
    <2>1. ASSUME NEW u \in RcUsers
          PROVE  /\ Len(rcUser[u].got) + Len(rcUser[u].q) <= rcUser[u].n
                 /\ \A i \in 1..Len(rcUser[u].got) : Fits(rcUser[u].got[i], rcUser[u].calls[i])
      BY <1>1, Zenon DEF UsersRight, UserRight
    <2>2. ASSUME NEW u \in RcUsers
          PROVE  \E x \in {rcUser[u]} : /\ Len(x.got) + Len(x.q) <= x.n
                                        /\ \A i \in 1..Len(x.got) : Fits(x.got[i], x.calls[i])
      BY <2>1, Zenon
    <2> QED BY <2>2, Zenon DEF RcAnswersMatch, Fits
  <1>3. RcRequestsKept
    <2>1. ASSUME NEW c \in 1..Len(rcConn), rcConn[c].at = "busy", rcConn[c].req.kind = "ok"
          PROVE  \/ \E i \in 1..Len(rcMod.q) : IsReq(rcMod.q[i], c)
                 \/ \E w \in RcWork(c) : \A i \in 1..Len(w.items) : Served(rcMod, rcPool, w, i)
      BY <1>1, <2>1, Zenon DEF Accepted, WorksServed, RcWork
    <2>2. \A c \in 1..Len(rcConn) : (rcConn[c].at = "busy" /\ rcConn[c].req.kind = "ok") =>
             \/ \E i \in 1..Len(rcMod.q) : rcMod.q[i].what = "req" /\ rcMod.q[i].c = c
             \/ \E w \in RcWork(c) : \A i \in 1..Len(w.items) : Served(rcMod, rcPool, w, i)
      BY <2>1, Zenon DEF IsReq
    <2> QED BY <2>2, Zenon DEF RcRequestsKept, Served
  <1> QED
    BY <1>2, <1>3, Zenon DEF RcExchangeKept

LEMMA RcStepRight ==
    ASSUME RcInv, [RcStep]_rcVars
    PROVE  RcInv'
  <1>1. CASE UNCHANGED rcVars
    <2>1. /\ UsersTyped /\ ConnsTyped /\ ModTyped /\ PoolTyped /\ LeftTyped
          /\ UsersRight /\ ConnsOwned /\ ConnsRight /\ ModuleRight
      BY RcInvParts, Zenon
    <2>2. /\ UsersTyped' /\ ConnsTyped' /\ ModTyped' /\ PoolTyped' /\ LeftTyped'
          /\ UsersRight' /\ ConnsOwned' /\ ConnsRight'
      BY <1>1, <2>1, Zenon DEF rcVars, UsersTyped, ConnsTyped, ModTyped, PoolTyped, LeftTyped, UsersRight, ConnsOwned, ConnsRight
    <2>3. ModuleRight'
      BY <1>1, <2>1, ModuleSame, Zenon DEF rcVars
    <2> QED BY <2>2, <2>3, RcInvPartsNext, Zenon
  <1>2. ASSUME NEW u \in RcUsers,
               RcUserStep(u) \/ RpcGetResponse(u) \/ HostFailToResolve(u) \/ ClientFailToConnect(u) \/ RpcClientHalt(u)
        PROVE  RcInv'
    BY <1>2, HostResolvedRight, ClientConnectedRight, HandleWritenRequestRight, GetReadHeaderRight,
       GetReadPayloadRight, GetTimeoutRight, HandleHttpGetRspRight, RpcGetResponseRight, HostFailToResolveRight,
       ClientFailToConnectRight, RpcClientHaltRight, ZenonT(40) DEF RcUserStep
  <1>3. ASSUME NEW c \in 1..Len(rcConn), RcServerStep(c)
        PROVE  RcInv'
    BY <1>3, HttpClientAcceptedRight, ServerReadHeaderRight, ServerReadPayloadRight, HandleWritenResponseRight, Zenon
       DEF RcServerStep
  <1>4. CASE RPCModEvent
    BY <1>4, RPCModEventRight, Zenon
  <1>5. ASSUME NEW t \in RcThreads, RcWorkerStep(t)
        PROVE  RcInv'
    BY <1>5, WorkerTakesRight, WorkerAnswersRight, Zenon DEF RcWorkerStep
  <1> QED
    BY <1>1, <1>2, <1>3, <1>4, <1>5, Zenon DEF RcStep

\* The answers that a caller sees are the answers to its calls, in order, each batch in the order of
\* its requests; an error page answers the request it refuses; and a request that the module accepted
\* is queued, or listed with each of its parts answered or with a worker, until its answer is
\* written.  This holds for any number of clients, calls, threads, lost connections, late answers and halts.
THEOREM RcExchange ==
    RcSpec => []RcExchangeKept
  <1>1. RcInit => RcInv
    BY RcInitRight, Zenon
  <1>2. RcInv /\ [RcStep]_rcVars => RcInv'
    BY RcStepRight, Zenon
  <1>3. RcInv => RcExchangeKept
    BY RcInvExchange
  <1> QED
    BY <1>1, <1>2, <1>3, PTL DEF RcSpec
=============================================================================
