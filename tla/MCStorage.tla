------------------------------ MODULE MCStorage ------------------------------
(***************************************************************************)
(* Instances for TLC of the wallet's own storage: the store of unspent      *)
(* outputs, the lock it shares with the rest of the node, the time-series    *)
(* files that hold the blocks, and the wallet's account of the transactions; *)
(* and of the calls by which the wallet's users reach the node.              *)
(* A run explores one part at a time, the others standing still.             *)
(***************************************************************************)
EXTENDS UnspentDB, RWAccess, TimeSeries, WalletTx, RpcCall

CONSTANT Parts

VARIABLE mcPart

\* Of the time series: records of three sizes.
MCSize == ("a" :> 1) @@ ("b" :> 2) @@ ("c" :> 3)

-----------------------------------------------------------------------------
(* The transactions a wallet sees, the blocks, reorganisations and forks that    *)
(* confirm them, and the commands of two threads.                                *)
WTx(fr, to, am, ch, ins) == [from |-> fr, to |-> to, amount |-> am, change |-> ch, ins |-> ins, lock |-> 0]
WTxs == (100 :> WTx("", "a", 10, 0, <<>>)) @@ (200 :> WTx("a", "x", 3, 6, <<<<100, 0>>>>))
    @@ (300 :> WTx("a", "b", 2, 3, <<<<200, 1>>>>)) @@ (400 :> WTx("x", "a", 2, 0, <<<<200, 0>>>>))
    @@ (101 :> WTx("", "a", 4, 0, <<>>)) @@ (102 :> [WTx("", "a", 5, 0, <<>>) EXCEPT !.lock = 3])
    @@ (103 :> WTx("", "a", 3, 0, <<>>)) @@ (301 :> WTx("a", "x", 1, 2, <<<<101, 0>>>>))
    @@ (500 :> WTx("a", "b", 2, 2, <<<<101, 0>>, <<300, 1>>>>))
Reorg(f, h, txs, rem, back) ==
    [op |-> "block", fork |-> f, height |-> h, txs |-> txs, remove |-> rem, back |-> back]
Blk(f, h, txs) == Reorg(f, h, txs, <<>>, {})
PoolTx(f, i) == [op |-> "tx", fork |-> f, id |-> i]
Fork(f, p, o, i) == [op |-> "fork", fork |-> f, of |-> [parent |-> p, origin |-> o, isolated |-> i]]
Op(o) == [op |-> o]
Cmd(c, fr, to, am, time) ==
    [cmd |-> c, from |-> fr, to |-> to, amount |-> am, fork |-> "g", time |-> time, offset |-> 0]
WScript(node, c1, c2) ==
    [dests |-> {"a", "b"}, locked |-> <<>>, txs |-> WTxs, node |-> node,
     cmds |-> [t \in {1, 2} |-> IF t = 1 THEN c1 ELSE c2]]
MCWtScripts == {
    WScript(<<Blk("g", 1, <<100, 101>>), PoolTx("g", 200), PoolTx("g", 300), Blk("g", 2, <<200, 300>>), Op("restart"),
              Fork("s", "g", 1, FALSE), PoolTx("s", 301), Blk("s", 3, <<301>>), Op("restart")>>,
            <<Cmd("getbalance", "a", "", 0, 0), Cmd("resyncwallet", "", "", 0, 0)>>,
            <<Cmd("listtransaction", "", "", 2, 0)>>),
    WScript(<<Blk("g", 1, <<100, 101>>), Blk("g", 2, <<200, 300>>), Reorg("g", 2, <<400>>, <<>>, {300}),
              Fork("s", "g", 1, FALSE), Fork("u", "s", 1, TRUE), Reorg("g", 2, <<>>, <<400>>, {}),
              Blk("g", 3, <<300>>), Op("restart")>>,
            <<Cmd("resyncwallet", "", "", 0, 0)>>, <<>>),
    WScript(<<Blk("g", 1, <<100, 101>>), Blk("g", 2, <<200, 300>>), Blk("g", 3, <<500>>), Fork("s", "g", 1, FALSE),
              PoolTx("s", 301), Reorg("g", 3, <<>>, <<500>>, {}), Op("crash"), Op("restart")>>, <<>>, <<>>),
    WScript(<<Blk("g", 1, <<100, 101>>)>>,
            <<Cmd("sendfrom", "a", "x", 3, 5), Cmd("sendfrom", "a", "x", 2, 6)>>, <<Cmd("sendfrom", "a", "b", 2, 5)>>),
    WScript(<<Blk("g", 1, <<101, 102, 103>>), Blk("g", 2, <<>>), Blk("g", 3, <<>>)>>, <<Cmd("sendfrom", "a", "x", 8, 5)>>,
            <<Cmd("sendfrom", "a", "b", 2, 6), Cmd("getbalance", "a", "", 0, 0)>>),
    WScript(<<Blk("g", 1, <<100>>), Blk("g", 2, <<200>>), Op("restart")>>,
            <<Cmd("createtransaction", "a", "x", 3, 5), Cmd("sendtransaction", "a", "x", 3, 5)>>,
            <<Cmd("sendfrom", "a", "b", 2, 6), Cmd("listtransaction", "", "", 2, 0)>>),
    [WScript(<<Blk("g", 1, <<100>>), PoolTx("g", 200), PoolTx("g", 300)>>, <<Cmd("importprivkey", "b", "", 0, 0)>>,
             <<Cmd("sendfrom", "b", "x", 1, 6)>>) EXCEPT !.dests = {"a"}],
    [WScript(<<Blk("g", 1, <<100>>), PoolTx("g", 200), Blk("g", 2, <<200>>)>>,
             <<Cmd("sendfrom", "a", "x", 1, 6), Cmd("sendfrom", "a", "x", 8, 6)>>,
             <<Cmd("getbalance", "a", "", 0, 0)>>) EXCEPT !.locked = ("a" :> 2)] }

-----------------------------------------------------------------------------
(* Calls of two clients: single, in a batch, refused, and over connections that fail. *)
Item(i, k, o) == [id |-> i, known |-> k, ok |-> o]
Request(k, a, its) == [kind |-> k, arr |-> a, items |-> its]
One(i) == Request("ok", FALSE, <<Item(i, TRUE, TRUE)>>)
Two == Request("ok", TRUE, <<Item(1, TRUE, TRUE), Item(2, FALSE, TRUE)>>)
Bad(k) == Request(k, FALSE, <<Item(7, TRUE, TRUE)>>)
Calls(a, b, n, f, h) ==
    [calls |-> [u \in {1, 2} |-> IF u = 1 THEN a ELSE b], byName |-> n, fails |-> f, halts |-> h]
MCRcScripts ==
    {Calls(<<Two, One(3)>>, <<>>, FALSE, 0, 0), Calls(<<Two>>, <<One(4)>>, FALSE, 0, 0),
     Calls(<<One(1), One(2)>>, <<>>, TRUE, 1, 1)}
    \cup {Calls(<<Bad(k), One(1)>>, <<>>, FALSE, 0, 1) :
              k \in {"noauth", "badform", "badhead", "oldver", "badparse"}}

-----------------------------------------------------------------------------
mcVars == <<vars, rwVars, tsVars, wtVars, rcVars, mcPart>>

MCInit ==
    /\ mcPart \in Parts
    /\ Init /\ RWInit /\ TsInit /\ WtInit
    /\ mcPart # "wallet" => wtScr = CHOOSE s \in WtScripts : TRUE
    /\ IF mcPart = "calls" THEN RcInit ELSE RcStart(CHOOSE s \in RcScripts : TRUE)

\* The other parts stand still while p makes a step.
Still(p) ==
    /\ mcPart = p
    /\ p # "unspent" => UNCHANGED vars
    /\ p # "lock" => UNCHANGED rwVars
    /\ p # "series" => UNCHANGED tsVars
    /\ p # "wallet" => UNCHANGED wtVars
    /\ p # "calls" => UNCHANGED rcVars
    /\ UNCHANGED mcPart

\* Only the lock is never to come to rest.
Rest == mcPart # "lock" /\ UNCHANGED mcVars

MCNext ==
    \/ Still("unspent") /\ Next
    \/ Still("lock") /\ RWNext
    \/ Still("series") /\ TsStep
    \/ Still("wallet") /\ WtStep
    \/ Still("calls") /\ RcStep
    \/ Rest

\* The fairness of UnspentDB, of RWAccess and of RpcCall, each for its part.
MCSpec ==
    /\ MCInit /\ [][MCNext]_mcVars
    /\ \A t \in Threads : WF_rwVars(mcPart = "lock" /\ Progress(t))
    /\ WF_vars(mcPart = "unspent" /\ FlushStep)
    /\ \A w \in Walkers : WF_vars(mcPart = "unspent" /\ WalkStep(w))
    /\ \A u \in RcUsers : WF_rcVars(mcPart = "calls" /\ RcUserStep(u))

-----------------------------------------------------------------------------
\* TsReadsExact, asked while the time series are the part explored: what CTimeSeriesCached reads
\* back is what was written, across files, vacated room, restarts and crashes.
SeriesReadsExact == mcPart = "series" => TsReadsExact

\* WtAccountExact, asked while the wallet is: its coins, its list, its choice of inputs and two
\* sendfrom at once agree with chain and pool.
WalletAccountExact == mcPart = "wallet" => WtAccountExact
=============================================================================
