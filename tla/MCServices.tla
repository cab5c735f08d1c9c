----------------------------- MODULE MCServices -----------------------------
(***************************************************************************)
(* Instances for TLC of the tables of a node and of what it serves from      *)
(* them: the index of transactions (CTSDB), the forks and their blocks        *)
(* (ForkNode), calls that a root node passes on to its fork nodes (RpcRoute), *)
(* the messages of a tree of nodes (SuperNode), its sessions with clients and *)
(* with each other (DbpSession), and the keys of the wallet (WalletKeys).     *)
(* A run explores one part at a time, the others standing still.              *)
(***************************************************************************)
EXTENDS CTSDB, ForkNode, RpcRoute, SuperNode, DbpSession, WalletKeys

CONSTANT Parts

VARIABLE mcPart

-----------------------------------------------------------------------------
(* Two branches A and B of the main fork, a fork C of A1 and a fork D of C, isolated. *)
FBlk(id, prev, kind, time, trust, txs) ==
    id :> [id |-> id, prev |-> prev, kind |-> kind, time |-> time, trust |-> trust, txs |-> txs]
MCFnBlocks ==
    FBlk("G", "0", "genesis", 0, 0, <<"mG">>) @@ FBlk("A1", "G", "primary", 1, 1, <<"mA1">>)
    @@ FBlk("A2", "A1", "primary", 2, 1, <<"mA2", "tC">>) @@ FBlk("A3", "A2", "primary", 3, 1, <<"mA3", "tD">>)
    @@ FBlk("B1", "G", "primary", 1, 1, <<"mB1">>) @@ FBlk("B2", "B1", "primary", 3, 3, <<"mB2">>)
    @@ FBlk("C", "A1", "origin", 2, 1, <<"mC">>) @@ FBlk("C1", "C", "subsidiary", 3, 1, <<"mC1">>)
    @@ FBlk("A4", "A3", "primary", 4, 1, <<"mA4">>) @@ FBlk("A5", "A4", "primary", 5, 2, <<"mA5">>) @@ FBlk("B3", "B2", "primary", 4, 1, <<"mB3">>)
    @@ FBlk("D", "C1", "origin", 4, 1, <<"mD">>)
FTx(id, in, from, to, amt, vin, kind, embeds) ==
    id :> [in |-> in, from |-> from, to |-> to, amt |-> amt, fee |-> 0, vin |-> vin, kind |-> kind,
           anchor |-> "0", embeds |-> embeds]
FMint(id) == FTx(id, {}, "-", "x", 5, 5, "stake", "0")
MCFnTxs == FMint("mG") @@ FMint("mA1") @@ FMint("mA2") @@ FMint("mA3") @@ FMint("mB1") @@ FMint("mB2")
    @@ FMint("mA4") @@ FMint("mA5") @@ FMint("mB3")
    @@ FMint("mC") @@ FMint("mC1") @@ FMint("mD")
    @@ FTx("tC", {<<"mG", 0>>}, "x", "y", 2, 5, "token", "C") @@ FTx("tD", {<<"tC", 1>>}, "x", "y", 1, 3, "token", "D")
MCFnForks == ("C" :> [parent |-> "G", joint |-> "A1", height |-> 1, isolated |-> FALSE])
    @@ ("D" :> [parent |-> "C", joint |-> "C1", height |-> 3, isolated |-> TRUE])
FScript(level, allowed, group, threads, blocks, stops, flushes, asks) ==
    [level |-> level, allowed |-> {"G"} \cup allowed, group |-> group, threads |-> threads, blocks |-> blocks,
     stops |-> stops, flushes |-> flushes, asks |-> asks]
MCFnScripts == {
    FScript(0, {"D"}, {}, {"t"}, <<"A1", "A2", "C1", "A3">>, 1, 0, 0),
    FScript(1, {"D"}, {}, {"t"}, <<"A1", "A2", "A3", "C1">>, 1, 1, 0),
    FScript(0, {}, {"C"}, {"t"}, <<"A1", "A2", "B1", "A3", "B2", "C1">>, 0, 0, 1),
    FScript(1, {"C"}, {}, {"t"}, <<"A1", "B1", "A2", "A3", "C1", "B2">>, 1, 0, 0),
    FScript(0, {"C"}, {}, {"t"}, <<"A1", "A2", "B1", "A3", "A4", "B2", "B3", "A5">>, 0, 0, 1),
    FScript(0, {}, {}, {"t", "u"}, <<"A1", "B1", "B2">>, 1, 0, 0)}

-----------------------------------------------------------------------------
(* A root with the fork nodes a and b, and c below a; calls, and where their answers are. *)
MCRrParent == [c \in {"a", "b", "c"} |-> IF c = "c" THEN "a" ELSE "r"]
MCRrForks == [n \in {"r", "a", "b", "c"} |-> IF n = "r" THEN {"m"} ELSE IF n = "b" THEN {"m", "y"} ELSE {"m", n}]
RCall(s, a) == [sn |-> s, arg |-> a]
RScript(cs, t, b) == [calls |-> cs, table |-> t, breaks |-> b]
MCRrScripts == {RScript(<<RCall(s, a)>>, 2, 0) : s \in {"getblockcount", "getblockhash", "gettxpool", "getforkheight"}, a \in {"bad", "over"}}
  \cup {RScript(<<RCall(s, "ok")>>, 2, 1) : s \in {"stop", "getforkcount", "getblocklocation", "getblock", "sendtransaction", "gettransaction", "getblockcount", "getblockhash", "gettxpool", "getforkheight"}}
  \cup {RScript(<<RCall("getblock", "ok"), RCall("listfork", "ok")>>, t, 0) : t \in {1, 2}}
MCRrHolders == {{}, {"r"}, {"c"}, {"a", "b"}}
MCRrIds == {[c \in {"a", "b", "c"} |-> IF c = "a" THEN 1 ELSE IF c = "b" THEN 2 ELSE 3],
          [c \in {"a", "b", "c"} |-> IF c = "a" THEN 3 ELSE IF c = "b" THEN 2 ELSE 1]}

-----------------------------------------------------------------------------
(* A root with the fork node a, and b below a; what peers send, what the nodes ask for, *)
(* and who joins, leaves and breaks.                                                    *)
MCSnParent == [c \in {"a", "b"} |-> IF c = "b" THEN "a" ELSE "r"]
SMine(r, a, b) == [n \in {"r", "a", "b"} |-> IF n = "r" THEN r ELSE IF n = "a" THEN a ELSE b]
SScript(mine, sends, asks, joined, joins, leaves, breaks, changes) == [mine |-> mine, sends |-> sends, asks |-> asks, joined |-> joined, joins |-> joins, leaves |-> leaves, breaks |-> breaks, changes |-> changes]
SM(t, f, d) == SnMsg(t, 1, f, d)
MCSnScripts == {
  SScript(SMine({}, {"f"}, {"f", "g"}), {}, {}, {1}, {}, {}, 1, {}),
  SScript(SMine({}, {"f"}, {"f"}), {}, {}, {1}, {}, {}, 0, {<<"a", "f">>, <<"b", "g">>}),
  SScript(SMine({}, {}, {"g"}), {}, {}, {1}, {2}, {1}, 0, {}),
  SScript(SMine({}, {}, {"g"}), {}, {}, {}, {1}, {}, 0, {}),
  SScript(SMine({}, {"f"}, {"f"}), {SM("inv", "f", {"block"})}, {<<"a", SM("getdata", "f", {"h"})>>, <<"b", SM("getdata", "f", {"h"})>>}, {1}, {}, {}, 0, {}),
  SScript(SMine({"f"}, {}, {"g"}), {SM("inv", "m", {"block", "tx"}), SM("getdata", "g", {"h"})}, {<<"b", SM("getdata", "g", {"tx"})>>}, {1}, {}, {}, 0, {}),
  SScript(SMine({"f"}, {}, {"g"}), {SM("inv", "m", {"block", "tx"}), SM("getblocks", "g", {})}, {<<"r", SM("getdata", "f", {"h"})>>}, {1}, {}, {}, 0, {}),
  SScript(SMine({"f"}, {}, {}), {SM("sub", "m", {"f", "g"}), SM("unsub", "m", {"f"}), SM("inv", "f", {"tx"})}, {<<"b", SM("reward", "m", {})>>, <<"b", SM("close", "m", {})>>}, {1}, {}, {}, 0, {}),
  SScript(SMine({}, {}, {}), {SM("getdata", "m", {"h"}), SM("inv", "m", {"tx"}), SM("getblocks", "m", {})}, {<<"a", SM("block", "f", {"h"})>>, <<"a", SM("tx", "f", {"tx"})>>, <<"b", SM("inv", "m", {"own"})>>}, {1}, {}, {}, 0, {}),
  SScript(SMine({}, {"f"}, {"f"}), {}, {<<"b", SnMsg("getdata", 0, "f", {"h"})>>, <<"a", SnMsg("block", 0, "f", {"h"})>>}, {}, {}, {}, 0, {}),
  SScript(SMine({}, {"f"}, {}), {}, {<<"b", SnMsg("inv", 0, "f", {"h"})>>, <<"b", SnMsg("tx", 0, "f", {"tx"})>>, <<"r", SnMsg("block", 0, "m", {"h"})>>}, {}, {}, {}, 0, {})
 }

-----------------------------------------------------------------------------
(* A light wallet's sessions and a fork node's: requests, news, breaks and timeouts.    *)
DBlk(f, p, h, e) == [fork |-> f, prev |-> p, height |-> h, ext |-> e]
MCDsBlocks == [b \in {"m0", "m1", "m2", "g2", "x2", "g3"} |->
   CASE b = "m0" -> DBlk("m", "", 0, FALSE) [] b = "m1" -> DBlk("m", "m0", 1, FALSE) [] b = "m2" -> DBlk("m", "m1", 2, FALSE)
     [] b = "g2" -> DBlk("g", "m1", 2, FALSE) [] b = "x2" -> DBlk("g", "g2", 2, TRUE) [] b = "g3" -> DBlk("g", "g2", 3, FALSE)]
MCDsForkOf == [f \in {"m", "g"} |-> IF f = "m" THEN "m0" ELSE "g2"]
DConnect(s, v) == DsMsg("connect", [session |-> s, version |-> v, client |-> "light"], 0)
DMethod(m, a, n, id) == DsMsg("method", [method |-> m, fork |-> "", arg |-> a, n |-> n], id)
DOpen(f, ms) == [fork |-> f, msgs |-> ms]
DNews(t, s, a) == [type |-> t, session |-> s, arg |-> a, id |-> 0]
DScript(o, d, n, b, t, nd) == [opens |-> o, deaf |-> d, news |-> n, breaks |-> b, ticks |-> t, node |-> nd]
MCDsScripts == {
  DScript(<<DOpen("g", <<DConnect(0, 1), DsMsg("sub", "block", 1), DMethod("getblocks", "m0", 3, 2), DsMsg("unsub", "", 1)>>)>>, FALSE, <<DNews("newblock", "", "g3"), DNews("newblock", "", "m2")>>, 1, 0, FALSE),
  DScript(<<DOpen("m", <<DConnect(0, 1), DsMsg("sub", "block", 1), DMethod("gettransaction", "t", 0, 2)>>), DOpen("m", <<DConnect(1, 1), DMethod("sendtransaction", "u", 0, 3)>>)>>, TRUE, <<>>, 0, 0, FALSE),
  DScript(<<DOpen("m", <<DsMsg("sub", "tx", 1), DsMsg("ping", "", 0), DConnect(0, 1), DsMsg("sub", "none", 2), DsMsg("sub", "tx", 3), DMethod("other", "", 0, 7)>>)>>, FALSE, <<DNews("newtx", "m", "t")>>, 0, 0, FALSE),
  DScript(<<DOpen("m", <<DConnect(0, 2)>>), DOpen("m", <<DConnect(9, 1)>>), DOpen("m", <<DConnect(0, 1), DMethod("sendtransaction", "t", 0, 3), DsMsg("bad", "", 0)>>)>>, FALSE, <<>>, 1, 0, FALSE),
  DScript(<<DOpen("m", <<DConnect(0, 1), DMethod("gettransaction", "u", 0, 3), DMethod("getblocks", "none", 0, 4)>>)>>, TRUE, <<>>, 0, 2, FALSE),
  DScript(<<>>, FALSE, <<DNews("event", "", "e")>>, 0, 2, TRUE),
  DScript(<<>>, FALSE, <<>>, 1, 1, TRUE),
  DScript(<<DOpen("m", <<DConnect(0, 1), DsMsg("ping", "", 0)>>)>>, FALSE, <<>>, 0, 2, FALSE)
 }

-----------------------------------------------------------------------------
(* Commands on keys by two threads, with writes that fail and restarts.                 *)
KCmd(c) == [cmd |-> c, key |-> "k", pass |-> "a", old |-> "a", timeout |-> 0, tid |-> "m"]
KUnlock(n) == [KCmd("unlock") EXCEPT !.timeout = n]
KEncrypt(o, p) == [KCmd("encrypt") EXCEPT !.old = o, !.pass = p]
KOf(c, k) == [KCmd(c) EXCEPT !.key = k]
KScript(h, a, b, f, r) == [has |-> h, cmds |-> [t \in {1, 2} |-> IF t = 1 THEN a ELSE b], file |-> {}, fails |-> f, restarts |-> r]
KFile == {[addr |-> "l", hex |-> [pass |-> "b", version |-> 1]], [addr |-> "m", hex |-> {}], [addr |-> "k", hex |-> [pass |-> "", version |-> 0]]}
MCWkScripts == {
  KScript({"k"}, <<KUnlock(1), KUnlock(2)>>, <<KCmd("lock"), KCmd("sign")>>, 0, 0),
  KScript({"k"}, <<KUnlock(2), KEncrypt("a", "b")>>, <<KEncrypt("a", "c"), KUnlock(1)>>, 1, 1),
  KScript({"k"}, <<KUnlock(2), KEncrypt("a", "a"), KUnlock(0)>>, <<KUnlock(1)>>, 0, 0),
  KScript({}, <<KOf("new", "k"), KCmd("exportwallet")>>, <<KOf("importpriv", "l"), KCmd("listkey")>>, 1, 1),
  KScript({}, <<KOf("import", "k"), KCmd("export")>>, <<KOf("importpriv", "k"), KCmd("listkey"), KCmd("validate")>>, 1, 0),
  KScript({"k"}, <<KCmd("newtemplate"), KCmd("listaddress")>>, <<KCmd("importtemplate"), KCmd("exporttemplate"), KCmd("exportwallet"), KCmd("importwallet")>>, 1, 1),
  [KScript({"k"}, <<KCmd("importwallet"), KUnlock(1)>>, <<KOf("import", "l"), KCmd("importtemplate")>>, 1, 1) EXCEPT !.file = KFile],
  [KScript({}, <<KCmd("importwallet")>>, <<>>, 0, 0) EXCEPT !.file = KFile] }

-----------------------------------------------------------------------------
mcVars == <<vars, fnVars, rrVars, snVars, dsVars, wkVars, mcPart>>

AnyOf(S) == CHOOSE x \in S : TRUE

MCInit ==
    /\ mcPart \in Parts
    /\ Init
    /\ IF mcPart = "forks" THEN TRUE ELSE fnConf = AnyOf(FnScripts)
    /\ FnInit
    /\ IF mcPart = "routes" THEN RrInit ELSE RrStart(AnyOf(RrIds), [AnyOf(RrScripts) EXCEPT !.calls = <<>>], <<>>)
    /\ IF mcPart = "tree" THEN SnInit ELSE SnStart(AnyOf(SnScripts))
    /\ IF mcPart = "sessions" THEN DsInit ELSE DsStart(AnyOf(DsScripts))
    /\ IF mcPart = "keys" THEN WkInit ELSE WkStart(AnyOf(WkScripts))

\* The other parts stand still while p makes a step.
Still(p) ==
    /\ mcPart = p
    /\ p # "index" => UNCHANGED vars
    /\ p # "forks" => UNCHANGED fnVars
    /\ p # "routes" => UNCHANGED rrVars
    /\ p # "tree" => UNCHANGED snVars
    /\ p # "sessions" => UNCHANGED dsVars
    /\ p # "keys" => UNCHANGED wkVars
    /\ UNCHANGED mcPart

\* Only the index is never to come to rest.
Rest == mcPart # "index" /\ UNCHANGED mcVars

MCNext ==
    \/ Still("index") /\ Next
    \/ Still("forks") /\ FnStep
    \/ Still("routes") /\ RrStep
    \/ Still("tree") /\ SnStep
    \/ Still("sessions") /\ DsStep
    \/ Still("keys") /\ WkStep
    \/ Rest

MCSpec == MCInit /\ [][MCNext]_mcVars

-----------------------------------------------------------------------------
\* FnForksKept, asked while the forks are the part explored: inventories attach, references are whole,
\* forks allowed are followed and transactions are found.
ForksKept == mcPart = "forks" => FnForksKept

\* RouteExact, while the routes are: every call ends once, with the answer of the nodes that have it.
RoutesExact == mcPart = "routes" => RouteExact

\* SnTreeFaithful, while the tree is: subscriptions are those of the nodes, and messages reach who asked.
TreeFaithful == mcPart = "tree" => SnTreeFaithful

\* DsServed, while the sessions are: requests are answered, and sessions and topics agree.
SessionsServed == mcPart = "sessions" => DsServed

\* WkWalletKept, while the keys are: memory and disk hold the same keys, and unlocks last.
KeysKept == mcPart = "keys" => WkWalletKept
=============================================================================
