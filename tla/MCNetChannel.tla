---------------------------- MODULE MCNetChannel ----------------------------
(***************************************************************************)
(* Instances for TLC of what lies between the node and its peers: the         *)
(* exchange of blocks and transactions (NetChannel), the connections it goes   *)
(* over (PeerNet), and the queue that hands their events to threads            *)
(* (MultiEventQueue).                                                          *)
(* A run explores one part at a time, the others standing still.               *)
(***************************************************************************)
EXTENDS NetChannel, PeerNet, MultiEventQueue

CONSTANTS Parts, peer1, peer2, b1, b2, bad, t1, t2

VARIABLE mcPart

-----------------------------------------------------------------------------
(* A chain b1, b2 and an invalid block bad, and transactions of which t2 spends an   *)
(* output of t1, and t1 is in b2.  Both peers have all of it, but for bad, which only  *)
(* the peer that may leave or not answer has.                                         *)
MCPrev == [b \in Blocks |-> IF b = b2 THEN b1 ELSE Root]
MCContents == [b \in Blocks |-> IF b = b2 THEN Txs \cap {t1} ELSE {}]
MCInputs == [t \in Txs |-> IF t = t2 THEN {t1} ELSE {}]
MCAnchor == [t \in Txs |-> IF t = t2 THEN b1 ELSE Root]
MCHas == [p \in Peers |-> IF p = peer1 THEN Items \ {bad} ELSE Items]

-----------------------------------------------------------------------------
(* What remote nodes do on their connections, and the node's own commands.            *)
M(m) == [m |-> m]
Hello(id) == [m |-> "hello", from |-> 0, id |-> id, good |-> TRUE]
Conn(ep, msgs, eof) == [ep |-> ep, msgs |-> msgs, eof |-> eof]
PNode(ep) == [ep |-> ep, seed |-> FALSE]
PAt(answer, msgs, eof) == [answer |-> answer, msgs |-> msgs, eof |-> eof]
PDo(e, x) == [e |-> e, x |-> x]
PnQuiet == [comes |-> <<>>, nodes |-> <<>>, at |-> <<>>, does |-> <<>>, outs |-> 0, ticks |-> 0, leaves |-> FALSE]
PnS1 == [PnQuiet EXCEPT !.comes = <<Conn("a", <<Hello(1), M("ack"), M("ping"), [m |-> "tx", inv |-> 7]>>, FALSE)>>,
                !.does = <<PDo("getdata", 7), PDo("send", 0), PDo("getdata", 7), PDo("close", 0)>>, !.outs = 1, !.leaves = TRUE]
PnS2 == [PnQuiet EXCEPT !.comes = <<Conn("a", <<Hello(1), M("ack"), [m |-> "getdata", invs |-> <<1, 2>>], M("getaddress")>>, TRUE),
                                Conn("b", <<Hello(1), M("ack"), M("badheader")>>, FALSE)>>,
                !.does = <<PDo("reward", 0)>>, !.outs = 1]
PnS3 == [PnQuiet EXCEPT !.nodes = <<PNode("x"), PNode("z")>>,
                !.at = [x |-> PAt("hang", <<>>, FALSE), z |-> PAt("refuse", <<>>, FALSE)],
                !.does = <<PDo("add", "x"), PDo("ban", 0), PDo("remove", "z"), PDo("clear", 0)>>,
                !.outs = 3, !.ticks = 3]
PnS4 == [PnQuiet EXCEPT !.nodes = <<[ep |-> "y", seed |-> TRUE]>>,
                !.at = [y |-> PAt("ok", <<Hello(3), [m |-> "address", eps |-> <<"x", "z">>, gateway |-> <<"w">>]>>, TRUE),
                        x |-> PAt("hang", <<>>, FALSE), z |-> PAt("refuse", <<>>, FALSE), w |-> PAt("hang", <<>>, FALSE)],
                !.outs = 1, !.ticks = 2]
PnS5 == [PnQuiet EXCEPT !.nodes = <<PNode("w")>>,
                !.at = [w |-> PAt("ok", <<Hello(4)>>, TRUE)], !.does = <<PDo("remove", "w"), PDo("add", "w")>>,
                !.outs = 1, !.ticks = 1]
PnS6 == [PnQuiet EXCEPT !.nodes = <<PNode("x")>>, !.comes = <<Conn("c", <<Hello(1)>>, FALSE)>>,
                !.at = [x |-> PAt("ok", <<[Hello(1) EXCEPT !.from = 1]>>, FALSE)], !.outs = 1, !.ticks = 1]
PnS7 == [PnQuiet EXCEPT !.comes = <<Conn("a", <<Hello(1), M("ack")>>, TRUE), Conn("a", <<Hello(1), M("ack")>>, TRUE),
                                Conn("a", <<Hello(1), M("ack")>>, TRUE)>>, !.ticks = 1]
MCPnScripts == {PnS1, PnS2, PnS3, PnS4, PnS5, PnS6, PnS7}

-----------------------------------------------------------------------------
(* The second of three events comes from either peer, the others from peer1, whose    *)
(* list may grow to three.                                                            *)
MCSenders == <<{peer1}, {peer1, peer2}, {peer1}>>
MCSizesAtStart == {0, 1}

-----------------------------------------------------------------------------
mcVars == <<vars, pnVars, eqVars, mcPart>>

MCInit ==
    /\ mcPart \in Parts
    /\ IF mcPart = "peers" THEN TRUE ELSE pnLeft = CHOOSE s \in PnScripts : TRUE
    /\ IF mcPart = "queue" THEN TRUE ELSE sizeAtStart = CHOOSE n \in SizesAtStart : TRUE
    /\ Init /\ PnInit /\ EqInit

\* The other parts stand still while p makes a step.
Still(p) ==
    /\ mcPart = p
    /\ p # "channel" => UNCHANGED vars
    /\ p # "peers" => UNCHANGED pnVars
    /\ p # "queue" => UNCHANGED eqVars
    /\ UNCHANGED mcPart

MCNext ==
    \/ Still("channel") /\ Next
    \/ Still("peers") /\ PnStep
    \/ Still("queue") /\ EqNext

MCSpec == MCInit /\ [][MCNext]_mcVars

\* With the fairness of NetChannel, or of MultiEventQueue.
MCChannelSpec == MCSpec /\ Fairness
MCQueueSpec == MCSpec /\ EqFairness

-----------------------------------------------------------------------------
\* PnNetKept, asked while the connections are the part explored: every connection is watched by a
\* timer, clients and peers are accounted for, and nodes are tried again until they are removed.
PeersKept == mcPart = "peers" => PnNetKept
=============================================================================
