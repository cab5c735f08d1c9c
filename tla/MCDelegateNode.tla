---------------------------- MODULE MCDelegateNode ---------------------------
(***************************************************************************)
(* Instances for TLC of what decides on the next block and of what the node   *)
(* says of its chains: a delegate of the consensus with its channel and block  *)
(* maker (DelegateNode), the miner and the block maker of forks (Minting), and  *)
(* the commands that read the node (NodeCommands).                              *)
(* A run explores one part at a time, the others standing still.                *)
(***************************************************************************)
EXTENDS DelegateNode, Minting, NodeCommands

CONSTANT Parts

VARIABLE mcPart

-----------------------------------------------------------------------------
(* Three delegates, of which the node mints for the first, and two peers.             *)
MCWeight == [d \in Delegates |-> 1]
MCHolds == <<{2}>>
MCRolls == {Delegates}
MCScenarios ==
    {[peers |-> {1}, maker |-> FALSE, work |-> FALSE, from |-> 4, netHeight |-> 4, maxHeight |-> 4, maxEpoch |-> 1],
     [peers |-> {1}, maker |-> TRUE, work |-> FALSE, from |-> 3, netHeight |-> 3, maxHeight |-> 4, maxEpoch |-> 0],
     [peers |-> {}, maker |-> TRUE, work |-> TRUE, from |-> 3, netHeight |-> 4, maxHeight |-> 4, maxEpoch |-> 1]}

-----------------------------------------------------------------------------
(* A miner with work that changes while it hashes, and a fork node with one or two    *)
(* forks whose primary chain grows or is reorganised.                                 *)
MAgr(x, y, sh) == [rnd |-> <<x, y, 7>>, share |-> sh]
MShares == <<<<"a", 10>>, <<"b", 20>>>>
MEntry(prev, kind, time, h, bits, agr, ref, mint) == [prev |-> prev, kind |-> kind, time |-> time, h |-> h, bits |-> bits, agr |-> agr, ref |-> ref, mint |-> mint]
MGenesis == [id |-> "p0", entry |-> MEntry("none", "genesis", 0, 0, 0, MtNoAgreement, "none", "none")]
MWork1 == [id |-> "p1", entry |-> MEntry("p0", "work", 60, 1, 20, MtNoAgreement, "none", "none")]
MOrigin(f) == [id |-> f, entry |-> MEntry("p1", "origin", 60, 1, 0, MtNoAgreement, "none", "none")]
MStake(id, prev, time, agr) == [id |-> id, prev |-> prev, kind |-> "stake", time |-> time, bits |-> 0, hash |-> 0, agr |-> agr, ref |-> "none", mint |-> GetBallot(agr, 0), sig |-> GetBallot(agr, 0), txs |-> <<>>]
MAgrA == MAgr(0, 90, MShares)
MAgrB == MAgr(0, 75, MShares)
MAgrC == MAgr(0, 25, MShares)
MNoForks == [f \in {} |-> <<>>]
MWork(bits, id, prev, time) == [id |-> id, prev |-> prev, kind |-> "work", time |-> time, bits |-> bits, hash |-> 0, agr |-> MtNoAgreement, ref |-> "none", mint |-> "x", sig |-> "x", txs |-> <<>>]
MCMtScripts == {
  [part |-> "miner", start |-> <<MGenesis, MWork1>>, tip |-> "p1", news |-> <<MWork(21, "p2", "p1", 130)>>, now |-> 100, clock |-> <<500>>,
   fetches |-> 2, lost |-> 1, halts |-> 0, txs |-> MNoForks],
  [part |-> "miner", start |-> <<MGenesis, MWork1>>, tip |-> "p1", news |-> <<>>, now |-> 100, clock |-> <<140>>,
   fetches |-> 2, lost |-> 0, halts |-> 1, txs |-> MNoForks],
  [part |-> "maker", start |-> <<MGenesis, MWork1, MOrigin("f"), MOrigin("g")>>, tip |-> "p1", news |-> <<MStake("p2", "p1", 120, MAgrA), MStake("p3", "p2", 185, MAgrC)>>, now |-> 115, clock |-> <<190>>,
   fetches |-> 0, lost |-> 0, halts |-> 0, txs |-> [f \in {"f", "g"} |-> <<>>]],
  [part |-> "maker", start |-> <<MGenesis, MWork1, MOrigin("f")>>, tip |-> "p1", news |-> <<MStake("p2", "p1", 120, MAgrA), MStake("q2", "p1", 121, MAgrC)>>, now |-> 115, clock |-> <<141, 190>>,
   fetches |-> 0, lost |-> 0, halts |-> 0, txs |-> [f \in {"f"} |-> <<<<f, 130>>, <<"t", 160>>>>]],
  [part |-> "maker", start |-> <<MGenesis, MWork1, MOrigin("f")>>, tip |-> "p1", news |-> <<MStake("p2", "p1", 120, MAgrB)>>, now |-> 115, clock |-> <<141>>,
   fetches |-> 0, lost |-> 0, halts |-> 1, txs |-> [f \in {"f"} |-> <<<<f, 130>>>>]]
}

-----------------------------------------------------------------------------
(* A main fork with two branches, a fork F of one of them and a fork H of F; blocks    *)
(* that arrive while commands are served.                                              *)
CBlk(id, prev, fork, height, isExt, trust, txs, opens) ==
    id :> [prev |-> prev, fork |-> fork, height |-> height, ext |-> isExt, trust |-> trust, txs |-> txs, opens |-> opens]
MCNcBlock ==
    CBlk("G", "0", "G", 0, FALSE, 0, {"g"}, {}) @@ CBlk("A1", "G", "G", 1, FALSE, 1, {"x"}, {"F"})
    @@ CBlk("A2", "A1", "G", 2, FALSE, 2, {"y"}, {"H"}) @@ CBlk("C1", "G", "G", 1, FALSE, 1, {}, {})
    @@ CBlk("C2", "C1", "G", 2, FALSE, 3, {"x"}, {})
    @@ CBlk("F", "A1", "F", 2, FALSE, 1, {}, {}) @@ CBlk("F1", "F", "F", 3, FALSE, 2, {"u"}, {})
    @@ CBlk("F2", "F1", "F", 3, TRUE, 3, {"v"}, {}) @@ CBlk("F3", "F2", "F", 3, TRUE, 4, {}, {})
    @@ CBlk("H", "F", "H", 3, FALSE, 1, {}, {})
CCall(cmd, arg, h) == [cmd |-> cmd, arg |-> arg, height |-> h]
CScript(start, held, adds, calls) == [start |-> start, pool |-> held, adds |-> adds, calls |-> calls]
MCNcScripts == {
  CScript("G", {"x", "y"}, <<<<"A1", "F1", "F2", "A2">>>>, <<CCall("gettransaction", "x", 0), CCall("getblockhash", "F", 3), CCall("getforkcount", "", 0), CCall("gettxpool", "F", 0)>>),
  CScript("G", {"x", "y"}, <<<<"A1", "A2", "F1", "F2", "F3">>>>, <<CCall("getblockhash", "", 1), CCall("getgenealogy", "H", 0), CCall("listfork", "all", 0), CCall("getblockhash", "F", 3)>>),
  CScript("A1", {"y"}, <<<<"C1", "A2", "C2", "C2">>>>, <<CCall("gettransaction", "x", 0), CCall("getblockhash", "", 2), CCall("sendtransaction", "x", 0), CCall("gettransaction", "y", 0)>>),
  CScript("A1", {"y"}, <<<<"C2", "C1", "C2">>>>, <<CCall("getblockcount", "", 0), CCall("getblockhash", "bad", 0), CCall("getblock", "C1", 0), CCall("getblocklocation", "C2", 0), CCall("getforkheight", "", 0), CCall("getgenealogy", "", 0)>>),
  CScript("G", {"u"}, <<<<"A1", "F1", "F2">>>>, <<CCall("listfork", "", 0), CCall("getblockcount", "F", 0), CCall("gettransaction", "u", 0), CCall("sendtransaction", "v", 0), CCall("getblockhash", "F", 1)>>)}

-----------------------------------------------------------------------------
mcVars == <<vars, mtVars, ncVars, mcPart>>

AnyOf(S) == CHOOSE x \in S : TRUE

MCInit ==
    /\ mcPart \in Parts
    /\ IF mcPart = "delegate" THEN TRUE ELSE scen = AnyOf(Scenarios)
    /\ Init
    /\ IF mcPart = "minting" THEN MtInit ELSE MtStart(AnyOf(MtScripts))
    /\ IF mcPart = "commands" THEN NcInit ELSE NcStart(AnyOf(NcScripts))

\* The other parts stand still while p makes a step.
Still(p) ==
    /\ mcPart = p
    /\ p # "delegate" => UNCHANGED vars
    /\ p # "minting" => UNCHANGED mtVars
    /\ p # "commands" => UNCHANGED ncVars
    /\ UNCHANGED mcPart

MCNext ==
    \/ Still("delegate") /\ Next
    \/ Still("minting") /\ MtStep
    \/ Still("commands") /\ NcStep

MCSpec == MCInit /\ [][MCNext]_mcVars

-----------------------------------------------------------------------------
\* MtBlocksFit, asked while the miner and the block maker are the part explored: what they make is on the
\* current block, in its slot and with its agreement, and is accepted.
BlocksFit == mcPart = "minting" => MtBlocksFit

\* NcCommandsExact, asked while the commands are: an answer is one the node could give at some moment
\* while the command was served.
CommandsExact == mcPart = "commands" => NcCommandsExact
=============================================================================
