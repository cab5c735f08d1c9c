----------------------------- MODULE MCLedger ------------------------------
(***************************************************************************)
(* Instances for TLC of the chain and what follows it: a fork with its pool  *)
(* and its wallet (Ledger), and the signatures of a transaction (Signing).     *)
(* A run explores one part at a time, the others standing still.              *)
(*                                                                            *)
(* The fork of Ledger:  pay spends the origin's mint and has change;          *)
(* spend spends what pay sends and the mint of block A1, redeem spends     *)
(* pay's change, rival both outputs of pay.  Branch A has two blocks with  *)
(* the same time and a vacant block on top; C leaves it after the first.   *)
(* Y confirms cheat, which spends what pay spends.  Z1 confirms nothing    *)
(* and ZX, an extended block on top of it, confirms pay again.             *)
(***************************************************************************)
EXTENDS Ledger, Signing

CONSTANTS Parts, G, A1, A2, AV, C, Y, Z1, ZX,
          mintG, mintA1, mintA2, mintC, mintY, mintZ1, mintZX,
          pay, spend, rival, redeem, cheat

MCTxs == {mintG, mintA1, mintA2, mintC, mintY, mintZ1, mintZX, pay, spend, rival, redeem, cheat}

MCInputs == [t \in MCTxs |->
    CASE t \in {pay, cheat} -> {<<mintG, 0>>}
      [] t = spend  -> {<<pay, 0>>, <<mintA1, 0>>}
      [] t = rival  -> {<<pay, 0>>, <<pay, 1>>}
      [] t = redeem -> {<<pay, 1>>}
      [] OTHER      -> {}]

MCOutputs == [t \in MCTxs |-> IF t = pay THEN {0, 1} ELSE {0}]

MCBlocks == {G, A1, A2, AV, C, Y, Z1, ZX}

MCPrev == [b \in MCBlocks \ {G} |->
    CASE b \in {A1, Y, Z1} -> G
      [] b \in {A2, C}     -> A1
      [] b = AV            -> A2
      [] b = ZX            -> Z1]

MCTime == [b \in MCBlocks |->
    CASE b = G -> 0
      [] b \in {A1, A2, Y, Z1} -> 1
      [] OTHER -> 2]

MCTrust == [b \in MCBlocks |->
    CASE b = AV -> 0
      [] b \in {C, ZX} -> 2
      [] b = Y  -> 4
      [] b = Z1 -> 3
      [] OTHER  -> 1]

MCVacant == {AV}
MCExtended == {ZX}

MCMint == [b \in MCBlocks \ MCVacant |->
    CASE b = G  -> mintG
      [] b = A1 -> mintA1
      [] b = A2 -> mintA2
      [] b = C  -> mintC
      [] b = Y  -> mintY
      [] b = Z1 -> mintZ1
      [] b = ZX -> mintZX]

MCVtx == [b \in MCBlocks |->
    CASE b = A1 -> <<pay>>
      [] b = A2 -> <<spend>>
      [] b = C  -> <<rival>>
      [] b = Y  -> <<cheat>>
      [] b = ZX -> <<pay>>
      [] OTHER  -> <<>>]

-----------------------------------------------------------------------------
(* Templates of each kind, two wallets, and transactions that spend from them.        *)
STemplate(type, required, weight, listed, key, dest) ==
  [type |-> type, required |-> required, weight |-> weight, listed |-> listed, key |-> key, dest |-> dest]
MCSgKeys == {"k1", "k2", "k3"}
SWeights(a,b,c) == [k \in MCSgKeys |-> IF k="k1" THEN a ELSE IF k="k2" THEN b ELSE c]
MCSgTemplate == ("W" :> STemplate("weighted", 3, SWeights(1,2,1), 3, "none", "none"))
 @@ ("M" :> STemplate("multisig", 2, SWeights(1,1,1), 3, "none", "none"))
 @@ ("Z" :> STemplate("weighted", 5, SWeights(1,2,1), 3, "none", "none"))
 @@ ("F" :> STemplate("fork", 0, <<>>, 0, "f", "W"))
 @@ ("P" :> STemplate("proof", 0, <<>>, 0, "k2", "k1"))
 @@ ("D" :> STemplate("delegate", 0, <<>>, 0, "k3", "k1"))
 @@ ("Q" :> STemplate("fork", 0, <<>>, 0, "f", "P"))
MCSgWallet == ("w1" :> {"k1"}) @@ ("w2" :> {"k2", "k3"})
SOut(t, n, dest, amt, time, lock) == [out |-> <<t, n>>, dest |-> dest, amt |-> amt, time |-> time, lock |-> lock]
STx(in, to, amt) == [kind |-> "token", in |-> in, to |-> to, amt |-> amt, fee |-> 1, time |-> 5, data |-> "none"]
SScript(make, locks, tx) == [tx |-> tx, make |-> {"w1", "w2"} \X make, locks |-> locks]
MCSgScripts == {
  SScript({"M"}, {<<"w2", "k3">>}, STx(<<SOut("a",0,"M",9,1,1)>>, "k1", 8)),
  SScript({"W", "F"}, {<<"w2", "k2">>}, STx(<<SOut("a",0,"F",9,1,0)>>, "k1", 5)),
  SScript({"W", "F"}, {}, STx(<<SOut("a",0,"F",9,1,1)>>, "D", 8)),
  SScript({"P"}, {<<"w1", "k1">>}, STx(<<SOut("a",0,"P",9,1,0), SOut("b",1,"P",9,1,2)>>, "D", 8)),
  SScript({"Z", "Q"}, {}, STx(<<SOut("a",0,"k1",9,1,0), SOut("a",0,"k1",9,1,0)>>, "W", 8)),
  SScript({"D"}, {}, STx(<<SOut("a",0,"D",9,1,0)>>, "D", 8))}

-----------------------------------------------------------------------------
VARIABLE mcPart

mcVars == <<vars, sgVars, mcPart>>

MCInit ==
    /\ mcPart \in Parts
    /\ IF mcPart = "signing" THEN TRUE ELSE sgScr = CHOOSE s \in SgScripts : TRUE
    /\ Init /\ SgInit

\* The other parts stand still while p makes a step.
Still(p) ==
    /\ mcPart = p
    /\ p # "ledger" => UNCHANGED vars
    /\ p # "signing" => UNCHANGED sgVars
    /\ UNCHANGED mcPart

MCNext ==
    \/ Still("ledger") /\ Next
    \/ Still("signing") /\ SgStep

MCSpec == MCInit /\ [][MCNext]_mcVars

-----------------------------------------------------------------------------
\* SgStaysValid, asked while the signatures are: what the wallets say is complete verifies, and stays
\* so in the pool.
SignedStaysValid == mcPart = "signing" => SgStaysValid
=============================================================================
