----------------------------- MODULE Signing -----------------------------
(***************************************************************************)
(* Addresses, templates and signatures: CDestination, CTemplate and its    *)
(* kinds (common/destination.cpp, common/template/), the aggregated        *)
(* signature of several keys (crypto/crypto.cpp), the wallet's signing     *)
(* (src/wallet.cpp) and the rules that a node checks a transaction by      *)
(* (src/core.cpp).  Several wallets sign copies of one transaction, which  *)
(* users pass around, and a node takes it into its pool and into a block.  *)
(*                                                                         *)
(* A template stands for its own id, its data being what the id hashes.  A *)
(* signature is the sequence of what was written into it: <<"dest", d>>,   *)
(* <<"data", template>>, <<"key", k>>, and for several keys the record     *)
(* [index, share]: the keys marked in it, and how often each key's share   *)
(* was added to R and S.  Hashing and curve arithmetic are left out: a sum *)
(* verifies when each marked key, and no other, has one share in it.       *)
(***************************************************************************)
EXTENDS Integers, Sequences, FiniteSets, SequencesExt, FiniteSetsExt

CONSTANTS
    SgKeys,        \* public keys
    SgTemplate,    \* id -> [type, required, weight, listed, key, dest]
    SgWallet,      \* wallet -> the keys it holds
    SgCopies,      \* copies of the transaction
    SgScripts,     \* [tx, make, locks]: a transaction [kind, in, to, amt, fee, time, data], the
                   \* templates <<wallet, id>> asked for and the keys <<wallet, key>> locked at times
    SgMaxHeight,   \* bound on the fork's height
    SgMinFee,      \* MIN_TX_FEE
    SgMaxMoney,    \* MAX_MONEY
    SgMaxKeys,     \* MAX_KEY_NUMBER
    SgMortgage,    \* MORTGAGE_BASE
    SgDecay        \* MORTGAGE_DECAY_CYCLE

VARIABLES
    sgScr,         \* the script
    sgWal,         \* of each wallet [tmpl, locked]
    sgCopy,        \* of each copy [sig, said, by]: signature, what the wallet said, who signed
    sgPool,        \* signatures with which the pool took the transaction
    sgHeight       \* height of the fork

sgVars == <<sgScr, sgWal, sgCopy, sgPool, sgHeight>>

Nobody == "none"
TheTx == sgScr.tx

--------------------------------------------------------------------------
(* Destinations and templates.                                             *)

IsPubKey(d) == d \in SgKeys
IsTemplate(d) == d \in DOMAIN SgTemplate
TypeOf(d) == SgTemplate[d].type
KeysOf(d) == DOMAIN SgTemplate[d].weight

IsTxSpendable(d) == IsPubKey(d) \/ (IsTemplate(d) /\ TypeOf(d) \in {"weighted", "multisig"})
IsDestInRecorded(d) == IsTemplate(d) /\ TypeOf(d) = "delegate"
IsLockedCoin(d) == IsTemplate(d) /\ TypeOf(d) = "fork"

WeightOf(d, keys) == MapThenSumSet(LAMBDA k : SgTemplate[d].weight[k], keys \cap KeysOf(d))

(* ValidateParam of each kind.  The key of a fork template is its fork.    *)
ValidateWeighted(t, d) ==
    /\ t.required # 0
    /\ Cardinality(KeysOf(d)) \in 2..SgMaxKeys
    /\ \A k \in KeysOf(d) : t.weight[k] # 0
    /\ WeightOf(d, KeysOf(d)) >= t.required
ValidateDelegate(t) == t.key # Nobody /\ IsTxSpendable(t.dest)
ValidateFork(t) == IsTxSpendable(t.dest) /\ t.key # Nobody
ValidateProof(t) == t.key # Nobody /\ IsTxSpendable(t.dest)

ValidateParam(d) ==
    LET t == SgTemplate[d] IN
    CASE t.type \in {"weighted", "multisig"} -> ValidateWeighted(t, d)
      [] t.type = "delegate" -> ValidateDelegate(t)
      [] t.type = "fork" -> ValidateFork(t)
      [] OTHER -> ValidateProof(t)

(* SetTemplateData of a request: bounds, no key named twice, keys that     *)
(* parse.                                                                  *)
SetWeighted(t, d) ==
    /\ t.required \in 1..255
    /\ \A k \in KeysOf(d) : t.weight[k] \in 1..255
    /\ t.listed = Cardinality(KeysOf(d))
SetMultiSig(t, d) ==
    /\ t.required \in 1..255
    /\ \A k \in KeysOf(d) : t.weight[k] = 1
    /\ t.listed = Cardinality(KeysOf(d))
SetDelegate(t) == IsPubKey(t.key) /\ (IsPubKey(t.dest) \/ IsTemplate(t.dest))
SetFork(t) == IsPubKey(t.dest) \/ IsTemplate(t.dest)
SetProof(t) == IsPubKey(t.key) /\ (IsPubKey(t.dest) \/ IsTemplate(t.dest))

SetTemplateData(d) ==
    LET t == SgTemplate[d] IN
    CASE t.type = "weighted" -> SetWeighted(t, d)
      [] t.type = "multisig" -> SetMultiSig(t, d)
      [] t.type = "delegate" -> SetDelegate(t)
      [] t.type = "fork" -> SetFork(t)
      [] OTHER -> SetProof(t)

(* CreateTemplatePtr of what a signature starts with.                      *)
CreateTemplatePtr(sig, type) ==
    /\ sig # <<>> /\ Len(sig[1]) = 2 /\ sig[1][1] = "data"
    /\ TypeOf(sig[1][2]) = type /\ ValidateParam(sig[1][2])

--------------------------------------------------------------------------
(* Signatures of several keys.                                             *)

(* Slip: a key that signed already adds its share again.                   *)
CryptoMultiSignAgain(keys, k, sig) ==
    IF k \notin keys \/ (sig # <<>> /\ sig[1][1] # "multi") THEN sig
    ELSE LET m == IF sig = <<>> THEN <<"multi", {}, [x \in keys |-> 0]>> ELSE sig[1]
         IN  <<<<"multi", m[2] \cup {k}, [m[3] EXCEPT ![k] = (@ + 1) % 4]>>>>

CryptoMultiSign(keys, k, sig) ==
    IF k \notin keys \/ (sig # <<>> /\ sig[1][1] # "multi") THEN sig
    ELSE LET m == IF sig = <<>> THEN <<"multi", {}, [x \in keys |-> 0]>> ELSE sig[1]
         IN  IF k \in m[2] THEN <<m>>
             ELSE <<<<"multi", m[2] \cup {k}, [m[3] EXCEPT ![k] = @ + 1]>>>>

CryptoMultiVerify(keys, sig) ==
    \/ sig = <<>>
    \/ /\ sig[1][1] = "multi" /\ DOMAIN sig[1][3] = keys
       /\ \A k \in keys : sig[1][3][k] = IF k \in sig[1][2] THEN 1 ELSE 0

CryptoMultiPartKey(sig) == IF sig = <<>> THEN {} ELSE sig[1][2]

--------------------------------------------------------------------------
(* Verification: [ok, done], fCompleted being done.                        *)

Failed == [ok |-> FALSE, done |-> FALSE]

(* VerifyTxSignature of each kind: the keys of a weighted one have to      *)
(* verify, the others name the destination that has to.                    *)
VerifyWeighted(d, sig) ==
    IF ~CryptoMultiVerify(KeysOf(d), sig) THEN Failed
    ELSE [ok |-> TRUE, done |-> WeightOf(d, CryptoMultiPartKey(sig)) >= SgTemplate[d].required]
DelegateVerifier(d, to) == IF to = d THEN SgTemplate[d].key ELSE to
ForkVerifier(d) == SgTemplate[d].dest
ProofVerifier(d) == SgTemplate[d].dest

RECURSIVE VerifyTxSignature(_, _, _)
VerifyTxSignature(d, to, sig) ==
    IF IsPubKey(d) THEN LET v == sig = <<<<"key", d>>>> IN [ok |-> v, done |-> v]
    ELSE IF ~IsTemplate(d) \/ ~CreateTemplatePtr(sig, TypeOf(d)) THEN Failed
    ELSE IF sig[1][2] # d THEN Failed
    ELSE CASE TypeOf(d) \in {"weighted", "multisig"} -> VerifyWeighted(d, Tail(sig))
           [] TypeOf(d) = "delegate" -> VerifyTxSignature(DelegateVerifier(d, to), to, Tail(sig))
           [] TypeOf(d) = "fork" -> VerifyTxSignature(ForkVerifier(d), to, Tail(sig))
           [] OTHER -> VerifyTxSignature(ProofVerifier(d), to, Tail(sig))

(* What a transaction to a delegate records in front of its signature.     *)
ParseDestIn(sig, d) == sig # <<>> /\ sig[1] = <<"dest", d>>
RecordDestIn(sig, d) == <<<<"dest", d>>>> \o sig

SigPart(tx, sig) == IF IsDestInRecorded(tx.to) THEN Tail(sig) ELSE sig

SignatureValid(tx, sig) ==
    /\ IsDestInRecorded(tx.to) => ParseDestIn(sig, tx.in[1].dest)
    /\ VerifyTxSignature(tx.in[1].dest, tx.to, SigPart(tx, sig)).done

--------------------------------------------------------------------------
(* The rules for a transaction.                                            *)

MoneyRange(n) == n \in 0..SgMaxMoney
IsMintTx(tx) == tx.kind \in {"genesis", "work", "stake"}
ValueIn(tx) == FoldLeft(LAMBDA n, o : n + o.amt, 0, tx.in)

(* The data of a payment to a key begins with 20 bytes and a description;  *)
(* data is one of none, short, overrun, garbled and good.  The comparison  *)
(* with the template types never holds, an id being more than its type.    *)
ValidateTransaction(tx, sig) ==
    /\ tx.kind = "token" /\ IsPubKey(tx.to) => tx.data \in {"none", "good"}
    /\ (tx.in = <<>>) = IsMintTx(tx)
    /\ IsMintTx(tx) => sig = <<>>
    /\ tx.to # Nobody
    /\ MoneyRange(tx.amt) /\ MoneyRange(tx.fee)
    /\ IF tx.kind = "token" THEN tx.fee >= SgMinFee ELSE tx.fee = 0
    /\ \A i \in DOMAIN tx.in : tx.in[i].out[2] \in {0, 1}
    /\ \A i, j \in DOMAIN tx.in : tx.in[i].out = tx.in[j].out => i = j

IsLocked(o, height) == height < o.lock

InputsReady(tx, height) ==
    /\ \A i \in DOMAIN tx.in : tx.in[i].time <= tx.time /\ ~IsLocked(tx.in[i], height)
    /\ MoneyRange(ValueIn(tx)) /\ ValueIn(tx) >= tx.amt + tx.fee

LockedCoin(height) == SgMortgage \div (2 ^ (height \div SgDecay))

VerifyBlockTx(tx, sig, prevHeight) == InputsReady(tx, prevHeight) /\ SignatureValid(tx, sig)

VerifyTransaction(tx, sig, height) ==
    /\ \A i \in DOMAIN tx.in : tx.in[i].dest = tx.in[1].dest
    /\ InputsReady(tx, height) /\ SignatureValid(tx, sig)
    /\ IsLockedCoin(tx.in[1].dest) =>
         /\ CreateTemplatePtr(SigPart(tx, sig), "fork")
         /\ ValueIn(tx) >= tx.amt + tx.fee + LockedCoin(height)

--------------------------------------------------------------------------
(* The wallet.                                                             *)

CanSign(w, k) == k \in SgWallet[w] \ sgWal[w].locked

SignMultiPubKey(w, keys, sig) ==
    FoldSet(LAMBDA k, s : CryptoMultiSign(keys, k, s), sig, {k \in keys : CanSign(w, k)})

Refusal == [ok |-> FALSE, done |-> FALSE, sig |-> <<>>]

(* BuildTxSignature: the template's data in front of what verifies.        *)
BuildTxSignature(d, to, sub) ==
    LET sig == <<<<"data", d>>>> \o sub
        v   == VerifyTxSignature(d, to, sig)
    IN  IF v.ok THEN [ok |-> TRUE, done |-> v.done, sig |-> sig] ELSE Refusal

(* GetSignDestination of each kind; a delegate's coins are never signed    *)
(* for.                                                                    *)
WeightedSigners(d) == KeysOf(d)
DelegateSigners(d) == {}
ForkSigners(d) == {SgTemplate[d].dest}
ProofSigners(d) == {SgTemplate[d].dest}

GetSignDestination(d) ==
    CASE TypeOf(d) \in {"weighted", "multisig"} -> WeightedSigners(d)
      [] TypeOf(d) = "delegate" -> DelegateSigners(d)
      [] TypeOf(d) = "fork" -> ForkSigners(d)
      [] OTHER -> ProofSigners(d)

RECURSIVE SignDestination(_, _, _, _)
SignDestination(w, d, to, sig) ==
    IF IsPubKey(d)
    THEN IF CanSign(w, d) THEN [ok |-> TRUE, done |-> TRUE, sig |-> <<<<"key", d>>>>] ELSE Refusal
    ELSE IF d \notin sgWal[w].tmpl \/ GetSignDestination(d) = {} THEN Refusal
    ELSE LET pre  == IF sig = <<>> THEN <<>> ELSE Tail(sig)
             subs == GetSignDestination(d) IN
         IF Cardinality(subs) > 1
         THEN IF ~ \E k \in subs : CanSign(w, k) THEN Refusal
              ELSE BuildTxSignature(d, to, SignMultiPubKey(w, subs, pre))
         ELSE LET sub == SignDestination(w, CHOOSE x \in subs : TRUE, to, pre)
              IN  IF sub.ok THEN BuildTxSignature(d, to, sub.sig) ELSE Refusal

SignTransaction(w, tx, sig) ==
    LET d == tx.in[1].dest
        recorded == IsDestInRecorded(tx.to) IN
    IF sig # <<>> /\ recorded /\ ~ParseDestIn(sig, d) THEN Refusal
    ELSE LET r == SignDestination(w, d, tx.to, IF sig # <<>> /\ recorded THEN Tail(sig) ELSE sig)
         IN  IF r.ok /\ recorded THEN [r EXCEPT !.sig = RecordDestIn(@, d)] ELSE r

--------------------------------------------------------------------------
NewCopy == [sig |-> <<>>, said |-> FALSE, by |-> {}]

SgInit ==
    /\ sgScr \in SgScripts
    /\ sgWal = [w \in DOMAIN SgWallet |-> [tmpl |-> {}, locked |-> {}]]
    /\ sgCopy = [c \in SgCopies |-> NewCopy]
    /\ sgPool = {}
    /\ sgHeight = 0

(* RPCMakeTemplate and AddTemplate.                                        *)
SgMakeTemplate(w, d) ==
    /\ d \notin sgWal[w].tmpl /\ SetTemplateData(d) /\ ValidateParam(d)
    /\ sgWal' = [sgWal EXCEPT ![w].tmpl = @ \cup {d}]
    /\ UNCHANGED <<sgScr, sgCopy, sgPool, sgHeight>>

SgLock(w, k) ==
    /\ sgWal' = [sgWal EXCEPT ![w].locked = IF k \in @ THEN @ \ {k} ELSE @ \cup {k}]
    /\ UNCHANGED <<sgScr, sgCopy, sgPool, sgHeight>>

(* The keys a wallet adds to the signature of a copy.                      *)
RECURSIVE Signers(_, _)
Signers(w, d) ==
    IF IsPubKey(d) THEN {k \in {d} : CanSign(w, k)}
    ELSE IF TypeOf(d) \in {"weighted", "multisig"} THEN {k \in KeysOf(d) : CanSign(w, k)}
    ELSE Signers(w, SgTemplate[d].dest)

SgSign(w, c) ==
    \E r \in {SignTransaction(w, TheTx, sgCopy[c].sig)} :
        /\ r.ok
        /\ sgCopy' = [sgCopy EXCEPT ![c] = [sig |-> r.sig, said |-> r.done,
                                            by |-> @.by \cup Signers(w, TheTx.in[1].dest)]]
        /\ UNCHANGED <<sgScr, sgWal, sgPool, sgHeight>>

(* A user hands a copy on, in place of another.                            *)
SgHandOn(c, e) ==
    /\ c # e /\ sgCopy' = [sgCopy EXCEPT ![e] = sgCopy[c]]
    /\ UNCHANGED <<sgScr, sgWal, sgPool, sgHeight>>

SgSubmit(c) ==
    /\ ~IsMintTx(TheTx) /\ ValidateTransaction(TheTx, sgCopy[c].sig)
    /\ VerifyTransaction(TheTx, sgCopy[c].sig, sgHeight)
    /\ sgPool' = sgPool \cup {sgCopy[c].sig}
    /\ UNCHANGED <<sgScr, sgWal, sgCopy, sgHeight>>

SgGrow ==
    /\ sgHeight < SgMaxHeight /\ sgHeight' = sgHeight + 1
    /\ UNCHANGED <<sgScr, sgWal, sgCopy, sgPool>>

SgStep ==
    \/ \E w \in DOMAIN SgWallet :
         \/ \E d \in DOMAIN SgTemplate : <<w, d>> \in sgScr.make /\ SgMakeTemplate(w, d)
         \/ \E k \in SgWallet[w] : <<w, k>> \in sgScr.locks /\ SgLock(w, k)
         \/ \E c \in SgCopies : SgSign(w, c)
    \/ \E c, e \in SgCopies : SgHandOn(c, e)
    \/ \E c \in SgCopies : SgSubmit(c)
    \/ SgGrow

--------------------------------------------------------------------------
(* The keys that signed a copy are enough for the address it spends from.  *)
RECURSIVE Enough(_, _)
Enough(d, by) ==
    IF IsPubKey(d) THEN d \in by
    ELSE IF TypeOf(d) \in {"weighted", "multisig"} THEN WeightOf(d, by) >= SgTemplate[d].required
    ELSE Enough(SgTemplate[d].dest, by)

(* A wallet has what it takes to sign for the address.                     *)
RECURSIVE CanHelp(_, _)
CanHelp(w, d) ==
    IF IsPubKey(d) THEN CanSign(w, d)
    ELSE /\ d \in sgWal[w].tmpl /\ TypeOf(d) # "delegate"
         /\ IF TypeOf(d) \in {"weighted", "multisig"} THEN Signers(w, d) # {} ELSE CanHelp(w, SgTemplate[d].dest)

(* Whatever wallets sign a transaction, in whatever order, however often,  *)
(* and with whatever copies passed on in between: a wallet that holds the  *)
(* templates and a key can sign what another returned, it says complete    *)
(* exactly when the keys that signed are enough, and then nodes accept the *)
(* signature (SignDestination, CryptoMultiSign, VerifyTxSignature).        *)
SgSignedVerifies ==
    \A c \in SgCopies :
        LET from == TheTx.in[1].dest
            sig  == sgCopy[c].sig
        IN  sig # <<>> =>
              /\ \A w \in DOMAIN SgWallet : CanHelp(w, from) => SignTransaction(w, TheTx, sig).ok
              /\ sgCopy[c].said = Enough(from, sgCopy[c].by)
              /\ SignatureValid(TheTx, sig) = sgCopy[c].said

(* A transaction in the pool is good for a block on top of the chain, now  *)
(* and later (VerifyTransaction against VerifyBlockTx).                    *)
SgPooledMinable == \A sig \in sgPool : VerifyBlockTx(TheTx, sig, sgHeight)


\* From signing to mining nothing turns out invalid later: what the wallets completed verifies, and what
\* the pool took in can be mined.
SgStaysValid == SgSignedVerifies /\ SgPooledMinable
==========================================================================
