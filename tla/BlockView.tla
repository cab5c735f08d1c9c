----------------------------- MODULE BlockView -----------------------------
(***************************************************************************)
(* CBlockView (storage/blockbase.h and blockbase.cpp): the difference      *)
(* between the unspent outputs and the transaction index on disk, which    *)
(* belong to the last block of a fork, and those of any other block of the *)
(* same fork.  CBlockBase::GetBlockView builds it by taking off the blocks *)
(* down to the branch and putting on the blocks up to the wanted one; the  *)
(* difference is what CommitBlockView writes when the fork's last block    *)
(* moves there.                                                            *)
(*                                                                         *)
(* A transaction output is <<tx, n>> with n = 0 (what is sent) or 1 (the   *)
(* change).  The contents of an output (destination, amount, time, lock)   *)
(* never change, so an entry of mapUnspent is only "holds an output" or    *)
(* "is null", with the count nOpt of Enable minus Disable calls.           *)
(***************************************************************************)
EXTENDS Integers, Sequences, FiniteSets

CONSTANTS
    Txs,        \* the transactions, mint transactions included
    Inputs,     \* the outputs a transaction spends
    Outputs     \* the subset of {0, 1} of the outputs that are not null

OutPoints == Txs \X {0, 1}

OutputsOf(t) == {<<t, n>> : n \in Outputs[t]}

\* The empty view: no entry in mapTx and mapUnspent, nothing in vTxRemove.
EmptyView ==
    [mapTx |-> [t \in Txs |-> "absent"],
     mapUnspent |-> [o \in OutPoints |-> "absent"],
     nOpt |-> [o \in OutPoints |-> 0],
     vTxRemove |-> {}]

AddTx(v, t) ==
    [v EXCEPT
        !.mapTx[t] = "tx",
        !.mapUnspent = [o \in OutPoints |->
            CASE o \in OutputsOf(t) -> "output"
              [] o \in Inputs[t]    -> "null"
              [] OTHER              -> @[o]],
        !.nOpt = [o \in OutPoints |->
            CASE o \in OutputsOf(t) -> @[o] + 1
              [] o \in Inputs[t]    -> @[o] - 1
              [] OTHER              -> @[o]]]

\* Both outputs are disabled, also one that the transaction does not have.
RemoveTx(v, t) ==
    [v EXCEPT
        !.mapTx[t] = "null",
        !.vTxRemove = @ \cup {t},
        !.mapUnspent = [o \in OutPoints |->
            CASE o \in Inputs[t] -> "output"
              [] o[1] = t        -> "null"
              [] OTHER           -> @[o]],
        !.nOpt = [o \in OutPoints |->
            CASE o \in Inputs[t] -> @[o] + 1
              [] o[1] = t        -> @[o] - 1
              [] OTHER           -> @[o]]]

\* RetrieveUnspent: the view's entry, else the table on disk.
RetrieveUnspent(v, unspent, o) ==
    \/ v.mapUnspent[o] = "output"
    \/ v.mapUnspent[o] = "absent" /\ o \in unspent

\* GetUnspentChanges, applied to the table on disk.
UnspentAfter(v, unspent) ==
    {o \in OutPoints : IF v.nOpt[o] # 0 THEN v.mapUnspent[o] = "output"
                                        ELSE o \in unspent}

\* GetTxUpdated: taken off with one branch and put on with the other.
TxUpdated(v) == {t \in v.vTxRemove : v.mapTx[t] # "null"}

\* GetTxRemoved: taken off and not put on again.
TxRemoved(v) == {t \in v.vTxRemove : v.mapTx[t] = "null"}
=============================================================================
