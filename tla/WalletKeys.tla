----------------------------- MODULE WalletKeys -----------------------------
(***************************************************************************)
(* The wallet's keys and templates (src/wallet.cpp, crypto/key.cpp, the address    *)
(* part of storage/walletdb.cpp), the RPC commands on them (src/rpcmod.cpp through    *)
(* src/service.cpp) and the docker's timers that lock a key again                       *)
(* (walleve/docker/docker.cpp).  Each wallet call runs under rwKeyStore, so it is one    *)
(* step; a command is several of them and other commands, the timer thread and a         *)
(* restart come in between.  A cipher is the passphrase that opens it.                   *)
(***************************************************************************)
EXTENDS Integers, Sequences, FiniteSets, TLC, SequencesExt, FiniteSetsExt, Functions

CONSTANTS
    WkKeys, WkTemplates,    \* every key and template there is
    WkThreads,              \* worker threads
    WkMaxTime,              \* bound: seconds
    WkScripts               \* [has: keys held at the start, file: a wallet file, cmds: [WkThreads -> sequence of commands],
                            \*  fails: database writes that may fail, restarts]

VARIABLES
    wk,                     \* the wallet and its database; see WkNew
    wkTmr,                  \* the docker's timers: [id, byId, byExpiry, work: vWorkQueue, call: callback fetched]
    wkThr,                  \* [thread -> [cmds left, pc, todo, seen]]
    wkNow,
    wkUntil,                \* [key -> the second until which an unlock promised to keep it open; 0: none]
    wkLeft                  \* [fails, restarts]

wkVars == <<wk, wkTmr, wkThr, wkNow, wkUntil, wkLeft>>

-----------------------------------------------------------------------------
(* crypto/key.cpp: a key is the cipher it is kept in and, while it is open, its secret. *)
LoadedKey(cipher, version) == [pass |-> cipher, version |-> version, open |-> FALSE]
RenewKey == [pass |-> "", version |-> 0, open |-> TRUE]
LockKey(key) == [key EXCEPT !.open = FALSE]
CanUnlock(key, pass) == key.pass = pass
UnlockKey(key, pass) == [key EXCEPT !.open = key.pass = pass]
CanEncrypt(key, current) == CanUnlock(LockKey(key), current)
EncryptKey(key, pass) == [key EXCEPT !.pass = pass, !.version = 1, !.open = TRUE]
SaveKey(key) == [pass |-> key.pass, version |-> key.version]
CanSign(key) == key.open

-----------------------------------------------------------------------------
(* walleve/docker/docker.cpp: timers.                                      *)
SetTimer(t, key, after) ==
    [t EXCEPT !.id = @ + 1, !.byId = @ @@ (t.id + 1 :> [key |-> key, at |-> wkNow + after]),
              !.byExpiry = @ \cup {[id |-> t.id + 1, at |-> wkNow + after]}]
CancelTimer(t, id) ==
    [t EXCEPT !.byId = Restrict(@, DOMAIN @ \ {id}), !.byExpiry = {e \in @ : e.id # id}]
NoTimers == [id |-> 0, byId |-> <<>>, byExpiry |-> {}, work |-> <<>>, call |-> <<>>]

TimerExpired == {e \in wkTmr.byExpiry : e.at <= wkNow}
TimerOrder(s) == SetToSortSeq(s, LAMBDA a, b : a.at < b.at \/ (a.at = b.at /\ a.id < b.id))

\* The timer thread moves what has expired to its work queue, under the lock of the timers.
TimerCollects ==
    /\ wkTmr.work = <<>> /\ wkTmr.call = <<>> /\ TimerExpired # {}
    /\ wkTmr' = [wkTmr EXCEPT !.byExpiry = @ \ TimerExpired, !.work = TimerOrder(TimerExpired)]
    /\ UNCHANGED <<wk, wkThr, wkNow, wkUntil, wkLeft>>

\* It takes the callback of the next one, unless that was cancelled meanwhile.
TimerTakes ==
    /\ wkTmr.work # <<>> /\ wkTmr.call = <<>>
    /\ \E id \in {Head(wkTmr.work).id} :
          wkTmr' = [wkTmr EXCEPT !.work = Tail(@), !.byId = Restrict(@, DOMAIN @ \ {id}),
                                 !.call = IF id \in DOMAIN wkTmr.byId THEN <<id, wkTmr.byId[id].key>> ELSE <<>>]
    /\ UNCHANGED <<wk, wkThr, wkNow, wkUntil, wkLeft>>

-----------------------------------------------------------------------------
(* src/wallet.cpp: each under rwKeyStore.                                  *)
NewKeyStore(key) == [key |-> LockKey(key), timer |-> 0, auto |-> -1]
Have(k) == k \in DOMAIN wk.mem
HaveTemplate(tid) == tid \in wk.tpl
KeyStatus(k) == wk.mem[k].key.open
StillFails == wkLeft.fails > 0

\* The key is inserted and written; when the write fails it is taken out again.
AddKey(k, key) ==
    [wk EXCEPT !.mem = @ @@ (k :> NewKeyStore(key)), !.disk = (k :> SaveKey(key)) @@ @]

\* The database is written first, then the key in memory; the key ends locked.  Its timer stays.
Encrypt(k, pass) ==
    [wk EXCEPT !.disk[k] = [pass |-> pass, version |-> 1],
               !.mem[k].key = LockKey(EncryptKey(@, pass))]

WalletLock(k) ==
    IF wk.mem[k].timer = 0 THEN [wk EXCEPT !.mem[k].key = LockKey(@)]
    ELSE [wk EXCEPT !.mem[k] = NewKeyStore(@.key)]

WalletUnlock(k, pass, timeout) ==
    IF timeout <= 0 THEN [wk EXCEPT !.mem[k].key = UnlockKey(@, pass)]
    ELSE [wk EXCEPT !.mem[k] = [key |-> UnlockKey(@.key, pass), timer |-> wkTmr.id + 1, auto |-> wkNow + timeout]]

\* Only the timer the key waits for locks it.
AutoLock(id, k) ==
    IF Have(k) /\ wk.mem[k].timer = id THEN [wk EXCEPT !.mem[k] = NewKeyStore(@.key)] ELSE wk

\* A template stays in memory even when it could not be written.
AddTemplate(tid, written) ==
    [wk EXCEPT !.tpl = @ \cup {tid}, !.dtpl = IF written THEN @ \cup {tid} ELSE @]

\* LoadDB: every key the database holds, locked; every template.
WkLoadDB ==
    [wk EXCEPT !.mem = [k \in DOMAIN wk.disk |-> NewKeyStore(LoadedKey(wk.disk[k].pass, wk.disk[k].version))],
               !.tpl = wk.dtpl]

TimerCalls ==
    /\ wkTmr.call # <<>>
    /\ wk' = AutoLock(wkTmr.call[1], wkTmr.call[2])
    /\ wkTmr' = [wkTmr EXCEPT !.call = <<>>]
    /\ UNCHANGED <<wkThr, wkNow, wkUntil, wkLeft>>

-----------------------------------------------------------------------------
(* The commands: a thread is at step pc of its first command.              *)
WkCmd(t) == Head(wkThr[t].cmds)
At(t, cmd, pc) == /\ wkThr[t].cmds # <<>> /\ WkCmd(t).cmd = cmd /\ wkThr[t].pc = pc
WkGoto(t, pc) == wkThr' = [wkThr EXCEPT ![t].pc = pc]
WkEnd(t) == wkThr' = [wkThr EXCEPT ![t] = [cmds |-> Tail(@.cmds), pc |-> 1, todo |-> <<>>, seen |-> {}]]
WkRead == UNCHANGED <<wk, wkTmr, wkNow, wkUntil, wkLeft>>

\* A first step that only reads: the command goes on if ok holds and ends (with an error) if not.
WkCheck(t, ok) == (IF ok THEN WkGoto(t, 2) ELSE WkEnd(t)) /\ WkRead

\* A write to the database that may fail: the wallet becomes good and the command goes on, or bad and it ends.
WkWrite(t, good, bad, next) ==
    /\ \/ wk' = good /\ wkLeft' = wkLeft /\ IF next = 0 THEN WkEnd(t) ELSE WkGoto(t, next)
       \/ StillFails /\ wk' = bad /\ wkLeft' = [wkLeft EXCEPT !.fails = @ - 1] /\ WkEnd(t)
    /\ UNCHANGED <<wkTmr, wkNow>>

\* SynchronizeWalletTx after a new key or template: whatever it answers, the key stays.
WkSync(t, pc) == wkThr[t].pc = pc /\ WkEnd(t) /\ WkRead

RPCUnlockKey(t) ==
    \/ At(t, "unlock", 1) /\ WkCheck(t, WkCmd(t).pass # "" /\ Have(WkCmd(t).key) /\ ~KeyStatus(WkCmd(t).key))
    \/ /\ At(t, "unlock", 2)
       /\ \E c \in {WkCmd(t)} :
             IF wk.mem[c.key].key.open \/ ~CanUnlock(wk.mem[c.key].key, c.pass)
             THEN WkEnd(t) /\ WkRead
             ELSE /\ wk' = WalletUnlock(c.key, c.pass, c.timeout)
                  /\ wkTmr' = IF c.timeout > 0 THEN SetTimer(wkTmr, c.key, c.timeout) ELSE wkTmr
                  /\ wkUntil' = [wkUntil EXCEPT ![c.key] = IF c.timeout > 0 THEN wkNow + c.timeout ELSE 0]
                  /\ WkEnd(t)
                  /\ UNCHANGED <<wkNow, wkLeft>>

\* Lock cancels the timer the key waits for.
RPCLockKey(t) ==
    \/ At(t, "lock", 1) /\ WkCheck(t, Have(WkCmd(t).key) /\ KeyStatus(WkCmd(t).key))
    \/ /\ At(t, "lock", 2)
       /\ \E k \in {WkCmd(t).key} :
             /\ wk' = WalletLock(k)
             /\ wkTmr' = CancelTimer(wkTmr, wk.mem[k].timer)
             /\ wkUntil' = [wkUntil EXCEPT ![k] = 0]
       /\ WkEnd(t)
       /\ UNCHANGED <<wkNow, wkLeft>>

\* Slip: the key in memory is encrypted before the write that may fail.
RPCEncryptKeyEarly(t) ==
    \/ At(t, "encrypt", 1) /\ WkCheck(t, WkCmd(t).pass # "" /\ WkCmd(t).old # "" /\ Have(WkCmd(t).key))
    \/ /\ At(t, "encrypt", 2)
       /\ \E c \in {WkCmd(t)} :
             IF ~CanEncrypt(wk.mem[c.key].key, c.old) THEN WkEnd(t) /\ WkRead
             ELSE /\ WkWrite(t, Encrypt(c.key, c.pass), [Encrypt(c.key, c.pass) EXCEPT !.disk = wk.disk], 0)
                  /\ wkUntil' = [wkUntil EXCEPT ![c.key] = 0]

RPCEncryptKey(t) ==
    \/ At(t, "encrypt", 1) /\ WkCheck(t, WkCmd(t).pass # "" /\ WkCmd(t).old # "" /\ Have(WkCmd(t).key))
    \/ /\ At(t, "encrypt", 2)
       /\ \E c \in {WkCmd(t)} :
             IF ~CanEncrypt(wk.mem[c.key].key, c.old) THEN WkEnd(t) /\ WkRead
             ELSE /\ WkWrite(t, Encrypt(c.key, c.pass), wk, 0)
                  /\ wkUntil' = IF wk' = wk THEN wkUntil ELSE [wkUntil EXCEPT ![c.key] = 0]

\* MakeNewKey: a key nobody has, encrypted before it is added.
RPCGetNewKey(t) ==
    \/ At(t, "new", 1) /\ WkCheck(t, WkCmd(t).pass # "")
    \/ /\ At(t, "new", 2)
       /\ \E k \in WkKeys \ (DOMAIN wk.mem \cup DOMAIN wk.disk) :
             WkWrite(t, AddKey(k, LockKey(EncryptKey(RenewKey, WkCmd(t).pass))), wk, 0)
       /\ UNCHANGED wkUntil

\* Two imports of one key may both have found it missing: the second insertion fails.
WkAddStep(t, k, key, next) ==
    IF Have(k) THEN WkEnd(t) /\ WkRead
    ELSE WkWrite(t, AddKey(k, key), wk, next) /\ UNCHANGED wkUntil

RPCImportPrivKey(t) ==
    \/ At(t, "importpriv", 1) /\ WkCheck(t, WkCmd(t).pass # "" /\ ~Have(WkCmd(t).key))
    \/ At(t, "importpriv", 2) /\ WkAddStep(t, WkCmd(t).key, EncryptKey(RenewKey, WkCmd(t).pass), 3)
    \/ At(t, "importpriv", 3) /\ WkSync(t, 3)

\* The serialized key keeps its cipher; one without a passphrase is refused.
RPCImportKey(t) ==
    \/ At(t, "import", 1) /\ WkCheck(t, WkCmd(t).pass # "" /\ ~Have(WkCmd(t).key))
    \/ At(t, "import", 2) /\ WkAddStep(t, WkCmd(t).key, LoadedKey(WkCmd(t).pass, 1), 3)
    \/ At(t, "import", 3) /\ WkSync(t, 3)

RPCExportKey(t) ==
    \/ At(t, "export", 1) /\ WkCheck(t, Have(WkCmd(t).key))
    \/ At(t, "export", 2) /\ WkEnd(t) /\ WkRead

RPCSignMessage(t) ==
    \/ At(t, "sign", 1) /\ WkCheck(t, Have(WkCmd(t).key) /\ KeyStatus(WkCmd(t).key))
    \/ At(t, "sign", 2) /\ WkEnd(t) /\ WkRead

\* The keys first, then the status of each.
RPCListKey(t) ==
    \/ /\ At(t, "listkey", 1)
       /\ wkThr' = [wkThr EXCEPT ![t].pc = 2, ![t].todo = SetToSeq(DOMAIN wk.mem)]
       /\ WkRead
    \/ /\ At(t, "listkey", 2)
       /\ IF wkThr[t].todo = <<>> THEN WkEnd(t) ELSE wkThr' = [wkThr EXCEPT ![t].todo = Tail(@)]
       /\ WkRead

WkAddTemplateStep(t, pc) ==
    IF HaveTemplate(WkCmd(t).tid) THEN WkEnd(t) /\ WkRead
    ELSE /\ WkWrite(t, AddTemplate(WkCmd(t).tid, TRUE), AddTemplate(WkCmd(t).tid, FALSE), pc)
         /\ UNCHANGED wkUntil

RPCAddNewTemplate(t) ==
    \/ At(t, "newtemplate", 1) /\ WkAddTemplateStep(t, 2)
    \/ At(t, "newtemplate", 2) /\ WkSync(t, 2)

RPCImportTemplate(t) ==
    \/ At(t, "importtemplate", 1) /\ WkCheck(t, ~HaveTemplate(WkCmd(t).tid))
    \/ At(t, "importtemplate", 2) /\ WkAddTemplateStep(t, 3)
    \/ At(t, "importtemplate", 3) /\ WkSync(t, 3)

RPCExportTemplate(t) == At(t, "exporttemplate", 1) /\ WkEnd(t) /\ WkRead
RPCValidateAddress(t) == At(t, "validate", 1) /\ WkEnd(t) /\ WkRead

\* ListDestination: the keys, then the templates, in two calls.
ListDestination(t, cmd) ==
    \/ /\ At(t, cmd, 1)
       /\ wkThr' = [wkThr EXCEPT ![t].pc = 2, ![t].todo = SetToSeq(DOMAIN wk.mem)]
       /\ WkRead
    \/ /\ At(t, cmd, 2)
       /\ wkThr' = [wkThr EXCEPT ![t].pc = 3, ![t].todo = @ \o SetToSeq(wk.tpl)]
       /\ WkRead

\* The template of each address is looked up and used without asking whether there is one.
RPCListAddress(t) ==
    \/ ListDestination(t, "listaddress")
    \/ /\ At(t, "listaddress", 3)
       /\ IF wkThr[t].todo = <<>> THEN WkEnd(t) ELSE wkThr' = [wkThr EXCEPT ![t].todo = Tail(@)]
       /\ WkRead

\* Each address of the list is exported; the file is written at the end, in one go.
WkExported(d) == IF d \in WkKeys THEN [addr |-> d, hex |-> SaveKey(wk.mem[d].key)] ELSE [addr |-> d, hex |-> {}]
RPCExportWallet(t) ==
    \/ ListDestination(t, "exportwallet")
    \/ /\ At(t, "exportwallet", 3)
       /\ IF wkThr[t].todo # <<>>
          THEN /\ wkThr' = [wkThr EXCEPT ![t].todo = Tail(@), ![t].seen = @ \cup {WkExported(Head(wkThr[t].todo))}]
               /\ UNCHANGED wk
          ELSE WkEnd(t) /\ wk' = [wk EXCEPT !.file = wkThr[t].seen]
       /\ UNCHANGED <<wkTmr, wkNow, wkUntil, wkLeft>>

\* The addresses of the file one by one; those the wallet has are passed over, a key without a
\* passphrase or a failed write ends the import.
RPCImportWallet(t) ==
    \/ /\ At(t, "importwallet", 1)
       /\ wkThr' = [wkThr EXCEPT ![t].pc = 2, ![t].todo = SetToSeq(wk.file)]
       /\ WkRead
    \/ /\ At(t, "importwallet", 2)
       /\ IF wkThr[t].todo = <<>> THEN WkEnd(t) /\ WkRead
          ELSE \E e \in {Head(wkThr[t].todo)} :
             IF e.addr \in WkKeys /\ ~Have(e.addr) /\ e.hex.version = 0 THEN WkEnd(t) /\ WkRead
             ELSE /\ IF Have(e.addr) \/ HaveTemplate(e.addr)
                     THEN wkThr' = [wkThr EXCEPT ![t].todo = Tail(@)]
                     ELSE wkThr' = [wkThr EXCEPT ![t].pc = 3]
                  /\ WkRead
    \/ /\ At(t, "importwallet", 3)
       /\ \E e \in {Head(wkThr[t].todo)} :
             IF Have(e.addr) \/ HaveTemplate(e.addr) THEN WkEnd(t) /\ WkRead
             ELSE /\ IF e.addr \in WkKeys
                     THEN WkWrite(t, AddKey(e.addr, LoadedKey(e.hex.pass, e.hex.version)), wk, 4)
                     ELSE WkWrite(t, AddTemplate(e.addr, TRUE), AddTemplate(e.addr, FALSE), 4)
                  /\ UNCHANGED wkUntil
    \/ /\ At(t, "importwallet", 4)
       /\ wkThr' = [wkThr EXCEPT ![t].pc = 2, ![t].todo = Tail(@)]
       /\ WkRead

-----------------------------------------------------------------------------
\* The node stops, at once or in order, and starts again: commands and timers are gone.
WkRestart ==
    /\ wkLeft.restarts > 0
    /\ wkLeft' = [wkLeft EXCEPT !.restarts = @ - 1]
    /\ wk' = WkLoadDB
    /\ wkTmr' = NoTimers
    /\ wkThr' = [t \in WkThreads |-> [cmds |-> IF wkThr[t].pc = 1 \/ wkThr[t].cmds = <<>> THEN wkThr[t].cmds
                                               ELSE Tail(wkThr[t].cmds),
                                      pc |-> 1, todo |-> <<>>, seen |-> {}]]
    /\ wkUntil' = [k \in WkKeys |-> 0]
    /\ UNCHANGED wkNow

WkTick == /\ wkNow < WkMaxTime /\ wkNow' = wkNow + 1
          /\ UNCHANGED <<wk, wkTmr, wkThr, wkUntil, wkLeft>>

WkNew(has, file) ==
    [mem |-> [k \in has |-> NewKeyStore(LoadedKey("a", 1))], tpl |-> {},
     disk |-> [k \in has |-> [pass |-> "a", version |-> 1]], dtpl |-> {}, file |-> file]
WkStart(s) ==
    /\ wk = WkNew(s.has, s.file)
    /\ wkTmr = NoTimers
    /\ wkThr = [t \in WkThreads |-> [cmds |-> s.cmds[t], pc |-> 1, todo |-> <<>>, seen |-> {}]]
    /\ wkNow = 1
    /\ wkUntil = [k \in WkKeys |-> 0]
    /\ wkLeft = [fails |-> s.fails, restarts |-> s.restarts]
WkInit == \E s \in WkScripts : WkStart(s)

WkStep ==
    \/ \E t \in WkThreads :
          \/ RPCUnlockKey(t) \/ RPCLockKey(t) \/ RPCEncryptKey(t) \/ RPCGetNewKey(t) \/ RPCImportPrivKey(t)
          \/ RPCImportKey(t) \/ RPCExportKey(t) \/ RPCSignMessage(t) \/ RPCListKey(t)
          \/ RPCAddNewTemplate(t) \/ RPCImportTemplate(t) \/ RPCExportTemplate(t)
          \/ RPCValidateAddress(t) \/ RPCListAddress(t) \/ RPCExportWallet(t) \/ RPCImportWallet(t)
    \/ TimerCollects \/ TimerTakes \/ TimerCalls
    \/ WkTick
    \/ WkRestart

WkSpec == WkInit /\ [][WkStep]_wkVars

-----------------------------------------------------------------------------
\* What memory and disk hold is the same keys in the same ciphers, whatever writes failed and however
\* commands interleaved: a restart finds every key and it opens with the passphrase last set.  Every
\* template on disk is in memory, and a listed template can be looked up (RPCListAddress does not ask).
WkKeysKept ==
    /\ DOMAIN wk.mem = DOMAIN wk.disk
    /\ \A k \in DOMAIN wk.mem : SaveKey(wk.mem[k].key) = wk.disk[k] /\ wk.disk[k].version = 1
    /\ wk.dtpl \subseteq wk.tpl
    /\ \A t \in WkThreads : \A i \in 1..Len(wkThr[t].todo) :
          At(t, "listaddress", 3) /\ wkThr[t].todo[i] \in WkTemplates => wkThr[t].todo[i] \in wk.tpl

\* A key unlocked for some seconds stays open for that long, unless it is locked or encrypted, and does not
\* stay open longer than the timer thread needs: its own timer is set, queued or being called.
WkUnlockLasts ==
    \A k \in DOMAIN wk.mem :
       /\ wkUntil[k] > wkNow => wk.mem[k].key.open
       /\ (wkUntil[k] # 0 /\ wk.mem[k].key.open) =>
             \/ wk.mem[k].timer \in DOMAIN wkTmr.byId
                   /\ (\/ \E e \in wkTmr.byExpiry : e.id = wk.mem[k].timer
                       \/ \E i \in 1..Len(wkTmr.work) : wkTmr.work[i].id = wk.mem[k].timer)
             \/ wkTmr.call = <<wk.mem[k].timer, k>>


\* A wallet loses no key or template and keeps its word on how long a key is open, through failing
\* writes, restarts, timers and commands of several threads.
WkWalletKept == WkKeysKept /\ WkUnlockLasts
=============================================================================
