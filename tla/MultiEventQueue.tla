-------------------------- MODULE MultiEventQueue ---------------------------
(***************************************************************************)
(* CWalleveMultiEventQueue and the threads of CWalleveMultiEventProc            *)
(* (walleve/event/multieventproc.cpp), which handle the events of the network    *)
(* channel.  The events of a nonce form a list: mapWrite holds its last node,     *)
(* AddNew links a new node to it, and a thread that has handled a node follows     *)
(* the link.  Writer and thread meet at the flag of the last node, which each      *)
(* exchanges once: the one that comes second sees what the other did.            *)
(*                                                                           *)
(* One step is one atomic access or one critical section.  Events are numbered    *)
(* in the order in which their nodes were made, which is the order of nTime.       *)
(* nReadSize is not initialised by the constructor: its first value,             *)
(* sizeAtStart, is any.                                                        *)
(***************************************************************************)
EXTENDS Integers, Sequences, FiniteSets

CONSTANTS
    MaxEvents,      \* bound on the events posted
    Nonces,         \* peers
    Senders,        \* Senders[e]: the peers that event e may come from
    Writers,        \* threads that post events
    Threads,        \* threads that handle events
    SizesAtStart,   \* what nReadSize may be before it is first changed
    NULL

Events == 1 .. MaxEvents

ASSUME EventsAssumption == /\ MaxEvents \in Nat
                           /\ NULL \notin Events /\ NULL \notin Nonces
                           /\ Senders \in [Events -> SUBSET Nonces]

VARIABLES
    flag, next, nonce,      \* CEventNode: nFlag, spNext, spEvent->nNonce (NULL: not made)
    mapWrite,               \* the last node of each nonce
    mapRead,                \* nodes ready to be handled
    nTime,                  \* the time of the last node fetched
    fAbort,
    sizeAtStart,
    writer,                 \* writer[w]: one AddNew
    thread,                 \* thread[t]: EventThreadFunc
    halt,                   \* Interrupt: "no", "write", "read", "done"
    posted, begun,          \* the events of each nonce, in order
    refused                 \* nonces for which a handler returned false

node == <<flag, next, nonce>>
queue == <<mapWrite, mapRead, nTime>>
eqVars == <<node, queue, fAbort, sizeAtStart, writer, thread, halt, posted, begun, refused>>

IdleWriter == [pc |-> "idle", ev |-> NULL, prev |-> NULL]

EqInit ==
    /\ flag = [e \in Events |-> "LAST"]
    /\ next = [e \in Events |-> NULL]
    /\ nonce = [e \in Events |-> NULL]
    /\ mapWrite = [n \in Nonces |-> NULL]
    /\ mapRead = {}
    /\ nTime = 0
    /\ fAbort = FALSE
    /\ sizeAtStart \in SizesAtStart
    /\ writer = [w \in Writers |-> IdleWriter]
    /\ thread = [t \in Threads |-> [pc |-> "read", prev |-> NULL]]
    /\ halt = "no"
    /\ posted = [n \in Nonces |-> <<>>]
    /\ begun = [n \in Nonces |-> <<>>]
    /\ refused = {}

nReadSize == sizeAtStart + Cardinality(mapRead)

\* A thread holds mtxRead from its check of fAbort and mapRead to its wait.
MtxReadFree == \A t \in Threads : thread[t].pc # "towait"

SetWriter(w, pc, e, p) == writer' = [writer EXCEPT ![w] = [pc |-> pc, ev |-> e, prev |-> p]]
SetThread(t, pc, p) == thread' = [thread EXCEPT ![t] = [pc |-> pc, prev |-> p]]

-----------------------------------------------------------------------------
(* AddNew.                                                                    *)

WriterFrame == UNCHANGED <<nTime, fAbort, sizeAtStart, halt, begun, refused>>

\* The constructor of CEventNode takes the time.
NewNode(w, e, n) ==
    /\ writer[w].pc = "idle"
    /\ nonce[e] = NULL
    /\ \A d \in 1 .. e - 1 : nonce[d] # NULL
    /\ nonce' = [nonce EXCEPT ![e] = n]
    /\ SetWriter(w, "add", e, NULL)
    /\ WriterFrame
    /\ UNCHANGED <<flag, next, mapWrite, mapRead, thread, posted>>

\* The critical section on mtxWrite.
AddToWrite(w) ==
    LET e == writer[w].ev
        n == nonce[e] IN
    /\ writer[w].pc = "add"
    /\ \/ /\ fAbort
          /\ SetWriter(w, "idle", NULL, NULL)
          /\ UNCHANGED <<mapWrite, posted>>
       \/ /\ ~fAbort
          /\ mapWrite' = [mapWrite EXCEPT ![n] = e]
          /\ SetWriter(w, IF mapWrite[n] = NULL THEN "notify" ELSE "flag", e, mapWrite[n])
          /\ posted' = [posted EXCEPT ![n] = Append(@, e)]
    /\ WriterFrame
    /\ UNCHANGED <<node, mapRead, thread>>

\* Slip: a writer that links its node whatever the flag was.
ExchangeFlagAlwaysLink(w) ==
    LET p == writer[w].prev IN
    /\ writer[w].pc = "flag"
    /\ flag' = [flag EXCEPT ![p] = "MIDDLE"]
    /\ SetWriter(w, "link", writer[w].ev, p)
    /\ WriterFrame
    /\ UNCHANGED <<next, nonce, mapWrite, mapRead, thread, posted>>

\* spPrevNode->nFlag.exchange(MIDDLE).
ExchangeFlag(w) ==
    LET p == writer[w].prev IN
    /\ writer[w].pc = "flag"
    /\ flag' = [flag EXCEPT ![p] = "MIDDLE"]
    /\ SetWriter(w, IF flag[p] = "INVALID" THEN "notify" ELSE "link", writer[w].ev, p)
    /\ WriterFrame
    /\ UNCHANGED <<next, nonce, mapWrite, mapRead, thread, posted>>

\* The store to spPrevNode->spNext.
LinkNode(w) ==
    /\ writer[w].pc = "link"
    /\ next' = [next EXCEPT ![writer[w].prev] = writer[w].ev]
    /\ SetWriter(w, "idle", NULL, NULL)
    /\ WriterFrame
    /\ UNCHANGED <<flag, nonce, mapWrite, mapRead, thread, posted>>

\* notify_one: a waiting thread, if there is one, gets up.
NotifyOne(th) ==
    LET asleep == {t \in Threads : th[t].pc = "wait"} IN
    IF asleep = {} THEN {th} ELSE {[th EXCEPT ![t].pc = "read"] : t \in asleep}

\* NotifyRead, called by a writer.
NotifyRead(w) ==
    /\ writer[w].pc = "notify"
    /\ MtxReadFree
    /\ \/ fAbort /\ UNCHANGED <<mapRead, thread>>
       \/ ~fAbort /\ mapRead' = mapRead \cup {writer[w].ev} /\ thread' \in NotifyOne(thread)
    /\ SetWriter(w, "idle", NULL, NULL)
    /\ WriterFrame
    /\ UNCHANGED <<node, mapWrite, posted>>

-----------------------------------------------------------------------------
(* Fetch and EventThreadFunc.                                                 *)

ThreadFrame == UNCHANGED <<next, nonce, fAbort, sizeAtStart, writer, halt, posted>>

Begin(e) == begun' = [begun EXCEPT ![nonce[e]] = Append(@, e)]

\* spPrevNode->nFlag.exchange(INVALID); a node already INVALID is an error.
FetchPrev(t) ==
    LET p == thread[t].prev IN
    /\ thread[t].pc = "fetch"
    /\ flag' = [flag EXCEPT ![p] = "INVALID"]
    /\ SetThread(t, CASE flag[p] = "LAST" -> "erase"
                      [] flag[p] = "MIDDLE" -> "spin"
                      [] flag[p] = "INVALID" -> "error", p)
    /\ ThreadFrame
    /\ UNCHANGED <<queue, begun, refused>>

\* Slip: a nonce whose last node is dropped without looking whether it is still last.
ErasePrevUnchecked(t) ==
    /\ thread[t].pc = "erase"
    /\ mapWrite' = [mapWrite EXCEPT ![nonce[thread[t].prev]] = NULL]
    /\ SetThread(t, "read", NULL)
    /\ ThreadFrame
    /\ UNCHANGED <<flag, mapRead, nTime, begun, refused>>

\* The critical section on mtxWrite: the nonce is removed if the node is still its last.
ErasePrev(t) ==
    LET n == nonce[thread[t].prev] IN
    /\ thread[t].pc = "erase"
    /\ mapWrite' = [mapWrite EXCEPT ![n] = IF @ = thread[t].prev THEN NULL ELSE @]
    /\ SetThread(t, "read", NULL)
    /\ ThreadFrame
    /\ UNCHANGED <<flag, mapRead, nTime, begun, refused>>

\* The wait for spNext, then ContinueExecute.
FollowLink(t) ==
    LET e == next[thread[t].prev] IN
    /\ thread[t].pc = "spin"
    /\ e # NULL
    /\ IF ~fAbort /\ (e <= nTime \/ nReadSize = 0)
       THEN SetThread(t, "handle", e) /\ Begin(e)
       ELSE SetThread(t, "requeue", e) /\ UNCHANGED begun
    /\ ThreadFrame
    /\ UNCHANGED <<flag, queue, refused>>

\* NotifyRead, called by the thread itself.
Requeue(t) ==
    /\ thread[t].pc = "requeue"
    /\ MtxReadFree
    /\ \/ fAbort /\ SetThread(t, "read", NULL) /\ UNCHANGED mapRead
       \/ /\ ~fAbort
          /\ mapRead' = mapRead \cup {thread[t].prev}
          /\ thread' \in NotifyOne([thread EXCEPT ![t] = [pc |-> "read", prev |-> NULL]])
    /\ ThreadFrame
    /\ UNCHANGED <<flag, mapWrite, nTime, begun, refused>>

\* Under mtxRead: the oldest node that is ready, or nothing yet, or the end.
ReadNode(t) ==
    /\ thread[t].pc = "read"
    /\ MtxReadFree
    /\ \/ /\ fAbort
          /\ SetThread(t, "exit", NULL)
          /\ UNCHANGED <<mapRead, nTime, begun>>
       \/ /\ ~fAbort /\ mapRead = {}
          /\ SetThread(t, "towait", NULL)
          /\ UNCHANGED <<mapRead, nTime, begun>>
       \/ /\ ~fAbort
          /\ \E e \in mapRead :
                /\ \A d \in mapRead : e <= d
                /\ mapRead' = mapRead \ {e}
                /\ nTime' = e
                /\ SetThread(t, "handle", e)
                /\ Begin(e)
    /\ ThreadFrame
    /\ UNCHANGED <<flag, mapWrite, refused>>

\* condRead.wait releases mtxRead.
Wait(t) ==
    /\ thread[t].pc = "towait"
    /\ SetThread(t, "wait", NULL)
    /\ ThreadFrame
    /\ UNCHANGED <<flag, queue, begun, refused>>

\* Handle returns true, or false when the handler threw an exception: then the
\* thread forgets the node, and nothing will follow the node's link.
Handle(t) ==
    LET e == thread[t].prev IN
    /\ thread[t].pc = "handle"
    /\ \/ SetThread(t, "fetch", e) /\ UNCHANGED refused
       \/ SetThread(t, "read", NULL) /\ refused' = refused \cup {nonce[e]}
    /\ ThreadFrame
    /\ UNCHANGED <<flag, queue, begun>>

-----------------------------------------------------------------------------
(* Interrupt, called when the module halts.                                   *)

HaltFrame == UNCHANGED <<node, nTime, sizeAtStart, writer, posted, begun, refused>>

HaltAbort ==
    /\ halt = "no"
    /\ fAbort' = TRUE
    /\ halt' = "write"
    /\ HaltFrame
    /\ UNCHANGED <<mapWrite, mapRead, thread>>

HaltWrite ==
    /\ halt = "write"
    /\ mapWrite' = [n \in Nonces |-> NULL]
    /\ halt' = "read"
    /\ HaltFrame
    /\ UNCHANGED <<mapRead, fAbort, thread>>

\* notify_all: every waiting thread gets up.
NotifyAll == thread' = [t \in Threads |-> IF thread[t].pc = "wait"
                                          THEN [thread[t] EXCEPT !.pc = "read"]
                                          ELSE thread[t]]

HaltRead ==
    /\ halt = "read"
    /\ MtxReadFree
    /\ mapRead' = {}
    /\ NotifyAll
    /\ halt' = "done"
    /\ HaltFrame
    /\ UNCHANGED <<mapWrite, fAbort>>

-----------------------------------------------------------------------------
WriterStep(w) == AddToWrite(w) \/ ExchangeFlag(w) \/ LinkNode(w) \/ NotifyRead(w)
ThreadStep(t) == \/ FetchPrev(t) \/ ErasePrev(t) \/ FollowLink(t) \/ Requeue(t)
                 \/ ReadNode(t) \/ Wait(t) \/ Handle(t)
HaltStep == HaltWrite \/ HaltRead

EqNext == \/ \E w \in Writers : (\E e \in Events : \E n \in Senders[e] : NewNode(w, e, n)) \/ WriterStep(w)
        \/ \E t \in Threads : ThreadStep(t)
        \/ HaltAbort \/ HaltStep

EqSpec == EqInit /\ [][EqNext]_eqVars

\* Every thread that can run does: the scheduler is fair.
EqFairness == /\ \A w \in Writers : WF_eqVars(WriterStep(w))
              /\ \A t \in Threads : WF_eqVars(ThreadStep(t))
              /\ WF_eqVars(HaltStep)
EqFairSpec == EqSpec /\ EqFairness

-----------------------------------------------------------------------------
\* The nodes, mapWrite and mapRead, and the threads inside AddNew and Fetch keep
\* their types.
EqTypeOK ==
    /\ flag \in [Events -> {"LAST", "MIDDLE", "INVALID"}]
    /\ next \in [Events -> Events \cup {NULL}]
    /\ nonce \in [Events -> Nonces \cup {NULL}] /\ nTime \in Nat
    /\ mapWrite \in [Nonces -> Events \cup {NULL}]
    /\ mapRead \subseteq Events
    /\ fAbort \in BOOLEAN
    /\ writer \in [Writers -> [pc : {"idle", "add", "flag", "link", "notify"},
                               ev : Events \cup {NULL}, prev : Events \cup {NULL}]]
    /\ thread \in [Threads -> [pc : {"fetch", "erase", "spin", "requeue", "read", "towait",
                                     "wait", "handle", "exit"},
                               prev : Events \cup {NULL}]]
    /\ halt \in {"no", "write", "read", "done"}
    /\ refused \subseteq Nonces

\* Two threads never handle events of one peer at the same time, although no
\* lock is held while an event is handled.
OneAtATime ==
    \A t, u \in Threads :
        t # u /\ thread[t].pc = "handle" /\ thread[u].pc = "handle"
            => nonce[thread[t].prev] # nonce[thread[u].prev]

\* The event of nonce n that a thread is handling.
Handled(n) ==
    LET busy == {t \in Threads : thread[t].pc = "handle" /\ nonce[thread[t].prev] = n}
    IN  IF busy = {} THEN NULL ELSE thread[CHOOSE t \in busy : TRUE].prev

\* Those entered in mapWrite that no thread has begun.
Waiting(n) == SubSeq(posted[n], Len(begun[n]) + 1, Len(posted[n]))

Order == INSTANCE EventOrder WITH queue <- [n \in Nonces |-> Waiting(n)],
                                  running <- [n \in Nonces |-> Handled(n)]

\* The events of a peer are handled in the order in which AddNew entered them in
\* mapWrite, each at most once, and one at a time.
ImplementsEventOrder == Order!Spec

\* No event is forgotten in the meeting of AddNew and Fetch: again and again the events posted have
\* been begun up to the last one, but for peers a handler of which failed.  They are finitely many,
\* so each of them is handled.  And WalleveHandleHalt, which joins the threads, returns: after
\* Interrupt each thread comes to its end, also one that was about to wait when fAbort was set.
QueueLives ==
    []<>(IF fAbort THEN \A t \in Threads : thread[t].pc = "exit"
         ELSE \A n \in Nonces : n \in refused \/ Waiting(n) = <<>>)
=============================================================================
