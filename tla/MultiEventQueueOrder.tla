----------------------- MODULE MultiEventQueueOrder -------------------------
(***************************************************************************)
(* The queue implements EventOrder: the events of a nonce are handled in the     *)
(* order they were posted in, each once.                                       *)
(***************************************************************************)
EXTENDS MultiEventQueueProofs

-----------------------------------------------------------------------------
(* The refinement of EventOrder.                                               *)

Handles(t, n) == thread[t].pc = "handle" /\ nonce[thread[t].prev] = n

\* The event that is handled is the one of the only thread that handles one of the nonce.
HandledInv ==
    \A n \in Nonces :
        /\ (\A t \in Threads : ~Handles(t, n)) => Handled(n) = NULL
        /\ \A t \in Threads : Handles(t, n) => Handled(n) = thread[t].prev

\* ... and so in every state that can be reached.
LEMMA HandledIs == IInv => HandledInv
<1> SUFFICES ASSUME IInv, NEW n \in Nonces
             PROVE  /\ (\A t \in Threads : ~Handles(t, n)) => Handled(n) = NULL
                    /\ \A t \in Threads : Handles(t, n) => Handled(n) = thread[t].prev
  BY DEF HandledInv
<1> DEFINE busy == {t \in Threads : thread[t].pc = "handle" /\ nonce[thread[t].prev] = n}
<1>1. Handled(n) = IF busy = {} THEN NULL ELSE thread[CHOOSE t \in busy : TRUE].prev
  BY DEF Handled
<1>2. \A t \in Threads : Handles(t, n) <=> t \in busy
  BY DEF Handles
<1>3. \A t, u \in busy : t = u
  BY DEF IInv, OneToken, ThreadHas
<1>4. busy # {} => (CHOOSE t \in busy : TRUE) \in busy
  OBVIOUS
<1>5. busy \subseteq Threads
  OBVIOUS
<1> HIDE DEF busy
<1> QED
  BY <1>1, <1>2, <1>3, <1>4, <1>5

\* The same after a step.
LEMMA HandledIsNext == IInv' => HandledInv'
BY HandledIs, PTL

\* What an event posted, and one begun, does to those that wait.
LEMMA WaitingAppend ==
    ASSUME NEW s \in Seq(Events), NEW e \in Events, NEW k \in 0 .. Len(s)
    PROVE  SubSeq(Append(s, e), k + 1, Len(Append(s, e))) = Append(SubSeq(s, k + 1, Len(s)), e)
<1> DEFINE r == Append(s, e)
           x == SubSeq(r, k + 1, Len(r))
           z == SubSeq(s, k + 1, Len(s))
<1>1. /\ r \in Seq(Events) /\ Len(r) = Len(s) + 1 /\ r[Len(s) + 1] = e
      /\ \A i \in 1 .. Len(s) : r[i] = s[i]
  BY AppendProperties
<1>2. /\ \A i \in k + 1 .. Len(r) : r[i] \in Events
      /\ \A i \in k + 1 .. Len(s) : s[i] \in Events
  BY <1>1
<1> HIDE DEF r
<1>3. /\ x \in Seq(Events) /\ Len(x) = Len(r) - k
      /\ \A i \in 1 .. Len(r) - k : x[i] = r[k + i]
  BY <1>1, <1>2, SubSeqProperties
<1>4. /\ z \in Seq(Events) /\ Len(z) = Len(s) - k
      /\ \A i \in 1 .. Len(s) - k : z[i] = s[k + i]
  BY <1>1, <1>2, SubSeqProperties
<1> HIDE DEF x, z
<1>5. /\ Append(z, e) \in Seq(Events) /\ Len(Append(z, e)) = Len(z) + 1
      /\ Append(z, e)[Len(z) + 1] = e
      /\ \A i \in 1 .. Len(z) : Append(z, e)[i] = z[i]
  BY <1>4, AppendProperties
<1>6. Len(x) = Len(Append(z, e)) /\ \A i \in 1 .. Len(x) : x[i] = Append(z, e)[i]
  <2>1. Len(x) = Len(z) + 1 /\ Len(Append(z, e)) = Len(z) + 1 /\ Len(z) \in Nat /\ Len(s) \in Nat
    BY <1>1, <1>3, <1>4, <1>5
  <2>2. ASSUME NEW i \in 1 .. Len(z) PROVE x[i] = Append(z, e)[i]
    <3>1. i \in 1 .. Len(r) - k /\ i \in 1 .. Len(s) - k /\ k + i \in 1 .. Len(s)
      BY <1>1, <1>4, <2>1
    <3> QED
      BY <1>1, <1>3, <1>4, <1>5, <3>1
  <2>3. x[Len(z) + 1] = e
    <3>1. Len(z) + 1 \in 1 .. Len(r) - k /\ k + (Len(z) + 1) = Len(s) + 1
      BY <1>1, <1>4, <2>1
    <3> QED
      BY <1>1, <1>3, <3>1
  <2>4. \A i \in 1 .. Len(x) : i \in 1 .. Len(z) \/ i = Len(z) + 1
    BY <2>1
  <2> QED
    BY <1>5, <2>1, <2>2, <2>3, <2>4
<1>7. x = Append(z, e)
  BY <1>3, <1>5, <1>6, SeqEqual, Zenon
<1> QED
  BY <1>7, Zenon DEF x, z, r

\* The next event is the head of those that wait.
LEMMA WaitingHead ==
    ASSUME NEW s \in Seq(Events), NEW k \in 0 .. Len(s) - 1
    PROVE  /\ SubSeq(s, k + 1, Len(s)) # <<>>
           /\ Head(SubSeq(s, k + 1, Len(s))) = s[k + 1]
           /\ Tail(SubSeq(s, k + 1, Len(s))) = SubSeq(s, (k + 1) + 1, Len(s))
<1> DEFINE m == k + 1
           n == Len(s)
<1>1. m \in 1 .. n /\ n \in m .. n /\ m \in Int /\ n \in Int /\ n = Len(s)
  OBVIOUS
<1>2. \A i \in m .. n : s[i] \in Events
  OBVIOUS
<1> HIDE DEF m, n
<1>3. Len(SubSeq(s, m, n)) = n - m + 1
  BY <1>1, <1>2, SubSeqProperties
<1>4. SubSeq(s, m, n) # <<>>
  <2>1. Len(SubSeq(s, m, n)) # 0
    BY <1>1, <1>3
  <2>2. Len(<<>>) = 0
    OBVIOUS
  <2> QED
    BY <2>1, <2>2, Zenon
<1>5. Head(SubSeq(s, m, n)) = s[m] /\ Tail(SubSeq(s, m, n)) = SubSeq(s, m + 1, n)
  BY <1>1, HeadTailOfSubSeq
<1> QED
  BY <1>4, <1>5 DEF m, n

\* A step that posts, begins and ends nothing is none of EventOrder.
LEMMA OrderStutters ==
    ASSUME IInv, IInv', UNCHANGED <<posted, begun>>,
           \A n \in Nonces, t \in Threads :
               /\ Handles(t, n)' <=> Handles(t, n)
               /\ Handles(t, n) => thread'[t].prev = thread[t].prev
    PROVE  /\ [n \in Nonces |-> Waiting(n)]' = [n \in Nonces |-> Waiting(n)]
           /\ [n \in Nonces |-> Handled(n)]' = [n \in Nonces |-> Handled(n)]
<1>1. \A n \in Nonces : Waiting(n)' = Waiting(n)
  BY DEF Waiting
<1>2. HandledInv /\ HandledInv'
  BY HandledIs, HandledIsNext
<1>3. \A n \in Nonces : Handled(n)' = Handled(n)
  BY <1>2 DEF HandledInv
<1> QED
  BY <1>1, <1>3

\* The mapping: what EventOrder sees of the queue.
Queued == [n \in Nonces |-> Waiting(n)]
Running == [n \in Nonces |-> Handled(n)]
SeesNothing == UNCHANGED <<Queued, Running>>

\* No thread starts or ends to handle an event.
SameThreads ==
    \A t \in Threads : \/ thread'[t] = thread[t]
                       \/ thread[t].pc # "handle" /\ thread'[t].pc # "handle"

\* Then EventOrder sees no step.
LEMMA SameThreadsStutter ==
    ASSUME IInv, IInv', UNCHANGED <<posted, begun, nonce>>, SameThreads
    PROVE  SeesNothing
<1>1. \A n \in Nonces, t \in Threads :
               /\ Handles(t, n)' <=> Handles(t, n)
               /\ Handles(t, n) => thread'[t].prev = thread[t].prev
  BY DEF SameThreads, Handles
<1> QED
  BY <1>1, OrderStutters DEF SeesNothing, Queued, Running

\* Most steps are none of EventOrder.
LEMMA WriterSeesNothing ==
    ASSUME IInv, IInv', NEW w \in Writers,
           \/ AddToWrite(w) /\ fAbort
           \/ ExchangeFlag(w) \/ LinkNode(w) \/ NotifyRead(w)
    PROVE  SeesNothing
<1>1. EqTypeOK
  BY DEF IInv
<1>2. UNCHANGED <<posted, begun, nonce>>
  BY Zenon DEF AddToWrite, ExchangeFlag, LinkNode, NotifyRead, WriterFrame, node
<1>3. SameThreads
  <2>1. CASE thread' = thread
    BY <2>1 DEF SameThreads
  <2>2. CASE thread' \in NotifyOne(thread)
    <3>1. thread \in [Threads -> ThreadStates]
      BY <1>1 DEF EqTypeOK, ThreadStates
    <3>2. \A t \in Threads : \/ thread'[t] = thread[t]
                             \/ thread[t].pc = "wait" /\ thread'[t].pc = "read"
      BY <2>2, <3>1, WakeOne
    <3> QED
      BY <3>2 DEF SameThreads
  <2> QED
    BY <2>1, <2>2, Zenon DEF AddToWrite, ExchangeFlag, LinkNode, NotifyRead
<1> QED
  BY <1>2, <1>3, SameThreadsStutter

\* A node that is made is not yet posted.
LEMMA NewNodeSeesNothing ==
    ASSUME IInv, IInv', NEW w \in Writers, NEW e \in Events, NEW n \in Nonces, NewNode(w, e, n)
    PROVE  SeesNothing
<1>1. EqTypeOK /\ ThreadInv /\ n # NULL /\ NULL \notin Nonces
  BY EventsAssumption DEF IInv
<1>2. /\ nonce[e] = NULL
      /\ \A d \in Events : d # e => nonce'[d] = nonce[d]
      /\ UNCHANGED <<thread, posted, begun>>
  BY <1>1 DEF NewNode, WriterFrame, EqTypeOK
<1>3. \A t \in Threads : thread[t].pc = "handle" => thread[t].prev \in Events /\ thread[t].prev # e
  BY <1>1, <1>2, Zenon DEF ThreadInv, IsCurrent
<1>4. \A m \in Nonces, t \in Threads :
               /\ Handles(t, m)' <=> Handles(t, m)
               /\ Handles(t, m) => thread'[t].prev = thread[t].prev
  BY <1>2, <1>3 DEF Handles
<1> QED
  BY <1>2, <1>4, OrderStutters DEF SeesNothing, Queued, Running

\* Nor are the steps of a thread between two events.
LEMMA ThreadSeesNothing ==
    ASSUME IInv, IInv', NEW t \in Threads,
           \/ FetchPrev(t) \/ ErasePrev(t) \/ Requeue(t) \/ Wait(t)
           \/ (FollowLink(t) \/ ReadNode(t)) /\ begun' = begun
    PROVE  SeesNothing
<1>1. EqTypeOK /\ EqTypeOK' /\ PostedInv
  BY DEF IInv
<1>2. UNCHANGED <<posted, begun, nonce>>
  BY Zenon DEF FetchPrev, ErasePrev, Requeue, Wait, FollowLink, ReadNode, ThreadFrame
<1>3. thread[t].pc # "handle"
  BY DEF FetchPrev, ErasePrev, Requeue, Wait, FollowLink, ReadNode
<1>4. ASSUME NEW pc, NEW p, SetThread(t, pc, p), pc # "handle" PROVE SameThreads
  BY <1>1, <1>3, <1>4 DEF SetThread, SameThreads, EqTypeOK
<1>5. ASSUME NEW e, Begin(e), SetThread(t, "handle", e), IsNext(e) PROVE FALSE
  <2>1. nonce[e] \in Nonces /\ begun[nonce[e]] \in Seq(Events)
    BY <1>1, <1>5, Zenon DEF PostedInv, IsNext
  <2>2. begun'[nonce[e]] = Append(begun[nonce[e]], e)
    BY <1>1, <1>5, <2>1 DEF Begin, PostedInv
  <2>3. Len(begun'[nonce[e]]) = Len(begun[nonce[e]]) + 1
    BY <2>1, <2>2
  <2> QED
    BY <1>2, <2>1, <2>3
<1>6. SameThreads
  <2>1. CASE FetchPrev(t)
    <3>1. thread'[t].pc # "handle" /\ \A u \in Threads : u # t => thread'[u] = thread[u]
      <4>1. flag[thread[t].prev] \in {"LAST", "MIDDLE", "INVALID"}
        BY <1>1, <2>1, Zenon DEF IInv, ThreadInv, EqTypeOK, FetchPrev
      <4> QED
        BY <1>1, <2>1, <4>1 DEF FetchPrev, SetThread, EqTypeOK
    <3> QED
      BY <1>3, <3>1, Zenon DEF SameThreads
  <2>2. CASE ErasePrev(t)
    BY <1>4, <2>2 DEF ErasePrev
  <2>3. CASE Wait(t)
    BY <1>4, <2>3 DEF Wait
  <2>4. CASE Requeue(t)
    <3> DEFINE th == [thread EXCEPT ![t] = [pc |-> "read", prev |-> NULL]]
    <3>1. /\ th \in [Threads -> ThreadStates]
          /\ th[t].pc = "read"
          /\ \A u \in Threads : u # t => th[u] = thread[u]
      BY <1>1 DEF EqTypeOK, ThreadStates
    <3>2. CASE SetThread(t, "read", NULL)
      BY <1>4, <3>2
    <3>3. CASE thread' \in NotifyOne(th)
      <4> HIDE DEF th
      <4>1. \A u \in Threads : \/ thread'[u] = th[u]
                               \/ th[u].pc = "wait" /\ thread'[u].pc = "read"
        BY <3>1, <3>3, WakeOne, Zenon
      <4> QED
        BY <1>3, <3>1, <4>1 DEF SameThreads
    <3> QED
      BY <2>4, <3>2, <3>3, Zenon DEF Requeue
  <2>5. CASE FollowLink(t)
    <3>1. IsNext(next[thread[t].prev])
      BY <2>5, LinkFacts, Zenon DEF FollowLink
    <3> QED
      BY <1>4, <1>5, <2>5, <3>1, Zenon DEF FollowLink
  <2>6. CASE ReadNode(t)
    <3>1. \A e \in mapRead : IsNext(e)
      BY DEF IInv, ReadInv
    <3> QED
      BY <1>4, <1>5, <2>6, <3>1 DEF ReadNode
  <2> QED
    BY <2>1, <2>2, <2>3, <2>4, <2>5, <2>6, Zenon
<1> QED
  BY <1>2, <1>6, SameThreadsStutter

\* AddNew, where it enters its node in mapWrite, is Post.
LEMMA AddToWritePosts ==
    ASSUME IInv, IInv', NEW w \in Writers, AddToWrite(w), ~fAbort
    PROVE  \E n \in Nonces, e \in Events : Order!Post(n, e)
<1>1. EqTypeOK /\ PostedInv /\ WriterInv
  BY DEF IInv
<1>2. PICK e \in Events, n \in Nonces : e = writer[w].ev /\ n = nonce[e]
  BY <1>1, Zenon DEF AddToWrite, WriterInv
<1>3. /\ posted' = [posted EXCEPT ![n] = Append(@, e)]
      /\ UNCHANGED <<nonce, thread, begun>>
  BY <1>2, Zenon DEF AddToWrite, WriterFrame, node
<1>4. Running' = Running
  <2>1. HandledInv /\ HandledInv'
    BY HandledIs, HandledIsNext
  <2>2. \A m \in Nonces, t \in Threads : Handles(t, m)' <=> Handles(t, m)
    BY <1>3 DEF Handles
  <2>3. \A m \in Nonces : Handled(m)' = Handled(m)
    BY <1>3, <2>1, <2>2 DEF HandledInv
  <2> QED
    BY <2>3 DEF Running
<1>5. \A m \in Nonces : m # n => Waiting(m)' = Waiting(m)
  BY <1>1, <1>3 DEF Waiting, PostedInv
<1>6. Waiting(n)' = Append(Waiting(n), e)
  <2>1. posted[n] \in Seq(Events) /\ Len(begun[n]) \in 0 .. Len(posted[n])
    BY <1>1 DEF PostedInv
  <2>2. posted'[n] = Append(posted[n], e) /\ begun'[n] = begun[n]
    BY <1>1, <1>3 DEF PostedInv
  <2> QED
    BY <2>1, <2>2, WaitingAppend, Zenon DEF Waiting
<1>7. Queued' = [Queued EXCEPT ![n] = Append(@, e)]
  BY <1>5, <1>6, Zenon DEF Queued
<1>8. Order!Post(n, e)
  BY <1>4, <1>7 DEF Order!Post, Queued, Running
<1> QED
  BY <1>8

\* A thread that begins the next event of a nonce that nobody handles: Begin.
LEMMA BeginBegins ==
    ASSUME IInv, IInv', UNCHANGED <<posted, nonce>>,
           NEW t \in Threads, NEW e \in Events, NEW n \in Nonces, n = nonce[e], IsNext(e),
           SetThread(t, "handle", e), Begin(e), thread[t].pc # "handle",
           \A u \in Threads : ~Handles(u, n)
    PROVE  Order!Begin(n)
<1>1. EqTypeOK /\ PostedInv
  BY DEF IInv
<1>2. /\ thread'[t].pc = "handle" /\ thread'[t].prev = e
      /\ \A u \in Threads : u # t => thread'[u] = thread[u]
  BY <1>1, Zenon DEF SetThread, EqTypeOK
<1>3. HandledInv /\ HandledInv'
  BY HandledIs, HandledIsNext, Zenon
<1>4. Handled(n) = NULL /\ Handled(n)' = e
  <2>1. Handles(t, n)'
    BY <1>2 DEF Handles
  <2> QED
    BY <1>2, <1>3, <2>1, Zenon DEF HandledInv
<1>5. \A m \in Nonces : m # n => Handled(m)' = Handled(m)
  <2>1. \A m \in Nonces, u \in Threads : m # n =>
            /\ Handles(u, m)' <=> Handles(u, m)
            /\ Handles(u, m) => thread'[u].prev = thread[u].prev
    BY <1>2 DEF Handles
  <2> QED
    BY <1>3, <2>1 DEF HandledInv
<1>6. /\ posted[n] \in Seq(Events) /\ begun[n] \in Seq(Events)
      /\ Len(begun[n]) \in 0 .. Len(posted[n]) - 1
      /\ posted[n][Len(begun[n]) + 1] = e
  BY <1>1 DEF PostedInv, IsNext
<1>7. begun'[n] = Append(begun[n], e) /\ \A m \in Nonces : m # n => begun'[m] = begun[m]
  BY <1>1, Zenon DEF Begin, PostedInv
<1>8. Len(begun'[n]) = Len(begun[n]) + 1
  BY <1>6, <1>7
<1>9. Waiting(n) # <<>> /\ Head(Waiting(n)) = e /\ Tail(Waiting(n)) = Waiting(n)'
  <2>1. Waiting(n)' = SubSeq(posted[n], (Len(begun[n]) + 1) + 1, Len(posted[n]))
    BY <1>8 DEF Waiting
  <2> QED
    BY <1>6, <2>1, WaitingHead, Zenon DEF Waiting
<1>10. \A m \in Nonces : m # n => Waiting(m)' = Waiting(m)
  BY <1>7, Zenon DEF Waiting
<1>11. Queued' = [Queued EXCEPT ![n] = Tail(@)] /\ Queued[n] # <<>> /\ Head(Queued[n]) = e
  BY <1>9, <1>10, Zenon DEF Queued
<1>12. Running' = [Running EXCEPT ![n] = e] /\ Running[n] = NULL
  BY <1>4, <1>5 DEF Running
<1> QED
  BY <1>11, <1>12, Zenon DEF Order!Begin, Queued, Running

\* A handler that returns, or throws: End.
LEMMA HandleEnds ==
    ASSUME IInv, IInv', NEW t \in Threads, Handle(t)
    PROVE  \E n \in Nonces : Order!End(n)
<1>1. EqTypeOK /\ ThreadInv /\ OneToken
  BY DEF IInv
<1>2. PICK e \in Events, n \in Nonces : e = thread[t].prev /\ n = nonce[e] /\ e # NULL
  BY <1>1, EventsAssumption, Zenon DEF Handle, ThreadInv, IsCurrent
<1>3. /\ thread[t].pc = "handle" /\ thread'[t].pc # "handle"
      /\ \A u \in Threads : u # t => thread'[u] = thread[u]
      /\ UNCHANGED <<nonce, posted, begun>>
  BY <1>1 DEF Handle, SetThread, ThreadFrame, EqTypeOK
<1>4. HandledInv /\ HandledInv'
  BY HandledIs, HandledIsNext, Zenon
<1>5. Handles(t, n) /\ \A u \in Threads : Handles(u, n) => u = t
  BY <1>1, <1>2, <1>3, Zenon DEF Handles, OneToken, ThreadHas
<1>6. /\ \A u \in Threads : ~Handles(u, n)'
      /\ \A m \in Nonces, u \in Threads : m # n =>
            /\ Handles(u, m)' <=> Handles(u, m)
            /\ Handles(u, m) => thread'[u].prev = thread[u].prev
  BY <1>2, <1>3, <1>5, Zenon DEF Handles
<1>7. Handled(n) # NULL /\ Handled(n)' = NULL
  BY <1>2, <1>4, <1>5, <1>6, Zenon DEF HandledInv
<1>8. \A m \in Nonces : m # n => Handled(m)' = Handled(m)
  BY <1>4, <1>6 DEF HandledInv
<1>9. Queued' = Queued
  BY <1>3 DEF Queued, Waiting
<1>10. Running[n] # NULL /\ Running' = [Running EXCEPT ![n] = NULL]
  BY <1>7, <1>8, Zenon DEF Running
<1> QED
  BY <1>9, <1>10, Zenon DEF Order!End, Queued, Running

\* Every step is one of EventOrder or none.
LEMMA OrderStep ==
    ASSUME IInv, IInv', [EqNext]_eqVars
    PROVE  Order!Next \/ SeesNothing
<1>1. ASSUME NEW w \in Writers, NEW e \in Events, NEW n \in Senders[e], NewNode(w, e, n)
      PROVE  SeesNothing
  <2>1. n \in Nonces
    BY EventsAssumption
  <2> QED
    BY <1>1, <2>1, NewNodeSeesNothing, Zenon
<1>2. ASSUME NEW w \in Writers, WriterStep(w) PROVE Order!Next \/ SeesNothing
  <2>1. CASE AddToWrite(w) /\ ~fAbort
    BY <2>1, AddToWritePosts DEF Order!Next
  <2>2. CASE \/ AddToWrite(w) /\ fAbort
             \/ ExchangeFlag(w) \/ LinkNode(w) \/ NotifyRead(w)
    BY <2>2, WriterSeesNothing
  <2> QED
    BY <1>2, <2>1, <2>2 DEF WriterStep
<1>3. ASSUME NEW t \in Threads, ThreadStep(t) PROVE Order!Next \/ SeesNothing
  <2>1. CASE Handle(t)
    BY <2>1, HandleEnds DEF Order!Next
  <2>2. CASE \/ FetchPrev(t) \/ ErasePrev(t) \/ Requeue(t) \/ Wait(t)
             \/ (FollowLink(t) \/ ReadNode(t)) /\ begun' = begun
    BY <2>2, ThreadSeesNothing
  <2>3. CASE FollowLink(t) /\ begun' # begun
    <3>1. thread[t].pc = "spin" /\ next[thread[t].prev] # NULL
      BY <2>3, Zenon DEF FollowLink
    <3>2. PICK e \in Events, n \in Nonces :
              /\ e = next[thread[t].prev] /\ n = nonce[e] /\ IsNext(e)
              /\ \A u \in Threads : u # t => ~ThreadHas(u, n)
      BY <3>1, LinkFacts
    <3>3. SetThread(t, "handle", e) /\ Begin(e) /\ UNCHANGED <<posted, nonce>>
      BY <2>3, <3>2, Zenon DEF FollowLink, ThreadFrame
    <3>4. \A u \in Threads : ~Handles(u, n)
      BY <3>1, <3>2 DEF Handles, ThreadHas
    <3> QED
      BY <3>1, <3>2, <3>3, <3>4, BeginBegins, Zenon DEF Order!Next
  <2>4. CASE ReadNode(t) /\ begun' # begun
    <3>1. thread[t].pc = "read" /\ UNCHANGED <<posted, nonce>>
      BY <2>4, Zenon DEF ReadNode, ThreadFrame
    <3>2. PICK e \in mapRead : SetThread(t, "handle", e) /\ Begin(e)
      BY <2>4, Zenon DEF ReadNode
    <3>3. PICK n \in Nonces :
              /\ n = nonce[e] /\ e \in Events /\ IsNext(e)
              /\ \A u \in Threads : ~ThreadHas(u, n)
      BY <3>1, ReadFacts
    <3>4. \A u \in Threads : ~Handles(u, n)
      BY <3>3 DEF Handles, ThreadHas
    <3> QED
      BY <3>1, <3>2, <3>3, <3>4, BeginBegins, Zenon DEF Order!Next
  <2> QED
    BY <1>3, <2>1, <2>2, <2>3, <2>4, Zenon DEF ThreadStep
<1>4. CASE HaltAbort \/ HaltStep
  <2>1. EqTypeOK
    BY DEF IInv
  <2>2. UNCHANGED <<posted, begun, nonce>>
    BY <1>4 DEF HaltAbort, HaltStep, HaltWrite, HaltRead, HaltFrame, node
  <2>3. \A t \in Threads : \/ thread'[t] = thread[t]
                           \/ thread[t].pc = "wait" /\ thread'[t].pc = "read"
    <3>1. CASE thread' = thread
      BY <3>1
    <3>2. CASE NotifyAll
      <4>1. \A t \in Threads : thread[t] \in ThreadStates
        BY <2>1 DEF EqTypeOK, ThreadStates
      <4>2. \A t \in Threads : [thread[t] EXCEPT !.pc = "read"].pc = "read"
        BY <4>1 DEF ThreadStates
      <4> QED
        BY <3>2, <4>2, Zenon DEF NotifyAll
    <3> QED
      BY <1>4, <3>1, <3>2, Zenon DEF HaltAbort, HaltStep, HaltWrite, HaltRead
  <2>4. SameThreads
    BY <2>3 DEF SameThreads
  <2> QED
    BY <2>2, <2>4, SameThreadsStutter, Zenon
<1>5. CASE UNCHANGED eqVars
  <2>1. UNCHANGED <<posted, begun, nonce, thread>>
    BY <1>5 DEF eqVars, node
  <2> QED
    BY <2>1, SameThreadsStutter DEF SameThreads
<1> QED
  BY <1>1, <1>2, <1>3, <1>4, <1>5, Zenon DEF EqNext

\* The events of a peer are handled in the order in which AddNew entered them in mapWrite, each at
\* most once, and one at a time, whatever the writers, the threads and Interrupt do.
THEOREM HandledInOrder == EqSpec => ImplementsEventOrder
<1>1. EqInit => Order!Init
  <2>1. SUFFICES ASSUME EqInit PROVE Order!Init
    OBVIOUS
  <2>2. \A n \in Nonces : Waiting(n) = <<>>
    BY <2>1, SubSeqEmpty DEF EqInit, Waiting
  <2>3. HandledInv
    BY <2>1, InitIInv, HandledIs, Zenon
  <2>4. \A n \in Nonces : Handled(n) = NULL
    BY <2>1, <2>3 DEF EqInit, HandledInv, Handles
  <2> QED
    BY <2>2, <2>4 DEF Order!Init
<1>2. IInv /\ IInv' /\ [EqNext]_eqVars => [Order!Next]_<<Queued, Running>>
  BY OrderStep DEF SeesNothing
<1>3. EqSpec => Order!Init /\ [][Order!Next]_<<Queued, Running>>
  BY <1>1, <1>2, Invariance, PTL DEF EqSpec
<1> QED
  BY <1>3, PTL DEF ImplementsEventOrder, Order!Spec, Queued, Running
=============================================================================
