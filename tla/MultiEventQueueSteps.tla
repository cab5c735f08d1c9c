----------------------- MODULE MultiEventQueueSteps -------------------------
(***************************************************************************)
(* Events of one nonce are handled in order and one at a time, for every      *)
(* number of events, peers, writers and threads.                              *)
(*                                                                           *)
(* The idea is a token of each nonce: the right to begin its next event.  A    *)
(* thread has it from the moment it begins an event until it finds no          *)
(* successor; it lies with an event in mapRead, and with a writer that is       *)
(* about to notify.  The meeting of writer and thread at the flag of the last   *)
(* node hands it over: while a writer is at a flag that is INVALID, or the       *)
(* last node is, or there is no last node, nobody has the token (Quiet) and      *)
(* every event posted has been begun, but for that writer's.                     *)
(***************************************************************************)
EXTENDS MultiEventQueue, SequenceTheorems, TLAPS

\* e is the event of its nonce begun last.
IsCurrent(e) ==
    /\ nonce[e] \in Nonces
    /\ 1 <= Len(begun[nonce[e]])
    /\ posted[nonce[e]][Len(begun[nonce[e]])] = e

\* e is the event of its nonce to be begun next.
IsNext(e) ==
    /\ nonce[e] \in Nonces
    /\ Len(begun[nonce[e]]) < Len(posted[nonce[e]])
    /\ posted[nonce[e]][Len(begun[nonce[e]]) + 1] = e

\* e was posted and begun.
IsBegun(e) ==
    /\ nonce[e] \in Nonces
    /\ \E i \in 1 .. Len(begun[nonce[e]]) : posted[nonce[e]][i] = e

\* p was posted and another event after it.
HasSucc(p) ==
    /\ nonce[p] \in Nonces
    /\ \E i \in 1 .. Len(posted[nonce[p]]) - 1 : posted[nonce[p]][i] = p

\* e was posted right after p.
Succ(p, e) ==
    /\ nonce[p] \in Nonces
    /\ nonce[e] = nonce[p]
    /\ \E i \in 1 .. Len(posted[nonce[p]]) - 1 :
           posted[nonce[p]][i] = p /\ posted[nonce[p]][i + 1] = e

\* Who has the token of nonce n: a thread, an event in mapRead, a writer.
ThreadHas(t, n) == thread[t].pc \in {"handle", "fetch", "spin", "requeue"} /\ nonce[thread[t].prev] = n
EventHas(e, n) == e \in mapRead /\ nonce[e] = n
WriterHas(w, n) == writer[w].pc = "notify" /\ nonce[writer[w].ev] = n

\* Nobody does.
Quiet(n) ==
    /\ \A t \in Threads : ~ThreadHas(t, n)
    /\ \A e \in Events : ~EventHas(e, n)
    /\ \A w \in Writers : ~WriterHas(w, n)

\* At most one of them does.  (Two events in mapRead would both be the next one.)
OneToken ==
    \A n \in Nonces :
        /\ \A t, u \in Threads : ThreadHas(t, n) /\ ThreadHas(u, n) => t = u
        /\ \A w, v \in Writers : WriterHas(w, n) /\ WriterHas(v, n) => w = v
        /\ \A t \in Threads, e \in Events : ~(ThreadHas(t, n) /\ EventHas(e, n))
        /\ \A t \in Threads, w \in Writers : ~(ThreadHas(t, n) /\ WriterHas(w, n))
        /\ \A e \in Events, w \in Writers : ~(EventHas(e, n) /\ WriterHas(w, n))

\* The events of a nonce are different and of that nonce, and mapWrite has the last one.
PostedInv ==
    /\ posted \in [Nonces -> Seq(Events)] /\ begun \in [Nonces -> Seq(Events)]
    /\ \A n \in Nonces :
        /\ Len(begun[n]) <= Len(posted[n])
        /\ \A i \in 1 .. Len(posted[n]) : nonce[posted[n][i]] = n
        /\ \A i, j \in 1 .. Len(posted[n]) : posted[n][i] = posted[n][j] => i = j
        /\ mapWrite[n] # NULL => /\ Len(posted[n]) >= 1
                                 /\ posted[n][Len(posted[n])] = mapWrite[n]

\* What flag and link of a node tell.
NodeInv ==
    \A e \in Events :
        /\ flag[e] = "INVALID" => IsBegun(e)
        /\ flag[e] = "MIDDLE" => HasSucc(e)
        /\ next[e] # NULL => Succ(e, next[e])

WriterInv ==
    /\ \A w \in Writers :
        LET e == writer[w].ev
            p == writer[w].prev
        IN  /\ writer[w].pc # "idle" => e \in Events /\ nonce[e] \in Nonces
            /\ writer[w].pc = "add" => \A i \in 1 .. Len(posted[nonce[e]]) : posted[nonce[e]][i] # e
            /\ writer[w].pc \in {"flag", "link"} => p \in Events /\ Succ(p, e)
            /\ writer[w].pc = "flag" => flag[p] # "MIDDLE"
            /\ writer[w].pc = "flag" /\ flag[p] = "INVALID" => Quiet(nonce[e]) /\ IsNext(e)
            /\ writer[w].pc = "notify" => IsNext(e)
    /\ \A w, v \in Writers :
        writer[w].pc # "idle" /\ writer[v].pc # "idle" /\ writer[w].ev = writer[v].ev => w = v

ThreadInv ==
    \A t \in Threads :
        LET p == thread[t].prev
        IN  /\ thread[t].pc \in {"handle", "fetch", "spin"} => p \in Events /\ IsCurrent(p)
            /\ thread[t].pc \in {"handle", "fetch"} => flag[p] # "INVALID"
            /\ thread[t].pc = "requeue" => p \in Events /\ IsNext(p)
            /\ thread[t].pc = "erase" => p \in Events /\ nonce[p] \in Nonces /\ flag[p] # "LAST"

ReadInv == \A e \in mapRead : IsNext(e)

\* Where the token lies with nobody.
QuietInv ==
    \A n \in Nonces :
        \/ mapWrite[n] = NULL /\ ~fAbort
        \/ mapWrite[n] # NULL /\ flag[mapWrite[n]] = "INVALID"
        => Quiet(n) /\ Len(begun[n]) = Len(posted[n])

HaltInv == halt = "no" <=> ~fAbort

IInv ==
    /\ EqTypeOK
    /\ PostedInv
    /\ NodeInv
    /\ WriterInv
    /\ ThreadInv
    /\ ReadInv
    /\ OneToken
    /\ QuietInv
    /\ HaltInv

-----------------------------------------------------------------------------
\* Steps that post and begin nothing leave the order of the events alone.
LEMMA OrderSame ==
    ASSUME UNCHANGED <<posted, begun, nonce>>
    PROVE  /\ \A e : /\ IsCurrent(e)' <=> IsCurrent(e)
                     /\ IsNext(e)' <=> IsNext(e)
                     /\ IsBegun(e)' <=> IsBegun(e)
                     /\ HasSucc(e)' <=> HasSucc(e)
           /\ \A p, e : Succ(p, e)' <=> Succ(p, e)
BY DEF IsCurrent, IsNext, IsBegun, HasSucc, Succ

\* What the order of the events of a nonce tells of its event begun last, of its next one, and
\* of its last one.
LEMMA OrderFacts ==
    ASSUME PostedInv
    PROVE  /\ \A p, e : IsCurrent(p) /\ Succ(p, e) => IsNext(e)
           /\ \A p, e : IsCurrent(p) /\ IsNext(e) /\ nonce[p] = nonce[e] => Succ(p, e)
           /\ \A d, e : IsNext(d) /\ IsNext(e) /\ nonce[d] = nonce[e] => d = e
           /\ \A e : IsNext(e) => ~IsBegun(e)
           /\ \A p : IsCurrent(p) => IsBegun(p)
           /\ \A p, d, e : Succ(p, d) /\ Succ(p, e) => d = e
           /\ \A p, e : Succ(p, e) => HasSucc(p) /\ nonce[e] = nonce[p] /\ nonce[p] \in Nonces
<1> USE DEF PostedInv
<1>1. \A n \in Nonces : Len(posted[n]) \in Nat /\ Len(begun[n]) \in Nat
  OBVIOUS
<1>2. ASSUME NEW p, NEW e, IsCurrent(p), Succ(p, e) PROVE IsNext(e)
  BY <1>1, <1>2 DEF IsCurrent, Succ, IsNext
<1>3. ASSUME NEW p, NEW e, IsCurrent(p), IsNext(e), nonce[p] = nonce[e] PROVE Succ(p, e)
  BY <1>1, <1>3 DEF IsCurrent, Succ, IsNext
<1>4. ASSUME NEW d, NEW e, IsNext(d), IsNext(e), nonce[d] = nonce[e] PROVE d = e
  BY <1>4 DEF IsNext
<1>5. ASSUME NEW e, IsNext(e) PROVE ~IsBegun(e)
  <2>1. SUFFICES ASSUME NEW i \in 1 .. Len(begun[nonce[e]]), posted[nonce[e]][i] = e PROVE FALSE
    BY DEF IsBegun
  <2> DEFINE n == nonce[e]
  <2>2. n \in Nonces /\ Len(begun[n]) + 1 \in 1 .. Len(posted[n]) /\ i \in 1 .. Len(posted[n])
    BY <1>1, <1>5 DEF IsNext
  <2>3. i = Len(begun[n]) + 1
    BY <1>5, <2>1, <2>2 DEF IsNext
  <2> QED
    BY <1>1, <2>2, <2>3
<1>6. ASSUME NEW p, IsCurrent(p) PROVE IsBegun(p)
  BY <1>1, <1>6 DEF IsCurrent, IsBegun
<1>7. ASSUME NEW p, NEW d, NEW e, Succ(p, d), Succ(p, e) PROVE d = e
  BY <1>1, <1>7 DEF Succ
<1>8. ASSUME NEW p, NEW e, Succ(p, e) PROVE HasSucc(p) /\ nonce[e] = nonce[p] /\ nonce[p] \in Nonces
  BY <1>1, <1>8 DEF Succ, HasSucc
<1> QED
  BY <1>2, <1>3, <1>4, <1>5, <1>6, <1>7, <1>8, Zenon

\* The node in mapWrite is the last one of its nonce.
LEMMA LastFacts ==
    ASSUME PostedInv, NEW n \in Nonces, mapWrite[n] # NULL
    PROVE  /\ nonce[mapWrite[n]] = n
           /\ ~HasSucc(mapWrite[n])
           /\ IsCurrent(mapWrite[n]) => Len(begun[n]) = Len(posted[n])
<1>1. Len(posted[n]) \in Nat /\ Len(begun[n]) \in Nat
  BY DEF PostedInv
<1> DEFINE e == mapWrite[n]
<1>2. /\ nonce[e] = n
      /\ Len(posted[n]) \in 1 .. Len(posted[n])
      /\ posted[n][Len(posted[n])] = e
  BY <1>1 DEF PostedInv
<1>3. \A i \in 1 .. Len(posted[n]) : posted[n][i] = e => i = Len(posted[n])
  BY <1>2 DEF PostedInv
<1>4. ~HasSucc(e)
  BY <1>1, <1>2, <1>3 DEF HasSucc
<1>5. IsCurrent(e) => Len(begun[n]) = Len(posted[n])
  BY <1>1, <1>2, <1>3 DEF IsCurrent, PostedInv
<1> QED
  BY <1>2, <1>4, <1>5

-----------------------------------------------------------------------------
\* Initially there are no events.
LEMMA InitIInv == EqInit => IInv
<1> SUFFICES ASSUME EqInit PROVE IInv
  OBVIOUS
<1> USE EventsAssumption DEF EqInit, IdleWriter
<1>1. EqTypeOK
  BY Zenon DEF EqTypeOK
<1>2. PostedInv
  BY DEF PostedInv
<1>3. NodeInv /\ WriterInv /\ ThreadInv /\ ReadInv
  BY DEF NodeInv, WriterInv, ThreadInv, ReadInv
<1>4. OneToken /\ QuietInv
  BY DEF OneToken, QuietInv, Quiet, ThreadHas, EventHas, WriterHas
<1>5. HaltInv
  BY DEF HaltInv
<1> QED
  BY <1>1, <1>2, <1>3, <1>4, <1>5, Zenon DEF IInv

\* A new node is of no concern to the others.
LEMMA KeepNewNode ==
    ASSUME IInv, NEW w \in Writers, NEW e \in Events, NEW n \in Nonces, NewNode(w, e, n)
    PROVE  IInv'
<1>1. EqTypeOK /\ PostedInv /\ n # NULL
  BY EventsAssumption DEF IInv
<1>2. /\ writer'[w] = [pc |-> "add", ev |-> e, prev |-> NULL]
      /\ \A v \in Writers : v # w => writer'[v] = writer[v]
      /\ nonce'[e] = n /\ nonce[e] = NULL
      /\ \A d \in Events : d # e => nonce'[d] = nonce[d]
      /\ writer[w].pc = "idle"
      /\ UNCHANGED <<flag, next, mapWrite, mapRead, nTime, fAbort, halt, thread, posted, begun, refused>>
  BY <1>1, Zenon DEF NewNode, SetWriter, WriterFrame, EqTypeOK
<1>3. EqTypeOK'
  BY <1>1 DEF EqTypeOK, NewNode, SetWriter, WriterFrame
<1>4. NULL \notin Nonces
  BY EventsAssumption, Zenon
<1>5. \A m \in Nonces : \A i \in 1 .. Len(posted[m]) : posted[m][i] \in Events /\ posted[m][i] # e
  BY <1>1, <1>2, <1>4 DEF PostedInv
<1>6. PostedInv'
  <2>1. ASSUME NEW m \in Nonces, NEW i \in 1 .. Len(posted[m]) PROVE nonce'[posted[m][i]] = m
    <3>1. nonce[posted[m][i]] = m
      BY <1>1, Zenon DEF PostedInv
    <3>2. posted[m][i] \in Events /\ posted[m][i] # e
      BY <1>5, Zenon
    <3> QED
      BY <1>2, <3>1, <3>2, Zenon
  <2>2. posted' = posted /\ begun' = begun /\ mapWrite' = mapWrite
    BY <1>2, Zenon
  <2> QED
    BY <1>1, <2>1, <2>2, Zenon DEF PostedInv
<1>7. /\ \A d \in Events : /\ IsCurrent(d) => IsCurrent(d)'
                           /\ IsNext(d) => IsNext(d)'
                           /\ IsBegun(d) => IsBegun(d)'
                           /\ HasSucc(d) => HasSucc(d)'
      /\ \A p, d \in Events : Succ(p, d) => Succ(p, d)'
  BY <1>2, <1>4, Zenon DEF IsCurrent, IsNext, IsBegun, HasSucc, Succ
<1>8. NodeInv'
  BY <1>1, <1>2, <1>7 DEF IInv, NodeInv, EqTypeOK
<1>9. \A m \in Nonces :
         /\ \A t \in Threads : ThreadHas(t, m)' <=> ThreadHas(t, m)
         /\ \A d \in Events : EventHas(d, m)' <=> EventHas(d, m)
         /\ \A v \in Writers : WriterHas(v, m)' <=> WriterHas(v, m)
  <2>1. \A t \in Threads : thread[t].pc \in {"handle", "fetch", "spin", "requeue"}
            => thread[t].prev \in Events /\ thread[t].prev # e
    BY <1>2, <1>4 DEF IInv, ThreadInv, IsCurrent, IsNext
  <2>2. \A d \in mapRead : d \in Events /\ d # e
    BY <1>1, <1>2, <1>4, ZenonT(40) DEF IInv, ReadInv, IsNext, EqTypeOK
  <2>3. \A v \in Writers : writer[v].pc = "notify" => writer[v].ev \in Events /\ writer[v].ev # e
    BY <1>2, <1>4 DEF IInv, WriterInv, IsNext
  <2>4. ASSUME NEW m \in Nonces, NEW t \in Threads PROVE ThreadHas(t, m)' <=> ThreadHas(t, m)
    BY <1>2, <2>1 DEF ThreadHas
  <2>5. ASSUME NEW m \in Nonces, NEW d \in Events PROVE EventHas(d, m)' <=> EventHas(d, m)
    BY <1>2, <2>2, Zenon DEF EventHas
  <2>6. ASSUME NEW m \in Nonces, NEW v \in Writers PROVE WriterHas(v, m)' <=> WriterHas(v, m)
    BY <1>2, <2>3 DEF WriterHas
  <2> QED
    BY <2>4, <2>5, <2>6, Zenon
<1>10. \A m \in Nonces : Quiet(m)' <=> Quiet(m)
  BY <1>9, Zenon DEF Quiet
<1>11. WriterInv'
  <2>1. \A v \in Writers : v # w /\ writer[v].pc # "idle" =>
            writer[v].ev \in Events /\ writer[v].ev # e /\ nonce'[writer[v].ev] = nonce[writer[v].ev]
    BY <1>2, <1>4 DEF IInv, WriterInv
  <2>2. \A i \in 1 .. Len(posted[n]) : posted[n][i] # e
    BY <1>5, Zenon
  <2> QED
    BY <1>2, <1>7, <1>10, <2>1, <2>2 DEF IInv, WriterInv
<1>12. ThreadInv'
  BY <1>2, <1>4, <1>7, Zenon DEF IInv, ThreadInv
<1>13. ReadInv'
  BY <1>1, <1>2, <1>7, Zenon DEF IInv, ReadInv, EqTypeOK
<1>14. OneToken'
  BY <1>9, Zenon DEF IInv, OneToken
<1>15. QuietInv' /\ HaltInv'
  BY <1>2, <1>10 DEF IInv, QuietInv, HaltInv
<1> QED
  BY <1>3, <1>6, <1>8, <1>11, <1>12, <1>13, <1>14, <1>15, Zenon DEF IInv

\* An event posted comes after those before it, and the order of those stays.
LEMMA PostKeepsOrder ==
    ASSUME PostedInv, NEW n \in Nonces, NEW e \in Events,
           posted' = [posted EXCEPT ![n] = Append(@, e)], UNCHANGED <<begun, nonce>>
    PROVE  /\ \A d : /\ IsCurrent(d) => IsCurrent(d)'
                     /\ IsNext(d) => IsNext(d)'
                     /\ IsBegun(d) => IsBegun(d)'
                     /\ HasSucc(d) => HasSucc(d)'
           /\ \A p, d : Succ(p, d) => Succ(p, d)'
           /\ \A m \in Nonces : /\ m # n => posted'[m] = posted[m]
                                /\ \A i \in 1 .. Len(posted[m]) : posted'[m][i] = posted[m][i]
           /\ Len(posted'[n]) = Len(posted[n]) + 1
           /\ posted'[n][Len(posted[n]) + 1] = e
           /\ posted' \in [Nonces -> Seq(Events)]
<1>1. \A m \in Nonces : /\ Len(posted[m]) \in Nat /\ Len(begun[m]) \in Nat
                        /\ Len(begun[m]) <= Len(posted[m])
                        /\ posted[m] \in Seq(Events)
  BY DEF PostedInv
<1>2. \A m \in Nonces : posted'[m] = IF m = n THEN Append(posted[n], e) ELSE posted[m]
  BY DEF PostedInv
<1>3. \A m \in Nonces : \A i \in 1 .. Len(posted[m]) : posted'[m][i] = posted[m][i]
  BY <1>1, <1>2
<1>4. Len(posted'[n]) = Len(posted[n]) + 1 /\ posted'[n][Len(posted[n]) + 1] = e
  <2>1. posted'[n] = Append(posted[n], e) /\ posted[n] \in Seq(Events)
    BY <1>1, <1>2, Zenon
  <2>2. Len(Append(posted[n], e)) = Len(posted[n]) + 1
    BY <2>1
  <2>3. Append(posted[n], e)[Len(posted[n]) + 1] = e
    BY <1>1, <2>1
  <2> QED
    BY <2>1, <2>2, <2>3
<1>5. \A m \in Nonces : Len(posted'[m]) \in Nat /\ Len(posted'[m]) >= Len(posted[m])
  BY <1>1, <1>2, <1>4
<1>6. \A d : IsCurrent(d) => IsCurrent(d)'
  BY <1>1, <1>3 DEF IsCurrent
<1>7. \A d : IsNext(d) => IsNext(d)'
  BY <1>1, <1>3, <1>5 DEF IsNext
<1>8. \A d : IsBegun(d) => IsBegun(d)'
  BY <1>1, <1>3, <1>5 DEF IsBegun
<1>9. \A d : HasSucc(d) => HasSucc(d)'
  BY <1>1, <1>3, <1>5 DEF HasSucc
<1>10. \A p, d : Succ(p, d) => Succ(p, d)'
  <2>1. SUFFICES ASSUME NEW p, NEW d, Succ(p, d) PROVE Succ(p, d)'
    OBVIOUS
  <2>2. PICK i \in 1 .. Len(posted[nonce[p]]) - 1 :
            posted[nonce[p]][i] = p /\ posted[nonce[p]][i + 1] = d
    BY <2>1, Zenon DEF Succ
  <2>3. /\ i \in 1 .. Len(posted'[nonce[p]]) - 1
        /\ i \in 1 .. Len(posted[nonce[p]]) /\ i + 1 \in 1 .. Len(posted[nonce[p]])
    BY <1>1, <1>5, <2>1, <2>2 DEF Succ
  <2> QED
    BY <1>3, <2>1, <2>2, <2>3, ZenonT(40) DEF Succ
<1>11. posted' \in [Nonces -> Seq(Events)]
  BY <1>1, <1>2 DEF PostedInv
<1> QED
  BY <1>2, <1>3, <1>4, <1>6, <1>7, <1>8, <1>9, <1>10, <1>11, Zenon

\* AddNew enters its node as the last one of its nonce.  Where there is none before it nobody has
\* the token, and the writer takes it.
LEMMA KeepAddToWrite ==
    ASSUME IInv, NEW w \in Writers, AddToWrite(w), ~fAbort
    PROVE  IInv'
<1>1. EqTypeOK /\ PostedInv /\ NodeInv /\ WriterInv /\ ThreadInv /\ ReadInv /\ OneToken /\ QuietInv
  BY DEF IInv
<1>0. PICK e \in Events, n \in Nonces, p \in Events \cup {NULL} :
          e = writer[w].ev /\ n = nonce[e] /\ p = mapWrite[n]
  BY <1>1, Zenon DEF AddToWrite, WriterInv, EqTypeOK
<1>2. NULL \notin Events /\ (p # NULL => p \in Events) /\ nonce[e] = n
  BY <1>0, EventsAssumption
<1>3. /\ writer'[w] = [pc |-> IF p = NULL THEN "notify" ELSE "flag", ev |-> e, prev |-> p]
      /\ \A v \in Writers : v # w => writer'[v] = writer[v]
      /\ posted' = [posted EXCEPT ![n] = Append(@, e)]
      /\ mapWrite'[n] = e
      /\ \A m \in Nonces : m # n => mapWrite'[m] = mapWrite[m]
      /\ writer[w].pc = "add"
      /\ UNCHANGED <<flag, next, nonce, mapRead, nTime, fAbort, halt, thread, begun, refused>>
  BY <1>0, <1>1, Zenon DEF AddToWrite, SetWriter, WriterFrame, node, EqTypeOK
<1>4. EqTypeOK'
  <2>1. mapWrite' = [mapWrite EXCEPT ![n] = e]
    BY <1>0, Zenon DEF AddToWrite
  <2>2. writer' = [writer EXCEPT ![w] = [pc |-> IF p = NULL THEN "notify" ELSE "flag", ev |-> e, prev |-> p]]
    BY <1>0, Zenon DEF AddToWrite, SetWriter
  <2> QED
    BY <1>1, <1>3, <2>1, <2>2, Zenon DEF EqTypeOK
<1>5. /\ \A d : /\ IsCurrent(d) => IsCurrent(d)'
                /\ IsNext(d) => IsNext(d)'
                /\ IsBegun(d) => IsBegun(d)'
                /\ HasSucc(d) => HasSucc(d)'
      /\ \A q, d : Succ(q, d) => Succ(q, d)'
      /\ \A m \in Nonces : /\ m # n => posted'[m] = posted[m]
                           /\ \A i \in 1 .. Len(posted[m]) : posted'[m][i] = posted[m][i]
      /\ Len(posted'[n]) = Len(posted[n]) + 1
      /\ posted'[n][Len(posted[n]) + 1] = e
      /\ posted' \in [Nonces -> Seq(Events)]
  BY <1>1, <1>2, <1>3, PostKeepsOrder, Zenon
<1>6. /\ \A i \in 1 .. Len(posted[n]) : posted[n][i] # e
      /\ \A m \in Nonces : Len(posted[m]) \in Nat /\ Len(begun[m]) \in Nat /\ Len(begun[m]) <= Len(posted[m])
  <2>1. \A i \in 1 .. Len(posted[n]) : posted[n][i] # e
    BY <1>0, <1>1, <1>3, Zenon DEF WriterInv
  <2>2. \A m \in Nonces : Len(posted[m]) \in Nat /\ Len(begun[m]) \in Nat /\ Len(begun[m]) <= Len(posted[m])
    BY <1>1 DEF PostedInv
  <2> QED
    BY <2>1, <2>2, Zenon
<1>7. ~IsBegun(e) /\ flag[e] # "INVALID"
  <2>1. \A i \in 1 .. Len(begun[n]) : i \in 1 .. Len(posted[n])
    BY <1>6
  <2> QED
    BY <1>1, <1>2, <1>6, <2>1, Zenon DEF IsBegun, NodeInv
<1>8. PostedInv'
  <2>1. ASSUME NEW m \in Nonces, m # n
        PROVE  /\ Len(begun'[m]) <= Len(posted'[m])
               /\ \A i \in 1 .. Len(posted'[m]) : nonce'[posted'[m][i]] = m
               /\ \A i, j \in 1 .. Len(posted'[m]) : posted'[m][i] = posted'[m][j] => i = j
               /\ mapWrite'[m] # NULL => Len(posted'[m]) >= 1 /\ posted'[m][Len(posted'[m])] = mapWrite'[m]
    <3>1. posted'[m] = posted[m] /\ mapWrite'[m] = mapWrite[m] /\ nonce' = nonce /\ begun' = begun
      BY <1>3, <1>5, <2>1, Zenon
    <3> QED
      BY <1>1, <3>1 DEF PostedInv
  <2>2. \A i \in 1 .. Len(posted'[n]) : i \in 1 .. Len(posted[n]) \/ i = Len(posted[n]) + 1
    BY <1>5, <1>6, <1>2
  <2>7. /\ \A i \in 1 .. Len(posted[n]) : posted'[n][i] = posted[n][i]
        /\ posted'[n][Len(posted[n]) + 1] = e
    BY <1>5, Zenon
  <2>3. \A i \in 1 .. Len(posted'[n]) : nonce'[posted'[n][i]] = n
    BY <1>1, <1>2, <1>3, <2>2, <2>7 DEF PostedInv
  <2>4. \A i, j \in 1 .. Len(posted'[n]) : posted'[n][i] = posted'[n][j] => i = j
    <3>1. \A i, j \in 1 .. Len(posted[n]) : posted[n][i] = posted[n][j] => i = j
      BY <1>1, Zenon DEF PostedInv
    <3>2. \A i \in 1 .. Len(posted[n]) : posted[n][i] # e
      BY <1>6, Zenon
    <3> QED
      BY <2>2, <2>7, <3>1, <3>2, Zenon
  <2>5. Len(begun'[n]) <= Len(posted'[n]) /\ Len(posted'[n]) >= 1
    BY <1>2, <1>3, <1>5, <1>6
  <2>6. begun' \in [Nonces -> Seq(Events)] /\ posted'[n][Len(posted'[n])] = mapWrite'[n]
    BY <1>1, <1>3, <1>5, Zenon DEF PostedInv
  <2> QED
    BY <1>5, <2>1, <2>3, <2>4, <2>5, <2>6, Zenon DEF PostedInv
<1>9. NodeInv' /\ ThreadInv' /\ ReadInv' /\ HaltInv'
  <2>1. NodeInv'
    BY <1>1, <1>3, <1>5, Zenon DEF NodeInv
  <2>2. ThreadInv'
    BY <1>1, <1>3, <1>5, Zenon DEF ThreadInv
  <2>3. ReadInv'
    BY <1>1, <1>3, <1>5, Zenon DEF ReadInv
  <2> QED
    BY <1>3, <2>1, <2>2, <2>3 DEF IInv, HaltInv
<1>10. \A m \in Nonces :
         /\ \A t \in Threads : ThreadHas(t, m)' <=> ThreadHas(t, m)
         /\ \A d \in Events : EventHas(d, m)' <=> EventHas(d, m)
         /\ \A v \in Writers : v # w => (WriterHas(v, m)' <=> WriterHas(v, m))
         /\ WriterHas(w, m)' <=> m = n /\ p = NULL
         /\ ~WriterHas(w, m)
  BY <1>2, <1>3 DEF ThreadHas, EventHas, WriterHas
<1>11. p = NULL => Quiet(n) /\ Len(begun[n]) = Len(posted[n])
  BY <1>0, <1>1, <1>2, Zenon DEF QuietInv
<1>12. OneToken'
  <2>1. OneToken
    BY <1>1, Zenon
  <2> QED
    BY <1>10, <1>11, <2>1 DEF OneToken, Quiet
<1>13. QuietInv'
  <2>1. \A m \in Nonces : m # n => (Quiet(m)' <=> Quiet(m))
    BY <1>10, Zenon DEF Quiet
  <2> QED
    <3>1. SUFFICES ASSUME NEW m \in Nonces,
                          \/ mapWrite'[m] = NULL /\ ~fAbort'
                          \/ mapWrite'[m] # NULL /\ flag'[mapWrite'[m]] = "INVALID"
                   PROVE  Quiet(m)' /\ Len(begun'[m]) = Len(posted'[m])
      BY Zenon DEF QuietInv
    <3>2. m # n
      BY <1>2, <1>3, <1>7, <3>1, Zenon
    <3>3. mapWrite'[m] = mapWrite[m] /\ posted'[m] = posted[m] /\ begun' = begun /\ flag' = flag /\ fAbort' = fAbort
      BY <1>3, <1>5, <3>2, Zenon
    <3>4. Quiet(m) /\ Len(begun[m]) = Len(posted[m])
      BY <1>1, <3>1, <3>3, Zenon DEF QuietInv
    <3> QED
      BY <2>1, <3>2, <3>3, <3>4, Zenon
<1>14. Len(begun[n]) = Len(posted[n]) => IsNext(e)'
  <2>1. nonce'[e] = n /\ begun' = begun /\ Len(posted[n]) \in Nat
    BY <1>2, <1>3, <1>6, Zenon
  <2>2. Len(posted'[n]) = Len(posted[n]) + 1 /\ posted'[n][Len(posted[n]) + 1] = e
    BY <1>5, Zenon
  <2> QED
    BY <2>1, <2>2 DEF IsNext
<1>15. WriterInv'
  <2>1. p # NULL => Succ(p, e)' /\ flag[p] # "MIDDLE"
    <3>1. p # NULL => nonce[p] = n /\ ~HasSucc(p) /\ Len(posted[n]) >= 1 /\ posted[n][Len(posted[n])] = p
      BY <1>0, <1>1, <1>2, LastFacts, Zenon DEF PostedInv
    <3>2. p # NULL => Succ(p, e)'
      <4>1. nonce'[p] = nonce[p] /\ nonce'[e] = n /\ Len(posted[n]) \in Nat
        BY <1>2, <1>3, <1>6, Zenon
      <4>2. p # NULL => /\ nonce'[p] = n /\ Len(posted[n]) \in 1 .. Len(posted'[n]) - 1
                        /\ posted'[n][Len(posted[n])] = p /\ posted'[n][Len(posted[n]) + 1] = e
        BY <1>5, <3>1, <4>1
      <4> QED
        BY <4>1, <4>2, Zenon DEF Succ
    <3> QED
      BY <1>1, <1>2, <3>1, <3>2, Zenon DEF NodeInv
  <2>2. p # NULL /\ flag[p] = "INVALID" => Quiet(n) /\ Len(begun[n]) = Len(posted[n])
    BY <1>0, <1>1, <1>2, Zenon DEF QuietInv
  <2>3. p # NULL => (Quiet(n) => Quiet(n)')
    BY <1>2, <1>10, Zenon DEF Quiet
  <2>4. \A v \in Writers : v # w /\ writer[v].pc # "idle" => writer[v].ev # e
    BY <1>0, <1>1, <1>3, Zenon DEF WriterInv
  <2>5. \A v \in Writers : v # w /\ writer[v].pc = "add" =>
            \A i \in 1 .. Len(posted'[nonce[writer[v].ev]]) : posted'[nonce[writer[v].ev]][i] # writer[v].ev
    <3>1. \A i \in 1 .. Len(posted'[n]) : i \in 1 .. Len(posted[n]) \/ i = Len(posted[n]) + 1
      BY <1>5, <1>6, <1>2
    <3>2. SUFFICES ASSUME NEW v \in Writers, v # w, writer[v].pc = "add",
                          NEW i \in 1 .. Len(posted'[nonce[writer[v].ev]])
                   PROVE  posted'[nonce[writer[v].ev]][i] # writer[v].ev
      BY Zenon
    <3>3. /\ nonce[writer[v].ev] \in Nonces
          /\ \A j \in 1 .. Len(posted[nonce[writer[v].ev]]) : posted[nonce[writer[v].ev]][j] # writer[v].ev
          /\ writer[v].ev # e
      BY <1>1, <2>4, <3>2, Zenon DEF WriterInv
    <3>4. CASE nonce[writer[v].ev] = n
      BY <1>5, <3>1, <3>2, <3>3, <3>4, Zenon
    <3>5. CASE nonce[writer[v].ev] # n
      BY <1>5, <3>2, <3>3, <3>5, Zenon
    <3> QED
      BY <3>4, <3>5, Zenon
  <2>6. \A v \in Writers : v # w /\ writer[v].pc = "flag" /\ flag[writer[v].prev] = "INVALID" =>
            Quiet(nonce[writer[v].ev])'
    <3>1. SUFFICES ASSUME NEW v \in Writers, v # w, writer[v].pc = "flag", flag[writer[v].prev] = "INVALID"
                   PROVE  Quiet(nonce[writer[v].ev])'
      BY Zenon
    <3>2. Quiet(nonce[writer[v].ev]) /\ IsNext(writer[v].ev) /\ nonce[writer[v].ev] \in Nonces
      BY <1>1, <3>1, Zenon DEF WriterInv
    <3>3. nonce[writer[v].ev] = n => p # NULL
      BY <1>6, <1>11, <3>2 DEF IsNext
    <3>4. \A m \in Nonces : (m = n => p # NULL) /\ Quiet(m) => Quiet(m)'
      BY <1>10, Zenon DEF Quiet
    <3>5. nonce'[writer'[v].ev] = nonce[writer[v].ev]
      BY <1>3, <3>1
    <3>6. PICK m \in Nonces : m = nonce[writer[v].ev]
      BY <3>2, Zenon
    <3>7. Quiet(m)'
      BY <3>2, <3>3, <3>4, <3>6, Zenon
    <3> QED
      BY <3>5, <3>6, <3>7, Zenon
  <2> DEFINE Fine(v) ==
        /\ writer'[v].pc # "idle" => writer'[v].ev \in Events /\ nonce'[writer'[v].ev] \in Nonces
        /\ writer'[v].pc = "add" => \A i \in 1 .. Len(posted'[nonce'[writer'[v].ev]]) :
                                        posted'[nonce'[writer'[v].ev]][i] # writer'[v].ev
        /\ writer'[v].pc \in {"flag", "link"} =>
               writer'[v].prev \in Events /\ Succ(writer[v].prev, writer[v].ev)'
        /\ writer'[v].pc = "flag" => flag'[writer'[v].prev] # "MIDDLE"
        /\ writer'[v].pc = "flag" /\ flag'[writer'[v].prev] = "INVALID" =>
               Quiet(nonce[writer[v].ev])' /\ IsNext(writer[v].ev)'
        /\ writer'[v].pc = "notify" => IsNext(writer[v].ev)'
  <2>7. ASSUME NEW v \in Writers, v # w PROVE Fine(v)
    <3>1. writer'[v] = writer[v] /\ nonce' = nonce /\ flag' = flag
      BY <1>3, <2>7, Zenon
    <3>2. /\ writer[v].pc # "idle" => writer[v].ev \in Events /\ nonce[writer[v].ev] \in Nonces
          /\ writer[v].pc \in {"flag", "link"} =>
                 writer[v].prev \in Events /\ Succ(writer[v].prev, writer[v].ev)
          /\ writer[v].pc = "flag" => flag[writer[v].prev] # "MIDDLE"
          /\ writer[v].pc = "flag" /\ flag[writer[v].prev] = "INVALID" => IsNext(writer[v].ev)
          /\ writer[v].pc = "notify" => IsNext(writer[v].ev)
      BY <1>1, Zenon DEF WriterInv
    <3>3. /\ IsNext(writer[v].ev) => IsNext(writer[v].ev)'
          /\ Succ(writer[v].prev, writer[v].ev) => Succ(writer[v].prev, writer[v].ev)'
      BY <1>5, <3>1, Zenon
    <3> QED
      BY <2>5, <2>6, <2>7, <3>1, <3>2, <3>3, Zenon
  <2>8. Fine(w)
    <3>1. /\ writer'[w].ev = e /\ writer'[w].prev = p
          /\ writer'[w].pc = IF p = NULL THEN "notify" ELSE "flag"
      BY <1>3
    <3>2. nonce'[e] = n /\ flag' = flag
      BY <1>2, <1>3, Zenon
    <3>3. CASE p = NULL
      <4>1. writer'[w].pc = "notify"
        BY <3>1, <3>3, Zenon
      <4> QED
        BY <1>2, <1>11, <1>14, <2>1, <2>2, <2>3, <3>1, <3>2, <3>3, <4>1, Zenon
    <3>4. CASE p # NULL
      <4>1. writer'[w].pc = "flag"
        BY <3>1, <3>4, Zenon
      <4> QED
        BY <1>2, <1>11, <1>14, <2>1, <2>2, <2>3, <3>1, <3>2, <3>4, <4>1, Zenon
    <3> QED
      BY <3>3, <3>4, Zenon
  <2>9. \A u, v \in Writers :
            writer'[u].pc # "idle" /\ writer'[v].pc # "idle" /\ writer'[u].ev = writer'[v].ev => u = v
    BY <1>1, <1>3, <2>4 DEF WriterInv
  <2> QED
    BY <2>7, <2>8, <2>9, Zenon DEF WriterInv
<1> QED
  BY <1>4, <1>8, <1>9, <1>12, <1>13, <1>15, Zenon DEF IInv

-----------------------------------------------------------------------------
\* Who has the token of a nonce passes it on to nobody.
FewerTokens ==
    \A m \in Nonces :
        /\ \A t \in Threads : ThreadHas(t, m)' => ThreadHas(t, m)
        /\ \A d \in Events : EventHas(d, m)' => EventHas(d, m)
        /\ \A v \in Writers : WriterHas(v, m)' => WriterHas(v, m)

\* Then there is still at most one.
LEMMA FewerTokensKeep ==
    ASSUME OneToken, FewerTokens
    PROVE  OneToken' /\ \A m \in Nonces : Quiet(m) => Quiet(m)'
BY DEF OneToken, FewerTokens, Quiet

\* A step that changes no node and begins nothing keeps what is known of the nodes, and of the
\* writers that stay where they are, if it gives no token to a nonce that has none.
LEMMA StaticKeeps ==
    ASSUME IInv, UNCHANGED <<flag, next, nonce, posted, begun>>,
           \A n \in Nonces : mapWrite'[n] \in {mapWrite[n], NULL},
           \A v \in Writers : writer'[v] = writer[v] \/ writer'[v].pc = "idle",
           \A m \in Nonces : Quiet(m) => Quiet(m)'
    PROVE  PostedInv' /\ NodeInv' /\ WriterInv'
<1>1. PostedInv /\ NodeInv /\ WriterInv
  BY Zenon DEF IInv
<1>2. /\ \A e : /\ IsCurrent(e)' <=> IsCurrent(e)
                /\ IsNext(e)' <=> IsNext(e)
                /\ IsBegun(e)' <=> IsBegun(e)
                /\ HasSucc(e)' <=> HasSucc(e)
      /\ \A p, e : Succ(p, e)' <=> Succ(p, e)
  BY OrderSame
<1>3. PostedInv'
  BY <1>1, Zenon DEF PostedInv
<1>4. NodeInv'
  BY <1>1, <1>2, Zenon DEF NodeInv
<1>5. ASSUME NEW v \in Writers, writer'[v] = writer[v], writer[v].pc = "flag",
             flag[writer[v].prev] = "INVALID"
      PROVE  Quiet(nonce[writer[v].ev])'
  <2>1. PICK m \in Nonces : m = nonce[writer[v].ev] /\ Quiet(m)
    BY <1>1, <1>5, Zenon DEF WriterInv
  <2>2. Quiet(m)'
    BY <2>1, Zenon
  <2>3. nonce'[writer'[v].ev] = m
    BY <1>5, <2>1, Zenon
  <2> QED
    BY <2>2, <2>3
<1>6. WriterInv'
  BY <1>1, <1>2, <1>5 DEF WriterInv
<1> QED
  BY <1>3, <1>4, <1>6

\* A step in which no thread and no writer gets anything.
LEMMA QuietStep ==
    ASSUME IInv, EqTypeOK', HaltInv', UNCHANGED <<flag, next, nonce, posted, begun>>,
           \A n \in Nonces : mapWrite'[n] \in {mapWrite[n], NULL},
           \A n \in Nonces : mapWrite'[n] = NULL /\ ~fAbort' => Quiet(n) /\ Len(begun[n]) = Len(posted[n]),
           \A v \in Writers : writer'[v] = writer[v] \/ writer'[v].pc = "idle",
           mapRead' \subseteq mapRead,
           \A t \in Threads : \/ thread'[t] = thread[t]
                              \/ thread'[t].pc \in {"read", "towait", "wait", "exit"}
                              \/ /\ thread[t].pc = "handle" /\ thread'[t].pc = "fetch"
                                 /\ thread'[t].prev = thread[t].prev
    PROVE  IInv'
<1>1. EqTypeOK /\ ThreadInv /\ ReadInv /\ OneToken /\ QuietInv
  BY Zenon DEF IInv
<1>2. FewerTokens
  BY <1>1 DEF FewerTokens, ThreadHas, EventHas, WriterHas
<1>3. OneToken' /\ \A m \in Nonces : Quiet(m) => Quiet(m)'
  BY <1>1, <1>2, FewerTokensKeep, Zenon
<1>4. PostedInv' /\ NodeInv' /\ WriterInv'
  BY <1>3, StaticKeeps, Zenon
<1>5. \A e : /\ IsCurrent(e)' <=> IsCurrent(e)
             /\ IsNext(e)' <=> IsNext(e)
  BY OrderSame, Zenon
<1>6. ThreadInv'
  BY <1>1, <1>5, Zenon DEF ThreadInv
<1>7. ReadInv'
  BY <1>1, <1>5, Zenon DEF ReadInv
<1>8. QuietInv'
  BY <1>1, <1>3, Zenon DEF QuietInv
<1> QED
  BY <1>3, <1>4, <1>6, <1>7, <1>8, Zenon DEF IInv

-----------------------------------------------------------------------------
ThreadStates == [pc : {"fetch", "erase", "spin", "requeue", "read", "towait", "wait", "handle", "exit"},
                 prev : Events \cup {NULL}]

\* notify_one moves a waiting thread at most.
LEMMA WakeOne ==
    ASSUME NEW th \in [Threads -> ThreadStates], NEW woken \in NotifyOne(th)
    PROVE  /\ woken \in [Threads -> ThreadStates]
           /\ \A t \in Threads : \/ woken[t] = th[t]
                                 \/ th[t].pc = "wait" /\ woken[t].pc = "read"
<1>1. \/ woken = th
      \/ \E u \in Threads : th[u].pc = "wait" /\ woken = [th EXCEPT ![u].pc = "read"]
  BY DEF NotifyOne
<1>2. ASSUME NEW u \in Threads, th[u].pc = "wait", woken = [th EXCEPT ![u].pc = "read"]
      PROVE  /\ woken \in [Threads -> ThreadStates]
             /\ \A t \in Threads : \/ woken[t] = th[t]
                                   \/ th[t].pc = "wait" /\ woken[t].pc = "read"
  <2>1. th[u] \in ThreadStates /\ [th[u] EXCEPT !.pc = "read"] \in ThreadStates
    BY DEF ThreadStates
  <2>2. woken = [th EXCEPT ![u] = [th[u] EXCEPT !.pc = "read"]]
    BY <1>2
  <2>3. [th[u] EXCEPT !.pc = "read"].pc = "read"
    BY <2>1, Zenon DEF ThreadStates
  <2> QED
    BY <1>2, <2>1, <2>2, <2>3, Zenon
<1> QED
  BY <1>1, <1>2

\* After Interrupt AddNew enters nothing.
LEMMA KeepAddAborted ==
    ASSUME IInv, NEW w \in Writers, AddToWrite(w), fAbort
    PROVE  IInv'
<1>1. EqTypeOK /\ HaltInv
  BY DEF IInv
<1>2. /\ writer' = [writer EXCEPT ![w] = [pc |-> "idle", ev |-> NULL, prev |-> NULL]]
      /\ UNCHANGED <<flag, next, nonce, mapWrite, mapRead, nTime, fAbort, halt, thread, posted, begun, refused>>
  BY Zenon DEF AddToWrite, SetWriter, WriterFrame, node
<1>3. EqTypeOK' /\ HaltInv'
  BY <1>1, <1>2, Zenon DEF EqTypeOK, HaltInv
<1>4. \A v \in Writers : writer'[v] = writer[v] \/ writer'[v].pc = "idle"
  BY <1>1, <1>2 DEF EqTypeOK
<1>5. fAbort'
  BY <1>2, Zenon
<1> QED
  BY <1>2, <1>3, <1>4, <1>5, QuietStep, Zenon

\* After Interrupt NotifyRead drops the event.
LEMMA KeepNotifyAborted ==
    ASSUME IInv, NEW w \in Writers, NotifyRead(w), fAbort
    PROVE  IInv'
<1>1. EqTypeOK /\ HaltInv
  BY DEF IInv
<1>2. /\ writer' = [writer EXCEPT ![w] = [pc |-> "idle", ev |-> NULL, prev |-> NULL]]
      /\ UNCHANGED <<flag, next, nonce, mapWrite, mapRead, nTime, fAbort, halt, thread, posted, begun, refused>>
  BY Zenon DEF NotifyRead, SetWriter, WriterFrame, node
<1>3. EqTypeOK' /\ HaltInv'
  BY <1>1, <1>2, Zenon DEF EqTypeOK, HaltInv
<1>4. \A v \in Writers : writer'[v] = writer[v] \/ writer'[v].pc = "idle"
  BY <1>1, <1>2 DEF EqTypeOK
<1>5. fAbort'
  BY <1>2
<1> QED
  BY <1>2, <1>3, <1>4, <1>5, QuietStep, Zenon

\* The steps of a thread that only change where it is.
LEMMA KeepThreadMoves ==
    ASSUME IInv, NEW t \in Threads, NEW pc, NEW p,
           SetThread(t, pc, p),
           UNCHANGED <<flag, next, nonce, mapWrite, mapRead, fAbort, writer, halt, posted, begun>>,
           nTime' \in Nat, refused' \subseteq Nonces,
           \/ pc \in {"read", "towait", "wait", "exit"} /\ p = NULL
           \/ pc = "fetch" /\ thread[t].pc = "handle" /\ p = thread[t].prev
    PROVE  IInv'
<1>1. EqTypeOK /\ HaltInv /\ QuietInv
  BY Zenon DEF IInv
<1>2. p \in Events \cup {NULL}
  BY <1>1 DEF EqTypeOK
<1>3. thread' = [thread EXCEPT ![t] = [pc |-> pc, prev |-> p]]
  BY Zenon DEF SetThread
<1>4. EqTypeOK' /\ HaltInv'
  BY <1>1, <1>2, <1>3, Zenon DEF EqTypeOK, HaltInv
<1>5. \A u \in Threads : \/ thread'[u] = thread[u]
                         \/ thread'[u].pc \in {"read", "towait", "wait", "exit"}
                         \/ /\ thread[u].pc = "handle" /\ thread'[u].pc = "fetch"
                            /\ thread'[u].prev = thread[u].prev
  BY <1>1, <1>3, Zenon DEF EqTypeOK
<1>6. \A n \in Nonces : mapWrite'[n] = NULL /\ ~fAbort' => Quiet(n) /\ Len(begun[n]) = Len(posted[n])
  BY <1>1 DEF QuietInv
<1> QED
  BY <1>4, <1>5, <1>6, QuietStep, Zenon

\* condRead.wait, and a handler that returns or throws.
LEMMA KeepWaitHandle ==
    ASSUME IInv, NEW t \in Threads, Wait(t) \/ Handle(t)
    PROVE  IInv'
<1>1. EqTypeOK /\ ThreadInv
  BY Zenon DEF IInv
<1>2. CASE Wait(t)
  <2>1. /\ SetThread(t, "wait", NULL)
        /\ UNCHANGED <<flag, next, nonce, mapWrite, mapRead, fAbort, writer, halt, posted, begun, nTime, refused>>
    BY <1>2, Zenon DEF Wait, ThreadFrame, queue
  <2> QED
    BY <1>1, <2>1, KeepThreadMoves, Zenon DEF EqTypeOK
<1>3. CASE Handle(t)
  <2>1. /\ thread[t].pc = "handle"
        /\ \/ SetThread(t, "fetch", thread[t].prev) /\ refused' = refused
           \/ SetThread(t, "read", NULL) /\ refused' = refused \cup {nonce[thread[t].prev]}
        /\ UNCHANGED <<flag, next, nonce, mapWrite, mapRead, fAbort, writer, halt, posted, begun, nTime>>
    BY <1>3 DEF Handle, ThreadFrame, queue
  <2>2. refused' \subseteq Nonces /\ nTime' \in Nat
    BY <1>1, <2>1, Zenon DEF EqTypeOK, ThreadInv, IsCurrent
  <2> QED
    BY <2>1, <2>2, KeepThreadMoves, Zenon
<1> QED
  BY <1>2, <1>3

\* A node that is no longer LAST and still in mapWrite is INVALID: all of its nonce was begun.
LEMMA KeepErasePrev ==
    ASSUME IInv, NEW t \in Threads, ErasePrev(t)
    PROVE  IInv'
<1>1. EqTypeOK /\ PostedInv /\ NodeInv /\ ThreadInv /\ QuietInv /\ HaltInv
  BY Zenon DEF IInv
<1>2. PICK p \in Events, n \in Nonces : p = thread[t].prev /\ n = nonce[p] /\ flag[p] # "LAST"
  BY <1>1, Zenon DEF ErasePrev, ThreadInv
<1>3. /\ mapWrite' = [mapWrite EXCEPT ![n] = IF @ = p THEN NULL ELSE @]
      /\ thread' = [thread EXCEPT ![t] = [pc |-> "read", prev |-> NULL]]
      /\ UNCHANGED <<flag, next, nonce, fAbort, writer, halt, posted, mapRead, nTime, begun, refused>>
  BY <1>2, Zenon DEF ErasePrev, SetThread, ThreadFrame
<1>4. EqTypeOK' /\ HaltInv'
  BY <1>1, <1>3, Zenon DEF EqTypeOK, HaltInv
<1>5. /\ mapWrite'[n] = IF mapWrite[n] = p THEN NULL ELSE mapWrite[n]
      /\ \A m \in Nonces : m # n => mapWrite'[m] = mapWrite[m]
  BY <1>1, <1>3, Zenon DEF EqTypeOK
<1>6. mapWrite[n] = p => Quiet(n) /\ Len(begun[n]) = Len(posted[n])
  <2>1. p # NULL
    BY EventsAssumption, Zenon
  <2>2. mapWrite[n] = p => ~HasSucc(p)
    BY <1>1, <2>1, LastFacts, Zenon
  <2>3. mapWrite[n] = p => flag[p] = "INVALID"
    BY <1>1, <1>2, <2>2, Zenon DEF NodeInv, EqTypeOK
  <2> QED
    BY <1>1, <2>1, <2>3, Zenon DEF QuietInv
<1>7. \A m \in Nonces : mapWrite'[m] = NULL /\ ~fAbort' => Quiet(m) /\ Len(begun[m]) = Len(posted[m])
  BY <1>1, <1>3, <1>5, <1>6, Zenon DEF QuietInv
<1>8. \A u \in Threads : thread'[u] = thread[u] \/ thread'[u].pc = "read"
  BY <1>1, <1>3 DEF EqTypeOK
<1> QED
  BY <1>3, <1>4, <1>5, <1>7, <1>8, QuietStep, Zenon

\* Interrupt empties the maps and wakes the threads; nobody gets anything by it.
LEMMA KeepHalt ==
    ASSUME IInv, HaltAbort \/ HaltWrite \/ HaltRead
    PROVE  IInv'
<1>1. EqTypeOK /\ HaltInv /\ QuietInv
  BY Zenon DEF IInv
<1>2. UNCHANGED <<flag, next, nonce, nTime, writer, posted, begun, refused>>
  BY Zenon DEF HaltAbort, HaltWrite, HaltRead, HaltFrame, node
<1>3. fAbort' = TRUE
  BY <1>1 DEF HaltAbort, HaltWrite, HaltRead, HaltInv, EqTypeOK
<1>4. HaltInv'
  BY <1>3, Zenon DEF HaltAbort, HaltWrite, HaltRead, HaltInv
<1>5. /\ mapWrite' \in [Nonces -> Events \cup {NULL}] /\ mapRead' \subseteq mapRead
      /\ \A n \in Nonces : mapWrite'[n] \in {mapWrite[n], NULL}
      /\ halt' \in {"write", "read", "done"}
  BY <1>1, Zenon DEF HaltAbort, HaltWrite, HaltRead, EqTypeOK
<1>6. /\ thread' \in [Threads -> ThreadStates]
      /\ \A t \in Threads : thread'[t] = thread[t] \/ thread'[t].pc = "read"
  <2>1. thread \in [Threads -> ThreadStates]
    BY <1>1 DEF EqTypeOK, ThreadStates
  <2>2. CASE thread' = thread
    BY <2>1, <2>2, Zenon
  <2>3. CASE NotifyAll
    <3>1. \A t \in Threads : thread[t] \in ThreadStates
      BY <2>1
    <3>2. \A t \in Threads : /\ [thread[t] EXCEPT !.pc = "read"] \in ThreadStates
                             /\ [thread[t] EXCEPT !.pc = "read"].pc = "read"
      BY <3>1, Zenon DEF ThreadStates
    <3> QED
      BY <2>3, <3>1, <3>2, Zenon DEF NotifyAll
  <2> QED
    BY <2>2, <2>3, Zenon DEF HaltAbort, HaltWrite, HaltRead
<1>7. EqTypeOK'
  BY <1>1, <1>2, <1>3, <1>5, <1>6, Zenon DEF EqTypeOK, ThreadStates
<1> QED
  BY <1>2, <1>3, <1>4, <1>5, <1>6, <1>7, QuietStep, Zenon
=============================================================================
