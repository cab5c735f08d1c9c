----------------------- MODULE MultiEventQueueProofs ------------------------
(***************************************************************************)
(* The steps of the threads keep the invariant too: so the events of a nonce are  *)
(* handled one at a time.                                                      *)
(***************************************************************************)
EXTENDS MultiEventQueueSteps

\* The writer that links its node links what was posted next.
LEMMA KeepLinkNode ==
    ASSUME IInv, NEW w \in Writers, LinkNode(w)
    PROVE  IInv'
<1>1. EqTypeOK /\ PostedInv /\ NodeInv /\ WriterInv /\ ThreadInv /\ ReadInv /\ OneToken /\ QuietInv /\ HaltInv
  BY Zenon DEF IInv
<1>2. PICK p \in Events, e \in Events : p = writer[w].prev /\ e = writer[w].ev /\ Succ(p, e)
  BY <1>1 DEF LinkNode, WriterInv
<1>3. /\ next' = [next EXCEPT ![p] = e]
      /\ writer' = [writer EXCEPT ![w] = [pc |-> "idle", ev |-> NULL, prev |-> NULL]]
      /\ UNCHANGED <<flag, nonce, mapWrite, mapRead, nTime, fAbort, halt, thread, posted, begun, refused>>
  BY <1>2 DEF LinkNode, SetWriter, WriterFrame
<1>4. EqTypeOK' /\ HaltInv' /\ PostedInv'
  <2>1. EqTypeOK'
    BY <1>1, <1>3, Zenon DEF EqTypeOK
  <2>2. HaltInv' /\ PostedInv'
    BY <1>1, <1>3, Zenon DEF HaltInv, PostedInv
  <2> QED
    BY <2>1, <2>2, Zenon
<1>5. /\ \A d : /\ IsCurrent(d)' <=> IsCurrent(d)
                /\ IsNext(d)' <=> IsNext(d)
                /\ IsBegun(d)' <=> IsBegun(d)
                /\ HasSucc(d)' <=> HasSucc(d)
      /\ \A q, d : Succ(q, d)' <=> Succ(q, d)
  BY <1>3, OrderSame, Zenon
<1>6. NodeInv'
  <2>1. \A d \in Events : next'[d] = IF d = p THEN e ELSE next[d]
    BY <1>1, <1>3, Zenon DEF EqTypeOK
  <2>2. \A d \in Events : next'[d] # NULL => Succ(d, next'[d])
    BY <1>1, <1>2, <2>1, Zenon DEF NodeInv
  <2> QED
    BY <1>1, <1>3, <1>5, <2>2, Zenon DEF NodeInv
<1>7. \A v \in Writers : writer'[v] = writer[v] \/ writer'[v].pc = "idle"
  BY <1>1, <1>3, Zenon DEF EqTypeOK
<1>8. FewerTokens
  BY <1>3, <1>7 DEF FewerTokens, ThreadHas, EventHas, WriterHas
<1>9. OneToken' /\ \A m \in Nonces : Quiet(m) => Quiet(m)'
  BY <1>1, <1>8, FewerTokensKeep
<1>10. ThreadInv' /\ ReadInv' /\ QuietInv'
  <2>1. ThreadInv'
    BY <1>1, <1>3, <1>5, Zenon DEF ThreadInv
  <2>2. ReadInv' /\ QuietInv'
    BY <1>1, <1>3, <1>5, <1>9, Zenon DEF ReadInv, QuietInv
  <2> QED
    BY <2>1, <2>2
<1>11. WriterInv'
  <2>1. ASSUME NEW v \in Writers, writer'[v] = writer[v], writer[v].pc = "flag",
               flag[writer[v].prev] = "INVALID"
        PROVE  Quiet(nonce[writer[v].ev])'
    <3>1. PICK m \in Nonces : m = nonce[writer[v].ev] /\ Quiet(m)
      BY <1>1, <2>1, Zenon DEF WriterInv
    <3>2. Quiet(m)' /\ nonce'[writer'[v].ev] = m
      BY <1>3, <1>9, <2>1, <3>1, Zenon
    <3> QED
      BY <3>2
  <2> QED
    BY <1>1, <1>3, <1>5, <1>7, <2>1 DEF WriterInv
<1> QED
  BY <1>4, <1>6, <1>9, <1>10, <1>11, Zenon DEF IInv

\* The writer that finds INVALID takes the token of its nonce, which nobody has.
LEMMA KeepExchangeFlag ==
    ASSUME IInv, NEW w \in Writers, ExchangeFlag(w)
    PROVE  IInv'
<1>1. EqTypeOK /\ PostedInv /\ NodeInv /\ WriterInv /\ ThreadInv /\ ReadInv /\ OneToken /\ QuietInv /\ HaltInv
  BY DEF IInv
<1>2. PICK p \in Events, e \in Events, n \in Nonces :
          /\ p = writer[w].prev /\ e = writer[w].ev /\ n = nonce[e] /\ Succ(p, e)
          /\ flag[p] = "INVALID" => Quiet(n) /\ IsNext(e)
  BY <1>1, Zenon DEF ExchangeFlag, WriterInv
<1> DEFINE pc == IF flag[p] = "INVALID" THEN "notify" ELSE "link"
<1>3. /\ flag' = [flag EXCEPT ![p] = "MIDDLE"]
      /\ writer' = [writer EXCEPT ![w] = [pc |-> pc, ev |-> e, prev |-> p]]
      /\ writer[w].pc = "flag"
      /\ UNCHANGED <<next, nonce, mapWrite, mapRead, nTime, fAbort, halt, thread, posted, begun, refused>>
  BY <1>2 DEF ExchangeFlag, SetWriter, WriterFrame
<1>4. EqTypeOK' /\ HaltInv' /\ PostedInv'
  <2>1. EqTypeOK'
    BY <1>1, <1>3, Zenon DEF EqTypeOK
  <2>2. HaltInv' /\ PostedInv'
    BY <1>1, <1>3, Zenon DEF HaltInv, PostedInv
  <2> QED
    BY <2>1, <2>2
<1>5. /\ \A d : /\ IsCurrent(d)' <=> IsCurrent(d)
                /\ IsNext(d)' <=> IsNext(d)
                /\ IsBegun(d)' <=> IsBegun(d)
                /\ HasSucc(d)' <=> HasSucc(d)
      /\ \A q, d : Succ(q, d)' <=> Succ(q, d)
  BY <1>3, OrderSame
<1>6. \A d \in Events : flag'[d] = IF d = p THEN "MIDDLE" ELSE flag[d]
  BY <1>1, <1>3, Zenon DEF EqTypeOK
<1>7. /\ writer'[w].pc = pc /\ writer'[w].ev = e /\ writer'[w].prev = p
      /\ \A v \in Writers : v # w => writer'[v] = writer[v]
  BY <1>1, <1>3, Zenon DEF EqTypeOK
<1>8. /\ HasSucc(p)
      /\ \A d : IsNext(d) /\ IsNext(e) /\ nonce[d] = n => d = e
      /\ \A d : Succ(p, d) => d = e
  BY <1>1, <1>2, OrderFacts, Zenon
<1>9. NodeInv'
  BY <1>1, <1>3, <1>5, <1>6, <1>8 DEF NodeInv
<1>10. ThreadInv' /\ ReadInv'
  <2>1. ThreadInv'
    BY <1>1, <1>3, <1>5, <1>6 DEF ThreadInv
  <2>2. ReadInv'
    BY <1>1, <1>3, <1>5, Zenon DEF ReadInv
  <2> QED
    BY <2>1, <2>2, Zenon
<1>11. \A m \in Nonces :
         /\ \A t \in Threads : ThreadHas(t, m)' <=> ThreadHas(t, m)
         /\ \A d \in Events : EventHas(d, m)' <=> EventHas(d, m)
         /\ \A v \in Writers : v # w => (WriterHas(v, m)' <=> WriterHas(v, m))
         /\ WriterHas(w, m)' <=> m = n /\ flag[p] = "INVALID"
         /\ ~WriterHas(w, m)
  BY <1>2, <1>3, <1>7 DEF ThreadHas, EventHas, WriterHas
<1>12. OneToken'
  BY <1>1, <1>2, <1>11 DEF OneToken, Quiet
<1>13. \A m \in Nonces : Quiet(m) /\ (m = n => flag[p] # "INVALID") => Quiet(m)'
  BY <1>11 DEF Quiet
<1>14. QuietInv'
  <2>1. ASSUME NEW m \in Nonces,
               \/ mapWrite'[m] = NULL /\ ~fAbort'
               \/ mapWrite'[m] # NULL /\ flag'[mapWrite'[m]] = "INVALID"
        PROVE  Quiet(m)' /\ Len(begun'[m]) = Len(posted'[m])
    <3>1. mapWrite[m] \in Events \cup {NULL}
      BY <1>1, Zenon DEF EqTypeOK
    <3>2. Quiet(m) /\ Len(begun[m]) = Len(posted[m])
      BY <1>1, <1>3, <1>6, <2>1, <3>1 DEF QuietInv
    <3>3. m = n => flag[p] # "INVALID"
      <4>1. Len(begun[m]) \in Nat
        BY <1>1 DEF PostedInv
      <4> QED
        BY <1>2, <3>2, <4>1 DEF IsNext
    <3> QED
      BY <1>3, <1>13, <3>2, <3>3, Zenon
  <2> QED
    BY <2>1, Zenon DEF QuietInv
<1>15. WriterInv'
  <2>1. \A v \in Writers : v # w /\ writer[v].pc # "idle" => writer[v].ev # e
    BY <1>1, <1>2, <1>3, Zenon DEF WriterInv
  <2>2. \A v \in Writers : v # w /\ writer[v].pc = "flag" => writer[v].prev \in Events /\ writer[v].prev # p
    BY <1>1, <1>8, <2>1 DEF WriterInv
  <2>3. ASSUME NEW v \in Writers, v # w, writer[v].pc = "flag", flag[writer[v].prev] = "INVALID"
        PROVE  Quiet(nonce[writer[v].ev])'
    <3>1. PICK m \in Nonces : m = nonce[writer[v].ev] /\ Quiet(m) /\ IsNext(writer[v].ev)
      BY <1>1, <2>3 DEF WriterInv
    <3>2. m = n => flag[p] # "INVALID"
      BY <1>2, <1>8, <2>1, <2>3, <3>1, Zenon
    <3>3. Quiet(m)' /\ nonce'[writer'[v].ev] = m
      BY <1>3, <1>7, <1>13, <2>3, <3>1, <3>2, ZenonT(40)
    <3> QED
      BY <3>3, Zenon
  <2> DEFINE Fine(v) ==
        /\ writer'[v].pc # "idle" => writer'[v].ev \in Events /\ nonce'[writer'[v].ev] \in Nonces
        /\ writer'[v].pc = "add" => \A i \in 1 .. Len(posted'[nonce'[writer'[v].ev]]) :
                                        posted'[nonce'[writer'[v].ev]][i] # writer'[v].ev
        /\ writer'[v].pc \in {"flag", "link"} =>
               writer'[v].prev \in Events /\ Succ(writer[v].prev, writer[v].ev)'
        /\ writer'[v].pc = "flag" => flag'[writer'[v].prev] # "MIDDLE"
        /\ writer'[v].pc = "flag" /\ flag'[writer'[v].prev] = "INVALID" =>
               Quiet(nonce[writer[v].ev])' /\ IsNext(writer[v].ev)'
        /\ writer'[v].pc = "notify" => IsNext(writer[v].ev)'
  <2>4. ASSUME NEW v \in Writers, v # w PROVE Fine(v)
    BY <1>1, <1>3, <1>5, <1>6, <1>7, <2>2, <2>3, <2>4 DEF WriterInv
  <2>5. Fine(w)
    BY <1>2, <1>3, <1>5, <1>7
  <2>6. \A u, v \in Writers :
            writer'[u].pc # "idle" /\ writer'[v].pc # "idle" /\ writer'[u].ev = writer'[v].ev => u = v
    BY <1>1, <1>7, <2>1 DEF WriterInv
  <2> QED
    BY <2>4, <2>5, <2>6, Zenon DEF WriterInv
<1> QED
  BY <1>4, <1>9, <1>10, <1>12, <1>14, <1>15, Zenon DEF IInv

\* The thread that finds LAST gives up the token: a writer that comes to the node will find
\* INVALID and take it.  The thread that finds MIDDLE keeps it.
LEMMA KeepFetchPrev ==
    ASSUME IInv, NEW t \in Threads, FetchPrev(t)
    PROVE  IInv'
<1>1. EqTypeOK /\ PostedInv /\ NodeInv /\ WriterInv /\ ThreadInv /\ ReadInv /\ OneToken /\ QuietInv /\ HaltInv
  BY DEF IInv
<1>2. PICK p \in Events, n \in Nonces :
          /\ p = thread[t].prev /\ n = nonce[p] /\ IsCurrent(p)
          /\ flag[p] \in {"LAST", "MIDDLE"} /\ p # NULL
  BY <1>1, EventsAssumption, Zenon DEF FetchPrev, ThreadInv, IsCurrent, EqTypeOK
<1> DEFINE pc == IF flag[p] = "LAST" THEN "erase" ELSE "spin"
<1>3. /\ flag' = [flag EXCEPT ![p] = "INVALID"]
      /\ thread' = [thread EXCEPT ![t] = [pc |-> pc, prev |-> p]]
      /\ thread[t].pc = "fetch"
      /\ UNCHANGED <<next, nonce, mapWrite, mapRead, nTime, fAbort, halt, writer, posted, begun, refused>>
  <2>1. CASE flag[p] = "LAST"
    BY <1>2, <2>1, Zenon DEF FetchPrev, SetThread, ThreadFrame, queue
  <2>2. CASE flag[p] = "MIDDLE"
    BY <1>2, <2>2, Zenon DEF FetchPrev, SetThread, ThreadFrame, queue
  <2> QED
    BY <1>2, <2>1, <2>2, Zenon
<1>4. EqTypeOK' /\ HaltInv' /\ PostedInv'
  <2>1. EqTypeOK'
    BY <1>1, <1>3, Zenon DEF EqTypeOK
  <2>2. HaltInv' /\ PostedInv'
    BY <1>1, <1>3, Zenon DEF HaltInv, PostedInv
  <2> QED
    BY <2>1, <2>2, Zenon
<1>5. /\ \A d : /\ IsCurrent(d)' <=> IsCurrent(d)
                /\ IsNext(d)' <=> IsNext(d)
                /\ IsBegun(d)' <=> IsBegun(d)
                /\ HasSucc(d)' <=> HasSucc(d)
      /\ \A q, d : Succ(q, d)' <=> Succ(q, d)
  BY <1>3, OrderSame, Zenon
<1>6. \A d \in Events : flag'[d] = IF d = p THEN "INVALID" ELSE flag[d]
  BY <1>1, <1>3, Zenon DEF EqTypeOK
<1>7. /\ thread'[t].pc = pc /\ thread'[t].prev = p
      /\ \A u \in Threads : u # t => thread'[u] = thread[u]
  BY <1>1, <1>3, Zenon DEF EqTypeOK
<1>8. /\ IsBegun(p)
      /\ \A d : Succ(p, d) => IsNext(d) /\ nonce[d] = n
  BY <1>1, <1>2, OrderFacts, Zenon
<1>9. NodeInv'
  BY <1>1, <1>3, <1>5, <1>6, <1>8 DEF NodeInv
<1>10. ThreadHas(t, n) /\ \A u \in Threads : ThreadHas(u, n) => u = t
  BY <1>1, <1>2, <1>3, Zenon DEF ThreadHas, OneToken
<1>11. \A u \in Threads : u # t /\ thread[u].pc \in {"handle", "fetch"} => thread[u].prev # p
  BY <1>2, <1>10, Zenon DEF ThreadHas
<1>12. ThreadInv' /\ ReadInv'
  <2>1. ThreadInv'
    BY <1>1, <1>2, <1>3, <1>5, <1>6, <1>7, <1>11 DEF ThreadInv
  <2>2. ReadInv'
    BY <1>1, <1>3, <1>5, Zenon DEF ReadInv
  <2> QED
    BY <2>1, <2>2, Zenon
<1>13. \A m \in Nonces :
         /\ \A u \in Threads : u # t => (ThreadHas(u, m)' <=> ThreadHas(u, m))
         /\ ThreadHas(t, m)' <=> m = n /\ flag[p] # "LAST"
         /\ ThreadHas(t, m) <=> m = n
         /\ \A d \in Events : EventHas(d, m)' <=> EventHas(d, m)
         /\ \A v \in Writers : WriterHas(v, m)' <=> WriterHas(v, m)
  BY <1>2, <1>3, <1>7 DEF ThreadHas, EventHas, WriterHas
<1>14. OneToken' /\ \A m \in Nonces : Quiet(m) => Quiet(m)'
  <2>1. FewerTokens
    BY <1>13, Zenon DEF FewerTokens
  <2> QED
    BY <1>1, <2>1, FewerTokensKeep, Zenon
<1>15. flag[p] = "LAST" => Quiet(n)'
  BY <1>1, <1>10, <1>13, Zenon DEF OneToken, Quiet
<1>16. QuietInv'
  <2>1. ASSUME NEW m \in Nonces,
               \/ mapWrite'[m] = NULL /\ ~fAbort'
               \/ mapWrite'[m] # NULL /\ flag'[mapWrite'[m]] = "INVALID"
        PROVE  Quiet(m)' /\ Len(begun'[m]) = Len(posted'[m])
    <3>1. mapWrite[m] \in Events \cup {NULL}
      BY <1>1 DEF EqTypeOK
    <3>2. CASE mapWrite[m] = p
      <4>1. m = n /\ ~HasSucc(p) /\ Len(begun[m]) = Len(posted[m])
        BY <1>1, <1>2, <3>2, LastFacts, Zenon
      <4>2. flag[p] = "LAST"
        BY <1>1, <1>2, <4>1, Zenon DEF NodeInv
      <4> QED
        BY <1>3, <1>15, <4>1, <4>2, Zenon
    <3>3. CASE mapWrite[m] # p
      <4>1. Quiet(m) /\ Len(begun[m]) = Len(posted[m])
        BY <1>1, <1>3, <1>6, <2>1, <3>1, <3>3, Zenon DEF QuietInv
      <4> QED
        BY <1>3, <1>14, <4>1, Zenon
    <3> QED
      BY <3>2, <3>3, Zenon
  <2> QED
    BY <2>1, Zenon DEF QuietInv
<1>17. WriterInv'
  <2>1. ASSUME NEW v \in Writers, writer[v].pc = "flag", flag'[writer[v].prev] = "INVALID"
        PROVE  Quiet(nonce[writer[v].ev])' /\ IsNext(writer[v].ev)'
    <3>1. PICK m \in Nonces, d \in Events, q \in Events :
              /\ d = writer[v].ev /\ q = writer[v].prev /\ m = nonce[d]
              /\ Succ(q, d) /\ flag[q] # "MIDDLE"
              /\ flag[q] = "INVALID" => Quiet(m) /\ IsNext(d)
      BY <1>1, <2>1 DEF WriterInv
    <3>2. Quiet(m)' /\ IsNext(d)
      <4>1. CASE q = p
        BY <1>2, <1>8, <1>15, <3>1, <4>1, Zenon
      <4>2. CASE q # p
        BY <1>6, <1>14, <2>1, <3>1, <4>2, Zenon
      <4> QED
        BY <4>1, <4>2
    <3>3. nonce'[writer'[v].ev] = m /\ writer'[v].ev = d
      BY <1>3, <3>1, Zenon
    <3> QED
      BY <1>5, <3>2, <3>3, Zenon
  <2>2. \A v \in Writers : writer[v].pc = "flag" => flag'[writer[v].prev] # "MIDDLE"
    BY <1>1, <1>6 DEF WriterInv
  <2> QED
    BY <1>1, <1>3, <1>5, <2>1, <2>2, Zenon DEF WriterInv
<1> QED
  BY <1>4, <1>9, <1>12, <1>14, <1>16, <1>17, Zenon DEF IInv

\* The token goes from a writer or a thread to the next event, in mapRead.
LEMMA TokenToEvent ==
    ASSUME IInv, EqTypeOK', UNCHANGED <<flag, next, nonce, mapWrite, fAbort, halt, posted, begun>>,
           NEW e \in Events, NEW n \in Nonces, n = nonce[e], IsNext(e), ~Quiet(n),
           mapRead' = mapRead \cup {e},
           \A v \in Writers : writer'[v] = writer[v] \/ writer'[v].pc = "idle",
           \A u \in Threads : thread'[u] = thread[u] \/ thread'[u].pc = "read",
           \A u \in Threads : ~ThreadHas(u, n)',
           \A v \in Writers : ~WriterHas(v, n)'
    PROVE  IInv'
<1>1. EqTypeOK /\ ThreadInv /\ ReadInv /\ OneToken /\ QuietInv /\ HaltInv
  BY DEF IInv
<1>2. \A m \in Nonces :
        /\ \A u \in Threads : ThreadHas(u, m)' => ThreadHas(u, m)
        /\ \A d \in Events : m # n => (EventHas(d, m)' => EventHas(d, m))
        /\ \A v \in Writers : WriterHas(v, m)' => WriterHas(v, m)
  BY <1>1, Zenon DEF ThreadHas, EventHas, WriterHas
<1>3. OneToken'
  <2>1. ASSUME NEW m \in Nonces
        PROVE  /\ \A t, u \in Threads : (ThreadHas(t, m) /\ ThreadHas(u, m))' => t = u
               /\ \A w, v \in Writers : (WriterHas(w, m) /\ WriterHas(v, m))' => w = v
               /\ \A t \in Threads, w \in Writers : ~(ThreadHas(t, m) /\ WriterHas(w, m))'
    BY <1>1, <1>2, Zenon DEF OneToken
  <2>2. ASSUME NEW m \in Nonces
        PROVE  /\ \A t \in Threads, d \in Events : ~(ThreadHas(t, m) /\ EventHas(d, m))'
               /\ \A d \in Events, w \in Writers : ~(EventHas(d, m) /\ WriterHas(w, m))'
    <3>1. CASE m = n
      BY <3>1, Zenon
    <3>2. CASE m # n
      BY <1>1, <1>2, <3>2, Zenon DEF OneToken
    <3> QED
      BY <3>1, <3>2, Zenon
  <2> QED
    BY <2>1, <2>2, Zenon DEF OneToken
<1>4. \A m \in Nonces : Quiet(m) => Quiet(m)'
  BY <1>2 DEF Quiet
<1>5. PostedInv' /\ NodeInv' /\ WriterInv'
  BY <1>4, StaticKeeps, Zenon
<1>6. \A d : /\ IsCurrent(d)' <=> IsCurrent(d)
             /\ IsNext(d)' <=> IsNext(d)
  BY OrderSame, Zenon
<1>7. ThreadInv' /\ HaltInv'
  BY <1>1, <1>6, Zenon DEF ThreadInv, HaltInv
<1>8. ReadInv' /\ QuietInv'
  BY <1>1, <1>4, <1>6, Zenon DEF ReadInv, QuietInv
<1> QED
  BY <1>3, <1>5, <1>7, <1>8, Zenon DEF IInv

\* NotifyRead of a writer, which gives its event the token.
LEMMA KeepNotifyRead ==
    ASSUME IInv, NEW w \in Writers, NotifyRead(w), ~fAbort
    PROVE  IInv'
<1>1. EqTypeOK /\ WriterInv /\ OneToken
  BY Zenon DEF IInv
<1>2. PICK e \in Events, n \in Nonces : e = writer[w].ev /\ n = nonce[e] /\ IsNext(e)
  BY <1>1, Zenon DEF NotifyRead, WriterInv
<1>3. /\ mapRead' = mapRead \cup {e}
      /\ thread' \in NotifyOne(thread)
      /\ writer' = [writer EXCEPT ![w] = [pc |-> "idle", ev |-> NULL, prev |-> NULL]]
      /\ writer[w].pc = "notify"
      /\ UNCHANGED <<flag, next, nonce, mapWrite, nTime, fAbort, halt, posted, begun, refused>>
  BY <1>2, Zenon DEF NotifyRead, SetWriter, WriterFrame, node
<1>4. /\ thread' \in [Threads -> ThreadStates]
      /\ \A u \in Threads : thread'[u] = thread[u] \/ thread'[u].pc = "read"
  <2>1. thread \in [Threads -> ThreadStates]
    BY <1>1, Zenon DEF EqTypeOK, ThreadStates
  <2> QED
    BY <1>3, <2>1, WakeOne, Zenon
<1>5. EqTypeOK'
  BY <1>1, <1>3, <1>4, Zenon DEF EqTypeOK, ThreadStates
<1>6. \A v \in Writers : (writer'[v] = writer[v] /\ v # w) \/ writer'[v].pc = "idle"
  BY <1>1, <1>3, Zenon DEF EqTypeOK
<1>7. WriterHas(w, n)
  BY <1>2, <1>3 DEF WriterHas
<1>8. /\ \A u \in Threads : ~ThreadHas(u, n)
      /\ \A v \in Writers : v # w => ~WriterHas(v, n)
      /\ ~Quiet(n)
  BY <1>1, <1>7, Zenon DEF OneToken, Quiet
<1>9. /\ \A u \in Threads : ~ThreadHas(u, n)'
      /\ \A v \in Writers : ~WriterHas(v, n)'
  BY <1>3, <1>4, <1>6, <1>8, Zenon DEF ThreadHas, WriterHas
<1> QED
  BY <1>2, <1>3, <1>4, <1>5, <1>6, <1>8, <1>9, TokenToEvent, Zenon

\* NotifyRead of a thread, which gives the event it came to the token.
LEMMA KeepRequeue ==
    ASSUME IInv, NEW t \in Threads, Requeue(t)
    PROVE  IInv'
<1>1. EqTypeOK /\ ThreadInv /\ OneToken
  BY DEF IInv
<1>2. PICK e \in Events, n \in Nonces : e = thread[t].prev /\ n = nonce[e] /\ IsNext(e)
  BY <1>1, Zenon DEF Requeue, ThreadInv, IsNext
<1>3. /\ thread[t].pc = "requeue"
      /\ UNCHANGED <<flag, next, nonce, mapWrite, nTime, fAbort, halt, writer, posted, begun, refused>>
  BY Zenon DEF Requeue, ThreadFrame
<1>4. CASE fAbort
  <2>1. SetThread(t, "read", NULL) /\ mapRead' = mapRead
    BY <1>4, Zenon DEF Requeue
  <2> QED
    BY <1>1, <1>3, <2>1, KeepThreadMoves, Zenon DEF EqTypeOK
<1>5. CASE ~fAbort
  <2> DEFINE th == [thread EXCEPT ![t] = [pc |-> "read", prev |-> NULL]]
  <2>1. /\ mapRead' = mapRead \cup {e}
        /\ thread' \in NotifyOne(th)
    BY <1>2, <1>5 DEF Requeue
  <2>2. /\ th \in [Threads -> ThreadStates]
        /\ th[t].pc = "read"
        /\ \A u \in Threads : u # t => th[u] = thread[u]
    BY <1>1, Zenon DEF EqTypeOK, ThreadStates
  <2>3. /\ thread' \in [Threads -> ThreadStates]
        /\ \A u \in Threads : thread'[u] = th[u] \/ thread'[u].pc = "read"
    <3> HIDE DEF th
    <3> QED
      BY <2>1, <2>2, WakeOne, Zenon
  <2>4. \A u \in Threads : (thread'[u] = thread[u] /\ u # t) \/ thread'[u].pc = "read"
    <3> HIDE DEF th
    <3> QED
      BY <2>2, <2>3, Zenon
  <2>5. EqTypeOK'
    BY <1>1, <1>3, <2>1, <2>3, Zenon DEF EqTypeOK, ThreadStates
  <2>6. ThreadHas(t, n)
    BY <1>2, <1>3, Zenon DEF ThreadHas
  <2>7. /\ \A u \in Threads : u # t => ~ThreadHas(u, n)
        /\ \A v \in Writers : ~WriterHas(v, n)
        /\ ~Quiet(n)
    BY <1>1, <2>6, Zenon DEF OneToken, Quiet
  <2>8. /\ \A u \in Threads : ~ThreadHas(u, n)'
        /\ \A v \in Writers : ~WriterHas(v, n)'
    BY <1>3, <2>4, <2>7, Zenon DEF ThreadHas, WriterHas
  <2> HIDE DEF th
  <2> QED
    BY <1>2, <1>3, <2>1, <2>4, <2>5, <2>7, <2>8, TokenToEvent, Zenon
<1> QED
  BY <1>4, <1>5, Zenon

\* Who has the token begins the next event.
LEMMA BeginStep ==
    ASSUME IInv, EqTypeOK', UNCHANGED <<flag, next, nonce, mapWrite, fAbort, halt, writer, posted>>,
           NEW t \in Threads, NEW e \in Events, NEW n \in Nonces, n = nonce[e], IsNext(e), ~Quiet(n),
           SetThread(t, "handle", e), Begin(e), mapRead' \subseteq mapRead,
           \A m \in Nonces : m # n => ~ThreadHas(t, m),
           \A u \in Threads : u # t => ~ThreadHas(u, n),
           \A d \in Events : ~EventHas(d, n)',
           \A v \in Writers : ~WriterHas(v, n)
    PROVE  IInv' /\ Len(begun'[n]) = Len(begun[n]) + 1
<1>1. EqTypeOK /\ PostedInv /\ NodeInv /\ WriterInv /\ ThreadInv /\ ReadInv /\ OneToken /\ QuietInv /\ HaltInv
  BY Zenon DEF IInv
<1>2. /\ \A m \in Nonces : /\ Len(begun[m]) \in Nat /\ Len(posted[m]) \in Nat
                           /\ Len(begun[m]) <= Len(posted[m])
      /\ begun[n] \in Seq(Events)
  BY <1>1 DEF PostedInv
<1>3. begun' = [begun EXCEPT ![n] = Append(@, e)]
  BY Zenon DEF Begin
<1>4. Len(begun'[n]) = Len(begun[n]) + 1
  <2>1. begun'[n] = Append(begun[n], e)
    BY <1>1, <1>3, Zenon DEF PostedInv
  <2> QED
    BY <1>2, <2>1
<1>5. /\ begun' \in [Nonces -> Seq(Events)]
      /\ \A m \in Nonces : m # n => begun'[m] = begun[m]
  <2>1. begun \in [Nonces -> Seq(Events)]
    BY <1>1, Zenon DEF PostedInv
  <2>2. Append(begun[n], e) \in Seq(Events)
    BY <1>2
  <2> QED
    BY <1>3, <2>1, <2>2, Zenon
<1>6. PostedInv'
  <2>1. ASSUME NEW m \in Nonces PROVE Len(begun'[m]) <= Len(posted[m])
    <3>1. CASE m = n
      BY <1>2, <1>4, <3>1 DEF IsNext
    <3>2. CASE m # n
      BY <1>2, <1>5, <3>2, Zenon
    <3> QED
      BY <3>1, <3>2, Zenon
  <2> QED
    BY <1>1, <1>5, <2>1, Zenon DEF PostedInv
<1>7. /\ \A d : nonce[d] # n => /\ IsCurrent(d)' <=> IsCurrent(d)
                                /\ IsNext(d)' <=> IsNext(d)
      /\ \A d : IsBegun(d) => IsBegun(d)'
      /\ \A d : HasSucc(d)' <=> HasSucc(d)
      /\ \A p, d : Succ(p, d)' <=> Succ(p, d)
  <2>1. \A d : nonce[d] # n => /\ IsCurrent(d)' <=> IsCurrent(d)
                               /\ IsNext(d)' <=> IsNext(d)
    BY <1>5, Zenon DEF IsCurrent, IsNext
  <2>2. ASSUME NEW m \in Nonces, NEW i \in 1 .. Len(begun[m])
        PROVE  i \in 1 .. Len(begun'[m])
    <3>1. CASE m = n
      BY <1>2, <1>4, <3>1
    <3>2. CASE m # n
      BY <1>5, <3>2, Zenon
    <3> QED
      BY <3>1, <3>2, Zenon
  <2>3. \A d : IsBegun(d) => IsBegun(d)'
    BY <2>2, Zenon DEF IsBegun
  <2>4. /\ \A d : HasSucc(d)' <=> HasSucc(d)
        /\ \A p, d : Succ(p, d)' <=> Succ(p, d)
    BY Zenon DEF HasSucc, Succ
  <2> QED
    BY <2>1, <2>3, <2>4, Zenon
<1>8. IsCurrent(e)'
  BY <1>2, <1>4 DEF IsCurrent, IsNext
<1>9. flag[e] # "INVALID"
  BY <1>1, OrderFacts, Zenon DEF NodeInv
<1>10. /\ thread'[t].pc = "handle" /\ thread'[t].prev = e
       /\ \A u \in Threads : u # t => thread'[u] = thread[u]
  BY <1>1 DEF SetThread, EqTypeOK
<1>11. NodeInv' /\ HaltInv'
  BY <1>1, <1>7, Zenon DEF NodeInv, HaltInv
<1>12. \A m \in Nonces :
         /\ \A u \in Threads : u # t => (ThreadHas(u, m)' <=> ThreadHas(u, m))
         /\ ThreadHas(t, m)' <=> m = n
         /\ \A d \in Events : EventHas(d, m)' => EventHas(d, m)
         /\ \A v \in Writers : WriterHas(v, m)' <=> WriterHas(v, m)
  BY <1>10, Zenon DEF ThreadHas, EventHas, WriterHas
<1>13. OneToken'
  BY <1>1, <1>12 DEF OneToken
<1>14. \A m \in Nonces : Quiet(m) => m # n /\ Quiet(m)'
  BY <1>12, Zenon DEF Quiet
<1>15. QuietInv'
  BY <1>1, <1>5, <1>14, Zenon DEF QuietInv
<1>16. ThreadInv'
  <2>1. \A u \in Threads : u # t /\ thread[u].pc \in {"handle", "fetch", "spin", "requeue"}
            => nonce[thread[u].prev] # n
    BY DEF ThreadHas
  <2>2. ASSUME NEW u \in Threads, u # t
        PROVE  /\ thread[u].pc \in {"handle", "fetch", "spin"} =>
                      thread[u].prev \in Events /\ IsCurrent(thread[u].prev)'
               /\ thread[u].pc = "requeue" => thread[u].prev \in Events /\ IsNext(thread[u].prev)'
    <3>1. thread'[u].prev = thread[u].prev
      BY <1>10, <2>2, Zenon
    <3>2. PICK p : p = thread[u].prev
      OBVIOUS
    <3>3. /\ thread[u].pc \in {"handle", "fetch", "spin"} => p \in Events /\ IsCurrent(p)'
          /\ thread[u].pc = "requeue" => p \in Events /\ IsNext(p)'
      BY <1>1, <1>7, <2>1, <2>2, <3>2, Zenon DEF ThreadInv
    <3> QED
      BY <3>1, <3>2, <3>3, Zenon
  <2> QED
    BY <1>1, <1>8, <1>9, <1>10, <2>2, Zenon DEF ThreadInv
<1>17. ReadInv'
  <2>1. \A d \in mapRead' : d \in mapRead /\ d \in Events /\ nonce[d] # n
    BY <1>1 DEF EqTypeOK, EventHas
  <2> QED
    BY <1>1, <1>7, <2>1, Zenon DEF ReadInv
<1>18. WriterInv'
  <2>1. ASSUME NEW v \in Writers, writer[v].pc = "flag", flag[writer[v].prev] = "INVALID"
        PROVE  Quiet(nonce[writer[v].ev])' /\ IsNext(writer[v].ev)'
    <3>1. PICK m \in Nonces, d \in Events : d = writer[v].ev /\ m = nonce[d] /\ Quiet(m) /\ IsNext(d)
      BY <1>1, <2>1, Zenon DEF WriterInv
    <3>2. Quiet(m)' /\ IsNext(d)' /\ nonce'[writer'[v].ev] = m /\ writer'[v].ev = d
      BY <1>7, <1>14, <3>1, Zenon
    <3> QED
      BY <3>2, Zenon
  <2>2. ASSUME NEW v \in Writers, writer[v].pc = "notify" PROVE IsNext(writer[v].ev)'
    <3>1. PICK d \in Events : d = writer[v].ev /\ nonce[d] # n /\ IsNext(d)
      BY <1>1, <2>2, Zenon DEF WriterInv, WriterHas
    <3>2. IsNext(d)' /\ writer'[v].ev = d
      BY <1>7, <3>1, Zenon
    <3> QED
      BY <3>2, Zenon
  <2> QED
    BY <1>1, <1>7, <2>1, <2>2, Zenon DEF WriterInv
<1> QED
  BY <1>4, <1>6, <1>11, <1>13, <1>15, <1>16, <1>17, <1>18, Zenon DEF IInv

\* What a thread at the end of its wait for spNext has: the next event, and nobody else the token.
LEMMA LinkFacts ==
    ASSUME IInv, NEW t \in Threads, thread[t].pc = "spin", next[thread[t].prev] # NULL
    PROVE  \E e \in Events, n \in Nonces :
              /\ e = next[thread[t].prev] /\ n = nonce[e] /\ n = nonce[thread[t].prev] /\ IsNext(e)
              /\ ThreadHas(t, n)
              /\ \A m \in Nonces : m # n => ~ThreadHas(t, m)
              /\ \A u \in Threads : u # t => ~ThreadHas(u, n)
              /\ \A d \in Events : ~EventHas(d, n)
              /\ \A v \in Writers : ~WriterHas(v, n)
              /\ ~Quiet(n)
<1>1. EqTypeOK /\ PostedInv /\ NodeInv /\ ThreadInv /\ OneToken
  BY DEF IInv
<1>2. PICK p \in Events, n \in Nonces : p = thread[t].prev /\ n = nonce[p] /\ IsCurrent(p)
  BY <1>1, Zenon DEF ThreadInv, IsCurrent
<1>3. PICK e \in Events : e = next[p] /\ Succ(p, e)
  BY <1>1, <1>2, Zenon DEF EqTypeOK, NodeInv
<1>4. IsNext(e) /\ nonce[e] = n
  BY <1>1, <1>2, <1>3, OrderFacts, Zenon
<1>5. ThreadHas(t, n) /\ \A m \in Nonces : m # n => ~ThreadHas(t, m)
  BY <1>2, Zenon DEF ThreadHas
<1>6. /\ \A u \in Threads : u # t => ~ThreadHas(u, n)
      /\ \A d \in Events : ~EventHas(d, n)
      /\ \A v \in Writers : ~WriterHas(v, n)
      /\ ~Quiet(n)
  BY <1>1, <1>5, Zenon DEF OneToken, Quiet
<1> QED
  BY <1>2, <1>3, <1>4, <1>5, <1>6, Zenon

\* A thread goes on with the event it came to, or gives it back to mapRead.
LEMMA KeepFollowLink ==
    ASSUME IInv, NEW t \in Threads, FollowLink(t)
    PROVE  IInv'
<1>1. EqTypeOK /\ ThreadInv /\ ReadInv /\ OneToken /\ QuietInv /\ HaltInv
  BY Zenon DEF IInv
<1>2. thread[t].pc = "spin" /\ next[thread[t].prev] # NULL
  BY Zenon DEF FollowLink
<1>3. PICK e \in Events, n \in Nonces :
              /\ e = next[thread[t].prev] /\ n = nonce[e] /\ n = nonce[thread[t].prev] /\ IsNext(e)
              /\ ThreadHas(t, n)
              /\ \A m \in Nonces : m # n => ~ThreadHas(t, m)
              /\ \A u \in Threads : u # t => ~ThreadHas(u, n)
              /\ \A d \in Events : ~EventHas(d, n)
              /\ \A v \in Writers : ~WriterHas(v, n)
              /\ ~Quiet(n)
  BY <1>2, LinkFacts, Zenon
<1>4. UNCHANGED <<flag, next, nonce, mapWrite, mapRead, nTime, fAbort, halt, writer, posted, refused>>
  BY Zenon DEF FollowLink, ThreadFrame, queue
<1>5. CASE SetThread(t, "handle", e) /\ Begin(e)
  <2>1. EqTypeOK'
    BY <1>1, <1>4, <1>5, Zenon DEF EqTypeOK, SetThread
  <2>2. \A d \in Events : ~EventHas(d, n)'
    BY <1>3, <1>4, Zenon DEF EventHas
  <2> QED
    BY <1>3, <1>4, <1>5, <2>1, <2>2, BeginStep, Zenon
<1>6. CASE SetThread(t, "requeue", e) /\ begun' = begun
  <2>1. EqTypeOK' /\ HaltInv'
    BY <1>1, <1>4, <1>6, Zenon DEF EqTypeOK, HaltInv, SetThread
  <2>2. /\ thread'[t].pc = "requeue" /\ thread'[t].prev = e
        /\ \A u \in Threads : u # t => thread'[u] = thread[u]
    BY <1>1, <1>6, Zenon DEF SetThread, EqTypeOK
  <2>3. FewerTokens
    BY <1>2, <1>3, <1>4, <2>2, Zenon DEF FewerTokens, ThreadHas, EventHas, WriterHas
  <2>4. OneToken' /\ \A m \in Nonces : Quiet(m) => Quiet(m)'
    BY <1>1, <2>3, FewerTokensKeep
  <2>5. PostedInv' /\ NodeInv' /\ WriterInv'
    BY <1>4, <1>6, <2>4, StaticKeeps, Zenon
  <2>6. \A d : /\ IsCurrent(d)' <=> IsCurrent(d)
               /\ IsNext(d)' <=> IsNext(d)
    BY <1>4, <1>6, OrderSame, Zenon
  <2>7. ThreadInv'
    BY <1>1, <1>3, <1>4, <2>2, <2>6, Zenon DEF ThreadInv
  <2>8. ReadInv' /\ QuietInv'
    BY <1>1, <1>4, <1>6, <2>4, <2>6, Zenon DEF ReadInv, QuietInv
  <2> QED
    BY <2>1, <2>4, <2>5, <2>7, <2>8, Zenon DEF IInv
<1> QED
  BY <1>3, <1>5, <1>6, Zenon DEF FollowLink

\* What the oldest event of mapRead has.
LEMMA ReadFacts ==
    ASSUME IInv, NEW t \in Threads, thread[t].pc = "read", NEW e \in mapRead
    PROVE  \E n \in Nonces :
              /\ n = nonce[e] /\ e \in Events /\ IsNext(e)
              /\ EventHas(e, n)
              /\ \A m \in Nonces : ~ThreadHas(t, m)
              /\ \A u \in Threads : ~ThreadHas(u, n)
              /\ \A d \in Events : EventHas(d, n) => d = e
              /\ \A v \in Writers : ~WriterHas(v, n)
              /\ ~Quiet(n)
<1>1. EqTypeOK /\ PostedInv /\ ReadInv /\ OneToken
  BY Zenon DEF IInv
<1>2. PICK n \in Nonces : n = nonce[e] /\ e \in Events /\ IsNext(e)
  BY <1>1 DEF ReadInv, IsNext, EqTypeOK
<1>3. EventHas(e, n) /\ \A m \in Nonces : ~ThreadHas(t, m)
  BY <1>2, Zenon DEF EventHas, ThreadHas
<1>4. /\ \A u \in Threads : ~ThreadHas(u, n)
      /\ \A v \in Writers : ~WriterHas(v, n)
      /\ ~Quiet(n)
  BY <1>1, <1>2, <1>3, Zenon DEF OneToken, Quiet
<1>5. \A d \in Events : EventHas(d, n) => d = e
  <2>1. \A d \in Events : EventHas(d, n) => IsNext(d) /\ nonce[d] = nonce[e]
    BY <1>1, <1>2, Zenon DEF ReadInv, EventHas
  <2> QED
    BY <1>1, <1>2, <2>1, OrderFacts, Zenon
<1> QED
  BY <1>2, <1>3, <1>4, <1>5, Zenon

\* A thread takes the oldest event of mapRead, or has nothing to do.
LEMMA KeepReadNode ==
    ASSUME IInv, NEW t \in Threads, ReadNode(t)
    PROVE  IInv'
<1>1. EqTypeOK
  BY Zenon DEF IInv
<1>2. /\ thread[t].pc = "read"
      /\ UNCHANGED <<flag, next, nonce, mapWrite, fAbort, halt, writer, posted, refused>>
  BY Zenon DEF ReadNode, ThreadFrame
<1>3. CASE UNCHANGED <<mapRead, nTime, begun>> /\ (SetThread(t, "exit", NULL) \/ SetThread(t, "towait", NULL))
  BY <1>1, <1>2, <1>3, KeepThreadMoves, Zenon DEF EqTypeOK
<1>4. ASSUME NEW e \in mapRead, mapRead' = mapRead \ {e}, nTime' = e, SetThread(t, "handle", e), Begin(e)
      PROVE  IInv'
  <2>1. PICK n \in Nonces :
              /\ n = nonce[e] /\ e \in Events /\ IsNext(e)
              /\ EventHas(e, n)
              /\ \A m \in Nonces : ~ThreadHas(t, m)
              /\ \A u \in Threads : ~ThreadHas(u, n)
              /\ \A d \in Events : EventHas(d, n) => d = e
              /\ \A v \in Writers : ~WriterHas(v, n)
              /\ ~Quiet(n)
    BY <1>2, ReadFacts, Zenon
  <2>2. nTime' \in Nat
    BY <1>4, <2>1, EventsAssumption DEF Events
  <2>3. EqTypeOK'
    BY <1>1, <1>2, <1>4, <2>1, <2>2, Zenon DEF EqTypeOK, SetThread
  <2>4. \A d \in Events : ~EventHas(d, n)'
    BY <1>2, <1>4, <2>1, Zenon DEF EventHas
  <2>5. mapRead' \subseteq mapRead
    BY <1>4, Zenon
  <2> QED
    BY <1>2, <1>4, <2>1, <2>3, <2>4, <2>5, BeginStep, Zenon
<1> QED
  BY <1>3, <1>4, Zenon DEF ReadNode

-----------------------------------------------------------------------------
\* Every step keeps the invariant.
LEMMA NextIInv == IInv /\ [EqNext]_eqVars => IInv'
<1> SUFFICES ASSUME IInv, [EqNext]_eqVars PROVE IInv'
  OBVIOUS
<1>1. ASSUME NEW w \in Writers, NEW e \in Events, NEW n \in Senders[e], NewNode(w, e, n) PROVE IInv'
  <2>1. n \in Nonces
    BY EventsAssumption, Zenon
  <2> QED
    BY <1>1, <2>1, KeepNewNode, Zenon
<1>2. ASSUME NEW w \in Writers, WriterStep(w) PROVE IInv'
  BY Zenon, <1>2, KeepAddToWrite, KeepAddAborted, KeepExchangeFlag, KeepLinkNode, KeepNotifyRead,
     KeepNotifyAborted DEF WriterStep
<1>3. ASSUME NEW t \in Threads, ThreadStep(t) PROVE IInv'
  BY <1>3, KeepFetchPrev, KeepErasePrev, KeepFollowLink, KeepRequeue, KeepReadNode, KeepWaitHandle, Zenon
     DEF ThreadStep
<1>4. CASE HaltAbort \/ HaltStep
  BY <1>4, KeepHalt, Zenon DEF HaltStep
<1>5. CASE UNCHANGED eqVars
  <2>1. EqTypeOK /\ HaltInv /\ QuietInv
    BY Zenon DEF IInv
  <2>2. EqTypeOK' /\ HaltInv'
    BY <1>5, <2>1, Zenon DEF eqVars, node, queue, EqTypeOK, HaltInv
  <2> QED
    BY <1>5, <2>1, <2>2, QuietStep, Zenon DEF eqVars, node, queue, QuietInv
<1> QED
  BY <1>1, <1>2, <1>3, <1>4, <1>5, Zenon DEF EqNext

\* At any time at most one thread, event or writer has the token of a nonce, and the nodes tell the
\* order in which AddNew entered them.
THEOREM Invariance == EqSpec => []IInv
<1> QED
  BY InitIInv, NextIInv, PTL DEF EqSpec

\* Two threads never handle events of one peer at the same time.
THEOREM HandledOneAtATime == EqSpec => []OneAtATime
<1>1. IInv => OneAtATime
  <2>1. SUFFICES ASSUME IInv, NEW t \in Threads, NEW u \in Threads, t # u,
                        thread[t].pc = "handle", thread[u].pc = "handle"
                 PROVE  nonce[thread[t].prev] # nonce[thread[u].prev]
    BY DEF OneAtATime
  <2>2. nonce[thread[t].prev] \in Nonces
    BY <2>1, Zenon DEF IInv, ThreadInv, IsCurrent
  <2> QED
    BY <2>1, <2>2, Zenon DEF IInv, OneToken, ThreadHas
<1> QED
  BY <1>1, Invariance, PTL
=============================================================================
