----------------------------- MODULE EventOrder -----------------------------
(***************************************************************************)
(* What a multi-threaded event module promises about its events: those of one   *)
(* nonce (one peer) are handled in the order in which they were posted and one  *)
(* at a time; those of different nonces in any order and at the same time.      *)
(***************************************************************************)
EXTENDS Sequences

CONSTANTS Events, Nonces, NULL

VARIABLES queue,    \* queue[n]: posted and not yet begun
          running   \* running[n]: the event of nonce n that is being handled

Init == /\ queue = [n \in Nonces |-> <<>>]
        /\ running = [n \in Nonces |-> NULL]

Post(n, e) == /\ queue' = [queue EXCEPT ![n] = Append(@, e)]
              /\ UNCHANGED running

Begin(n) == /\ running[n] = NULL
            /\ queue[n] # <<>>
            /\ running' = [running EXCEPT ![n] = Head(queue[n])]
            /\ queue' = [queue EXCEPT ![n] = Tail(@)]

End(n) == /\ running[n] # NULL
          /\ running' = [running EXCEPT ![n] = NULL]
          /\ UNCHANGED queue

Next == \E n \in Nonces : (\E e \in Events : Post(n, e)) \/ Begin(n) \/ End(n)

Spec == Init /\ [][Next]_<<queue, running>>
=============================================================================
