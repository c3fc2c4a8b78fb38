----------------------------- MODULE MpscQueue -----------------------------
(***************************************************************************)
(* The multiple producer, single consumer queue of                         *)
(* src/mpsc_lock_free_queue.c: producers push onto enqueue_head, a singly  *)
(* linked stack; the consumer pops from dequeue_head and, when that is     *)
(* empty, detaches the whole stack and reverses it.                        *)
(*                                                                         *)
(* The lists are kept as the code keeps them, as next pointers, because    *)
(* items come back: a client may enqueue an item again as soon as it was   *)
(* dequeued, while another producer still compares against its address.    *)
(* An action is one access to enqueue_head or one turn of the reversal;    *)
(* dequeue_head and the detached items are the consumer's alone, and an    *)
(* item being enqueued its producer's, so these are read and written with  *)
(* the access they go with.  create and destroy run alone and are the      *)
(* initial state and the end.                                              *)
(***************************************************************************)
EXTENDS Integers, Sequences, SequencesExt

CONSTANTS Producers, Items, NULL

ASSUME MpscQueueAssumption ==
    /\ IsFiniteSet(Items) /\ NULL \notin Items

VARIABLES
    enqueue_head, dequeue_head, next,
    free,         \* items the clients own
    ppc, item,    \* per producer: where it is, the item it enqueues
    cpc,          \* where the consumer is: idle, or reversing for an operation
    cur, newHead, \* the consumer's locals current_item and new_dequeue_head
    result        \* what the last consumer operation returned

producers == <<ppc, item>>
consumer  == <<cpc, cur, newHead>>
vars == <<enqueue_head, dequeue_head, next, free, producers, consumer, result>>

Init ==
    /\ enqueue_head = NULL /\ dequeue_head = NULL
    /\ next = [i \in Items |-> NULL]
    /\ free = Items
    /\ ppc = [p \in Producers |-> "idle"] /\ item = [p \in Producers |-> NULL]
    /\ cpc = "idle" /\ cur = NULL /\ newHead = NULL
    /\ result = NULL

-----------------------------------------------------------------------------
(* enqueue *)

EnqueueStart(p, i) ==
    /\ ppc[p] = "idle" /\ i \in free
    /\ ppc' = [ppc EXCEPT ![p] = "read"]
    /\ item' = [item EXCEPT ![p] = i]
    /\ free' = free \ {i}
    /\ UNCHANGED <<enqueue_head, dequeue_head, next, consumer, result>>

EnqueueRead(p) ==
    /\ ppc[p] = "read"
    /\ next' = [next EXCEPT ![item[p]] = enqueue_head]
    /\ ppc' = [ppc EXCEPT ![p] = "cas"]
    /\ UNCHANGED <<enqueue_head, dequeue_head, free, item, consumer, result>>

\* Mutant: the new value and the value compared with are swapped.
EnqueueCasSwapped(p) ==
    /\ ppc[p] = "cas"
    /\ IF enqueue_head = item[p]
       THEN /\ enqueue_head' = next[item[p]]
            /\ ppc' = [ppc EXCEPT ![p] = "idle"] /\ item' = [item EXCEPT ![p] = NULL]
       ELSE /\ ppc' = [ppc EXCEPT ![p] = "read"]
            /\ UNCHANGED <<enqueue_head, item>>
    /\ UNCHANGED <<dequeue_head, next, free, consumer, result>>

\* current_head, the value compared with, is what the item's next was set to.
EnqueueCas(p) ==
    /\ ppc[p] = "cas"
    /\ IF enqueue_head = next[item[p]]
       THEN /\ enqueue_head' = item[p]
            /\ ppc' = [ppc EXCEPT ![p] = "idle"] /\ item' = [item EXCEPT ![p] = NULL]
       ELSE /\ ppc' = [ppc EXCEPT ![p] = "read"]
            /\ UNCHANGED <<enqueue_head, item>>
    /\ UNCHANGED <<dequeue_head, next, free, consumer, result>>

-----------------------------------------------------------------------------
(* dequeue, peek and is_empty, called by one thread.  The item dequeue       *)
(* returns belongs to the client again.                                      *)

DequeueAdvance ==
    /\ cpc = "idle" /\ dequeue_head # NULL
    /\ result' = dequeue_head
    /\ dequeue_head' = next[dequeue_head]
    /\ free' = free \cup {dequeue_head}
    /\ UNCHANGED <<enqueue_head, next, producers, consumer>>

PeekHead ==
    /\ cpc = "idle" /\ dequeue_head # NULL
    /\ result' = dequeue_head
    /\ UNCHANGED <<enqueue_head, dequeue_head, next, free, producers, consumer>>

\* Mutant: an empty stack is not noticed.
DetachUnchecked(op) ==
    /\ cpc = "idle" /\ dequeue_head = NULL
    /\ enqueue_head' = NULL
    /\ cpc' = op /\ cur' = enqueue_head
    /\ UNCHANGED <<dequeue_head, next, free, newHead, producers, result>>

\* Mutant: the detached items are taken in the order of the stack.
DetachInOrder(op) ==
    /\ cpc = "idle" /\ dequeue_head = NULL
    /\ enqueue_head' = NULL
    /\ IF enqueue_head = NULL
       THEN result' = NULL /\ UNCHANGED <<cpc, newHead>>
       ELSE cpc' = op /\ newHead' = enqueue_head /\ UNCHANGED result
    /\ UNCHANGED <<dequeue_head, next, free, cur, producers>>

\* Nothing left for the consumer: take everything the producers have pushed.
Detach(op) ==
    /\ cpc = "idle" /\ dequeue_head = NULL
    /\ enqueue_head' = NULL
    /\ IF enqueue_head = NULL
       THEN result' = NULL /\ UNCHANGED <<cpc, cur>>
       ELSE cpc' = op /\ cur' = enqueue_head /\ UNCHANGED result
    /\ UNCHANGED <<dequeue_head, next, free, newHead, producers>>

ReverseItem ==
    /\ cpc # "idle" /\ cur # NULL
    /\ next' = [next EXCEPT ![cur] = newHead]
    /\ newHead' = cur /\ cur' = next[cur]
    /\ UNCHANGED <<enqueue_head, dequeue_head, free, cpc, producers, result>>

DequeuePublish ==
    /\ cpc = "dequeue" /\ cur = NULL
    /\ result' = newHead
    /\ dequeue_head' = next[newHead]
    /\ free' = free \cup {newHead}
    /\ newHead' = NULL /\ cpc' = "idle"
    /\ UNCHANGED <<enqueue_head, next, cur, producers>>

\* Mutant: peek hands out the oldest item but does not keep the reversed list.
PeekForgets ==
    /\ cpc = "peek" /\ cur = NULL
    /\ result' = newHead
    /\ newHead' = NULL /\ cpc' = "idle"
    /\ UNCHANGED <<enqueue_head, dequeue_head, next, free, cur, producers>>

PeekPublish ==
    /\ cpc = "peek" /\ cur = NULL
    /\ result' = newHead
    /\ dequeue_head' = newHead
    /\ newHead' = NULL /\ cpc' = "idle"
    /\ UNCHANGED <<enqueue_head, next, free, cur, producers>>

IsEmpty ==
    /\ cpc = "idle"
    /\ result' = (dequeue_head = NULL /\ enqueue_head = NULL)
    /\ UNCHANGED <<enqueue_head, dequeue_head, next, free, producers, consumer>>

-----------------------------------------------------------------------------
ProducerStep(p) == EnqueueRead(p) \/ EnqueueCas(p)

\* The consumer goes on with the operation it is in, or starts a dequeue.
DequeueStep == DequeueAdvance \/ Detach("dequeue") \/ ReverseItem \/ DequeuePublish \/ PeekPublish

Next ==
    \/ \E p \in Producers : ProducerStep(p) \/ \E i \in Items : EnqueueStart(p, i)
    \/ DequeueStep
    \/ PeekHead \/ Detach("peek") \/ IsEmpty

Spec == Init /\ [][Next]_vars

\* A producer inside enqueue keeps running, and so does a consumer inside an
\* operation; nobody has to begin one.
ConsumerContinues == WF_vars(ReverseItem \/ DequeuePublish \/ PeekPublish)
FairSpec ==
    Spec /\ ConsumerContinues /\ \A p \in Producers : WF_vars(ProducerStep(p))

\* The same with a consumer that keeps dequeuing, whatever else it calls.
DequeuingSpec == FairSpec /\ WF_vars(DequeueStep)

-----------------------------------------------------------------------------
(* Properties *)

\* S holds what the queue holds, however it is reached: the lists do not leave S,
\* and one pointer leads to each of its items, from a list's head or an item before.
Holds(S) ==
    LET Heads == {enqueue_head, dequeue_head, cur, newHead} IN
    /\ S \cap free = {} /\ \A p \in Producers : item[p] \notin S
    /\ Heads \subseteq S \cup {NULL} /\ \A i \in S : next[i] \in (S \cup {NULL}) \ (Heads \ {NULL})
    /\ \A i, j \in S : next[i] = next[j] /\ next[i] # NULL => i = j
    /\ enqueue_head # NULL => enqueue_head \notin {dequeue_head, cur, newHead}
    /\ cur # NULL => cur # newHead

\* Every variable stays in its range; the reversal is only entered with something
\* to reverse, so that the head it publishes is an item; and an item is in one
\* place, whatever comes back while a producer still compares with its address:
\* with a client, in one enqueue, or in one of the queue's lists, and in it once.
TypeOK ==
    LET Maybe == Items \cup {NULL} IN
    /\ enqueue_head \in Maybe /\ dequeue_head \in Maybe /\ next \in [Items -> Maybe]
    /\ free \subseteq Items
    /\ ppc \in [Producers -> {"idle", "read", "cas"}] /\ item \in [Producers -> Maybe]
    /\ \A p \in Producers : ppc[p] = "idle" <=> item[p] = NULL
    /\ \A p, q \in Producers : item[p] = item[q] /\ item[p] # NULL => p = q
    /\ \A p \in Producers : item[p] \notin free
    /\ cpc \in {"idle", "dequeue", "peek"} /\ cur \in Maybe /\ newHead \in Maybe
    /\ cpc # "idle" <=> (cur # NULL \/ newHead # NULL)
    /\ cpc # "idle" => dequeue_head = NULL
    /\ result \in Maybe \cup BOOLEAN
    /\ \E S \in SUBSET Items : Holds(S)

\* The items that following next from x reaches, in that order.  One more step
\* than there are items is followed, so that a cycle shows as a repetition.
Chain(x) ==
    LET hop[k \in 1..Cardinality(Items) + 1] ==
            IF k = 1 THEN x ELSE IF hop[k - 1] = NULL THEN NULL ELSE next[hop[k - 1]]
    IN  [k \in 1..Cardinality({j \in DOMAIN hop : hop[j] # NULL}) |-> hop[k]]

\* The items in the queue, oldest first: the consumer's list, what it is
\* reversing, and the producers' stack, whose top is the newest.
Queued ==
    Chain(dequeue_head) \o Reverse(Chain(cur)) \o Chain(newHead) \o Reverse(Chain(enqueue_head))

\* The queue is linearizable to a FIFO queue: enqueue takes effect at its
\* compare-and-swap, dequeue and peek where they take the head of the consumer's
\* list or find the stack empty, is_empty where it reads enqueue_head.
Fifo == INSTANCE FifoQueue WITH queue <- Queued
ImplementsFifo == Fifo!Spec

\* enqueue is lock free: producers that all try at once do not all fail for ever.
SomeEnqueueReturns ==
    (\A p \in Producers : ppc[p] # "idle") ~> (\E p \in Producers : ppc[p] = "idle")

\* A consumer that keeps dequeuing gets every item that was enqueued.
EveryItemDequeued == \A i \in Items : i \in ToSet(Queued) ~> i \in free
=============================================================================
