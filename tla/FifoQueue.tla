----------------------------- MODULE FifoQueue -----------------------------
(***************************************************************************)
(* What mpsc_lock_free_queue.c promises its clients: a queue whose every   *)
(* operation takes effect at one instant, between its call and its return. *)
(* result is what the last consumer operation returned.                    *)
(***************************************************************************)
EXTENDS Sequences

CONSTANTS Items, NULL

VARIABLES queue, result

Contents == {queue[i] : i \in DOMAIN queue}

Init == queue = <<>> /\ result = NULL

Enqueue(i) ==
    /\ i \in Items \ Contents
    /\ queue' = Append(queue, i) /\ UNCHANGED result

Dequeue ==
    \/ queue = <<>> /\ result' = NULL /\ UNCHANGED queue
    \/ queue # <<>> /\ result' = Head(queue) /\ queue' = Tail(queue)

Peek ==
    /\ result' = IF queue = <<>> THEN NULL ELSE Head(queue)
    /\ UNCHANGED queue

IsEmpty == result' = (queue = <<>>) /\ UNCHANGED queue

Next == Dequeue \/ Peek \/ IsEmpty \/ \E i \in Items : Enqueue(i)

Spec == Init /\ [][Next]_<<queue, result>>
=============================================================================
