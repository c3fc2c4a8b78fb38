---------------------------- MODULE ThreadHelper ----------------------------
(***************************************************************************)
(* clds_hazard_pointers_thread_helper.c: a slot of thread local storage    *)
(* keeps the handle under which a thread is registered with the hazard     *)
(* pointers, from its first call until the thread ends.  A thread acts on  *)
(* its own slot only.                                                      *)
(***************************************************************************)
EXTENDS Naturals

CONSTANTS
    Threads,
    MayFail      \* TRUE: registering and TlsSetValue may fail

VARIABLES
    slot,        \* threads whose tls_slot holds a handle
    result,      \* threads in get_thread that hold a handle which is in no slot yet
    registered,  \* per thread the handles clds_hazard_pointers_register_thread gave it
                 \* and clds_hazard_pointers_unregister_thread did not get back
    live         \* the helper is there, and is told when a thread ends

vars == <<slot, result, registered, live>>

Init == /\ slot = {} /\ result = {} /\ live = TRUE
        /\ registered = [t \in Threads |-> 0]

Unregister(t) == registered' = [registered EXCEPT ![t] = @ - 1]

\* TlsGetValue finds the handle of an earlier call.
HasHandle(t) == t \in slot /\ UNCHANGED vars

Register(t) ==
    /\ t \notin slot /\ result' = result \cup {t}
    /\ registered' = [registered EXCEPT ![t] = @ + 1]
    /\ UNCHANGED <<slot, live>>

RegisterFails(t) == MayFail /\ t \notin slot /\ UNCHANGED vars

SetSlot(t) ==
    /\ t \in result /\ result' = result \ {t} /\ slot' = slot \cup {t}
    /\ UNCHANGED <<registered, live>>

\* Mutant: the handle is not given back when it cannot be stored.
SetSlotLeaks(t) ==
    /\ MayFail /\ t \in result /\ result' = result \ {t}
    /\ UNCHANGED <<slot, registered, live>>

SetSlotFails(t) ==
    /\ MayFail /\ t \in result /\ result' = result \ {t}
    /\ Unregister(t) /\ UNCHANGED <<slot, live>>

\* clds_hazard_pointers_thread_helper_thread_notification, as a thread ends that
\* has a handle.  The next thread in this model's place starts with an empty slot.
ThreadEnds(t) ==
    /\ live /\ t \in slot /\ slot' = slot \ {t}
    /\ Unregister(t) /\ UNCHANGED <<result, live>>

\* Who is registered now stays registered, until the hazard pointers are destroyed.
Destroy == live /\ live' = FALSE /\ slot' = {} /\ UNCHANGED <<result, registered>>
=============================================================================
