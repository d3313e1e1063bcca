----------------------------- MODULE ChunkQueue -----------------------------
(* include/rtcdcpp/ChunkQueue.hpp: the blocking queue with a Stop that joins *)
(* every pair of threads of the library.  Each method holds the mutex for    *)
(* all of its body, so it is one step; wait_and_pop gives the mutex up only  *)
(* inside of data_cond.wait, and is one step before and one after it.        *)
(*                                                                           *)
(* A chunk is the number of its push: the data in it does not matter.        *)
EXTENDS Naturals, Sequences, FiniteSets

CONSTANTS
    Consumers,  \* the threads that call wait_and_pop
    MaxPushes   \* bound on the number of chunks pushed

ASSUME ConsumersAssumption == IsFiniteSet(Consumers)
ASSUME PushesAssumption == MaxPushes \in Nat

VARIABLES
    chunk_queue,
    stopping,
    pc,       \* outside: not in a call; entering: about to take the mutex;
              \* blocked: in data_cond.wait; woken: to take the mutex again
    got,      \* what the consumer's last call returned; 0 is ChunkPtr()
    pushed    \* how many chunks have been accepted

vars == <<chunk_queue, stopping, pc, got, pushed>>

Blocked == {c \in Consumers : pc[c] = "blocked"}
Woken == {c \in Consumers : pc[c] = "woken"}

Init ==
    /\ chunk_queue = <<>>
    /\ stopping = FALSE
    /\ pc = [c \in Consumers |-> "outside"]
    /\ got = [c \in Consumers |-> 0]
    /\ pushed = 0

\* data_cond.notify_one(): it wakes one of the waiting threads, if any.
NotifyOne ==
    \/ /\ Blocked = {}
       /\ UNCHANGED pc
    \/ \E c \in Blocked : pc' = [pc EXCEPT ![c] = "woken"]

\* data_cond.notify_all()
NotifyAll ==
    pc' = [c \in Consumers |-> IF c \in Blocked THEN "woken" ELSE pc[c]]

\* Mutant of Push: no notification.
PushSilently ==
    /\ ~stopping
    /\ pushed < MaxPushes
    /\ pushed' = pushed + 1
    /\ chunk_queue' = Append(chunk_queue, pushed + 1)
    /\ UNCHANGED <<stopping, got, pc>>

\* Mutant of Push: only the push that makes the queue non-empty notifies.
PushNotifyingFirst ==
    /\ ~stopping
    /\ pushed < MaxPushes
    /\ pushed' = pushed + 1
    /\ chunk_queue' = Append(chunk_queue, pushed + 1)
    /\ IF chunk_queue = <<>> THEN NotifyOne ELSE UNCHANGED pc
    /\ UNCHANGED <<stopping, got>>

Push ==
    /\ ~stopping
    /\ pushed < MaxPushes
    /\ pushed' = pushed + 1
    /\ chunk_queue' = Append(chunk_queue, pushed + 1)
    /\ NotifyOne
    /\ UNCHANGED <<stopping, got>>

\* Mutant of Stop: notify_one.
StopOne ==
    /\ stopping' = TRUE
    /\ NotifyOne
    /\ UNCHANGED <<chunk_queue, got, pushed>>

\* Stop is called more than once: by the owner and by the owner's destructor.
\* After it push returns at once, without any effect.
Stop ==
    /\ stopping' = TRUE
    /\ NotifyAll
    /\ UNCHANGED <<chunk_queue, got, pushed>>

Call(c) ==
    /\ pc[c] = "outside"
    /\ pc' = [pc EXCEPT ![c] = "entering"]
    /\ UNCHANGED <<chunk_queue, stopping, got, pushed>>

\* c holds the mutex and looks at the condition of the while loop.
Looks(c) == pc[c] \in {"entering", "woken"}

Wait(c) ==
    /\ Looks(c)
    /\ ~stopping
    /\ chunk_queue = <<>>
    /\ pc' = [pc EXCEPT ![c] = "blocked"]
    /\ UNCHANGED <<chunk_queue, stopping, got, pushed>>

\* Mutant of ReturnNull: only an empty queue is given up when stopping.
DrainFirst(c) ==
    /\ Looks(c)
    /\ stopping
    /\ IF chunk_queue = <<>>
       THEN /\ got' = [got EXCEPT ![c] = 0]
            /\ UNCHANGED chunk_queue
       ELSE /\ got' = [got EXCEPT ![c] = Head(chunk_queue)]
            /\ chunk_queue' = Tail(chunk_queue)
    /\ pc' = [pc EXCEPT ![c] = "outside"]
    /\ UNCHANGED <<stopping, pushed>>

\* Whatever is still in the queue stays there.
ReturnNull(c) ==
    /\ Looks(c)
    /\ stopping
    /\ got' = [got EXCEPT ![c] = 0]
    /\ pc' = [pc EXCEPT ![c] = "outside"]
    /\ UNCHANGED <<chunk_queue, stopping, pushed>>

Pop(c) ==
    /\ Looks(c)
    /\ ~stopping
    /\ chunk_queue # <<>>
    /\ got' = [got EXCEPT ![c] = Head(chunk_queue)]
    /\ chunk_queue' = Tail(chunk_queue)
    /\ pc' = [pc EXCEPT ![c] = "outside"]
    /\ UNCHANGED <<stopping, pushed>>

\* The condition variable may wake a thread without a notification.
WakesSpuriously(c) ==
    /\ pc[c] = "blocked"
    /\ pc' = [pc EXCEPT ![c] = "woken"]
    /\ UNCHANGED <<chunk_queue, stopping, got, pushed>>

Runs(c) == Wait(c) \/ ReturnNull(c) \/ Pop(c)

Next ==
    \/ Push
    \/ Stop
    \/ \E c \in Consumers : Call(c) \/ Runs(c) \/ WakesSpuriously(c)

Spec == Init /\ [][Next]_vars

\* A thread that wants the mutex gets it in the end.  Nothing is assumed of
\* producers, of Stop, or of spurious wake-ups.
FairSpec == Spec /\ \A c \in Consumers : WF_vars(Runs(c))
-----------------------------------------------------------------------------
(* Properties                                                                *)

TypeOK ==
    /\ chunk_queue \in Seq(Nat)
    /\ stopping \in BOOLEAN
    /\ pc \in [Consumers -> {"outside", "entering", "blocked", "woken"}]
    /\ got \in [Consumers -> Nat]
    /\ pushed \in Nat

\* The queue holds the last chunks pushed, in order, without a gap.
InOrder ==
    /\ Len(chunk_queue) <= pushed
    /\ \A i \in 1 .. Len(chunk_queue) :
          chunk_queue[i] = pushed - Len(chunk_queue) + i

\* No wake-up is lost: as long as a thread sleeps in wait_and_pop, every chunk
\* in the queue has a woken thread of its own that is on its way to it, even
\* though any other caller may overtake that thread and take the chunk.
NoLostWakeup ==
    Blocked # {} => Cardinality(Woken) >= Len(chunk_queue)

\* Stop releases everybody: afterwards nobody sleeps in wait_and_pop, nor
\* goes to sleep in it, so that the owner's join returns.
StopReleases == stopping => Blocked = {}

\* The inductive invariant.
QueueInv == TypeOK /\ InOrder /\ NoLostWakeup /\ StopReleases

Belt == INSTANCE Conveyor WITH
    Takers <- Consumers,
    put <- pushed,
    taken <- pushed - Len(chunk_queue),
    closed <- stopping,
    asking <- {c \in Consumers : pc[c] # "outside"}

\* The queue delivers what Conveyor promises: in order, once, as soon as it is
\* there, and nothing after Stop; every caller is answered after Stop.
Delivers == Belt!ConveyorSpec

=============================================================================
