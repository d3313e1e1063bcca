-------------------------- MODULE ChunkQueueProofs --------------------------
(* Proofs about ChunkQueue, for every finite set of consumers and every      *)
(* number of pushes.                                                         *)
EXTENDS ChunkQueue, FiniteSetTheorems, TLAPS

\* Waking a blocked thread adds it to the woken ones.
LEMMA WakeOne ==
    ASSUME TypeOK, NEW c \in Blocked, pc' = [pc EXCEPT ![c] = "woken"]
    PROVE  /\ Woken' = Woken \cup {c}
           /\ Blocked' = Blocked \ {c}
           /\ Cardinality(Woken') = Cardinality(Woken) + 1
<1>1. Woken' = Woken \cup {c} /\ Blocked' = Blocked \ {c} /\ c \notin Woken
  BY DEF TypeOK, Woken, Blocked
<1>2. IsFiniteSet(Woken)
  BY ConsumersAssumption, FS_Subset DEF Woken
<1> QED  BY <1>1, <1>2, FS_AddElement

\* A thread that was not blocked leaves the queue's mutex: it is no longer
\* among the woken ones, if it was, and nobody else is concerned.
LEMMA LeaveMutex ==
    ASSUME TypeOK, NEW c \in Consumers, Looks(c),
           NEW place \in {"outside", "blocked"}, pc' = [pc EXCEPT ![c] = place]
    PROVE  /\ Cardinality(Woken') \in Nat
           /\ Cardinality(Woken) \in Nat
           /\ Cardinality(Woken') + 1 >= Cardinality(Woken)
           /\ place = "outside" => Blocked' = Blocked
<1>1. Woken' = Woken \ {c} /\ (place = "outside" => Blocked' = Blocked)
  BY DEF TypeOK, Woken, Blocked, Looks
<1>2. IsFiniteSet(Woken)
  BY ConsumersAssumption, FS_Subset DEF Woken
<1>3. Cardinality(Woken) \in Nat
  BY <1>2, FS_CardinalityType
<1>4. CASE c \in Woken
  <2>1. /\ IsFiniteSet(Woken \ {c})
        /\ Cardinality(Woken \ {c}) = Cardinality(Woken) - 1
    BY <1>2, <1>4, FS_RemoveElement
  <2>2. Cardinality(Woken \ {c}) \in Nat
    BY <2>1, FS_CardinalityType
  <2> QED  BY <1>1, <1>3, <2>1, <2>2
<1>5. CASE c \notin Woken
  <2>1. Woken' = Woken
    BY <1>1, <1>5
  <2> QED  BY <1>1, <1>3, <2>1
<1> QED  BY <1>4, <1>5

LEMMA InitInv == Init => QueueInv
<1> SUFFICES ASSUME Init PROVE QueueInv
  OBVIOUS
<1>0. chunk_queue \in Seq(Nat) /\ Len(chunk_queue) = 0
  BY DEF Init
<1>1. TypeOK
  <2>1. pc \in [Consumers -> {"outside", "entering", "blocked", "woken"}]
    BY DEF Init
  <2>2. got \in [Consumers -> Nat] /\ pushed \in Nat /\ stopping \in BOOLEAN
    BY DEF Init
  <2> QED  BY <1>0, <2>1, <2>2 DEF TypeOK
<1>3. InOrder
  <2>1. pushed = 0
    BY DEF Init
  <2> QED  BY <1>0, <2>1 DEF InOrder
<1>2. Blocked = {}
  BY DEF Init, Blocked
<1> QED  BY <1>1, <1>2, <1>3 DEF QueueInv, NoLostWakeup, StopReleases

\* A push adds one chunk, and one woken thread if anybody is blocked.
LEMMA PushInv ==
    ASSUME QueueInv, Push
    PROVE  QueueInv'
<1> USE DEF QueueInv
<1>1. TypeOK'
  BY DEF Push, NotifyOne, TypeOK, Blocked
<1>2. Len(chunk_queue') = Len(chunk_queue) + 1
  BY DEF Push, TypeOK
<1>3. InOrder'
  BY <1>2 DEF Push, TypeOK, InOrder
<1>4. NoLostWakeup'
  <2>1. CASE Blocked = {} /\ UNCHANGED pc
    BY <2>1 DEF NoLostWakeup, Blocked
  <2>2. ASSUME NEW c \in Blocked, pc' = [pc EXCEPT ![c] = "woken"]
        PROVE  NoLostWakeup'
    <3>1. IsFiniteSet(Woken)
      BY ConsumersAssumption, FS_Subset DEF Woken
    <3>2. Cardinality(Woken) \in Nat /\ Cardinality(Woken) >= Len(chunk_queue)
      BY <2>2, <3>1, FS_CardinalityType DEF NoLostWakeup
    <3>3. Cardinality(Woken') = Cardinality(Woken) + 1
      BY <2>2, WakeOne
    <3>4. Len(chunk_queue) \in Nat
      BY DEF TypeOK
    <3> QED  BY <1>2, <3>2, <3>3, <3>4 DEF NoLostWakeup
  <2> QED  BY <2>1, <2>2 DEF Push, NotifyOne
<1>5. StopReleases'
  BY DEF Push, StopReleases
<1> QED  BY <1>1, <1>3, <1>4, <1>5

LEMMA StopInv ==
    ASSUME QueueInv, Stop
    PROVE  QueueInv'
<1> USE DEF QueueInv
<1>1. TypeOK'
  BY DEF Stop, NotifyAll, TypeOK
<1>2. Blocked' = {}
  BY DEF Stop, NotifyAll, TypeOK, Blocked
<1>3. InOrder'
  BY DEF Stop, InOrder
<1> QED  BY <1>1, <1>2, <1>3 DEF NoLostWakeup, StopReleases

\* A consumer goes to sleep only over an empty queue that is not stopping.
LEMMA WaitInv ==
    ASSUME QueueInv, NEW c \in Consumers, Wait(c)
    PROVE  QueueInv'
<1> USE DEF QueueInv
<1>1. TypeOK'
  BY DEF Wait, TypeOK
<1>2. InOrder' /\ StopReleases'
  BY DEF Wait, InOrder, StopReleases
<1>3. Cardinality(Woken') \in Nat
  BY LeaveMutex DEF Wait
<1>4. Len(chunk_queue') = 0
  BY DEF Wait
<1> QED  BY <1>1, <1>2, <1>3, <1>4 DEF NoLostWakeup

LEMMA ReturnNullInv ==
    ASSUME QueueInv, NEW c \in Consumers, ReturnNull(c)
    PROVE  QueueInv'
<1> USE DEF QueueInv
<1>1. TypeOK'
  BY DEF ReturnNull, TypeOK
<1>2. InOrder'
  BY DEF ReturnNull, InOrder
<1>3. Blocked' = {}
  BY LeaveMutex DEF ReturnNull, StopReleases
<1> QED  BY <1>1, <1>2, <1>3 DEF NoLostWakeup, StopReleases

\* A pop takes one chunk and at most one woken thread.
LEMMA PopInv ==
    ASSUME QueueInv, NEW c \in Consumers, Pop(c)
    PROVE  QueueInv'
<1> USE DEF QueueInv
<1>1. /\ Len(chunk_queue') = Len(chunk_queue) - 1
      /\ Len(chunk_queue) \in Nat
      /\ \A i \in 1 .. Len(chunk_queue') : chunk_queue'[i] = chunk_queue[i + 1]
      /\ chunk_queue' \in Seq(Nat)
      /\ Head(chunk_queue) \in Nat
  BY DEF Pop, TypeOK
<1>2. TypeOK'
  BY <1>1 DEF Pop, TypeOK
<1>3. InOrder'
  BY <1>1 DEF Pop, TypeOK, InOrder
<1>4. /\ Cardinality(Woken') \in Nat
      /\ Cardinality(Woken) \in Nat
      /\ Cardinality(Woken') + 1 >= Cardinality(Woken)
      /\ Blocked' = Blocked
  BY LeaveMutex DEF Pop
<1>5. NoLostWakeup'
  BY <1>1, <1>4 DEF NoLostWakeup
<1>6. StopReleases'
  BY <1>4 DEF Pop, StopReleases
<1> QED  BY <1>2, <1>3, <1>5, <1>6

LEMMA CallInv ==
    ASSUME QueueInv, NEW c \in Consumers, Call(c)
    PROVE  QueueInv'
<1>1. Blocked' = Blocked /\ Woken' = Woken
  BY DEF Call, QueueInv, TypeOK, Blocked, Woken
<1> QED
  BY <1>1 DEF Call, QueueInv, TypeOK, InOrder, NoLostWakeup, StopReleases

LEMMA SpuriousInv ==
    ASSUME QueueInv, NEW c \in Consumers, WakesSpuriously(c)
    PROVE  QueueInv'
<1> USE DEF QueueInv
<1>1. TypeOK' /\ InOrder'
  BY DEF WakesSpuriously, TypeOK, InOrder
<1>2. c \in Blocked
  BY DEF WakesSpuriously, Blocked
<1>3. Blocked' = Blocked \ {c} /\ Cardinality(Woken') = Cardinality(Woken) + 1
  BY <1>2, WakeOne DEF WakesSpuriously
<1>4. StopReleases'
  BY <1>2, <1>3 DEF StopReleases, WakesSpuriously
<1>5. NoLostWakeup'
  <2>1. IsFiniteSet(Woken)
    BY ConsumersAssumption, FS_Subset DEF Woken
  <2>2. Cardinality(Woken) \in Nat /\ Cardinality(Woken) >= Len(chunk_queue)
    BY <1>2, <2>1, FS_CardinalityType DEF NoLostWakeup
  <2>3. Len(chunk_queue) \in Nat /\ chunk_queue' = chunk_queue
    BY DEF TypeOK, WakesSpuriously
  <2> QED  BY <1>3, <2>2, <2>3 DEF NoLostWakeup
<1> QED  BY <1>1, <1>4, <1>5

LEMMA NextInv ==
    ASSUME QueueInv, [Next]_vars
    PROVE  QueueInv'
<1>1. CASE UNCHANGED vars
  BY <1>1 DEF vars, QueueInv, TypeOK, InOrder, NoLostWakeup, StopReleases,
              Blocked, Woken
<1>2. CASE Next
  BY <1>2, PushInv, StopInv, WaitInv, ReturnNullInv, PopInv, CallInv, SpuriousInv
     DEF Next, Runs
<1> QED  BY <1>1, <1>2

\* The inductive invariant of the queue holds in every run of it.
THEOREM QueueCorrect == Spec => []QueueInv
<1>1. QueueInv /\ [Next]_vars => QueueInv'
  BY NextInv
<1> QED  BY InitInv, <1>1, PTL DEF Spec

\* push's notify_one is enough: nobody sleeps over a chunk that no woken
\* thread is on its way to, however many consumers share the queue.
THEOREM NoLostWakeupCorrect == Spec => []NoLostWakeup
<1>1. QueueInv => NoLostWakeup
  BY DEF QueueInv
<1> QED  BY <1>1, QueueCorrect, PTL

\* After Stop nobody sleeps in wait_and_pop: the owner's join returns.
THEOREM StopReleasesCorrect == Spec => []StopReleases
<1>1. QueueInv => StopReleases
  BY DEF QueueInv
<1> QED  BY <1>1, QueueCorrect, PTL

-----------------------------------------------------------------------------
(* The safety part of Delivers.                                              *)

LEMMA BeltInit == Init => Belt!ConveyorInit
<1> SUFFICES ASSUME Init PROVE Belt!ConveyorInit
  OBVIOUS
<1>1. Len(chunk_queue) = 0
  BY DEF Init
<1>2. {c \in Consumers : pc[c] # "outside"} = {}
  BY DEF Init
<1>3. pushed - Len(chunk_queue) = 0
  <2>1. pushed = 0
    BY DEF Init
  <2> QED  BY <1>1, <2>1
<1> QED  BY <1>2, <1>3 DEF Init, Belt!ConveyorInit

\* Every step of the queue is a step of the conveyor, or none.
LEMMA BeltStep ==
    ASSUME QueueInv, [Next]_vars
    PROVE  [Belt!ConveyorNext]_(Belt!cvars)
<1> DEFINE asks == {c \in Consumers : pc[c] # "outside"}
           off == pushed - Len(chunk_queue)
<1>0. /\ Len(chunk_queue) \in Nat
      /\ pushed \in Nat
      /\ off \in Nat
      /\ pc \in [Consumers -> {"outside", "entering", "blocked", "woken"}]
  BY DEF QueueInv, TypeOK, InOrder
<1>1. CASE UNCHANGED vars
  BY <1>1 DEF vars, Belt!cvars
<1>2. CASE Push
  <2>1. Len(chunk_queue') = Len(chunk_queue) + 1
    BY <1>2 DEF Push, QueueInv, TypeOK
  <2>2. off' = off
    BY <1>0, <1>2, <2>1 DEF Push
  <2>3. asks' = asks
    BY <1>0, <1>2 DEF Push, NotifyOne, Blocked
  <2>4. Belt!Put
    BY <1>2, <2>2, <2>3 DEF Push, Belt!Put
  <2> QED  BY <2>4 DEF Belt!ConveyorNext
<1>3. CASE Stop
  <2>1. asks' = asks
    BY <1>0, <1>3 DEF Stop, NotifyAll, Blocked
  <2>2. Belt!Close
    BY <1>3, <2>1 DEF Stop, Belt!Close
  <2> QED  BY <2>2 DEF Belt!ConveyorNext
<1>4. ASSUME NEW c \in Consumers, Call(c)
      PROVE  Belt!ConveyorNext
  <2>1. asks' = asks \cup {c} /\ c \notin asks
    BY <1>0, <1>4 DEF Call
  <2>2. Belt!Ask(c)
    BY <1>4, <2>1 DEF Call, Belt!Ask
  <2> QED  BY <2>2 DEF Belt!ConveyorNext
<1>5. ASSUME NEW c \in Consumers, Wait(c) \/ WakesSpuriously(c)
      PROVE  UNCHANGED Belt!cvars
  <2>1. asks' = asks
    BY <1>0, <1>5 DEF Wait, WakesSpuriously, Looks
  <2> QED  BY <1>5, <2>1 DEF Wait, WakesSpuriously, Belt!cvars
<1>6. ASSUME NEW c \in Consumers, ReturnNull(c)
      PROVE  Belt!ConveyorNext
  <2>1. asks' = asks \ {c} /\ c \in asks
    BY <1>0, <1>6 DEF ReturnNull, Looks
  <2>2. Belt!Refuse(c)
    BY <1>6, <2>1 DEF ReturnNull, Belt!Refuse
  <2> QED  BY <2>2 DEF Belt!ConveyorNext
<1>7. ASSUME NEW c \in Consumers, Pop(c)
      PROVE  Belt!ConveyorNext
  <2>1. asks' = asks \ {c} /\ c \in asks
    BY <1>0, <1>7 DEF Pop, Looks
  <2>2. /\ Len(chunk_queue) > 0
        /\ Len(chunk_queue') = Len(chunk_queue) - 1
        /\ Head(chunk_queue) = chunk_queue[1]
    BY <1>7 DEF Pop, QueueInv, TypeOK
  <2>3. Head(chunk_queue) = off + 1
    BY <1>0, <2>2 DEF QueueInv, InOrder
  <2>4. off' = off + 1 /\ off < pushed
    BY <1>0, <1>7, <2>2 DEF Pop
  <2>5. Belt!Take(c)
    BY <1>7, <2>1, <2>3, <2>4 DEF Pop, Belt!Take
  <2> QED  BY <2>5 DEF Belt!ConveyorNext
<1> QED  BY <1>1, <1>2, <1>3, <1>4, <1>5, <1>6, <1>7 DEF Next, Runs

\* Whatever its threads do, the queue hands out the chunks in the order of
\* their pushes, each of them once, and none after Stop.
THEOREM DeliversSafely == Spec => Belt!ConveyorSafe
<1>1. QueueInv /\ [Next]_vars => [Belt!ConveyorNext]_(Belt!cvars)
  BY BeltStep
<1> QED
  BY BeltInit, QueueCorrect, <1>1, PTL DEF Spec, Belt!ConveyorSafe
=============================================================================
