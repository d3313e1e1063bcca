-------------------------- MODULE SignallingProofs --------------------------
(* Theorems about SignallingServer.  The first part is about every           *)
(* population of clients, with sends that suspend their tasks or not; two    *)
(* theorems of it need peers with uids of their own.                         *)
(*                                                                           *)
(* The second part: AtomicInv is an invariant when no send suspends its task *)
(* and every connection has a uid of its own, and with it the bidirectional  *)
(* sessions, the release of the uids, one voice per connection, and the      *)
(* safety part of Matchmaker, whose sessions are 1-1.  Both assumptions are  *)
(* needed: the runs that drop either of them find counterexamples.           *)
EXTENDS SignallingAtomic, TLAPS

\* The shape of the parts that the end of a task changes.
LeaveShape ==
    /\ peers \in PeerDicts
    /\ sessions \in SessionDicts
    /\ pc \in [Conns -> Places]
    /\ other \in [Conns -> Others]
    /\ open \in [Conns -> BOOLEAN]

\* What the hello of a connection and the roles are made of.
LEMMA ClassFacts ==
    ASSUME NEW c \in Conns
    PROVE  /\ Class(c) \in Classes \cup {"Other"}
           /\ Uid(c) \in Uids
           /\ Kind(Class(c)) \in Kinds
           /\ Opposite(Class(c)) \in Classes
  BY HelloAssumption DEF Class, Uid, Kind, Opposite, CarClass, ControllerClass, Classes,
                         Kinds, Hellos

\* Ending a task keeps the shapes.
LEMMA EndsShape ==
    ASSUME NEW c \in Conns, NEW closed, LeaveShape, Ends(c, closed)
    PROVE  /\ pc' \in [Conns -> Places]
           /\ other' \in [Conns -> Others]
           /\ open' \in [Conns -> BOOLEAN]
  BY DEF LeaveShape, Ends, Places, Others, NoOther

\* Whatever dictionaries the exception left, remove_peer keeps the shapes.
LEMMA DeregisterShape ==
    ASSUME NEW c \in Conns, NEW P \in PeerDicts, NEW S \in SessionDicts,
           LeaveShape, Deregister(c, P, S)
    PROVE  LeaveShape'
<1>1. peers' \in PeerDicts
  BY ClassFacts DEF Deregister, PeerDicts, Absent, Entry
<1>2. sessions' \in SessionDicts
  BY DEF Deregister
<1>3. QED
  BY <1>1, <1>2, EndsShape DEF Deregister, LeaveShape

LEMMA HangUpShape ==
    ASSUME NEW c \in Conns, NEW P \in PeerDicts, NEW S \in SessionDicts,
           NEW k \in Kinds, NEW o \in Uids,
           LeaveShape, HangUp(c, P, S, k, o)
    PROVE  LeaveShape'
<1> DEFINE cl == IF Has(P, ControllerClass(k), o) THEN ControllerClass(k)
                                                  ELSE CarClass(k)
<1>1. cl \in Classes
  BY DEF ControllerClass, CarClass, Classes
<1>2. sessions' \in SessionDicts
  BY DEF HangUp, SessionDicts
<1>3. CASE Has(P, cl, o)
  <2>1. peers' = [P EXCEPT ![cl][o] = Absent]
    BY <1>3 DEF HangUp
  <2>2. peers' \in PeerDicts
    BY <1>1, <2>1 DEF PeerDicts, Absent, Entry
  <2>3. pc' \in [Conns -> Places] /\ other' \in [Conns -> Others]
    BY <1>3 DEF HangUp, LeaveShape, Places, Others, NoOther
  <2>4. open' \in [Conns -> BOOLEAN]
    BY <1>3 DEF HangUp, LeaveShape
  <2>5. QED
    BY <1>2, <2>2, <2>3, <2>4 DEF LeaveShape
<1>4. CASE ~Has(P, cl, o)
  BY <1>2, <1>4, EndsShape DEF HangUp, LeaveShape
<1>5. QED
  BY <1>3, <1>4

LEMMA LeaveKeepsShape ==
    ASSUME NEW c \in Conns, NEW P \in PeerDicts, NEW S \in SessionDicts,
           LeaveShape, Leave(c, P, S)
    PROVE  LeaveShape'
<1> DEFINE o == S["data"][Uid(c)]
           S1 == [S EXCEPT !["data"][Uid(c)] = NoUid]
<1>1. S1 \in SessionDicts /\ o \in Uids \cup {NoUid}
  BY ClassFacts DEF SessionDicts, Kinds
<1>2. CASE Deregister(c, P, S)
  BY <1>2, DeregisterShape
<1>3. CASE o # NoUid /\ HangUp(c, P, S1, "data", o)
  BY <1>1, <1>3, HangUpShape DEF Kinds
<1>4. CASE o # NoUid /\ HangUp(c, P, S1, "video", o)
  BY <1>1, <1>4, HangUpShape DEF Kinds
<1>5. CASE Deregister(c, P, S1)
  BY <1>1, <1>5, DeregisterShape
<1>6. QED
  BY <1>2, <1>3, <1>4, <1>5 DEF Leave

\* The rest of TypeOK, which the end of a task leaves alone.
ClientShape ==
    /\ unread \in [Conns -> 0..MaxUnread]
    /\ told \in [Conns -> BOOLEAN]
    /\ heard \in [Conns -> SUBSET Conns]

LEMMA TypeSplit == TypeOK <=> LeaveShape /\ ClientShape
  BY DEF TypeOK, LeaveShape, ClientShape

LEMMA TypeInit == Init => TypeOK
  BY UnreadAssumption DEF Init, TypeOK, PeerDicts, SessionDicts, Places, Others,
     NoOther, Entry, Absent

LEMMA ReceiveType ==
    ASSUME NEW c \in Conns, TypeOK, Receive(c)
    PROVE  unread' \in [Conns -> 0..MaxUnread]
  BY UnreadAssumption DEF TypeOK, Receive

\* Marking an entry keeps the dictionary's shape, also when the key is none.
LEMMA MarkShape ==
    ASSUME NEW P \in PeerDicts, NEW cl \in Classes \cup {"Other"},
           NEW u \in Uids \cup {NoUid}
    PROVE  MarkInSession(P, cl, u) \in PeerDicts
<1>1. CASE cl \in Classes /\ u \in Uids
  <2>1. [ws |-> P[cl][u].ws, inSession |-> TRUE] \in Entry
    BY <1>1 DEF PeerDicts, Entry
  <2>2. QED
    BY <1>1, <2>1 DEF MarkInSession, PeerDicts
<1>2. CASE cl \notin Classes \/ u \notin Uids
  BY <1>2 DEF MarkInSession, PeerDicts
<1>3. QED
  BY <1>1, <1>2

\* A pairing keeps the shapes, whether it completes or one of its lookups
\* raises.
LEMMA PairAssignShape ==
    ASSUME NEW c \in Conns, TypeOK, PairAssign(c)
    PROVE  LeaveShape'
<1> DEFINE cl == Class(c)
           u == Uid(c)
           v == other[c].uid
           k == Kind(cl)
           P1 == MarkInSession(peers, cl, u)
           S1 == [sessions EXCEPT ![k][u] = v]
<1>1. /\ LeaveShape
      /\ v \in Uids \cup {NoUid}
      /\ u \in Uids
      /\ k \in Kinds
      /\ cl \in Classes \cup {"Other"}
      /\ Opposite(cl) \in Classes
  BY ClassFacts DEF TypeOK, LeaveShape, Others
<1>2. P1 \in PeerDicts
  BY <1>1, MarkShape DEF LeaveShape
<1>3. S1 \in SessionDicts
  BY <1>1 DEF LeaveShape, SessionDicts
<1>4. CASE /\ peers' = MarkInSession(P1, Opposite(cl), v)
           /\ sessions' = [S1 EXCEPT ![k][v] = u]
           /\ pc' = [pc EXCEPT ![c] = "recv"]
           /\ other' = [other EXCEPT ![c] = NoOther]
           /\ UNCHANGED open
  <2> HIDE DEF P1, S1, k, cl, u, v
  <2>1. peers' \in PeerDicts
    BY <1>1, <1>2, <1>4, MarkShape
  <2>2. sessions' \in SessionDicts
    BY <1>1, <1>3, <1>4 DEF SessionDicts
  <2>3. QED
    BY <1>1, <1>4, <2>1, <2>2 DEF LeaveShape, Places, Others, NoOther
<1>5. CASE Leave(c, P1, S1)
  BY <1>1, <1>2, <1>3, <1>5, LeaveKeepsShape
<1>6. CASE Leave(c, peers, sessions)
  BY <1>1, <1>6, LeaveKeepsShape DEF LeaveShape
<1>7. QED
  BY <1>4, <1>5, <1>6 DEF PairAssign

\* Every step of a task that goes through Leave keeps the shapes.
LEMMA LeavingShape ==
    ASSUME NEW c \in Conns, TypeOK, Leave(c, peers, sessions)
    PROVE  LeaveShape'
  BY TypeSplit, LeaveKeepsShape DEF LeaveShape

LEMMA TypeNext == TypeOK /\ [Next]_vars => TypeOK'
<1> SUFFICES ASSUME TypeOK, [Next]_vars PROVE TypeOK'
  OBVIOUS
<1>a. LeaveShape /\ ClientShape
  BY TypeSplit
<1>c. LeaveShape' /\ ClientShape' => TypeOK'
  BY DEF TypeOK, LeaveShape, ClientShape
<1>0. CASE UNCHANGED vars
  BY <1>0, <1>a DEF vars, TypeOK
<1> SUFFICES ASSUME NEW c \in Conns, Task(c) \/ Client(c) PROVE TypeOK'
  BY <1>0 DEF Next
<1>b. /\ Class(c) \in Classes \cup {"Other"}
      /\ Uid(c) \in Uids
      /\ Opposite(Class(c)) \in Classes
  BY ClassFacts
<1>1. ASSUME Connect(c) PROVE TypeOK'
  BY <1>1 DEF Connect, TypeOK, Places
<1>2. ASSUME ClientSends(c) PROVE TypeOK'
  BY <1>2, UnreadAssumption DEF ClientSends, TypeOK
<1>3. ASSUME ClientCloses(c) PROVE TypeOK'
  BY <1>3 DEF ClientCloses, TypeOK
<1>4. ASSUME AcceptHello(c) PROVE TypeOK'
  BY <1>4, UnreadAssumption DEF AcceptHello, HelloAccepted, TypeOK, Places
<1>5. ASSUME RejectHello(c) PROVE TypeOK'
  BY <1>5, <1>a, EndsShape DEF RejectHello, TypeOK, LeaveShape
<1>6. ASSUME Register(c) PROVE TypeOK'
  <2>1. peers' \in PeerDicts
    BY <1>6, <1>b DEF Register, TypeOK, PeerDicts, Entry
  <2>2. QED
    BY <1>6, <2>1 DEF Register, TypeOK, Places
<1>7. ASSUME GreetFails(c) PROVE TypeOK'
  BY <1>7, <1>a, EndsShape DEF GreetFails, TypeOK, LeaveShape
<1>8. ASSUME RecvClosed(c) PROVE TypeOK'
  BY <1>8, <1>a, LeavingShape, <1>c DEF RecvClosed, ClientShape
<1>9. ASSUME LookupFails(c) PROVE TypeOK'
  BY <1>9, <1>a, LeavingShape, ReceiveType, <1>c DEF LookupFails, ClientShape
<1>10. ASSUME Relay(c) PROVE TypeOK'
  <2> DEFINE wso == peers[Opposite(Class(c))][OtherId(c)].ws
  <2>1. OtherId(c) \in Uids
    BY <1>10, ClassFacts, SMTT(40) DEF Relay, Routable, OtherId, TypeOK, SessionDicts
  <2>2. wso \in Conns \cup {NoConn}
    BY <1>b, <2>1 DEF TypeOK, PeerDicts, Entry
  <2>3. /\ heard' = [heard EXCEPT ![wso] = @ \cup {c}]
        /\ other' = [other EXCEPT ![c] = [uid |-> OtherId(c), ws |-> wso]]
    BY <1>10 DEF Relay
  <2> HIDE DEF wso
  <2>4. heard' \in [Conns -> SUBSET Conns] /\ other' \in [Conns -> Others]
    BY <2>1, <2>2, <2>3 DEF TypeOK, Others
  <2>5. QED
    BY <1>10, <2>4, ReceiveType DEF Relay, TypeOK, Places
<1>11. ASSUME Relayed(c) PROVE TypeOK'
  BY <1>11 DEF Relayed, TypeOK, Places, Others, NoOther
<1>12. ASSUME RelayFails(c) PROVE TypeOK'
  BY <1>12, <1>a, LeavingShape, ReceiveType, <1>c DEF RelayFails, ClientShape
<1>13. ASSUME RelaySendFails(c) PROVE TypeOK'
  BY <1>13, <1>a, LeavingShape, <1>c DEF RelaySendFails, ClientShape
<1>14. ASSUME IgnoreMessage(c) PROVE TypeOK'
  BY <1>14, ReceiveType DEF IgnoreMessage, TypeOK
<1>15. ASSUME CallPeer(c) PROVE TypeOK'
  <2>1. PICK v \in FreePeers(Opposite(Class(c))) :
            /\ told' = [told EXCEPT ![Addressee(c, v)] = TRUE]
            /\ other' = [other EXCEPT ![c] =
                   [uid |-> v, ws |-> peers[Opposite(Class(c))][v].ws]]
    BY <1>15 DEF CallPeer
  <2>2. [uid |-> v, ws |-> peers[Opposite(Class(c))][v].ws] \in Others
    BY <1>b DEF FreePeers, TypeOK, PeerDicts, Entry, Others
  <2>3. told' \in [Conns -> BOOLEAN] /\ other' \in [Conns -> Others]
    BY <2>1, <2>2 DEF TypeOK
  <2>4. QED
    BY <1>15, <2>3, ReceiveType DEF CallPeer, TypeOK, Places
<1>16. ASSUME CallFails(c) PROVE TypeOK'
  BY <1>16, <1>a, LeavingShape, ReceiveType, <1>c DEF CallFails, ClientShape
<1>17. ASSUME Pair(c) PROVE TypeOK'
  BY <1>17, <1>a, PairAssignShape, <1>c DEF Pair, ClientShape
<1>18. ASSUME PairSendFails(c) PROVE TypeOK'
  BY <1>18, <1>a, LeavingShape, <1>c DEF PairSendFails, ClientShape
<1>19. ASSUME FinishLeave(c) PROVE TypeOK'
  BY <1>19, <1>a, DeregisterShape, <1>c DEF FinishLeave, ClientShape, LeaveShape
<1>20. QED
  BY <1>1, <1>2, <1>3, <1>4, <1>5, <1>6, <1>7, <1>8, <1>9, <1>10, <1>11, <1>12,
     <1>13, <1>14, <1>15, <1>16, <1>17, <1>18, <1>19 DEF Task, Client

\* The dictionaries, tasks and connections of every population of clients have
\* their shapes in every reachable state, with and without suspended sends.
THEOREM TypeCorrect == Spec => []TypeOK
  BY TypeInit, TypeNext, PTL DEF Spec

-----------------------------------------------------------------------------
(* RelayStaysInKind.  The shared sessions dict may name anybody; what keeps  *)
(* a message in its kind is that the relay looks the name up in the dict of  *)
(* the opposite class, and that an entry there belongs to a client of that   *)
(* class (OwnersRegistered).                                                 *)

Past == {"recv", "pairing", "relaying", "closing", "done"}

Owned(P) ==
    \A cl \in Classes, u \in Uids :
        Has(P, cl, u) =>
            /\ Hello[P[cl][u].ws] = [class |-> cl, uid |-> u]
            /\ pc[P[cl][u].ws] \in Past

\* remove_peer removes entries and moves no task but its own.
LEMMA LeaveRemoves ==
    ASSUME NEW c \in Conns, NEW P \in PeerDicts, NEW S \in SessionDicts,
           LeaveShape, Leave(c, P, S)
    PROVE  /\ \A cl \in Classes, u \in Uids : peers'[cl][u] \in {P[cl][u], Absent}
           /\ \A d \in Conns : d # c => pc'[d] = pc[d]
           /\ pc'[c] \in {"closing", "done"}
<1> DEFINE Goal ==
        /\ \A cl \in Classes, u \in Uids : peers'[cl][u] \in {P[cl][u], Absent}
        /\ \A d \in Conns : d # c => pc'[d] = pc[d]
        /\ pc'[c] \in {"closing", "done"}
<1>1. ASSUME NEW T, Deregister(c, P, T) PROVE Goal
  BY <1>1 DEF Deregister, Ends, LeaveShape, PeerDicts
<1>2. ASSUME NEW T, NEW k \in Kinds, NEW o, HangUp(c, P, T, k, o) PROVE Goal
  BY <1>2 DEF HangUp, Ends, LeaveShape, PeerDicts
<1>3. QED
  BY <1>1, <1>2 DEF Leave, Kinds

LEMMA LeaveOwned ==
    ASSUME NEW c \in Conns, NEW P \in PeerDicts, NEW S \in SessionDicts,
           LeaveShape, Owned(P), Leave(c, P, S)
    PROVE  Owned(peers)'
<1> SUFFICES ASSUME NEW cl \in Classes, NEW u \in Uids, Has(peers, cl, u)'
             PROVE  /\ Hello[peers'[cl][u].ws] = [class |-> cl, uid |-> u]
                    /\ pc'[peers'[cl][u].ws] \in Past
  BY DEF Owned
<1>1. peers'[cl][u] = P[cl][u] /\ Has(P, cl, u)
  BY LeaveRemoves DEF Has, Absent
<1>2. P[cl][u].ws \in Conns
  BY <1>1 DEF Has, PeerDicts, Entry
<1>3. QED
  BY <1>1, <1>2, LeaveRemoves DEF Owned, Past

KindInv == TypeOK /\ Owned(peers) /\ RelayStaysInKind

LEMMA KindInit == Init => KindInv
  BY TypeInit DEF Init, KindInv, Owned, Has, Absent, RelayStaysInKind

\* A task that ends before it is registered, or a step that only moves a
\* task within the places past its hello, leaves Owned alone.
LEMMA OwnedFrame ==
    ASSUME TypeOK, Owned(peers), peers' = peers,
           \A d \in Conns : pc[d] \in Past => pc'[d] \in Past
    PROVE  Owned(peers)'
<1> SUFFICES ASSUME NEW cl \in Classes, NEW u \in Uids, Has(peers, cl, u)
             PROVE  /\ Hello[peers[cl][u].ws] = [class |-> cl, uid |-> u]
                    /\ pc'[peers[cl][u].ws] \in Past
  BY DEF Owned, Has
<1>1. peers[cl][u].ws \in Conns
  BY DEF Has, TypeOK, PeerDicts, Entry
<1>2. QED
  BY <1>1 DEF Owned

\* A pairing leaves the owners as they are.
LEMMA PairOwned ==
    ASSUME NEW c \in Conns, TypeOK, Owned(peers), PairAssign(c)
    PROVE  Owned(peers)'
<1> DEFINE cl == Class(c)
           u == Uid(c)
           v == other[c].uid
           k == Kind(cl)
           P1 == MarkInSession(peers, cl, u)
           S1 == [sessions EXCEPT ![k][u] = v]
           P2 == MarkInSession(P1, Opposite(cl), v)
<1>1. /\ LeaveShape
      /\ u \in Uids
      /\ v \in Uids \cup {NoUid}
      /\ k \in Kinds
      /\ cl \in Classes \cup {"Other"}
      /\ Opposite(cl) \in Classes
  BY ClassFacts DEF TypeOK, LeaveShape, Others
<1>2. P1 \in PeerDicts
  BY <1>1, MarkShape DEF LeaveShape
<1>3. S1 \in SessionDicts
  BY <1>1 DEF LeaveShape, SessionDicts
<1>4. \A x \in Classes, y \in Uids : P1[x][y].ws = peers[x][y].ws
  BY <1>1 DEF LeaveShape, MarkInSession, PeerDicts
<1>5. \A x \in Classes, y \in Uids : P2[x][y].ws = P1[x][y].ws
  <2> HIDE DEF P1, v
  <2> QED
    BY <1>1, <1>2 DEF MarkInSession, PeerDicts
<1>6. Owned(P1)
  BY <1>4 DEF Owned, Has
<1>7. CASE peers' = P2 /\ pc' = [pc EXCEPT ![c] = "recv"]
  <2> HIDE DEF P1, P2
  <2> SUFFICES ASSUME NEW x \in Classes, NEW y \in Uids, Has(peers, x, y)'
               PROVE  /\ Hello[peers'[x][y].ws] = [class |-> x, uid |-> y]
                      /\ pc'[peers'[x][y].ws] \in Past
    BY DEF Owned
  <2>1. peers'[x][y].ws = peers[x][y].ws /\ Has(peers, x, y)
    BY <1>4, <1>5, <1>7 DEF Has
  <2>2. peers[x][y].ws \in Conns
    BY <2>1 DEF Has, TypeOK, PeerDicts, Entry
  <2>3. QED
    BY <1>7, <2>1, <2>2 DEF Owned, Past, TypeOK
<1>8. CASE Leave(c, P1, S1)
  BY <1>1, <1>2, <1>3, <1>6, <1>8, LeaveOwned
<1>9. CASE Leave(c, peers, sessions)
  BY <1>1, <1>9, LeaveOwned DEF LeaveShape
<1>10. QED
  BY <1>7, <1>8, <1>9 DEF PairAssign

LEMMA OwnedNext ==
    ASSUME TypeOK, Owned(peers), [Next]_vars
    PROVE  Owned(peers)'
<1>0. CASE UNCHANGED vars
  BY <1>0, OwnedFrame DEF vars
<1> SUFFICES ASSUME NEW c \in Conns, Task(c) \/ Client(c) PROVE Owned(peers)'
  BY <1>0 DEF Next
<1>a. LeaveShape /\ peers \in PeerDicts /\ sessions \in SessionDicts
  BY DEF TypeOK, LeaveShape
<1>1. CASE Connect(c) \/ ClientSends(c) \/ ClientCloses(c)
  BY <1>1, OwnedFrame DEF Connect, ClientSends, ClientCloses, Past, TypeOK
<1>2. CASE AcceptHello(c) \/ RejectHello(c) \/ GreetFails(c)
  BY <1>2, OwnedFrame DEF AcceptHello, RejectHello, GreetFails, Resumed, Ends, Past,
     TypeOK
<1>3. CASE Register(c)
  <2> SUFFICES ASSUME NEW cl \in Classes, NEW u \in Uids, Has(peers, cl, u)'
               PROVE  /\ Hello[peers'[cl][u].ws] = [class |-> cl, uid |-> u]
                      /\ pc'[peers'[cl][u].ws] \in Past
    BY DEF Owned
  <2>1. CASE cl = Class(c) /\ u = Uid(c)
    <3>1. peers'[cl][u].ws = c /\ pc'[c] = "recv"
      BY <1>3, <1>a, <2>1 DEF Register, PeerDicts, TypeOK
    <3>2. QED
      BY <2>1, <3>1, HelloAssumption DEF Class, Uid, Past, Hellos
  <2>2. CASE ~(cl = Class(c) /\ u = Uid(c))
    <3>1. peers'[cl][u] = peers[cl][u] /\ Has(peers, cl, u)
      BY <1>3, <1>a, <2>2 DEF Register, PeerDicts, Has
    <3>2. peers[cl][u].ws \in Conns
      BY <3>1, <1>a DEF Has, PeerDicts, Entry
    <3>3. QED
      BY <1>3, <3>1, <3>2 DEF Register, Owned, Past, TypeOK
  <2>3. QED
    BY <2>1, <2>2
<1>4. CASE Leave(c, peers, sessions)
  BY <1>4, <1>a, LeaveOwned
<1>5. CASE FinishLeave(c)
  <2> SUFFICES ASSUME NEW cl \in Classes, NEW u \in Uids, Has(peers, cl, u)'
               PROVE  /\ Hello[peers'[cl][u].ws] = [class |-> cl, uid |-> u]
                      /\ pc'[peers'[cl][u].ws] \in Past
    BY DEF Owned
  <2>1. peers'[cl][u] = peers[cl][u] /\ Has(peers, cl, u)
    BY <1>5, <1>a DEF FinishLeave, Deregister, PeerDicts, Has, Absent
  <2>2. peers[cl][u].ws \in Conns
    BY <2>1, <1>a DEF Has, PeerDicts, Entry
  <2>3. QED
    BY <1>5, <2>1, <2>2 DEF FinishLeave, Deregister, Ends, Owned, Past, TypeOK
<1>6. CASE Relay(c) \/ Relayed(c) \/ IgnoreMessage(c) \/ CallPeer(c)
  BY <1>6, OwnedFrame DEF Relay, Relayed, IgnoreMessage, CallPeer, Receive, Resumed,
     Past, TypeOK
<1>7. CASE Pair(c)
  BY <1>7, PairOwned DEF Pair
<1>8. QED
  BY <1>1, <1>2, <1>3, <1>4, <1>5, <1>6, <1>7 DEF Task, Client, RecvClosed,
     LookupFails, RelayFails, RelaySendFails, CallFails, PairSendFails

LEMMA KindNext ==
    ASSUME TypeOK, Owned(peers), RelayStaysInKind, [Next]_vars
    PROVE  RelayStaysInKind'
<1>1. CASE heard' = heard
  BY <1>1 DEF RelayStaysInKind
<1>2. ASSUME NEW c \in Conns, Relay(c)
      PROVE  RelayStaysInKind'
  <2> DEFINE cl == Opposite(Class(c))
             wso == peers[cl][OtherId(c)].ws
  <2>1. cl \in Classes /\ OtherId(c) \in Uids /\ Has(peers, cl, OtherId(c))
    BY <1>2, ClassFacts, SMTT(40) DEF Relay, Routable, OtherId, TypeOK, SessionDicts
  <2>2. wso \in Conns /\ Class(wso) = cl
    <3> HIDE DEF cl
    <3>1. peers[cl][OtherId(c)] \in Entry /\ wso # NoConn
      BY <2>1 DEF TypeOK, PeerDicts, Has
    <3>2. Hello[wso] = [class |-> cl, uid |-> OtherId(c)]
      BY <2>1 DEF Owned
    <3>3. QED
      BY <3>1, <3>2 DEF Entry, Class
  <2>3. heard' = [heard EXCEPT ![wso] = @ \cup {c}]
    BY <1>2 DEF Relay
  <2> HIDE DEF wso
  <2>4. /\ Kind(cl) = Kind(Class(c))
        /\ cl \in {"Car_data", "Car_video"} <=>
               Class(c) \notin {"Car_data", "Car_video"}
    BY DEF Opposite, Kind, CarClass, ControllerClass
  <2> HIDE DEF cl
  <2>5. QED
    BY <2>2, <2>3, <2>4 DEF RelayStaysInKind, TypeOK
<1>3. QED
  BY <1>1, <1>2 DEF Next, Task, Client, vars, Connect, ClientSends, ClientCloses,
     AcceptHello, RejectHello, Register, GreetFails, RecvClosed, LookupFails, Relayed,
     RelayFails, RelaySendFails, IgnoreMessage, CallPeer, CallFails, Pair,
     PairSendFails, FinishLeave

LEMMA KindInductive == Spec => []KindInv
<1>1. KindInv /\ [Next]_vars => KindInv'
  BY TypeNext, OwnedNext, KindNext DEF KindInv
<1>2. QED
  BY <1>1, KindInit, PTL DEF Spec

\* For every population of clients, with and without suspended sends: no
\* message relayed by the server crosses between video and data, or between
\* two cars or two controllers.
THEOREM RelayKindCorrect == Spec => []RelayStaysInKind
<1>1. KindInv => RelayStaysInKind
  BY DEF KindInv
<1>2. QED
  BY <1>1, KindInductive, PTL

\* For every population: an entry of the dicts belongs to a client that said
\* the entry's class and uid and got past its hello.
THEOREM OwnersCorrect == Spec => []OwnersRegistered
<1>1. KindInv => OwnersRegistered
  BY DEF KindInv, Owned, OwnersRegistered, Past
<1>2. QED
  BY <1>1, KindInductive, PTL

-----------------------------------------------------------------------------
(* RelayAssertion and SessionOkKept, with sends that may suspend.  Two       *)
(* callers may take one callee then, and a session may be registered half;   *)
(* but whoever the sessions name is settled: where he is registered he is    *)
(* marked, and no task is left that would register him afresh.               *)

\* A client that says a hello of the protocol.
Peer(c) == Class(c) \in Classes

\* "<uid> is a string which will uniquely identify this peer" (Protocol.md).
UniquePeers ==
    \A c, d \in Conns : Peer(c) /\ Peer(d) /\ Uid(c) = Uid(d) => c = d

Settled(P, v) ==
    /\ \A cl \in Classes : Has(P, cl, v) => P[cl][v].inSession
    /\ \A c \in Conns : Peer(c) /\ Uid(c) = v => pc[c] \in Past

SessionsSettled(P, S) ==
    \A k \in Kinds, u \in Uids :
        S[k][u] # NoUid =>
            /\ Settled(P, S[k][u])
            /\ \A c \in Conns :
                   Peer(c) /\ Uid(c) \in {u, S[k][u]} => Kind(Class(c)) = k

\* A task in pairing has found a client of the opposite class.
PairingKnown ==
    \A c \in Conns :
        pc[c] = "pairing" =>
            /\ other[c].uid \in Uids
            /\ other[c].ws \in Conns
            /\ Class(other[c].ws) = Opposite(Class(c))
            /\ Uid(other[c].ws) = other[c].uid
            /\ pc[other[c].ws] \in Past

\* Only a client of the protocol has its hello accepted.
PeersKnown == \A c \in Conns : pc[c] \notin {"off", "hello", "done"} => Peer(c)

\* Whoever takes an entry away closes its connection.
GoneClosed(P) ==
    \A c \in Conns :
        Peer(c) /\ pc[c] \in Past /\ ~Has(P, Class(c), Uid(c)) => ~open[c]

\* Nobody else takes the entry of a video peer away.
VideoRegistered ==
    \A c \in Conns :
        /\ pc[c] \in {"recv", "pairing", "relaying"}
        /\ Kind(Class(c)) = "video"
        => Has(peers, Class(c), Uid(c))

\* Whom a task in pairing has sent SESSION_OK.
Promised(d) == IF Class(d) = "Controller_video" THEN other[d].ws ELSE d

OkInv ==
    \A c \in Conns :
        told[c] =>
            /\ Peer(c) /\ pc[c] \in Past
            /\ open[c] => InSession(c) \/ \E d \in Conns : pc[d] = "pairing" /\ c = Promised(d)

SuspendInv ==
    /\ TypeOK
    /\ Owned(peers)
    /\ SessionsSettled(peers, sessions)
    /\ PairingKnown
    /\ PeersKnown
    /\ GoneClosed(peers)
    /\ VideoRegistered
    /\ OkInv

\* The owner of an entry, and who else might have its uid.
LEMMA OwnerUnique ==
    ASSUME UniquePeers, NEW P \in PeerDicts, Owned(P), NEW cl \in Classes,
           NEW u \in Uids, Has(P, cl, u)
    PROVE  /\ P[cl][u].ws \in Conns
           /\ Class(P[cl][u].ws) = cl
           /\ Uid(P[cl][u].ws) = u
           /\ pc[P[cl][u].ws] \in Past
           /\ \A d \in Conns : Peer(d) /\ Uid(d) = u => d = P[cl][u].ws
<1>1. P[cl][u].ws \in Conns
  BY DEF Has, PeerDicts, Entry
<1>2. Hello[P[cl][u].ws] = [class |-> cl, uid |-> u] /\ pc[P[cl][u].ws] \in Past
  BY DEF Owned
<1>3. QED
  BY <1>1, <1>2 DEF UniquePeers, Peer, Class, Uid

\* What the end of the task of c leaves of the dicts and of the connections.
Ending(c, P, S) ==
    /\ \A k \in Kinds, u \in Uids : sessions'[k][u] \in {S[k][u], NoUid}
    /\ \A cl \in Classes, u \in Uids : peers'[cl][u] \in {P[cl][u], Absent}
    /\ \A d \in Conns : d # c => pc'[d] = pc[d] /\ other'[d] = other[d]
    /\ pc'[c] \in {"closing", "done"}
    /\ \A d \in Conns : open'[d] => open[d]
    /\ \A d \in Conns :
          Peer(d) /\ open'[d] => peers'[Class(d)][Uid(d)] = P[Class(d)][Uid(d)]
    /\ \A d \in Conns :
          Peer(d) /\ d # c /\ Kind(Class(d)) = "video" =>
              peers'[Class(d)][Uid(d)] = P[Class(d)][Uid(d)]

LEMMA DeregisterEnding ==
    ASSUME UniquePeers, NEW c \in Conns, Peer(c), NEW P \in PeerDicts,
           NEW S \in SessionDicts, NEW T \in SessionDicts, LeaveShape,
           \A k \in Kinds, u \in Uids : T[k][u] \in {S[k][u], NoUid},
           Deregister(c, P, T)
    PROVE  Ending(c, P, S)
<1>1. /\ sessions' = T
      /\ peers' = [P EXCEPT ![Class(c)][Uid(c)] = Absent]
      /\ pc' = [pc EXCEPT ![c] = "done"]
      /\ other' = [other EXCEPT ![c] = NoOther]
      /\ \A d \in Conns : open'[d] => open[d] /\ d # c
  BY DEF Deregister, Ends
<1>2. \A d \in Conns : Uid(d) \in Uids
  BY ClassFacts
<1>3. \A d \in Conns :
          Peer(d) /\ d # c => peers'[Class(d)][Uid(d)] = P[Class(d)][Uid(d)]
  BY <1>1, <1>2 DEF UniquePeers, PeerDicts, Peer
<1>4. \A cl \in Classes, u \in Uids : peers'[cl][u] \in {P[cl][u], Absent}
  BY <1>1, <1>2 DEF PeerDicts, Peer
<1>5. QED
  BY <1>1, <1>3, <1>4 DEF Ending, LeaveShape

LEMMA HangUpEnding ==
    ASSUME UniquePeers, NEW c \in Conns, Peer(c), NEW P \in PeerDicts, Owned(P),
           NEW S \in SessionDicts, NEW T \in SessionDicts, LeaveShape,
           \A k \in Kinds, u \in Uids : T[k][u] \in {S[k][u], NoUid},
           NEW k \in Kinds, NEW o \in Uids, HangUp(c, P, T, k, o),
           \A d \in Conns : Peer(d) /\ Uid(d) = o => Kind(Class(d)) = "data"
    PROVE  Ending(c, P, S)
<1> DEFINE cl == IF Has(P, ControllerClass(k), o) THEN ControllerClass(k)
                                                  ELSE CarClass(k)
<1>1. cl \in Classes
  BY DEF ControllerClass, CarClass, Classes
<1>2. \A d \in Conns : Uid(d) \in Uids
  BY ClassFacts
<1>3. sessions' = [T EXCEPT ![k][o] = NoUid]
  BY DEF HangUp
<1>4. \A x \in Kinds, u \in Uids : sessions'[x][u] \in {S[x][u], NoUid}
  BY <1>3 DEF SessionDicts
<1>5. CASE Has(P, cl, o)
  <2>1. /\ peers' = [P EXCEPT ![cl][o] = Absent]
        /\ open' = [open EXCEPT ![P[cl][o].ws] = FALSE]
        /\ pc' = [pc EXCEPT ![c] = "closing"]
        /\ other' = [other EXCEPT ![c] = NoOther]
    BY <1>5 DEF HangUp
  <2> HIDE DEF cl
  <2>2. \A d \in Conns : Peer(d) /\ Uid(d) = o => d = P[cl][o].ws
    BY <1>1, <1>5, OwnerUnique
  <2>3. \A x \in Classes, u \in Uids :
            /\ peers'[x][u] \in {P[x][u], Absent}
            /\ u # o => peers'[x][u] = P[x][u]
    BY <1>1, <2>1 DEF PeerDicts
  <2>4. P[cl][o].ws \in Conns
    BY <1>1, <1>5 DEF Has, PeerDicts, Entry
  <2>5. \A d \in Conns : open'[d] => open[d] /\ d # P[cl][o].ws
    BY <2>1, <2>4 DEF LeaveShape
  <2>6. \A d \in Conns :
            Peer(d) /\ open'[d] => peers'[Class(d)][Uid(d)] = P[Class(d)][Uid(d)]
    BY <1>2, <2>2, <2>3, <2>5 DEF Peer
  <2>7. \A d \in Conns :
            Peer(d) /\ Kind(Class(d)) = "video" =>
                peers'[Class(d)][Uid(d)] = P[Class(d)][Uid(d)]
    BY <1>2, <2>3 DEF Peer
  <2>8. QED
    BY <1>4, <2>1, <2>3, <2>5, <2>6, <2>7 DEF Ending, LeaveShape
<1>6. CASE ~Has(P, cl, o)
  <2>1. peers' = P /\ Ends(c, c)
    BY <1>6 DEF HangUp
  <2>2. QED
    BY <1>4, <2>1 DEF Ending, Ends, LeaveShape
<1>7. QED
  BY <1>5, <1>6

LEMMA LeaveEnding ==
    ASSUME UniquePeers, NEW c \in Conns, Peer(c), NEW P \in PeerDicts, Owned(P),
           NEW S \in SessionDicts, LeaveShape, SessionsSettled(P, S),
           Leave(c, P, S)
    PROVE  Ending(c, P, S)
<1> DEFINE o == S["data"][Uid(c)]
           S1 == [S EXCEPT !["data"][Uid(c)] = NoUid]
<1>1. Uid(c) \in Uids /\ "data" \in Kinds /\ "video" \in Kinds
  BY ClassFacts DEF Kinds
<1>2. /\ o \in Uids \cup {NoUid}
      /\ S1 \in SessionDicts
      /\ \A k \in Kinds, u \in Uids : S1[k][u] \in {S[k][u], NoUid}
  BY <1>1 DEF SessionDicts
<1>3. o # NoUid => \A d \in Conns : Peer(d) /\ Uid(d) = o => Kind(Class(d)) = "data"
  BY <1>1 DEF SessionsSettled
<1>4. CASE Deregister(c, P, S)
  BY <1>4, DeregisterEnding
<1>5. CASE Deregister(c, P, S1)
  BY <1>2, <1>5, DeregisterEnding
<1>6. ASSUME NEW k \in Kinds, o # NoUid, HangUp(c, P, S1, k, o)
      PROVE  Ending(c, P, S)
  <2> HIDE DEF o, S1
  <2>1. QED
    BY <1>2, <1>3, <1>6, HangUpEnding
<1>7. QED
  BY <1>1, <1>4, <1>5, <1>6 DEF Leave

\* Entries change in four ways: not at all, taken away, marked, or registered
\* by a task that has just said hello.
LEMMA SettledStep ==
    ASSUME NEW P \in PeerDicts, NEW S \in SessionDicts, SessionsSettled(P, S),
           \A k \in Kinds, u \in Uids : sessions'[k][u] \in {S[k][u], NoUid},
           \A cl \in Classes, u \in Uids :
               \/ peers'[cl][u] \in {P[cl][u], Absent}
               \/ \E c \in Conns : Peer(c) /\ Uid(c) = u /\ pc[c] \notin Past,
           \A c \in Conns : pc[c] \in Past => pc'[c] \in Past
    PROVE  SessionsSettled(peers, sessions)'
<1> SUFFICES ASSUME NEW k \in Kinds, NEW u \in Uids, sessions'[k][u] # NoUid
             PROVE  /\ Settled(peers, sessions[k][u])'
                    /\ \A c \in Conns :
                           Peer(c) /\ Uid(c) \in {u, sessions'[k][u]} =>
                               Kind(Class(c)) = k
  BY DEF SessionsSettled
<1>1. PICK v \in Uids : v = S[k][u] /\ sessions'[k][u] = v
  BY DEF SessionDicts
<1>2. /\ Settled(P, v)
      /\ \A c \in Conns : Peer(c) /\ Uid(c) \in {u, v} => Kind(Class(c)) = k
  BY <1>1 DEF SessionsSettled
<1>3. ASSUME NEW cl \in Classes, peers'[cl][v].ws # NoConn
      PROVE  peers'[cl][v].inSession
  <2>1. peers'[cl][v] \in {P[cl][v], Absent}
    BY <1>2 DEF Settled
  <2>2. QED
    BY <1>2, <1>3, <2>1 DEF Settled, Absent, Has
<1>4. QED
  BY <1>1, <1>2, <1>3 DEF Settled, Has

LEMMA GoneStep ==
    ASSUME \A c \in Conns :
               Peer(c) /\ pc'[c] \in Past /\ open'[c] => Has(peers, Class(c), Uid(c))'
    PROVE  GoneClosed(peers)'
  BY DEF GoneClosed

\* A step other than a call.
LEMMA PairingStep ==
    ASSUME PairingKnown,
           \A c \in Conns : pc'[c] = "pairing" => pc[c] = "pairing" /\ other'[c] = other[c],
           \A c \in Conns : pc[c] \in Past => pc'[c] \in Past
    PROVE  PairingKnown'
  BY DEF PairingKnown

\* A step that sends no SESSION_OK: whoever was promised one by a task that
\* leaves pairing is in a session or gone.
LEMMA OkStep ==
    ASSUME OkInv, PairingKnown, told' = told,
           \A c \in Conns : pc[c] \in Past => pc'[c] \in Past,
           \A c \in Conns : pc[c] \in Past /\ open'[c] => open[c],
           \A c \in Conns :
               Peer(c) /\ pc[c] \in Past /\ open'[c] /\ InSession(c) => InSession(c)',
           \A d \in Conns :
               pc[d] = "pairing" =>
                   \/ pc'[d] = "pairing" /\ other'[d] = other[d]
                   \/ \A c \in Conns :
                          c = Promised(d) /\ open'[c] => InSession(c)'
    PROVE  OkInv'
<1> SUFFICES ASSUME NEW c \in Conns, told[c]
             PROVE  /\ Peer(c) /\ pc'[c] \in Past
                    /\ open'[c] => \/ InSession(c)'
                                   \/ \E d \in Conns : pc'[d] = "pairing" /\ c = Promised(d)'
  BY DEF OkInv
<1>1. Peer(c) /\ pc[c] \in Past /\ pc'[c] \in Past
  BY DEF OkInv
<1>2. ASSUME NEW d \in Conns, pc[d] = "pairing", c = Promised(d), open'[c]
      PROVE  \/ InSession(c)'
             \/ \E e \in Conns : pc'[e] = "pairing" /\ c = Promised(e)'
  <2>1. CASE pc'[d] = "pairing" /\ other'[d] = other[d]
    BY <1>2, <2>1 DEF Promised
  <2>2. CASE \A x \in Conns : x = Promised(d) /\ open'[x] => InSession(x)'
    BY <1>2, <2>2
  <2>3. QED
    BY <1>2, <2>1, <2>2
<1>3. QED
  BY <1>1, <1>2 DEF OkInv

\* The end of a task, from dictionaries that the task has marked at most.
LEMMA EndingStep ==
    ASSUME SuspendInv, TypeOK', Owned(peers)', NEW c \in Conns, Peer(c), pc[c] \in Past,
           NEW P \in PeerDicts, NEW S \in SessionDicts, SessionsSettled(P, S),
           \A cl \in Classes, u \in Uids :
               /\ P[cl][u].ws = peers[cl][u].ws
               /\ peers[cl][u].inSession => P[cl][u].inSession,
           Ending(c, P, S), told' = told,
           \A d \in Conns :
               pc[c] = "pairing" /\ d = Promised(c) /\ open'[d] => InSession(d)'
    PROVE  SuspendInv'
<1>0. \A d \in Conns : Uid(d) \in Uids
  BY ClassFacts
<1>1. \A d \in Conns : pc[d] \in Past => pc'[d] \in Past
  BY DEF Ending, Past
<1>2. SessionsSettled(peers, sessions)'
  BY <1>1, SettledStep DEF Ending
<1>3. PairingKnown'
  BY <1>1, PairingStep DEF Ending, SuspendInv
<1>4. PeersKnown'
  BY DEF PeersKnown, SuspendInv, Ending
<1>5. \A d \in Conns :
          Peer(d) /\ open'[d] /\ Has(peers, Class(d), Uid(d)) =>
              /\ Has(peers, Class(d), Uid(d))'
              /\ InSession(d) => InSession(d)'
  BY <1>0 DEF Ending, Peer, Has, InSession, Own
<1>6. GoneClosed(peers)'
  <2>1. \A d \in Conns : pc'[d] \in Past => pc[d] \in Past
    BY DEF Ending
  <2>2. QED
    BY <1>5, <2>1, GoneStep DEF GoneClosed, SuspendInv, Ending
<1>7. VideoRegistered'
  <2> SUFFICES ASSUME NEW d \in Conns, pc'[d] \in {"recv", "pairing", "relaying"},
                      Kind(Class(d)) = "video"
               PROVE  Has(peers, Class(d), Uid(d))'
    BY DEF VideoRegistered
  <2>1. d # c /\ pc[d] = pc'[d]
    BY DEF Ending
  <2>2. Peer(d) /\ Has(peers, Class(d), Uid(d))
    BY <2>1 DEF SuspendInv, PeersKnown, VideoRegistered, Past
  <2>3. QED
    BY <1>0, <2>1, <2>2 DEF Ending, Has, Peer
<1>8. OkInv'
  <2>1. \A d \in Conns :
            Peer(d) /\ pc[d] \in Past /\ open'[d] /\ InSession(d) => InSession(d)'
    BY <1>5 DEF InSession
  <2>2. \A d \in Conns :
            pc[d] = "pairing" =>
                \/ pc'[d] = "pairing" /\ other'[d] = other[d]
                \/ \A x \in Conns :
                       x = Promised(d) /\ open'[x] => InSession(x)'
    BY DEF Ending
  <2>3. QED
    BY <1>1, <2>1, <2>2, OkStep DEF SuspendInv, Ending
<1>9. QED
  BY <1>2, <1>3, <1>4, <1>6, <1>7, <1>8 DEF SuspendInv

\* A task ends by an exception, with the dictionaries as they are.
LEMMA LeaveStep ==
    ASSUME UniquePeers, SuspendInv, TypeOK', Owned(peers)', NEW c \in Conns,
           pc[c] \in {"recv", "pairing", "relaying"}, Leave(c, peers, sessions),
           told' = told, pc[c] = "pairing" => ~open[Promised(c)]
    PROVE  SuspendInv'
<1>1. Peer(c) /\ pc[c] \in Past
  BY DEF SuspendInv, PeersKnown, Past
<1>2. LeaveShape /\ peers \in PeerDicts /\ sessions \in SessionDicts
  BY DEF SuspendInv, TypeOK, LeaveShape
<1>3. Ending(c, peers, sessions)
  BY <1>1, <1>2, LeaveEnding DEF SuspendInv
<1>4. pc[c] = "pairing" => Promised(c) \in Conns
  BY DEF SuspendInv, PairingKnown, Promised
<1>5. pc[c] = "pairing" => ~open'[Promised(c)]
  BY <1>3, <1>4 DEF Ending
<1>6. QED
  BY <1>1, <1>2, <1>3, <1>5, EndingStep DEF SuspendInv

\* A step after which the dictionaries are as they were and SESSION_OK has
\* been sent to nobody.
LEMMA DictsKeptStep ==
    ASSUME SuspendInv, TypeOK', Owned(peers)', PeersKnown',
           UNCHANGED <<peers, sessions, told>>,
           \A c \in Conns :
               /\ pc[c] \in Past => pc'[c] \in Past
               /\ pc'[c] \in Past => pc[c] \in Past
               /\ pc'[c] \in {"recv", "pairing", "relaying"} =>
                      pc[c] \in {"recv", "pairing", "relaying"}
               /\ pc[c] = "pairing" <=> pc'[c] = "pairing"
               /\ pc[c] = "pairing" => other'[c] = other[c]
               /\ pc[c] \in Past /\ open'[c] => open[c]
    PROVE  SuspendInv'
<1>1. SessionsSettled(peers, sessions)'
  BY SettledStep DEF SuspendInv, TypeOK
<1>2. PairingKnown'
  BY PairingStep DEF SuspendInv
<1>3. GoneClosed(peers)'
  BY GoneStep DEF SuspendInv, GoneClosed, Has
<1>4. VideoRegistered'
  BY DEF SuspendInv, VideoRegistered, Has
<1>5. OkInv'
  BY OkStep DEF SuspendInv, InSession, Own, Has
<1>6. QED
  BY <1>1, <1>2, <1>3, <1>4, <1>5 DEF SuspendInv

\* A hello that fails leaves nothing behind.
LEMMA EarlyEndStep ==
    ASSUME SuspendInv, TypeOK', Owned(peers)', NEW c \in Conns,
           pc[c] \in {"hello", "greeting"}, Ends(c, c),
           UNCHANGED <<peers, sessions, told>>
    PROVE  SuspendInv'
<1>0. /\ pc' = [pc EXCEPT ![c] = "done"]
      /\ pc \in [Conns -> Places]
      /\ \A d \in Conns : (open'[d] => open[d] /\ d # c) /\ (d # c => other'[d] = other[d])
  BY DEF Ends, SuspendInv, TypeOK
<1>1. SessionsSettled(peers, sessions)'
  BY <1>0, SettledStep DEF SuspendInv, TypeOK, Past
<1>2. PairingKnown'
  BY <1>0, PairingStep DEF SuspendInv, Past
<1>3. PeersKnown'
  BY <1>0 DEF SuspendInv, PeersKnown
<1>4. GoneClosed(peers)'
  BY <1>0, GoneStep DEF SuspendInv, GoneClosed, Has
<1>5. VideoRegistered'
  BY <1>0 DEF SuspendInv, VideoRegistered, Has
<1>6. OkInv'
  BY <1>0, OkStep DEF SuspendInv, InSession, Own, Has, Past
<1>7. QED
  BY <1>1, <1>2, <1>3, <1>4, <1>5, <1>6 DEF SuspendInv

\* A registration overwrites only entries of the uid that the task has said.
LEMMA RegisterStep ==
    ASSUME UniquePeers, SuspendInv, TypeOK', Owned(peers)', NEW c \in Conns, Register(c)
    PROVE  SuspendInv'
<1>0. /\ pc[c] = "greeting" /\ pc' = [pc EXCEPT ![c] = "recv"]
      /\ pc \in [Conns -> Places]
      /\ peers \in PeerDicts /\ sessions \in SessionDicts
      /\ Peer(c) /\ \A d \in Conns : Uid(d) \in Uids
      /\ peers' = [peers EXCEPT ![Class(c)][Uid(c)] = [ws |-> c, inSession |-> FALSE]]
      /\ UNCHANGED <<sessions, other, open, told>>
  BY ClassFacts DEF Register, Resumed, SuspendInv, TypeOK, PeersKnown
<1>1. \A d \in Conns :
          IF d = c THEN peers'[Class(d)][Uid(d)] = [ws |-> c, inSession |-> FALSE]
          ELSE Peer(d) => peers'[Class(d)][Uid(d)] = peers[Class(d)][Uid(d)]
  BY <1>0 DEF PeerDicts, UniquePeers, Peer
<1>2. SessionsSettled(peers, sessions)'
  <2>1. \A cl \in Classes, u \in Uids :
            \/ peers'[cl][u] \in {peers[cl][u], Absent}
            \/ \E d \in Conns : Peer(d) /\ Uid(d) = u /\ pc[d] \notin Past
    <3>1. \A cl \in Classes, u \in Uids : u # Uid(c) => peers'[cl][u] = peers[cl][u]
      BY <1>0 DEF PeerDicts, Peer
    <3>2. pc[c] \notin Past
      BY <1>0 DEF Past
    <3>3. QED
      BY <1>0, <3>1, <3>2
  <2>2. \A k \in Kinds, u \in Uids : sessions'[k][u] \in {sessions[k][u], NoUid}
    BY <1>0
  <2>3. \A d \in Conns : pc[d] \in Past => pc'[d] \in Past
    BY <1>0 DEF Past
  <2>4. QED
    BY <1>0, <2>1, <2>2, <2>3, SettledStep DEF SuspendInv
<1>3. PairingKnown'
  BY <1>0, PairingStep DEF SuspendInv, Past
<1>4. PeersKnown'
  BY <1>0 DEF SuspendInv, PeersKnown
<1>5. GoneClosed(peers)'
  <2>1. c # NoConn
    BY ConnsAssumption
  <2>2. QED
    BY <1>0, <1>1, <2>1, GoneStep DEF SuspendInv, GoneClosed, Has
<1>6. VideoRegistered'
  <2>1. c # NoConn
    BY ConnsAssumption
  <2>2. \A d \in Conns : d # c /\ pc[d] \in {"recv", "pairing", "relaying"} => Peer(d)
    BY DEF SuspendInv, PeersKnown, Past
  <2>3. QED
    BY <1>0, <1>1, <2>1, <2>2 DEF SuspendInv, VideoRegistered, Has
<1>7. OkInv'
  <2>1. pc[c] \notin Past
    BY <1>0 DEF Past
  <2>2. QED
    BY <1>0, <1>1, <2>1, OkStep DEF SuspendInv, InSession, Own, Has, Past
<1>8. QED
  BY <1>2, <1>3, <1>4, <1>5, <1>6, <1>7 DEF SuspendInv

\* A call: SESSION_OK goes to the caller or to the owner of the entry that the
\* caller has found.
LEMMA CallStep ==
    ASSUME UniquePeers, SuspendInv, TypeOK', Owned(peers)', NEW c \in Conns, CallPeer(c)
    PROVE  SuspendInv'
<1> DEFINE cl == Opposite(Class(c))
<1>0. /\ pc[c] = "recv" /\ pc' = [pc EXCEPT ![c] = "pairing"]
      /\ pc \in [Conns -> Places]
      /\ peers \in PeerDicts /\ sessions \in SessionDicts
      /\ cl \in Classes
      /\ UNCHANGED <<peers, sessions, open>>
      /\ Peer(c) /\ Owned(peers)
      /\ told \in [Conns -> BOOLEAN] /\ other \in [Conns -> Others]
  BY ClassFacts DEF CallPeer, Receive, Resumed, SuspendInv, TypeOK, PeersKnown, Past
<1>1. PICK v \in Uids :
          /\ Has(peers, cl, v)
          /\ told' = [told EXCEPT ![Addressee(c, v)] = TRUE]
          /\ other' = [other EXCEPT ![c] = [uid |-> v, ws |-> peers[cl][v].ws]]
  BY DEF CallPeer, FreePeers
<1>2. PICK w \in Conns :
          /\ w = peers[cl][v].ws
          /\ Class(w) = cl /\ Uid(w) = v /\ pc[w] \in Past
  BY <1>0, <1>1, OwnerUnique
<1>3. PICK a \in {c, w} :
          /\ a = IF Class(c) = "Controller_video" THEN w ELSE c
          /\ told' = [told EXCEPT ![a] = TRUE]
  BY <1>1, <1>2 DEF Addressee
<1>4. other' = [other EXCEPT ![c] = [uid |-> v, ws |-> w]]
  BY <1>1, <1>2
<1> HIDE DEF cl
<1>5. SessionsSettled(peers, sessions)'
  BY <1>0, SettledStep DEF SuspendInv, Past
<1>6. PairingKnown'
  <2> SUFFICES ASSUME NEW d \in Conns, pc'[d] = "pairing"
               PROVE  /\ other'[d].uid \in Uids
                      /\ other'[d].ws \in Conns
                      /\ Class(other'[d].ws) = Opposite(Class(d))
                      /\ Uid(other'[d].ws) = other'[d].uid
                      /\ pc'[other'[d].ws] \in Past
    BY DEF PairingKnown, Class, Uid
  <2>1. \A e \in Conns : pc[e] \in Past => pc'[e] \in Past
    BY <1>0 DEF Past
  <2>2. CASE d = c
    <3>1. other'[d] = [uid |-> v, ws |-> w]
      BY <1>0, <1>4, <2>2
    <3>2. QED
      BY <1>2, <2>1, <2>2, <3>1 DEF cl
  <2>3. CASE d # c
    <3>1. other'[d] = other[d] /\ pc[d] = "pairing"
      BY <1>0, <1>4, <2>3
    <3>2. QED
      BY <2>1, <3>1 DEF SuspendInv, PairingKnown
  <2>4. QED
    BY <2>2, <2>3
<1>7. PeersKnown'
  BY <1>0 DEF SuspendInv, PeersKnown
<1>8. GoneClosed(peers)'
  BY <1>0, GoneStep DEF SuspendInv, GoneClosed, Has, Past
<1>9. VideoRegistered'
  BY <1>0 DEF SuspendInv, VideoRegistered, Has
<1>10. OkInv'
  <2> SUFFICES ASSUME NEW d \in Conns, told'[d]
               PROVE  /\ Peer(d) /\ pc'[d] \in Past
                      /\ open'[d] => \/ InSession(d)'
                                     \/ \E e \in Conns : pc'[e] = "pairing" /\ d = Promised(e)'
    BY DEF OkInv
  <2>1. \A e \in Conns : pc[e] \in Past => pc'[e] \in Past
    BY <1>0 DEF Past
  <2>2. CASE d = a
    <3>1. Peer(d) /\ pc[d] \in Past
      BY <1>0, <1>2, <1>3, <2>2 DEF Peer, Past
    <3>2. Promised(c)' = d
      <4>1. other'[c].ws = w
        BY <1>0, <1>4
      <4>2. QED
        BY <1>3, <2>2, <4>1 DEF Promised
    <3>3. QED
      BY <1>0, <2>1, <3>1, <3>2
  <2>3. CASE d # a
    <3>1. told[d]
      BY <1>0, <1>3, <2>3
    <3>2. \A e \in Conns : pc[e] = "pairing" => pc'[e] = "pairing" /\ Promised(e)' = Promised(e)
      BY <1>0, <1>4 DEF Promised
    <3>3. InSession(d)' = InSession(d)
      BY <1>0 DEF InSession, Own, Has
    <3>4. QED
      BY <1>0, <2>1, <3>1, <3>2, <3>3 DEF SuspendInv, OkInv
  <2>4. QED
    BY <2>2, <2>3
<1>11. QED
  BY <1>5, <1>6, <1>7, <1>8, <1>9, <1>10 DEF SuspendInv

\* The four assignments of a pairing, and what is left when the first or the
\* third of them raises.
LEMMA PairStep ==
    ASSUME UniquePeers, SuspendInv, TypeOK', Owned(peers)', NEW c \in Conns, Pair(c)
    PROVE  SuspendInv'
<1> DEFINE cl == Class(c)
           u == Uid(c)
           v == other[c].uid
           k == Kind(cl)
           P1 == MarkInSession(peers, cl, u)
           S1 == [sessions EXCEPT ![k][u] = v]
           P2 == MarkInSession(P1, Opposite(cl), v)
           S2 == [S1 EXCEPT ![k][v] = u]
<1>0. /\ pc[c] = "pairing" /\ PairAssign(c)
      /\ told' = told
      /\ pc \in [Conns -> Places] /\ other \in [Conns -> Others]
      /\ peers \in PeerDicts /\ sessions \in SessionDicts
      /\ Owned(peers) /\ LeaveShape
      /\ Peer(c) /\ cl \in Classes
      /\ pc[c] \in Past
  BY DEF Pair, Resumed, SuspendInv, TypeOK, LeaveShape, PeersKnown, Past, Peer
<1>1. /\ u \in Uids /\ k \in Kinds /\ Opposite(cl) \in Classes
      /\ Kind(Opposite(cl)) = k
      /\ Opposite(cl) # cl
  <2>1. u \in Uids /\ k \in Kinds /\ Opposite(cl) \in Classes
    BY ClassFacts
  <2>2. QED
    BY <1>0, <2>1 DEF Opposite, Kind, CarClass, ControllerClass, Classes
<1>2. PICK w \in Conns :
          /\ w = other[c].ws /\ Class(w) = Opposite(cl) /\ Uid(w) = v
          /\ pc[w] \in Past
          /\ v \in Uids
  BY <1>0 DEF SuspendInv, PairingKnown
<1>3. Peer(w) /\ u # v
  BY <1>0, <1>1, <1>2 DEF Peer, UniquePeers
<1>4. \A x \in Classes, y \in Uids :
          P1[x][y] = IF x = cl /\ y = u THEN [ws |-> peers[cl][u].ws, inSession |-> TRUE]
                     ELSE peers[x][y]
  BY <1>0, <1>1 DEF MarkInSession, PeerDicts
<1>5. P1 \in PeerDicts
  BY <1>0, <1>1, MarkShape
<1>6. \A x \in Classes, y \in Uids :
          P2[x][y] = IF x = Opposite(cl) /\ y = v
                     THEN [ws |-> P1[Opposite(cl)][v].ws, inSession |-> TRUE]
                     ELSE P1[x][y]
  <2> HIDE DEF P1, v, cl
  <2> QED
    BY <1>1, <1>2, <1>5 DEF MarkInSession, PeerDicts
<1>7. P2 \in PeerDicts
  <2> HIDE DEF P1, v, cl
  <2> QED
    BY <1>1, <1>2, <1>5, MarkShape
<1>8. \A x \in Kinds, y \in Uids :
          S1[x][y] = IF x = k /\ y = u THEN v ELSE sessions[x][y]
  BY <1>0, <1>1 DEF SessionDicts
<1>9. S1 \in SessionDicts
  BY <1>0, <1>1, <1>2 DEF SessionDicts
<1>10. \A x \in Kinds, y \in Uids :
          S2[x][y] = IF x = k /\ y = v THEN u ELSE S1[x][y]
  <2> HIDE DEF S1, u, v, k
  <2> QED
    BY <1>1, <1>2, <1>9 DEF SessionDicts
<1>11. S2 \in SessionDicts
  <2> HIDE DEF S1, u, v, k
  <2> QED
    BY <1>1, <1>2, <1>9 DEF SessionDicts
<1> HIDE DEF P1, P2, S1, S2
<1>12. /\ \A x \in Classes, y \in Uids :
              /\ P1[x][y].ws = peers[x][y].ws
              /\ peers[x][y].inSession => P1[x][y].inSession
       /\ \A x \in Classes, y \in Uids :
              /\ P2[x][y].ws = peers[x][y].ws
              /\ peers[x][y].inSession => P2[x][y].inSession
  BY <1>4, <1>6
<1>13. \A d \in Conns :
           /\ Peer(d) /\ Uid(d) = u => d = c
           /\ Peer(d) /\ Uid(d) = v => d = w
  BY <1>0, <1>2, <1>3 DEF UniquePeers
<1>14. \A x \in Classes :
           /\ Has(peers, x, u) => x = cl
           /\ Has(peers, x, v) => x = Opposite(cl)
  BY <1>0, <1>1, <1>2, <1>13, OwnerUnique DEF Peer
<1>15. \A y \in Uids : Settled(peers, y) => Settled(P1, y) /\ Settled(P2, y)
  BY <1>12 DEF Settled, Has
<1>16. Settled(P1, u) /\ Settled(P2, u)
  <2>1. \A x \in Classes : Has(peers, x, u) => P1[x][u].inSession /\ P2[x][u].inSession
    BY <1>1, <1>4, <1>6, <1>14
  <2>2. QED
    BY <1>0, <1>1, <1>12, <1>13, <2>1 DEF Settled, Has
<1>17. Settled(P2, v)
  <2>1. \A x \in Classes : Has(peers, x, v) => P2[x][v].inSession
    BY <1>2, <1>6, <1>14
  <2>2. QED
    BY <1>2, <1>12, <1>13, <2>1 DEF Settled, Has
<1>18. \A d \in Conns : Peer(d) /\ Uid(d) \in {u, v} => Kind(Class(d)) = k
  BY <1>1, <1>2, <1>13
<1>19. ASSUME Has(peers, cl, u), Has(peers, Opposite(cl), v),
              peers' = P2, sessions' = S2, pc' = [pc EXCEPT ![c] = "recv"],
              other' = [other EXCEPT ![c] = NoOther], open' = open
       PROVE  SuspendInv'
  <2>0. /\ \A d \in Conns : pc[d] \in Past => pc'[d] \in Past
        /\ \A d \in Conns : pc'[d] \in Past => pc[d] \in Past
        /\ \A d \in Conns : d # c => pc'[d] = pc[d] /\ other'[d] = other[d]
        /\ pc'[c] = "recv"
    BY <1>0, <1>19 DEF Past
  <2>1. SessionsSettled(P2, S2)
    <3> SUFFICES ASSUME NEW x \in Kinds, NEW y \in Uids, S2[x][y] # NoUid
                 PROVE  /\ Settled(P2, S2[x][y])
                        /\ \A d \in Conns :
                               Peer(d) /\ Uid(d) \in {y, S2[x][y]} => Kind(Class(d)) = x
      BY DEF SessionsSettled
    <3>1. CASE x = k /\ y = v
      BY <1>10, <1>16, <1>18, <3>1
    <3>2. CASE x = k /\ y = u
      BY <1>3, <1>8, <1>10, <1>17, <1>18, <3>2
    <3>3. CASE ~(x = k /\ y \in {u, v})
      <4>1. S2[x][y] = sessions[x][y] /\ sessions[x][y] \in Uids
        BY <1>0, <1>8, <1>10, <3>3 DEF SessionDicts
      <4>2. QED
        BY <1>15, <4>1 DEF SuspendInv, SessionsSettled
    <3>4. QED
      BY <3>1, <3>2, <3>3
  <2>2. SessionsSettled(peers, sessions)'
    BY <1>7, <1>11, <1>19, <2>0, <2>1, SettledStep
  <2>3. PairingKnown'
    BY <2>0, PairingStep DEF SuspendInv
  <2>4. PeersKnown'
    BY <1>0, <2>0 DEF SuspendInv, PeersKnown
  <2>5. \A x \in Classes, y \in Uids : Has(peers, x, y)' <=> Has(peers, x, y)
    BY <1>12, <1>19 DEF Has
  <2>6. \A d \in Conns : Uid(d) \in Uids
    BY ClassFacts
  <2>7. GoneClosed(peers)'
    BY <1>19, <2>0, <2>5, <2>6, GoneStep DEF SuspendInv, GoneClosed, Peer
  <2>8. VideoRegistered'
    <3> SUFFICES ASSUME NEW d \in Conns, pc'[d] \in {"recv", "pairing", "relaying"},
                        Kind(Class(d)) = "video"
                 PROVE  Has(peers, Class(d), Uid(d))'
      BY DEF VideoRegistered
    <3>1. pc[d] \in {"recv", "pairing", "relaying"}
      BY <1>0, <2>0
    <3>2. Class(d) \in Classes /\ Has(peers, Class(d), Uid(d))
      BY <3>1 DEF SuspendInv, PeersKnown, VideoRegistered, Past, Peer
    <3>3. QED
      BY <2>5, <2>6, <3>2
  <2>9. OkInv'
    <3>1. \A d \in Conns : Peer(d) /\ InSession(d) => InSession(d)'
      BY <1>12, <1>19, <2>5, <2>6 DEF InSession, Own, Peer
    <3>2. InSession(c)' /\ InSession(w)'
      BY <1>0, <1>1, <1>2, <1>3, <1>4, <1>6, <1>19, <2>5 DEF InSession, Own
    <3>3. \A x \in Conns : x = Promised(c) => InSession(x)'
      BY <1>2, <3>2 DEF Promised
    <3>4. QED
      BY <1>0, <1>19, <2>0, <3>1, <3>3, OkStep DEF SuspendInv
  <2>10. QED
    BY <2>2, <2>3, <2>4, <2>7, <2>8, <2>9 DEF SuspendInv
<1>20. ASSUME Has(peers, cl, u), ~Has(peers, Opposite(cl), v), Leave(c, P1, S1)
       PROVE  SuspendInv'
  <2>1. Settled(P1, v)
    <3>1. \A x \in Classes : ~Has(P1, x, v)
      BY <1>2, <1>12, <1>14, <1>20 DEF Has
    <3>2. QED
      BY <1>2, <1>13, <3>1 DEF Settled
  <2>2. SessionsSettled(P1, S1)
    <3> SUFFICES ASSUME NEW x \in Kinds, NEW y \in Uids, S1[x][y] # NoUid
                 PROVE  /\ Settled(P1, S1[x][y])
                        /\ \A d \in Conns :
                               Peer(d) /\ Uid(d) \in {y, S1[x][y]} => Kind(Class(d)) = x
      BY DEF SessionsSettled
    <3>1. CASE x = k /\ y = u
      BY <1>8, <1>18, <2>1, <3>1
    <3>2. CASE ~(x = k /\ y = u)
      <4>1. S1[x][y] = sessions[x][y] /\ sessions[x][y] \in Uids
        BY <1>0, <1>8, <3>2 DEF SessionDicts
      <4>2. QED
        BY <1>15, <4>1 DEF SuspendInv, SessionsSettled
    <3>3. QED
      BY <3>1, <3>2
  <2>3. Owned(P1)
    BY <1>0, <1>12 DEF Owned, Has
  <2>4. Ending(c, P1, S1)
    BY <1>0, <1>5, <1>9, <1>20, <2>2, <2>3, LeaveEnding
  <2>5. ASSUME NEW d \in Conns, d = Promised(c), open'[d]
        PROVE  InSession(d)'
    <3>1. CASE d = c
      <4>1. peers'[cl][u] = P1[cl][u]
        BY <1>0, <2>4, <2>5, <3>1 DEF Ending
      <4>2. QED
        BY <1>0, <1>1, <1>4, <1>20, <3>1, <4>1 DEF InSession, Own, Has
    <3>2. CASE d = w
      <4>1. ~open[w]
        BY <1>2, <1>3, <1>20 DEF SuspendInv, GoneClosed
      <4>2. QED
        BY <2>4, <2>5, <3>2, <4>1 DEF Ending
    <3>3. QED
      BY <1>2, <2>5, <3>1, <3>2 DEF Promised
  <2>6. QED
    BY <1>0, <1>5, <1>9, <1>12, <2>2, <2>4, <2>5, EndingStep
<1>21. ASSUME ~Has(peers, cl, u), Leave(c, peers, sessions)
       PROVE  SuspendInv'
  <2>1. cl # "Controller_video" /\ Promised(c) = c
    BY <1>0, <1>21 DEF SuspendInv, VideoRegistered, Kind, Promised
  <2>2. ~open[c]
    BY <1>0, <1>21 DEF SuspendInv, GoneClosed
  <2>3. QED
    BY <1>0, <1>21, <2>1, <2>2, LeaveStep
<1>22. QED
  BY <1>0, <1>19, <1>20, <1>21 DEF PairAssign, P1, P2, S1, S2

LEMMA FinishStep ==
    ASSUME UniquePeers, SuspendInv, TypeOK', Owned(peers)', NEW c \in Conns, FinishLeave(c)
    PROVE  SuspendInv'
<1>1. /\ pc[c] = "closing" /\ Peer(c) /\ pc[c] \in Past
      /\ Deregister(c, peers, sessions) /\ told' = told
      /\ LeaveShape /\ peers \in PeerDicts /\ sessions \in SessionDicts
  BY DEF FinishLeave, Resumed, SuspendInv, TypeOK, LeaveShape, PeersKnown, Past
<1>2. Ending(c, peers, sessions)
  BY <1>1, DeregisterEnding
<1>3. QED
  BY <1>1, <1>2, EndingStep DEF SuspendInv

LEMMA SuspendInit == Init => SuspendInv
<1> SUFFICES ASSUME Init PROVE SuspendInv
  OBVIOUS
<1>1. TypeOK /\ Owned(peers)
  BY TypeInit, KindInit DEF KindInv
<1>2. QED
  BY <1>1 DEF Init, SuspendInv, SessionsSettled, PairingKnown, PeersKnown, GoneClosed,
     VideoRegistered, OkInv, Past

LEMMA SuspendNext ==
    ASSUME UniquePeers, SuspendInv, [Next]_vars
    PROVE  SuspendInv'
<1>0. TypeOK' /\ Owned(peers)'
  BY TypeNext, OwnedNext DEF SuspendInv
<1>t. /\ pc \in [Conns -> Places] /\ open \in [Conns -> BOOLEAN]
      /\ other \in [Conns -> Others]
  BY DEF SuspendInv, TypeOK
<1>1. CASE UNCHANGED vars
  <2>1. PeersKnown'
    BY <1>1 DEF vars, SuspendInv, PeersKnown
  <2>2. QED
    BY <1>0, <1>1, <2>1, DictsKeptStep DEF vars
<1> SUFFICES ASSUME NEW c \in Conns, Task(c) \/ Client(c) PROVE SuspendInv'
  BY <1>1 DEF Next
<1>2. CASE Connect(c) \/ ClientSends(c) \/ ClientCloses(c)
  <2>1. PeersKnown'
    BY <1>2, <1>t DEF Connect, ClientSends, ClientCloses, SuspendInv, PeersKnown
  <2>2. QED
    BY <1>0, <1>2, <1>t, <2>1, DictsKeptStep DEF Connect, ClientSends, ClientCloses, Past
<1>3. CASE AcceptHello(c)
  <2>1. PeersKnown'
    BY <1>3, <1>t DEF AcceptHello, HelloAccepted, Peer, SuspendInv, PeersKnown
  <2>2. QED
    BY <1>0, <1>3, <1>t, <2>1, DictsKeptStep DEF AcceptHello, Resumed, Past
<1>4. CASE Relay(c) \/ Relayed(c) \/ IgnoreMessage(c)
  <2>1. PeersKnown'
    BY <1>4, <1>t DEF Relay, Relayed, IgnoreMessage, Receive, Resumed, SuspendInv,
       PeersKnown
  <2>2. QED
    BY <1>0, <1>4, <1>t, <2>1, DictsKeptStep DEF Relay, Relayed, IgnoreMessage, Receive,
       Resumed, Past
<1>5. CASE RejectHello(c) \/ GreetFails(c)
  BY <1>0, <1>5, EarlyEndStep DEF RejectHello, GreetFails, Resumed
<1>6. CASE Register(c)
  BY <1>0, <1>6, RegisterStep
<1>7. CASE CallPeer(c)
  BY <1>0, <1>7, CallStep
<1>8. CASE RecvClosed(c) \/ LookupFails(c) \/ RelayFails(c) \/ RelaySendFails(c) \/ CallFails(c)
  BY <1>0, <1>8, LeaveStep DEF RecvClosed, LookupFails, RelayFails, RelaySendFails,
     CallFails, Receive, Resumed
<1>9. CASE PairSendFails(c)
  BY <1>0, <1>9, LeaveStep DEF PairSendFails, Resumed, Promised
<1>10. CASE Pair(c)
  BY <1>0, <1>10, PairStep
<1>11. CASE FinishLeave(c)
  BY <1>0, <1>11, FinishStep
<1>12. QED
  BY <1>2, <1>3, <1>4, <1>5, <1>6, <1>7, <1>8, <1>9, <1>10, <1>11 DEF Task, Client

LEMMA SuspendInductive ==
    ASSUME UniquePeers
    PROVE  Spec => []SuspendInv
<1>1. SuspendInv /\ [Next]_vars => SuspendInv'
  BY SuspendNext
<1>2. QED
  BY <1>1, SuspendInit, PTL DEF Spec

\* With a uid of its own for every client, sends that suspend or not:
\* assert(status == 'session') never fails.  Whatever is left of a session
\* whose ends were called, hung up on or lost in the middle of a send, the
\* other end that a relay finds registered is marked as in a session.
THEOREM RelayAssertionCorrect ==
    ASSUME UniquePeers
    PROVE  Spec => []RelayAssertion
<1>1. SuspendInv => RelayAssertion
  <2> SUFFICES ASSUME SuspendInv, NEW c \in Conns, pc[c] = "recv", OtherId(c) # NoUid,
                      Has(peers, Opposite(Class(c)), OtherId(c))
               PROVE  peers[Opposite(Class(c))][OtherId(c)].inSession
    BY DEF RelayAssertion
  <2>1. Kind(Class(c)) \in Kinds /\ Uid(c) \in Uids /\ Opposite(Class(c)) \in Classes
    BY ClassFacts
  <2>2. QED
    BY <2>1 DEF SuspendInv, SessionsSettled, Settled, OtherId
<1>2. QED
  BY <1>1, SuspendInductive, PTL

\* Under the same assumption a client that has been sent SESSION_OK and is
\* still connected is in a session, or the task that sent it is alive and about
\* to put it into one; in particular when two controllers took the same car.
THEOREM SessionOkCorrect ==
    ASSUME UniquePeers
    PROVE  Spec => []SessionOkKept
<1>1. SuspendInv => SessionOkKept
  BY DEF SuspendInv, OkInv, SessionOkKept, Promised
<1>2. QED
  BY <1>1, SuspendInductive, PTL

-----------------------------------------------------------------------------
(* With unique uids and sends that do not suspend                            *)

\* The entry of a peer is its own connection's, whose task is alive.
LEMMA OwnerFacts ==
    ASSUME AtomicInv, UniqueUids, NEW cl \in Classes, NEW u \in Uids,
           Has(peers, cl, u)
    PROVE  /\ peers[cl][u].ws \in Conns
           /\ Class(peers[cl][u].ws) = cl
           /\ Uid(peers[cl][u].ws) = u
           /\ pc[peers[cl][u].ws] \in {"recv", "pairing", "relaying", "closing"}
           /\ \A c \in Conns : Uid(c) = u => peers[cl][u].ws = c
<1> DEFINE w == peers[cl][u].ws
<1>1. w \in Conns
  BY DEF AtomicInv, TypeOK, PeerDicts, Entry, Has
<1>2. Hello[w] = [class |-> cl, uid |-> u]
  BY DEF AtomicInv, OwnersRegistered
<1>3. Class(w) = cl /\ Uid(w) = u
  BY <1>2 DEF Class, Uid
<1>4. pc[w] \in {"recv", "pairing", "relaying", "closing"}
  BY DEF AtomicInv, OwnersRegistered, UidFreed
<1>5. QED
  BY <1>1, <1>3, <1>4 DEF UniqueUids

\* The kinds and the roles fit together.
LEMMA KindFacts ==
    /\ Kind("Car_data") = "data" /\ Kind("Controller_data") = "data"
    /\ \A cl \in Classes :
          /\ Kind(cl) \in Kinds
          /\ Opposite(cl) \in Classes
          /\ Opposite(cl) # cl
          /\ Kind(Opposite(cl)) = Kind(cl)
          /\ Kind(cl) = "data" => cl \in {"Car_data", "Controller_data"}
  BY DEF Kind, Opposite, CarClass, ControllerClass, Classes, Kinds

\* What a task that ends does, when the invariant holds: without a data
\* session it takes its entry away; with one it finds the other end and hangs
\* up on it.
LEMMA LeaveCases ==
    ASSUME AtomicInv, UniqueUids, NEW c \in Conns, Leave(c, peers, sessions)
    PROVE  \/ /\ sessions["data"][Uid(c)] = NoUid
              /\ Deregister(c, peers, sessions)
           \/ \E o \in Uids, cl \in {"Car_data", "Controller_data"} :
                 /\ o = sessions["data"][Uid(c)]
                 /\ Has(peers, cl, o)
                 /\ sessions' = [sessions EXCEPT !["data"] =
                                    [@ EXCEPT ![Uid(c)] = NoUid, ![o] = NoUid]]
                 /\ peers' = [peers EXCEPT ![cl][o] = Absent]
                 /\ open' = [open EXCEPT ![peers[cl][o].ws] = FALSE]
                 /\ pc' = [pc EXCEPT ![c] = "closing"]
                 /\ other' = [other EXCEPT ![c] = NoOther]
<1> DEFINE u == Uid(c)
           o == sessions["data"][u]
           S1 == [sessions EXCEPT !["data"][u] = NoUid]
<1>0. u \in Uids /\ sessions \in SessionDicts
  BY ClassFacts DEF AtomicInv, TypeOK
<1>1. CASE o = NoUid
  <2>1. Deregister(c, peers, sessions)
    BY <1>1 DEF Leave
  <2>2. QED
    BY <1>1, <2>1
<1>2. CASE o # NoUid
  <2>1. /\ o \in Uids
        /\ o # u
        /\ sessions["data"][o] = u
    BY <1>0, <1>2 DEF AtomicInv, SessionsSymmetric, NoSelfSession, SessionDicts, Kinds
  <2>2. S1["data"][o] # NoUid
    BY <1>0, <2>1, UidsAssumption DEF SessionDicts, Kinds
  <2>3. HangUp(c, peers, S1, "data", o)
    BY <1>2, <2>2 DEF Leave
  <2> DEFINE cl == IF Has(peers, "Controller_data", o) THEN "Controller_data"
                                                       ELSE "Car_data"
  <2>4. Has(peers, cl, o)
    BY <1>0, <2>1, UidsAssumption DEF AtomicInv, DataRegistered
  <2>5. /\ sessions' = [S1 EXCEPT !["data"][o] = NoUid]
        /\ peers' = [peers EXCEPT ![cl][o] = Absent]
        /\ open' = [open EXCEPT ![peers[cl][o].ws] = FALSE]
        /\ pc' = [pc EXCEPT ![c] = "closing"]
        /\ other' = [other EXCEPT ![c] = NoOther]
    BY <2>3, <2>4 DEF HangUp, ControllerClass, CarClass
  <2>6. [S1 EXCEPT !["data"][o] = NoUid]
          = [sessions EXCEPT !["data"] = [@ EXCEPT ![u] = NoUid, ![o] = NoUid]]
    BY <1>0, <2>1 DEF SessionDicts, Kinds
  <2>7. QED
    BY <2>1, <2>4, <2>5, <2>6
<1>3. QED
  BY <1>1, <1>2

-----------------------------------------------------------------------------
(* The three steps that change the dictionaries together: a task takes its   *)
(* entry away, a task hangs up on its other end, a task completes a pairing. *)

\* The conjuncts of AtomicInv that the first part does not provide.
Core ==
    /\ SessionsSymmetric
    /\ NoSelfSession
    /\ FreeUnmapped
    /\ EarlyUnmapped
    /\ ClassesKnown
    /\ PairingHolds
    /\ OneInSend
    /\ DataRegistered
    /\ ClosingDone
    /\ UidFreed

LEMMA DeregisterCore ==
    ASSUME AtomicInv, UniqueUids, NEW c \in Conns, InSend \subseteq {c},
           pc[c] \in {"recv", "pairing", "relaying", "closing"},
           sessions["data"][Uid(c)] = NoUid,
           Deregister(c, peers, sessions)
    PROVE  Core'
<1>1. /\ sessions' = sessions
      /\ pc'[c] = "done"
      /\ \A d \in Conns : d # c => pc'[d] = pc[d] /\ other'[d] = other[d]
  BY DEF Deregister, Ends, AtomicInv, TypeOK
<1>2. /\ Class(c) \in Classes
      /\ Uid(c) \in Uids
      /\ \A d \in Conns : Uid(d) \in Uids
  BY ClassFacts DEF AtomicInv, ClassesKnown
<1>3. \A cl \in Classes, u \in Uids :
          IF cl = Class(c) /\ u = Uid(c) THEN ~Has(peers, cl, u)'
                                        ELSE peers'[cl][u] = peers[cl][u]
  BY <1>2 DEF Deregister, Has, Absent, AtomicInv, TypeOK, PeerDicts
<1>4. SessionsSymmetric' /\ NoSelfSession'
  BY <1>1 DEF AtomicInv, SessionsSymmetric, NoSelfSession
<1>5. FreeUnmapped'
  BY <1>1, <1>3 DEF AtomicInv, FreeUnmapped, Has
<1>6. EarlyUnmapped' /\ ClassesKnown'
  BY <1>1, <1>2 DEF AtomicInv, EarlyUnmapped, ClassesKnown, Early
<1>7. PairingHolds' /\ OneInSend'
  BY <1>1 DEF PairingHolds, OneInSend, InSend
<1>8. DataRegistered'
  BY <1>1, <1>3 DEF AtomicInv, DataRegistered, Has, Classes
<1>9. ClosingDone'
  <2> SUFFICES ASSUME NEW d \in Conns, pc'[d] = "closing"
               PROVE  /\ sessions'["data"][Uid(d)] = NoUid
                      /\ Has(peers, Class(d), Uid(d))' => Own(d)'.inSession
    BY DEF ClosingDone
  <2>1. d # c /\ pc[d] = "closing" /\ Class(d) \in Classes /\ Uid(d) # Uid(c)
    BY <1>1 DEF AtomicInv, ClassesKnown, UniqueUids
  <2>2. peers'[Class(d)][Uid(d)] = peers[Class(d)][Uid(d)]
    BY <1>2, <1>3, <2>1
  <2>3. QED
    BY <1>1, <2>1, <2>2 DEF AtomicInv, ClosingDone, Own, Has
<1>10. UidFreed'
  <2> SUFFICES ASSUME NEW cl \in Classes, NEW u \in Uids, Has(peers, cl, u)'
               PROVE  pc'[peers'[cl][u].ws] # "done"
    BY DEF UidFreed
  <2>1. peers'[cl][u] = peers[cl][u] /\ Has(peers, cl, u)
        /\ ~(cl = Class(c) /\ u = Uid(c))
    BY <1>3 DEF Has
  <2>2. peers[cl][u].ws # c /\ peers[cl][u].ws \in Conns
    BY <2>1, OwnerFacts
  <2>3. QED
    BY <1>1, <2>1, <2>2, OwnerFacts
<1>11. QED
  BY <1>4, <1>5, <1>6, <1>7, <1>8, <1>9, <1>10 DEF Core

LEMMA HangUpCore ==
    ASSUME AtomicInv, UniqueUids, NEW c \in Conns, InSend \subseteq {c},
           pc[c] \in {"recv", "pairing", "relaying"},
           NEW o \in Uids, NEW vcl \in {"Car_data", "Controller_data"},
           o = sessions["data"][Uid(c)],
           Has(peers, vcl, o),
           sessions' = [sessions EXCEPT !["data"] =
                           [@ EXCEPT ![Uid(c)] = NoUid, ![o] = NoUid]],
           peers' = [peers EXCEPT ![vcl][o] = Absent],
           pc' = [pc EXCEPT ![c] = "closing"],
           other' = [other EXCEPT ![c] = NoOther]
    PROVE  Core'
<1> DEFINE u == Uid(c)
<1>1. /\ pc'[c] = "closing"
      /\ \A d \in Conns : d # c => pc'[d] = pc[d] /\ other'[d] = other[d]
  BY DEF AtomicInv, TypeOK
<1>2. /\ Class(c) \in Classes
      /\ u \in Uids
      /\ vcl \in Classes
      /\ \A d \in Conns : Uid(d) \in Uids
  BY ClassFacts DEF AtomicInv, ClassesKnown, Classes
<1>3. o # u /\ sessions["data"][o] = u /\ o # NoUid
  BY <1>2, UidsAssumption DEF AtomicInv, SessionsSymmetric, NoSelfSession, Kinds
<1>4. \A cl \in Classes, y \in Uids :
          IF cl = vcl /\ y = o THEN ~Has(peers, cl, y)'
                              ELSE peers'[cl][y] = peers[cl][y]
  BY <1>2 DEF Has, Absent, AtomicInv, TypeOK, PeerDicts
<1>5. /\ \A y \in Uids : sessions'["data"][y] =
             IF y \in {u, o} THEN NoUid ELSE sessions["data"][y]
      /\ sessions'["video"] = sessions["video"]
  BY <1>2 DEF AtomicInv, TypeOK, SessionDicts, Kinds
<1>6. \A k \in Kinds, y \in Uids : sessions'[k][y] \in {sessions[k][y], NoUid}
  BY <1>5 DEF Kinds
<1>7. SessionsSymmetric' /\ NoSelfSession'
  <2>1. ASSUME NEW y \in Uids, sessions'["data"][y] # NoUid
        PROVE  sessions'["data"][sessions'["data"][y]] = y
    <3>1. y \notin {u, o} /\ sessions'["data"][y] = sessions["data"][y]
      BY <2>1, <1>5
    <3>2. sessions["data"][sessions["data"][y]] = y /\ sessions["data"][y] \in Uids
      BY <2>1, <3>1 DEF AtomicInv, SessionsSymmetric, TypeOK, SessionDicts, Kinds
    <3>3. sessions["data"][y] \notin {u, o}
      BY <1>3, <3>1, <3>2
    <3>4. QED
      BY <1>5, <3>1, <3>2, <3>3
  <2>2. QED
    BY <2>1, <1>5, <1>6, UidsAssumption DEF AtomicInv, SessionsSymmetric, NoSelfSession,
       Kinds
<1>8. FreeUnmapped'
  <2> SUFFICES ASSUME NEW cl \in Classes, NEW y \in Uids,
                      Has(peers, cl, y)', ~peers'[cl][y].inSession
               PROVE  sessions'[Kind(cl)][y] = NoUid
    BY DEF FreeUnmapped
  <2>1. peers'[cl][y] = peers[cl][y] /\ Has(peers, cl, y)
    BY <1>4 DEF Has
  <2>2. sessions[Kind(cl)][y] = NoUid
    BY <2>1 DEF AtomicInv, FreeUnmapped
  <2>3. QED
    BY <1>6, <2>2, KindFacts
<1>9. EarlyUnmapped' /\ ClassesKnown'
  BY <1>1, <1>2, <1>6 DEF AtomicInv, EarlyUnmapped, ClassesKnown, Early
<1>10. PairingHolds' /\ OneInSend'
  BY <1>1 DEF PairingHolds, OneInSend, InSend
<1>11. DataRegistered'
  BY <1>4, <1>5 DEF AtomicInv, DataRegistered, Has, Classes
<1>12. ClosingDone'
  <2> SUFFICES ASSUME NEW d \in Conns, pc'[d] = "closing"
               PROVE  /\ sessions'["data"][Uid(d)] = NoUid
                      /\ Has(peers, Class(d), Uid(d))' => Own(d)'.inSession
    BY DEF ClosingDone
  <2>0. Class(d) \in Classes /\ Uid(d) \in Uids
    BY <1>1, <1>2 DEF AtomicInv, ClassesKnown
  <2>1. CASE d # c
    BY <1>1, <1>4, <1>6, <2>0, <2>1 DEF AtomicInv, ClosingDone, Own, Has, Kinds
  <2>2. CASE d = c
    <3>1. PICK x \in {"Car_data", "Controller_data"} : Has(peers, x, u)
      BY <1>2, <1>3, UidsAssumption DEF AtomicInv, DataRegistered
    <3>2. Class(c) = x
      BY <1>2, <3>1, OwnerFacts DEF Classes
    <3>3. Own(c).inSession
      BY <1>2, <1>3, <3>1, <3>2, KindFacts DEF AtomicInv, FreeUnmapped, Own
    <3>4. peers'[Class(c)][u] = peers[Class(c)][u]
      BY <1>2, <1>3, <1>4
    <3>5. QED
      BY <1>2, <1>5, <2>2, <3>3, <3>4 DEF Own
  <2>3. QED
    BY <2>1, <2>2
<1>13. UidFreed'
  <2> SUFFICES ASSUME NEW cl \in Classes, NEW y \in Uids, Has(peers, cl, y)'
               PROVE  pc'[peers'[cl][y].ws] # "done"
    BY DEF UidFreed
  <2>1. peers'[cl][y] = peers[cl][y] /\ Has(peers, cl, y)
    BY <1>4 DEF Has
  <2>2. QED
    BY <1>1, <2>1, OwnerFacts
<1>14. QED
  BY <1>7, <1>8, <1>9, <1>10, <1>11, <1>12, <1>13 DEF Core

LEMMA PairCore ==
    ASSUME AtomicInv, UniqueUids, NEW c \in Conns, InSend \subseteq {c},
           pc[c] = "pairing", PairAssign(c)
    PROVE  /\ Core'
           /\ sessions[Kind(Class(c))][Uid(c)] = NoUid
           /\ sessions[Kind(Class(c))][other[c].uid] = NoUid
           /\ sessions' = [sessions EXCEPT ![Kind(Class(c))] =
                              [@ EXCEPT ![Uid(c)] = other[c].uid,
                                        ![other[c].uid] = Uid(c)]]
<1> DEFINE cl == Class(c)
           opp == Opposite(Class(c))
           u == Uid(c)
           v == other[c].uid
           k == Kind(Class(c))
           P1 == MarkInSession(peers, cl, u)
           S1 == [sessions EXCEPT ![k][u] = v]
<1>1. /\ cl \in Classes
      /\ opp \in Classes
      /\ opp # cl
      /\ k \in Kinds
      /\ Kind(cl) = k
      /\ Kind(opp) = k
      /\ k = "data" => cl \in {"Car_data", "Controller_data"}
      /\ k = "data" => opp \in {"Car_data", "Controller_data"}
      /\ u \in Uids
      /\ v \in Uids
      /\ \A d \in Conns : Uid(d) \in Uids
  BY ClassFacts, KindFacts DEF AtomicInv, ClassesKnown, PairingHolds
<1>2. /\ Has(peers, cl, u) /\ ~peers[cl][u].inSession
      /\ Has(peers, opp, v) /\ ~peers[opp][v].inSession
  BY DEF AtomicInv, PairingHolds, Own
<1>3. /\ peers' = MarkInSession(P1, opp, v)
      /\ sessions' = [S1 EXCEPT ![k][v] = u]
      /\ pc' = [pc EXCEPT ![c] = "recv"]
      /\ other' = [other EXCEPT ![c] = NoOther]
  BY <1>2 DEF PairAssign
<1>4. PICK e \in Conns : /\ e = peers[opp][v].ws
                         /\ Class(e) = opp
                         /\ Uid(e) = v
                         /\ pc[e] \in {"recv", "pairing", "relaying", "closing"}
  BY <1>1, <1>2, OwnerFacts
<1>5. e # c /\ u # v
  BY <1>1, <1>4 DEF UniqueUids
<1>6. sessions[k][u] = NoUid /\ sessions[k][v] = NoUid
  BY <1>1, <1>2 DEF AtomicInv, FreeUnmapped
<1>7. /\ \A y \in Uids : sessions'[k][y] =
             IF y = u THEN v ELSE IF y = v THEN u ELSE sessions[k][y]
      /\ \A j \in Kinds : j # k => sessions'[j] = sessions[j]
      /\ sessions' = [sessions EXCEPT ![k] = [@ EXCEPT ![u] = v, ![v] = u]]
  <2>1. sessions' = [[sessions EXCEPT ![k][u] = v] EXCEPT ![k][v] = u]
    BY <1>3
  <2> HIDE DEF k, u, v
  <2>2. sessions \in [Kinds -> [Uids -> Uids \cup {NoUid}]]
    BY DEF AtomicInv, TypeOK, SessionDicts
  <2>3. /\ sessions'[k] = [[sessions[k] EXCEPT ![u] = v] EXCEPT ![v] = u]
        /\ \A j \in Kinds : j # k => sessions'[j] = sessions[j]
    BY <1>1, <2>1, <2>2
  <2>4. \A y \in Uids : sessions'[k][y] =
            IF y = u THEN v ELSE IF y = v THEN u ELSE sessions[k][y]
    BY <1>1, <1>5, <2>2, <2>3
  <2>5. sessions' = [sessions EXCEPT ![k] = [@ EXCEPT ![u] = v, ![v] = u]]
    BY <1>1, <2>1, <2>2
  <2>6. QED
    BY <2>3, <2>4, <2>5
<1>8. \A x \in Classes, y \in Uids :
          /\ (x = cl /\ y = u) \/ (x = opp /\ y = v) => peers'[x][y].inSession
          /\ peers'[x][y].ws = peers[x][y].ws
          /\ ~(x = cl /\ y = u) /\ ~(x = opp /\ y = v) =>
                 peers'[x][y] = peers[x][y]
  <2>1. peers' = MarkInSession(MarkInSession(peers, cl, u), opp, v)
    BY <1>3
  <2> HIDE DEF cl, opp, u, v
  <2>2. QED
    BY <1>1, <2>1 DEF AtomicInv, TypeOK, PeerDicts, MarkInSession
<1>9. /\ pc'[c] = "recv"
      /\ \A d \in Conns : d # c => pc'[d] = pc[d] /\ other'[d] = other[d]
  BY <1>3 DEF AtomicInv, TypeOK
<1> HIDE DEF cl, opp, u, v, k, P1, S1
<1>10. SessionsSymmetric'
  <2>1. ASSUME NEW y \in Uids, sessions'[k][y] # NoUid
        PROVE  sessions'[k][sessions'[k][y]] = y
    <3>1. CASE y \in {u, v}
      BY <1>1, <1>5, <1>7, <3>1
    <3>2. CASE y \notin {u, v}
      <4>1. /\ sessions'[k][y] = sessions[k][y]
            /\ sessions[k][y] \in Uids
            /\ sessions[k][sessions[k][y]] = y
        BY <1>1, <1>7, <2>1, <3>2 DEF AtomicInv, SessionsSymmetric, TypeOK, SessionDicts
      <4>2. sessions[k][y] \notin {u, v}
        BY <1>6, <4>1, UidsAssumption
      <4>3. QED
        BY <1>7, <4>1, <4>2
    <3>3. QED
      BY <3>1, <3>2
  <2>2. QED
    BY <1>7, <2>1 DEF AtomicInv, SessionsSymmetric
<1>11. NoSelfSession'
  BY <1>1, <1>5, <1>7 DEF AtomicInv, NoSelfSession
<1>12. FreeUnmapped'
  <2> SUFFICES ASSUME NEW x \in Classes, NEW y \in Uids,
                      Has(peers, x, y)', ~peers'[x][y].inSession
               PROVE  sessions'[Kind(x)][y] = NoUid
    BY DEF FreeUnmapped
  <2>1. peers'[x][y] = peers[x][y] /\ Has(peers, x, y)
        /\ ~(x = cl /\ y = u) /\ ~(x = opp /\ y = v)
    BY <1>8 DEF Has
  <2>2. sessions[Kind(x)][y] = NoUid
    BY <2>1 DEF AtomicInv, FreeUnmapped
  <2>3. y # u /\ y # v
    <3>1. peers[x][y].ws \in Conns /\ Class(peers[x][y].ws) = x
          /\ \A d \in Conns : Uid(d) = y => peers[x][y].ws = d
      BY <2>1, OwnerFacts
    <3>2. QED
      BY <1>4, <2>1, <3>1 DEF cl, u
  <2>4. QED
    BY <1>7, <2>2, <2>3, KindFacts
<1>13. EarlyUnmapped'
  <2> SUFFICES ASSUME NEW d \in Conns, NEW j \in Kinds, pc'[d] \in Early
               PROVE  sessions'[j][Uid(d)] = NoUid
    BY DEF EarlyUnmapped
  <2>1. d # c /\ d # e /\ pc[d] \in Early
    BY <1>4, <1>9 DEF Early
  <2>2. Uid(d) # u /\ Uid(d) # v
    BY <1>4, <2>1 DEF UniqueUids, u
  <2>3. sessions[j][Uid(d)] = NoUid
    BY <2>1 DEF AtomicInv, EarlyUnmapped
  <2>4. QED
    BY <1>1, <1>7, <2>2, <2>3
<1>14. ClassesKnown'
  BY <1>1, <1>9 DEF AtomicInv, ClassesKnown, cl
<1>15. PairingHolds' /\ OneInSend'
  BY <1>9 DEF PairingHolds, OneInSend, InSend
<1>16. DataRegistered'
  <2> SUFFICES ASSUME NEW y \in Uids, sessions'["data"][y] # NoUid
               PROVE  Has(peers, "Car_data", y)' \/ Has(peers, "Controller_data", y)'
    BY DEF DataRegistered
  <2>1. \A x \in Classes : Has(peers, x, y) => Has(peers, x, y)'
    BY <1>8 DEF Has
  <2>2. CASE k = "data" /\ y = u
    BY <1>1, <1>2, <2>1, <2>2
  <2>3. CASE k = "data" /\ y = v
    BY <1>1, <1>2, <2>1, <2>3
  <2>4. CASE k # "data" \/ y \notin {u, v}
    <3>1. sessions'["data"][y] = sessions["data"][y]
      BY <1>7, <2>4 DEF Kinds
    <3>2. QED
      BY <2>1, <3>1 DEF AtomicInv, DataRegistered, Classes
  <2>5. QED
    BY <2>2, <2>3, <2>4
<1>17. ClosingDone'
  <2> SUFFICES ASSUME NEW d \in Conns, pc'[d] = "closing"
               PROVE  /\ sessions'["data"][Uid(d)] = NoUid
                      /\ Has(peers, Class(d), Uid(d))' => Own(d)'.inSession
    BY DEF ClosingDone
  <2>1. d # c /\ pc[d] = "closing" /\ Class(d) \in Classes /\ Uid(d) \in Uids
    BY <1>1, <1>9 DEF AtomicInv, ClassesKnown
  <2>2. d # e
    BY <1>1, <1>2, <1>4, <2>1 DEF AtomicInv, ClosingDone, Own
  <2>3. Uid(d) # u /\ Uid(d) # v
    BY <1>4, <2>1, <2>2 DEF UniqueUids, u
  <2>4. QED
    BY <1>1, <1>7, <1>8, <2>1, <2>3 DEF AtomicInv, ClosingDone, Own, Has, Kinds
<1>18. UidFreed'
  <2> SUFFICES ASSUME NEW x \in Classes, NEW y \in Uids, Has(peers, x, y)'
               PROVE  pc'[peers'[x][y].ws] # "done"
    BY DEF UidFreed
  <2>1. peers'[x][y].ws = peers[x][y].ws /\ Has(peers, x, y)
    BY <1>8 DEF Has
  <2>2. QED
    BY <1>9, <2>1, OwnerFacts
<1>19. QED
  BY <1>6, <1>7, <1>10, <1>11, <1>12, <1>13, <1>14, <1>15, <1>16, <1>17, <1>18
     DEF Core, u, v, k

-----------------------------------------------------------------------------
(* The steps that leave the dictionaries alone, and the registration.        *)

LEMMA FrameCore ==
    ASSUME AtomicInv, UniqueUids, NEW c \in Conns, InSend \subseteq {c},
           peers' = peers, sessions' = sessions,
           \A d \in Conns : d # c => pc'[d] = pc[d] /\ other'[d] = other[d],
           pc'[c] \in Early => pc[c] \in Early,
           pc'[c] \notin {"off", "hello", "done"} => Class(c) \in Classes,
           pc'[c] = "closing" => pc[c] = "closing",
           pc'[c] = "done" => pc[c] \in Early \cup {"done"},
           pc'[c] = "pairing" =>
               /\ other'[c].uid \in Uids
               /\ Has(peers, Class(c), Uid(c))
               /\ ~Own(c).inSession
               /\ Has(peers, Opposite(Class(c)), other'[c].uid)
               /\ ~peers[Opposite(Class(c))][other'[c].uid].inSession
    PROVE  Core'
<1>1. SessionsSymmetric' /\ NoSelfSession' /\ FreeUnmapped' /\ DataRegistered'
  BY DEF AtomicInv, SessionsSymmetric, NoSelfSession, FreeUnmapped, DataRegistered, Has
<1>2. EarlyUnmapped' /\ ClassesKnown'
  BY DEF AtomicInv, EarlyUnmapped, ClassesKnown
<1>3. PairingHolds' /\ OneInSend'
  BY DEF PairingHolds, OneInSend, InSend, Has, Own
<1>4. ClosingDone'
  BY DEF AtomicInv, ClosingDone, Has, Own
<1>5. UidFreed'
  <2> SUFFICES ASSUME NEW cl \in Classes, NEW u \in Uids, Has(peers, cl, u)
               PROVE  pc'[peers[cl][u].ws] # "done"
    BY DEF UidFreed, Has
  <2>1. peers[cl][u].ws \in Conns
        /\ pc[peers[cl][u].ws] \in {"recv", "pairing", "relaying", "closing"}
    BY OwnerFacts
  <2>2. QED
    BY <2>1 DEF Early
<1>6. QED
  BY <1>1, <1>2, <1>3, <1>4, <1>5 DEF Core

LEMMA RegisterCore ==
    ASSUME AtomicInv, UniqueUids, NEW c \in Conns, InSend \subseteq {c},
           Register(c)
    PROVE  Core'
<1>1. /\ pc[c] = "greeting"
      /\ pc'[c] = "recv"
      /\ sessions' = sessions
      /\ \A d \in Conns : d # c => pc'[d] = pc[d] /\ other'[d] = other[d]
  BY DEF Register, Resumed, AtomicInv, TypeOK
<1>2. Class(c) \in Classes /\ Uid(c) \in Uids /\ \A d \in Conns : Uid(d) \in Uids
  BY <1>1, ClassFacts DEF AtomicInv, ClassesKnown
<1>3. /\ peers'[Class(c)][Uid(c)] = [ws |-> c, inSession |-> FALSE]
      /\ \A cl \in Classes, u \in Uids :
             ~(cl = Class(c) /\ u = Uid(c)) => peers'[cl][u] = peers[cl][u]
  BY <1>2 DEF Register, AtomicInv, TypeOK, PeerDicts
<1>4. SessionsSymmetric' /\ NoSelfSession'
  BY <1>1 DEF AtomicInv, SessionsSymmetric, NoSelfSession
<1>5. FreeUnmapped'
  <2> SUFFICES ASSUME NEW cl \in Classes, NEW u \in Uids,
                      Has(peers, cl, u)', ~peers'[cl][u].inSession
               PROVE  sessions[Kind(cl)][u] = NoUid
    BY <1>1 DEF FreeUnmapped
  <2>1. CASE cl = Class(c) /\ u = Uid(c)
    BY <1>1, <2>1, KindFacts DEF AtomicInv, EarlyUnmapped, Early
  <2>2. CASE ~(cl = Class(c) /\ u = Uid(c))
    BY <1>3, <2>2 DEF AtomicInv, FreeUnmapped, Has
  <2>3. QED
    BY <2>1, <2>2
<1>6. EarlyUnmapped' /\ ClassesKnown'
  BY <1>1, <1>2 DEF AtomicInv, EarlyUnmapped, ClassesKnown, Early
<1>7. PairingHolds' /\ OneInSend'
  BY <1>1 DEF PairingHolds, OneInSend, InSend
<1>8. DataRegistered'
  <2>1. \A u \in Uids : sessions["data"][u] # NoUid => u # Uid(c)
    BY <1>1 DEF AtomicInv, EarlyUnmapped, Early, Kinds
  <2>2. QED
    BY <1>1, <1>3, <2>1 DEF AtomicInv, DataRegistered, Has, Classes
<1>9. ClosingDone'
  <2> SUFFICES ASSUME NEW d \in Conns, pc'[d] = "closing"
               PROVE  /\ sessions["data"][Uid(d)] = NoUid
                      /\ Has(peers, Class(d), Uid(d))' => Own(d)'.inSession
    BY <1>1 DEF ClosingDone
  <2>1. d # c /\ pc[d] = "closing" /\ Class(d) \in Classes /\ Uid(d) # Uid(c)
    BY <1>1 DEF AtomicInv, ClassesKnown, UniqueUids
  <2>2. peers'[Class(d)][Uid(d)] = peers[Class(d)][Uid(d)]
    BY <1>2, <1>3, <2>1
  <2>3. QED
    BY <2>1, <2>2 DEF AtomicInv, ClosingDone, Own, Has
<1>10. UidFreed'
  <2> SUFFICES ASSUME NEW cl \in Classes, NEW u \in Uids, Has(peers, cl, u)'
               PROVE  pc'[peers'[cl][u].ws] # "done"
    BY DEF UidFreed
  <2>1. CASE cl = Class(c) /\ u = Uid(c)
    BY <1>1, <1>3, <2>1
  <2>2. CASE ~(cl = Class(c) /\ u = Uid(c))
    <3>1. peers'[cl][u] = peers[cl][u] /\ Has(peers, cl, u)
      BY <1>3, <2>2 DEF Has
    <3>2. QED
      BY <1>1, <3>1, OwnerFacts
  <2>3. QED
    BY <2>1, <2>2
<1>11. QED
  BY <1>4, <1>5, <1>6, <1>7, <1>8, <1>9, <1>10 DEF Core

\* A step through Leave, by either of its cases.
LEMMA LeaveCore ==
    ASSUME AtomicInv, UniqueUids, NEW c \in Conns, InSend \subseteq {c},
           pc[c] \in {"recv", "pairing", "relaying"},
           Leave(c, peers, sessions)
    PROVE  Core'
<1>1. CASE sessions["data"][Uid(c)] = NoUid /\ Deregister(c, peers, sessions)
  BY <1>1, DeregisterCore
<1>2. ASSUME NEW o \in Uids, NEW cl \in {"Car_data", "Controller_data"},
             o = sessions["data"][Uid(c)],
             Has(peers, cl, o),
             sessions' = [sessions EXCEPT !["data"] =
                             [@ EXCEPT ![Uid(c)] = NoUid, ![o] = NoUid]],
             peers' = [peers EXCEPT ![cl][o] = Absent],
             pc' = [pc EXCEPT ![c] = "closing"],
             other' = [other EXCEPT ![c] = NoOther]
      PROVE  Core'
  BY <1>2, HangUpCore
<1>3. QED
  BY <1>1, <1>2, LeaveCases

LEMMA CoreNext ==
    ASSUME AtomicInv, UniqueUids, ~SendMaySuspend, [Next]_vars
    PROVE  Core'
<1>0. CASE UNCHANGED vars
  BY <1>0 DEF vars, AtomicInv, Core, SessionsSymmetric, NoSelfSession, FreeUnmapped,
     EarlyUnmapped, ClassesKnown, PairingHolds, OneInSend, InSend, DataRegistered,
     ClosingDone, UidFreed, Has, Own
<1> SUFFICES ASSUME NEW c \in Conns, Task(c) \/ Client(c) PROVE Core'
  BY <1>0 DEF Next
<1>a. /\ pc \in [Conns -> Places]
      /\ other \in [Conns -> Others]
      /\ pc[c] \notin {"off", "hello", "done"} => Class(c) \in Classes
  BY DEF AtomicInv, TypeOK, ClassesKnown
<1>b. \A place : Resumed(c, place) => pc[c] = place /\ InSend \subseteq {c}
  BY DEF Resumed, Turn
<1>1. CASE Client(c)
  <2>1. InSend = {}
    BY <1>1 DEF Client, Connect, ClientSends, ClientCloses, Turn
  <2>2. pc[c] # "pairing"
    BY <2>1 DEF InSend
  <2>3. CASE Connect(c)
    BY <1>a, <2>1, <2>3, FrameCore DEF Connect, Early
  <2>4. CASE ClientSends(c) \/ ClientCloses(c)
    BY <1>a, <2>1, <2>2, <2>4, FrameCore DEF ClientSends, ClientCloses, Early
  <2>5. QED
    BY <1>1, <2>3, <2>4 DEF Client
<1>2. CASE AcceptHello(c)
  BY <1>2, <1>a, <1>b, FrameCore DEF AcceptHello, HelloAccepted, Early
<1>3. CASE RejectHello(c)
  BY <1>3, <1>a, <1>b, FrameCore DEF RejectHello, Ends, Early
<1>4. CASE GreetFails(c)
  BY <1>4, <1>a, <1>b, FrameCore DEF GreetFails, Ends, Early
<1>5. CASE Register(c)
  BY <1>5, <1>b, RegisterCore DEF Register
<1>6. CASE \/ RecvClosed(c) \/ LookupFails(c) \/ RelayFails(c) \/ RelaySendFails(c)
           \/ CallFails(c) \/ PairSendFails(c)
  BY <1>6, <1>b, LeaveCore DEF RecvClosed, LookupFails, RelayFails, RelaySendFails,
     CallFails, PairSendFails, Receive
<1>7. CASE Relay(c)
  BY <1>7, <1>a, <1>b, FrameCore DEF Relay, Receive, Early
<1>8. CASE Relayed(c)
  BY <1>8, <1>a, <1>b, FrameCore DEF Relayed, Early
<1>9. CASE IgnoreMessage(c)
  BY <1>9, <1>a, <1>b, FrameCore DEF IgnoreMessage, Receive, Early
<1>10. CASE CallPeer(c)
  <2>1. PICK v \in FreePeers(Opposite(Class(c))) :
            other' = [other EXCEPT ![c] =
                [uid |-> v, ws |-> peers[Opposite(Class(c))][v].ws]]
    BY <1>10 DEF CallPeer
  <2>2. other'[c].uid = v
    BY <1>a, <2>1
  <2>3. /\ v \in Uids
        /\ Has(peers, Class(c), Uid(c)) /\ ~Own(c).inSession
        /\ Has(peers, Opposite(Class(c)), v)
        /\ ~peers[Opposite(Class(c))][v].inSession
    BY <1>10 DEF CallPeer, Idle, FreePeers
  <2>4. /\ pc[c] = "recv" /\ InSend \subseteq {c}
        /\ pc'[c] = "pairing"
        /\ peers' = peers /\ sessions' = sessions
        /\ \A d \in Conns : d # c => pc'[d] = pc[d] /\ other'[d] = other[d]
    BY <1>10, <1>a, <1>b, <2>1 DEF CallPeer, Receive
  <2>5. QED
    BY <1>a, <2>2, <2>3, <2>4, FrameCore DEF Early
<1>11. CASE Pair(c)
  BY <1>11, <1>b, PairCore DEF Pair
<1>12. CASE FinishLeave(c)
  BY <1>12, <1>b, DeregisterCore DEF FinishLeave, AtomicInv, ClosingDone
<1>13. QED
  BY <1>1, <1>2, <1>3, <1>4, <1>5, <1>6, <1>7, <1>8, <1>9, <1>10, <1>11, <1>12
     DEF Task

LEMMA AtomicInit == Init => AtomicInv
<1> SUFFICES ASSUME Init PROVE AtomicInv
  OBVIOUS
<1>1. /\ \A cl \in Classes, u \in Uids : ~Has(peers, cl, u)
      /\ \A k \in Kinds, u \in Uids : sessions[k][u] = NoUid
      /\ \A c \in Conns : pc[c] = "off"
  BY DEF Init, Has, Absent
<1>2. SessionsSymmetric /\ NoSelfSession /\ FreeUnmapped /\ EarlyUnmapped
  BY <1>1, ClassFacts, KindFacts, UidsAssumption DEF SessionsSymmetric, NoSelfSession,
     FreeUnmapped, EarlyUnmapped
<1>3. ClassesKnown /\ PairingHolds /\ OneInSend /\ DataRegistered /\ ClosingDone
  BY <1>1 DEF ClassesKnown, PairingHolds, OneInSend, InSend, DataRegistered,
     ClosingDone, Kinds
<1>4. OwnersRegistered /\ UidFreed
  BY <1>1 DEF OwnersRegistered, UidFreed
<1>5. QED
  BY <1>2, <1>3, <1>4, TypeInit DEF AtomicInv

LEMMA AtomicNext ==
    ASSUME UniqueUids, ~SendMaySuspend
    PROVE  AtomicInv /\ [Next]_vars => AtomicInv'
<1> SUFFICES ASSUME AtomicInv, [Next]_vars PROVE AtomicInv'
  OBVIOUS
<1>1. TypeOK'
  BY TypeNext DEF AtomicInv
<1>2. OwnersRegistered'
  BY OwnedNext DEF AtomicInv, Owned, OwnersRegistered, Past
<1>3. Core'
  BY CoreNext
<1>4. QED
  BY <1>1, <1>2, <1>3 DEF AtomicInv, Core

\* Without suspended sends and with unique uids, AtomicInv is an invariant.
THEOREM AtomicCorrect ==
    ASSUME UniqueUids, ~SendMaySuspend
    PROVE  Spec => []AtomicInv
<1>1. AtomicInv /\ [Next]_vars => AtomicInv'
  BY AtomicNext
<1>2. QED
  BY <1>1, AtomicInit, PTL DEF Spec

\* "Bidirectional mapping between the two peers": without suspended sends and
\* with unique uids, whoever a session maps a peer to is mapped back to it.
THEOREM SymmetricCorrect ==
    ASSUME UniqueUids, ~SendMaySuspend
    PROVE  Spec => []SessionsSymmetric
<1>1. AtomicInv => SessionsSymmetric
  BY DEF AtomicInv
<1>2. QED
  BY <1>1, AtomicCorrect, PTL

\* Under the same assumptions no entry outlives the task that registered it,
\* so that every client may reconnect under its uid.
THEOREM UidFreedCorrect ==
    ASSUME UniqueUids, ~SendMaySuspend
    PROVE  Spec => []UidFreed
<1>1. AtomicInv => UidFreed
  BY DEF AtomicInv
<1>2. QED
  BY <1>1, AtomicCorrect, PTL

\* A step that ends a task only clears entries of the sessions.
LEMMA LeaveClears ==
    ASSUME AtomicInv, UniqueUids, NEW c \in Conns, Leave(c, peers, sessions),
           NEW k \in Kinds, NEW u \in Uids
    PROVE  sessions'[k][u] \in {sessions[k][u], NoUid}
<1>1. CASE Deregister(c, peers, sessions)
  BY <1>1 DEF Deregister
<1>2. ASSUME NEW o \in Uids,
             sessions' = [sessions EXCEPT !["data"] =
                             [@ EXCEPT ![Uid(c)] = NoUid, ![o] = NoUid]]
      PROVE  sessions'[k][u] \in {sessions[k][u], NoUid}
  BY <1>2 DEF AtomicInv, TypeOK, SessionDicts
<1>3. QED
  BY <1>1, <1>2, LeaveCases

\* Under the same assumptions a session that is in the dicts is never given
\* another end.
THEOREM NotRedirectedCorrect ==
    ASSUME UniqueUids, ~SendMaySuspend
    PROVE  Spec => SessionNotRedirected
<1> DEFINE Kept == \A k \in Kinds, u \in Uids :
                       sessions[k][u] # NoUid =>
                           sessions'[k][u] \in {sessions[k][u], NoUid}
<1>1. ASSUME AtomicInv, [Next]_vars PROVE [Kept]_vars
  <2>1. CASE sessions' = sessions
    BY <2>1
  <2>2. ASSUME NEW c \in Conns, Leave(c, peers, sessions) PROVE Kept
    BY <1>1, <2>2, LeaveClears
  <2>3. ASSUME NEW c \in Conns, Pair(c) PROVE Kept
    <3> DEFINE k == Kind(Class(c))
               u == Uid(c)
               v == other[c].uid
    <3>1. pc[c] = "pairing" /\ InSend \subseteq {c} /\ PairAssign(c)
      BY <2>3 DEF Pair, Resumed, Turn
    <3>2. /\ sessions[k][u] = NoUid /\ sessions[k][v] = NoUid
          /\ sessions' = [sessions EXCEPT ![k] = [@ EXCEPT ![u] = v, ![v] = u]]
      BY <1>1, <3>1, PairCore
    <3> HIDE DEF k, u, v
    <3>3. QED
      BY <1>1, <3>2 DEF AtomicInv, TypeOK, SessionDicts
  <2>4. ASSUME NEW c \in Conns, FinishLeave(c) PROVE sessions' = sessions
    BY <2>4 DEF FinishLeave, Deregister
  <2>5. QED
    BY <1>1, <2>1, <2>2, <2>3, <2>4 DEF Next, Task, Client, vars, Connect,
       ClientSends, ClientCloses, AcceptHello, RejectHello, Register, GreetFails,
       RecvClosed, LookupFails, Relay, Relayed, RelayFails, RelaySendFails,
       IgnoreMessage, CallPeer, CallFails, PairSendFails
<1>2. Spec => [][Kept]_vars
  BY <1>1, AtomicCorrect, PTL DEF Spec
<1>3. QED
  BY <1>2 DEF SessionNotRedirected

-----------------------------------------------------------------------------
(* What a client hears.                                                      *)

\* Who has been relayed a message of c has kept c as the other end of its
\* session for as long as it has been registered.
VoiceInv ==
    \A d \in Conns : \A c \in heard[d] :
        /\ Class(d) \in Classes /\ pc[d] \notin Early
        /\ Has(peers, Class(d), Uid(d)) =>
               /\ Own(d).inSession
               /\ sessions[Kind(Class(d))][Uid(d)] \in {Uid(c), NoUid}

\* A step that leaves every entry in a session as it is or takes it away, and
\* that leaves or clears the sessions of such entries, keeps VoiceInv.
LEMMA VoiceFrame ==
    ASSUME AtomicInv, VoiceInv, heard' = heard,
           \A d \in Conns : pc[d] \notin Early => pc'[d] \notin Early,
           \A d \in Conns :
             Class(d) \in Classes /\ pc[d] \notin Early /\ Has(peers, Class(d), Uid(d))' =>
               /\ Has(peers, Class(d), Uid(d))
               /\ Own(d).inSession =>
                      /\ Own(d)'.inSession
                      /\ sessions'[Kind(Class(d))][Uid(d)] \in
                             {sessions[Kind(Class(d))][Uid(d)], NoUid}
    PROVE  VoiceInv'
BY DEF VoiceInv

\* What a step that ends the task of c leaves of the entries: its own may go,
\* and the one of a client that is hung up on.
LEMMA LeaveEntries ==
    ASSUME AtomicInv, UniqueUids, NEW c \in Conns, Class(c) \in Classes,
           Leave(c, peers, sessions)
    PROVE  /\ \A cl \in Classes, y \in Uids : peers'[cl][y] \in {peers[cl][y], Absent}
           /\ \A d \in Conns : d # c => pc'[d] = pc[d] /\ other'[d] = other[d]
           /\ pc'[c] \in {"done", "closing"}
           /\ \A d \in Conns :
                  /\ open'[d] => open[d]
                  /\ open'[d] /\ d # c /\ Class(d) \in Classes
                        /\ Has(peers, Class(d), Uid(d)) =>
                         Has(peers, Class(d), Uid(d))' /\ Own(d)' = Own(d)
           /\ open'[c] => Own(c)' = Own(c)
<1>0. /\ pc \in [Conns -> Places] /\ other \in [Conns -> Others]
      /\ open \in [Conns -> BOOLEAN]
      /\ peers \in PeerDicts /\ Uid(c) \in Uids
  BY ClassFacts DEF AtomicInv, TypeOK
<1>1. \A d \in Conns : Uid(d) \in Uids /\ (Uid(d) = Uid(c) => d = c)
  BY ClassFacts DEF UniqueUids
<1>2. CASE Deregister(c, peers, sessions)
  <2>1. /\ pc'[c] = "done" /\ ~open'[c] /\ \A d \in Conns : open'[d] => open[d]
        /\ \A d \in Conns : d # c => pc'[d] = pc[d] /\ other'[d] = other[d]
    BY <1>0, <1>2 DEF Deregister, Ends
  <2>2. \A cl \in Classes, y \in Uids :
            /\ peers'[cl][y] \in {peers[cl][y], Absent}
            /\ y # Uid(c) => peers'[cl][y] = peers[cl][y]
    BY <1>0, <1>2 DEF Deregister, PeerDicts
  <2>3. QED
    BY <1>1, <2>1, <2>2 DEF Has, Own
<1>3. ASSUME NEW o \in Uids, NEW cl \in {"Car_data", "Controller_data"},
             Has(peers, cl, o), o = sessions["data"][Uid(c)],
             peers' = [peers EXCEPT ![cl][o] = Absent],
             open' = [open EXCEPT ![peers[cl][o].ws] = FALSE],
             pc' = [pc EXCEPT ![c] = "closing"],
             other' = [other EXCEPT ![c] = NoOther]
      PROVE  /\ \A x \in Classes, y \in Uids : peers'[x][y] \in {peers[x][y], Absent}
             /\ \A d \in Conns : d # c => pc'[d] = pc[d] /\ other'[d] = other[d]
             /\ pc'[c] \in {"done", "closing"}
             /\ \A d \in Conns :
                    /\ open'[d] => open[d]
                    /\ open'[d] /\ d # c /\ Class(d) \in Classes
                          /\ Has(peers, Class(d), Uid(d)) =>
                           Has(peers, Class(d), Uid(d))' /\ Own(d)' = Own(d)
             /\ open'[c] => Own(c)' = Own(c)
  <2>1. cl \in Classes
    BY DEF Classes
  <2>2. \A x \in Classes, y \in Uids :
            IF x = cl /\ y = o THEN peers'[x][y] = Absent ELSE peers'[x][y] = peers[x][y]
    BY <1>0, <1>3, <2>1 DEF PeerDicts
  <2>3. o # Uid(c)
    BY <1>0, <1>3 DEF AtomicInv, NoSelfSession, Kinds
  <2>4. \A d \in Conns : Uid(d) = o => ~open'[d]
    BY <1>0, <1>3, <2>1, OwnerFacts
  <2>5. \A d \in Conns : open'[d] => open[d]
    BY <1>0, <1>3
  <2>6. /\ pc'[c] = "closing"
        /\ \A d \in Conns : d # c => pc'[d] = pc[d] /\ other'[d] = other[d]
    BY <1>0, <1>3
  <2>7. ASSUME NEW d \in Conns, Class(d) \in Classes, open'[d] \/ d = c
        PROVE  /\ Own(d)' = Own(d)
               /\ Has(peers, Class(d), Uid(d)) => Has(peers, Class(d), Uid(d))'
    BY <1>1, <2>2, <2>3, <2>4, <2>7 DEF Own, Has
  <2>8. QED
    BY <2>2, <2>5, <2>6, <2>7
<1>4. QED
  BY <1>2, <1>3, LeaveCases

\* A pairing marks its two ends and nobody else.
LEMMA PairMarks ==
    ASSUME AtomicInv, UniqueUids, NEW c \in Conns, pc[c] = "pairing", PairAssign(c)
    PROVE  /\ \A x \in Classes, y \in Uids :
                  /\ peers'[x][y].ws = peers[x][y].ws
                  /\ peers[x][y].inSession => peers'[x][y].inSession
           /\ peers'[Class(c)][Uid(c)].inSession
           /\ peers'[Opposite(Class(c))][other[c].uid].inSession
           /\ pc' = [pc EXCEPT ![c] = "recv"]
           /\ other' = [other EXCEPT ![c] = NoOther]
           /\ open' = open
<1> DEFINE cl == Class(c)
           opp == Opposite(Class(c))
           u == Uid(c)
           v == other[c].uid
<1>1. /\ cl \in Classes /\ opp \in Classes /\ opp # cl /\ u \in Uids /\ v \in Uids
      /\ Has(peers, cl, u) /\ Has(peers, opp, v)
  BY ClassFacts, KindFacts DEF AtomicInv, ClassesKnown, PairingHolds
<1>2. /\ peers' = MarkInSession(MarkInSession(peers, cl, u), opp, v)
      /\ pc' = [pc EXCEPT ![c] = "recv"]
      /\ other' = [other EXCEPT ![c] = NoOther]
      /\ open' = open
  BY <1>1 DEF PairAssign
<1> HIDE DEF cl, opp, u, v
<1>3. /\ \A x \in Classes, y \in Uids :
             /\ peers'[x][y].ws = peers[x][y].ws
             /\ peers[x][y].inSession => peers'[x][y].inSession
      /\ peers'[cl][u].inSession /\ peers'[opp][v].inSession
  BY <1>1, <1>2 DEF AtomicInv, TypeOK, PeerDicts, MarkInSession
<1>4. QED
  BY <1>2, <1>3 DEF cl, opp, u, v

\* A task that is past its hello stays so.
LEMMA PastHello ==
    ASSUME AtomicInv, UniqueUids, [Next]_vars, NEW d \in Conns, pc[d] \notin Early
    PROVE  pc'[d] \notin Early
<1>1. CASE UNCHANGED vars
  BY <1>1 DEF vars
<1>2. ASSUME NEW c \in Conns, Task(c) \/ Client(c) PROVE pc'[d] \notin Early
  <2> USE DEF AtomicInv, TypeOK, Early
  <2>1. ASSUME Leave(c, peers, sessions) PROVE pc'[d] \notin Early
    BY <2>1, LeaveRemoves DEF LeaveShape
  <2>2. CASE \/ RecvClosed(c) \/ LookupFails(c) \/ RelayFails(c) \/ RelaySendFails(c)
             \/ CallFails(c) \/ PairSendFails(c)
    BY <2>1, <2>2 DEF RecvClosed, LookupFails, RelayFails, RelaySendFails, CallFails,
       PairSendFails
  <2>3. CASE AcceptHello(c) \/ RejectHello(c) \/ Register(c) \/ GreetFails(c)
    BY <2>3 DEF AcceptHello, RejectHello, Register, GreetFails, Resumed, Ends
  <2>4. CASE Relay(c) \/ Relayed(c) \/ IgnoreMessage(c) \/ CallPeer(c)
    BY <2>4 DEF Relay, Relayed, IgnoreMessage, CallPeer, Receive, Resumed
  <2>5. CASE FinishLeave(c)
    BY <2>5 DEF FinishLeave, Deregister, Ends
  <2>6. CASE Client(c)
    BY <2>6 DEF Client, Connect, ClientSends, ClientCloses
  <2>7. CASE Pair(c)
    <3>1. PairAssign(c) /\ pc[c] = "pairing"
      BY <2>7 DEF Pair, Resumed
    <3>2. QED
      BY <3>1, PairMarks
  <2>8. QED
    BY <1>2, <2>2, <2>3, <2>4, <2>5, <2>6, <2>7 DEF Task
<1>3. QED
  BY <1>1, <1>2 DEF Next

\* What the step of a relay finds: the other end is the client that the
\* session names, and its session names c.
LEMMA RelayFacts ==
    ASSUME AtomicInv, UniqueUids, NEW c \in Conns, Relay(c)
    PROVE  \E e \in Conns :
               /\ heard' = [heard EXCEPT ![e] = @ \cup {c}]
               /\ Class(e) \in Classes /\ pc[e] \notin Early
               /\ Has(peers, Class(e), Uid(e)) /\ Own(e).inSession
               /\ sessions[Kind(Class(e))][Uid(e)] = Uid(c)
               /\ peers' = peers /\ sessions' = sessions
<1> DEFINE cl == Opposite(Class(c))
           o == OtherId(c)
           e == peers[cl][o].ws
<1>1. /\ Class(c) \in Classes /\ Uid(c) \in Uids /\ Kind(Class(c)) \in Kinds
      /\ cl \in Classes /\ Kind(cl) = Kind(Class(c))
  BY ClassFacts, KindFacts DEF Relay, Receive, Resumed, AtomicInv, ClassesKnown
<1>2. /\ o # NoUid /\ o \in Uids /\ Has(peers, cl, o) /\ peers[cl][o].inSession
      /\ heard' = [heard EXCEPT ![e] = @ \cup {c}]
      /\ peers' = peers /\ sessions' = sessions
  BY <1>1, SMTT(40) DEF Relay, Routable, OtherId, AtomicInv, TypeOK, SessionDicts
<1>3. sessions[Kind(Class(c))][o] = Uid(c)
  BY <1>1, <1>2 DEF AtomicInv, SessionsSymmetric, OtherId
<1>4. e \in Conns /\ Class(e) = cl /\ Uid(e) = o /\ pc[e] \notin Early
  BY <1>1, <1>2, OwnerFacts DEF Early
<1>5. QED
  BY <1>1, <1>2, <1>3, <1>4 DEF Own

\* Every step keeps what is known of the clients that were relayed messages.
LEMMA VoiceStep ==
    ASSUME AtomicInv, UniqueUids, ~SendMaySuspend, VoiceInv, [Next]_vars
    PROVE  VoiceInv'
<1>a. \A d \in Conns : pc[d] \notin Early => pc'[d] \notin Early
  BY PastHello
<1>b. /\ \A d \in Conns : Uid(d) \in Uids /\ Kind(Class(d)) \in Kinds
      /\ \A c, d \in Conns : Uid(c) = Uid(d) => c = d
  BY ClassFacts DEF UniqueUids
<1>1. CASE heard' = heard /\ peers' = peers /\ sessions' = sessions
  BY <1>a, <1>1, VoiceFrame DEF Has, Own
<1>2. ASSUME NEW c \in Conns, Register(c) PROVE VoiceInv'
  <2>1. /\ pc[c] = "greeting" /\ heard' = heard /\ sessions' = sessions
        /\ Class(c) \in Classes
    BY <1>2 DEF Register, Resumed, AtomicInv, ClassesKnown
  <2>2. \A d \in Conns : d # c /\ Class(d) \in Classes => Own(d)' = Own(d)
    BY <1>2, <1>b, <2>1 DEF Register, Own, AtomicInv, TypeOK, PeerDicts
  <2>3. QED
    BY <1>a, <2>1, <2>2, VoiceFrame DEF Has, Own, Early
<1>3. ASSUME NEW c \in Conns, heard' = heard,
             \A cl \in Classes, y \in Uids : peers'[cl][y] \in {peers[cl][y], Absent},
             \A k \in Kinds, y \in Uids : sessions'[k][y] \in {sessions[k][y], NoUid}
      PROVE  VoiceInv'
  <2>1. \A d \in Conns : Class(d) \in Classes /\ Has(peers, Class(d), Uid(d))' =>
            /\ Own(d)' = Own(d) /\ Has(peers, Class(d), Uid(d))
            /\ sessions'[Kind(Class(d))][Uid(d)] \in
                   {sessions[Kind(Class(d))][Uid(d)], NoUid}
    BY <1>3, <1>b DEF Has, Own, Absent
  <2>2. QED
    BY <1>3, <1>a, <2>1, VoiceFrame
<1>4. ASSUME NEW c \in Conns,
             \/ RecvClosed(c) \/ LookupFails(c) \/ RelayFails(c) \/ RelaySendFails(c)
             \/ CallFails(c) \/ PairSendFails(c)
      PROVE  VoiceInv'
  <2>1. heard' = heard /\ Leave(c, peers, sessions) /\ Class(c) \in Classes
    BY <1>4 DEF RecvClosed, LookupFails, RelayFails, RelaySendFails, CallFails,
       PairSendFails, Receive, Resumed, AtomicInv, ClassesKnown
  <2>2. QED
    BY <1>3, <2>1, LeaveEntries, LeaveClears
<1>5. ASSUME NEW c \in Conns, FinishLeave(c) PROVE VoiceInv'
  <2>1. heard' = heard /\ sessions' = sessions
        /\ \A cl \in Classes, y \in Uids : peers'[cl][y] \in {peers[cl][y], Absent}
    BY <1>5, <1>b DEF FinishLeave, Deregister, AtomicInv, TypeOK, PeerDicts
  <2>2. QED
    BY <1>3, <2>1
<1>6. ASSUME NEW c \in Conns, Pair(c) PROVE VoiceInv'
  <2> DEFINE u == Uid(c)
             v == other[c].uid
             k == Kind(Class(c))
             opp == Opposite(Class(c))
  <2>1. pc[c] = "pairing" /\ PairAssign(c) /\ heard' = heard
    BY <1>6 DEF Pair, Resumed
  <2>2. /\ opp \in Classes /\ u \in Uids /\ v \in Uids /\ k \in Kinds
        /\ Has(peers, opp, v) /\ ~peers[opp][v].inSession /\ ~Own(c).inSession
    BY <2>1, <1>b, ClassFacts, KindFacts DEF AtomicInv, ClassesKnown, PairingHolds
  <2>3. ASSUME NEW d \in Conns, Class(d) \in Classes, Has(peers, Class(d), Uid(d))'
        PROVE  /\ Has(peers, Class(d), Uid(d))
               /\ Own(d).inSession => Own(d)'.inSession /\ Uid(d) # u /\ Uid(d) # v
    BY <2>1, <2>2, <2>3, <1>b, PairMarks, OwnerFacts DEF Has, Own
  <2>4. sessions' = [sessions EXCEPT ![k] = [@ EXCEPT ![u] = v, ![v] = u]]
    BY <2>1, <1>6, PairCore DEF Pair, Resumed, Turn
  <2> HIDE DEF u, v, k
  <2>5. \A j \in Kinds, y \in Uids : y # u /\ y # v => sessions'[j][y] = sessions[j][y]
    BY <2>2, <2>4 DEF AtomicInv, TypeOK, SessionDicts
  <2>6. QED
    BY <1>a, <1>b, <2>1, <2>3, <2>5, VoiceFrame
<1>7. ASSUME NEW c \in Conns, Relay(c) PROVE VoiceInv'
  <2>1. PICK e \in Conns :
            /\ heard' = [heard EXCEPT ![e] = @ \cup {c}]
            /\ Class(e) \in Classes /\ pc[e] \notin Early
            /\ Has(peers, Class(e), Uid(e)) /\ Own(e).inSession
            /\ sessions[Kind(Class(e))][Uid(e)] = Uid(c)
            /\ peers' = peers /\ sessions' = sessions
    BY <1>7, RelayFacts
  <2>2. \A d \in Conns : \A x \in heard'[d] : x \in heard[d] \/ (d = e /\ x = c)
    BY <2>1 DEF AtomicInv, TypeOK
  <2> SUFFICES ASSUME NEW d \in Conns, NEW x \in heard'[d]
               PROVE  /\ Class(d) \in Classes /\ pc'[d] \notin Early
                      /\ Has(peers, Class(d), Uid(d)) =>
                             /\ Own(d).inSession
                             /\ sessions[Kind(Class(d))][Uid(d)] \in {Uid(x), NoUid}
    BY <2>1 DEF VoiceInv, Has, Own
  <2>3. CASE x \in heard[d]
    BY <1>a, <2>3 DEF VoiceInv
  <2>4. CASE d = e /\ x = c
    BY <1>a, <2>1, <2>4
  <2>5. QED
    BY <2>2, <2>3, <2>4
<1>8. QED
  BY <1>1, <1>2, <1>4, <1>5, <1>6, <1>7 DEF Next, Task, Client, vars, Connect,
     ClientSends, ClientCloses, AcceptHello, RejectHello, GreetFails, Relayed,
     IgnoreMessage, CallPeer

\* Every step keeps the listeners to one voice each.
LEMMA OneVoiceStep ==
    ASSUME AtomicInv, UniqueUids, VoiceInv, OneVoice, [Next]_vars
    PROVE  OneVoice'
<1>1. CASE heard' = heard
  BY <1>1 DEF OneVoice
<1>2. ASSUME NEW c \in Conns, Relay(c) PROVE OneVoice'
  <2>1. PICK e \in Conns :
            /\ heard' = [heard EXCEPT ![e] = @ \cup {c}]
            /\ Has(peers, Class(e), Uid(e))
            /\ sessions[Kind(Class(e))][Uid(e)] = Uid(c)
    BY <1>2, RelayFacts
  <2>2. \A d \in Conns : \A x \in heard'[d] : x \in heard[d] \/ (d = e /\ x = c)
    BY <2>1 DEF AtomicInv, TypeOK
  <2>3. ASSUME NEW x \in heard[e] PROVE x = c
    <3>1. Uid(x) = Uid(c) /\ x \in Conns
      BY <2>1, ClassFacts, UidsAssumption DEF VoiceInv, AtomicInv, TypeOK
    <3>2. QED
      BY <3>1 DEF UniqueUids
  <2>4. QED
    BY <2>2, <2>3 DEF OneVoice
<1>3. QED
  BY <1>1, <1>2 DEF Next, Task, Client, vars, Connect, ClientSends, ClientCloses,
     AcceptHello, RejectHello, Register, GreetFails, RecvClosed, LookupFails, Relayed,
     RelayFails, RelaySendFails, IgnoreMessage, CallPeer, CallFails, Pair,
     PairSendFails, FinishLeave

\* Under the same assumptions a connection is relayed the messages of one other
\* connection only.
THEOREM OneVoiceCorrect ==
    ASSUME UniqueUids, ~SendMaySuspend
    PROVE  Spec => []OneVoice
<1>1. Init => VoiceInv /\ OneVoice
  BY DEF Init, VoiceInv, OneVoice
<1>2. AtomicInv /\ VoiceInv /\ OneVoice /\ [Next]_vars => (VoiceInv /\ OneVoice)'
  BY VoiceStep, OneVoiceStep
<1>3. QED
  BY <1>1, <1>2, AtomicCorrect, PTL DEF Spec

-----------------------------------------------------------------------------
(* The data sessions implement Matchmaker, but for its fairness, which is    *)
(* model-checked.                                                            *)

DataConns == {c \in Conns : Class(c) \in {"Car_data", "Controller_data"}}

\* The states of the users that Matchmaker sees.
states == [u \in DataUsers |-> StateOf(u)]
partners == [u \in DataUsers |-> sessions["data"][u]]

\* A data user is a connection.
LEMMA DataUserFacts ==
    ASSUME UniqueUids
    PROVE  /\ \A c \in DataConns : Uid(c) \in DataUsers /\ ConnOf(Uid(c)) = c
           /\ \A u \in DataUsers : ConnOf(u) \in DataConns /\ Uid(ConnOf(u)) = u
           /\ DataUsers \subseteq Uids
<1>1. \A c \in Conns : ConnOf(Uid(c)) = c
  BY DEF ConnOf, UniqueUids
<1>2. \A u \in DataUsers : \E c \in DataConns : u = Uid(c)
  BY DEF DataUsers, UsersOf, DataConns
<1>3. \A c \in DataConns : Uid(c) \in DataUsers
  BY DEF DataUsers, UsersOf, DataConns
<1>4. QED
  BY <1>1, <1>2, <1>3, ClassFacts DEF DataConns

\* What the dictionaries say of one of them.
LEMMA StateFacts ==
    ASSUME UniqueUids, NEW c \in DataConns
    PROVE  StateOf(Uid(c)) =
               IF ~Has(peers, Class(c), Uid(c))
               THEN IF pc[c] \in Early THEN "out" ELSE "gone"
               ELSE IF ~Own(c).inSession THEN "free"
               ELSE IF sessions["data"][Uid(c)] # NoUid THEN "busy" ELSE "leaving"
BY DataUserFacts DEF StateOf

\* A user is in the same state as before if its entry, its session and its
\* being past the hello are.
LEMMA StateKept ==
    ASSUME UniqueUids, NEW c \in DataConns,
           peers'[Class(c)][Uid(c)] = peers[Class(c)][Uid(c)],
           sessions'["data"][Uid(c)] = sessions["data"][Uid(c)],
           Has(peers, Class(c), Uid(c)) \/ (pc'[c] \in Early <=> pc[c] \in Early)
    PROVE  StateOf(Uid(c))' = StateOf(Uid(c))
BY DataUserFacts DEF StateOf, Has, Own

LEMMA StatesKept ==
    ASSUME UniqueUids,
           \A c \in DataConns :
               /\ peers'[Class(c)][Uid(c)] = peers[Class(c)][Uid(c)]
               /\ sessions'["data"][Uid(c)] = sessions["data"][Uid(c)]
               /\ Has(peers, Class(c), Uid(c)) \/ (pc'[c] \in Early <=> pc[c] \in Early)
    PROVE  states' = states /\ partners' = partners
<1>1. \A c \in DataConns : StateOf(Uid(c))' = StateOf(Uid(c))
  BY StateKept
<1>2. \A u \in DataUsers : StateOf(u)' = StateOf(u) /\ sessions'["data"][u] = sessions["data"][u]
  BY <1>1, DataUserFacts
<1>3. QED
  BY <1>2 DEF states, partners

\* The users of S may move; every other one is in the same state as before.
LEMMA OthersKept ==
    ASSUME UniqueUids, NEW S \in SUBSET DataConns,
           \A d \in DataConns \ S :
               /\ peers'[Class(d)][Uid(d)] = peers[Class(d)][Uid(d)]
               /\ sessions'["data"][Uid(d)] = sessions["data"][Uid(d)]
               /\ Has(peers, Class(d), Uid(d)) \/ (pc'[d] \in Early <=> pc[d] \in Early)
    PROVE  \A u \in DataUsers : ConnOf(u) \notin S =>
               /\ StateOf(u)' = StateOf(u)
               /\ sessions'["data"][u] = sessions["data"][u]
<1>1. \A d \in DataConns \ S : StateOf(Uid(d))' = StateOf(Uid(d))
  BY StateKept
<1>2. QED
  BY <1>1, DataUserFacts

\* One user moves, and no partner changes.
LEMMA OneMoves ==
    ASSUME UniqueUids, NEW c \in DataConns,
           \A d \in DataConns :
               /\ sessions'["data"][Uid(d)] = sessions["data"][Uid(d)]
               /\ d # c =>
                    /\ peers'[Class(d)][Uid(d)] = peers[Class(d)][Uid(d)]
                    /\ Has(peers, Class(d), Uid(d)) \/ (pc'[d] \in Early <=> pc[d] \in Early)
    PROVE  /\ states' = [states EXCEPT ![Uid(c)] = StateOf(Uid(c))']
           /\ partners' = partners
<1>1. \A u \in DataUsers : ConnOf(u) \notin {c} => StateOf(u)' = StateOf(u)
  <2>1. {c} \in SUBSET DataConns
    OBVIOUS
  <2>2. \A d \in DataConns \ {c} :
            /\ peers'[Class(d)][Uid(d)] = peers[Class(d)][Uid(d)]
            /\ sessions'["data"][Uid(d)] = sessions["data"][Uid(d)]
            /\ Has(peers, Class(d), Uid(d)) \/ (pc'[d] \in Early <=> pc[d] \in Early)
    OBVIOUS
  <2> QED
    BY <2>1, <2>2, OthersKept
<1>2. \A u \in DataUsers : u # Uid(c) => StateOf(u)' = StateOf(u)
  BY <1>1, DataUserFacts
<1>3. \A u \in DataUsers : sessions'["data"][u] = sessions["data"][u]
  BY DataUserFacts
<1>4. Uid(c) \in DataUsers
  BY DataUserFacts
<1>5. QED
  BY <1>2, <1>3, <1>4 DEF states, partners

\* Two users move.
LEMMA TwoMove ==
    ASSUME UniqueUids, NEW c \in DataConns, NEW e \in DataConns,
           \A d \in DataConns \ {c, e} :
               /\ peers'[Class(d)][Uid(d)] = peers[Class(d)][Uid(d)]
               /\ sessions'["data"][Uid(d)] = sessions["data"][Uid(d)]
               /\ Has(peers, Class(d), Uid(d)) \/ (pc'[d] \in Early <=> pc[d] \in Early)
    PROVE  \A u \in DataUsers : u # Uid(c) /\ u # Uid(e) =>
               StateOf(u)' = StateOf(u) /\ sessions'["data"][u] = sessions["data"][u]
<1>1. {c, e} \in SUBSET DataConns
  OBVIOUS
<1>2. \A u \in DataUsers : ConnOf(u) \notin {c, e} =>
          StateOf(u)' = StateOf(u) /\ sessions'["data"][u] = sessions["data"][u]
  BY <1>1, OthersKept
<1>3. QED
  BY <1>2, DataUserFacts

\* The two variables of the promise, and what follows for its steps.
LEMMA PromiseVars ==
    /\ Promise!mvars = <<states, partners>>
    /\ Promise!Users = DataUsers
BY DEF Promise!mvars, states, partners, Promise!Users, DataUsers

LEMMA Stutters ==
    ASSUME states' = states, partners' = partners
    PROVE  UNCHANGED Promise!mvars
BY DEF Promise!mvars, states, partners

LEMMA Departs ==
    ASSUME NEW u \in DataUsers, states[u] \in {"out", "free", "leaving"},
           states' = [states EXCEPT ![u] = "gone"], partners' = partners
    PROVE  Promise!MatchNext
<1>1. Promise!Depart(u)
  BY DEF Promise!Depart, states, partners
<1>2. QED
  BY <1>1, PromiseVars DEF Promise!MatchNext

LEMMA Joins ==
    ASSUME NEW u \in DataUsers, states[u] = "out",
           states' = [states EXCEPT ![u] = "free"], partners' = partners
    PROVE  Promise!MatchNext
<1>1. Promise!Join(u)
  BY DEF Promise!Join, states, partners
<1>2. QED
  BY <1>1, PromiseVars DEF Promise!MatchNext

LEMMA Matches ==
    ASSUME NEW u \in UsersOf("Car_data"), NEW v \in UsersOf("Controller_data"),
           states[u] = "free", states[v] = "free",
           states' = [states EXCEPT ![u] = "busy", ![v] = "busy"],
           partners' = [partners EXCEPT ![u] = v, ![v] = u]
    PROVE  Promise!MatchNext
<1>1. Promise!Match(u, v)
  BY DEF Promise!Match, states, partners
<1>2. QED
  BY <1>1 DEF Promise!MatchNext

LEMMA Ended ==
    ASSUME NEW u \in DataUsers, NEW v \in DataUsers,
           states[u] = "busy", partners[u] = v,
           states' = [states EXCEPT ![u] = "leaving", ![v] = "gone"],
           partners' = [partners EXCEPT ![u] = NoUid, ![v] = NoUid]
    PROVE  Promise!MatchNext
<1>1. Promise!End(u, v)
  BY DEF Promise!End, states, partners
<1>2. QED
  BY <1>1, PromiseVars DEF Promise!MatchNext

\* No registration is there before its own task makes it.
LEMMA EarlyAbsent ==
    ASSUME AtomicInv, UniqueUids, NEW c \in DataConns, pc[c] \in Early
    PROVE  ~Has(peers, Class(c), Uid(c))
<1>1. Class(c) \in Classes /\ Uid(c) \in Uids
  BY ClassFacts DEF DataConns, Classes
<1>2. QED
  BY <1>1, OwnerFacts DEF Early, DataConns

\* Steps that leave the dictionaries alone.
LEMMA QuietStep ==
    ASSUME UniqueUids, peers' = peers, sessions' = sessions,
           \A d \in DataConns : pc'[d] \in Early <=> pc[d] \in Early
    PROVE  UNCHANGED Promise!mvars
<1>1. states' = states /\ partners' = partners
  BY StatesKept
<1>2. QED
  BY <1>1, Stutters

\* A connection that ends in its hello leaves unseen, or departs.
LEMMA EarlyEnd ==
    ASSUME AtomicInv, UniqueUids, NEW c \in Conns, pc[c] \in Early,
           peers' = peers, sessions' = sessions, pc' = [pc EXCEPT ![c] = "done"]
    PROVE  [Promise!MatchNext]_(Promise!mvars)
<1>0. pc \in [Conns -> Places]
  BY DEF AtomicInv, TypeOK
<1>1. CASE c \notin DataConns
  <2>1. \A d \in DataConns : pc'[d] = pc[d]
    BY <1>0, <1>1 DEF DataConns
  <2> QED
    BY <2>1, QuietStep
<1>2. CASE c \in DataConns
  <2>1. \A d \in DataConns : d # c => pc'[d] = pc[d]
    BY <1>0 DEF DataConns
  <2>2. states' = [states EXCEPT ![Uid(c)] = StateOf(Uid(c))'] /\ partners' = partners
    BY <1>2, <2>1, OneMoves
  <2>3. ~Has(peers, Class(c), Uid(c)) /\ Uid(c) \in DataUsers
    BY <1>2, EarlyAbsent, DataUserFacts
  <2>4. states[Uid(c)] = "out"
    BY <1>2, <2>3, StateFacts DEF states
  <2>5. pc'[c] \notin Early
    BY <1>0 DEF Early
  <2>6. StateOf(Uid(c))' = "gone"
    BY <1>2, <2>3, <2>5, DataUserFacts DEF StateOf, Has
  <2> QED
    BY <2>2, <2>3, <2>4, <2>6, Departs
<1>3. QED
  BY <1>1, <1>2

\* A registration is a data user's joining, or nothing that the promise sees.
LEMMA RegisterPromise ==
    ASSUME AtomicInv, UniqueUids, NEW c \in Conns, Register(c)
    PROVE  [Promise!MatchNext]_(Promise!mvars)
<1>0. /\ pc \in [Conns -> Places] /\ peers \in PeerDicts
      /\ pc[c] \in Early
      /\ pc' = [pc EXCEPT ![c] = "recv"]
      /\ sessions' = sessions
      /\ peers' = [peers EXCEPT ![Class(c)][Uid(c)] = [ws |-> c, inSession |-> FALSE]]
  BY DEF Register, Resumed, AtomicInv, TypeOK, Early
<1>1. \A d \in DataConns :
          /\ Class(d) \in Classes /\ Uid(d) \in Uids
          /\ d # c => Uid(d) # Uid(c) /\ pc'[d] = pc[d]
  BY <1>0, ClassFacts DEF DataConns, Classes, UniqueUids
<1>2. \A d \in DataConns : d # c => peers'[Class(d)][Uid(d)] = peers[Class(d)][Uid(d)]
  BY <1>0, <1>1 DEF PeerDicts
<1>3. CASE c \notin DataConns
  <2>1. states' = states /\ partners' = partners
    BY <1>0, <1>1, <1>2, <1>3, StatesKept
  <2> QED
    BY <2>1, Stutters
<1>4. CASE c \in DataConns
  <2>1. states' = [states EXCEPT ![Uid(c)] = StateOf(Uid(c))'] /\ partners' = partners
    BY <1>0, <1>1, <1>2, <1>4, OneMoves
  <2>2. ~Has(peers, Class(c), Uid(c)) /\ Uid(c) \in DataUsers /\ ConnOf(Uid(c)) = c
    BY <1>0, <1>4, EarlyAbsent, DataUserFacts
  <2>3. states[Uid(c)] = "out"
    BY <1>0, <1>4, <2>2, StateFacts DEF states
  <2>4. peers'[Class(c)][Uid(c)] = [ws |-> c, inSession |-> FALSE]
    BY <1>0, <1>1, <1>4 DEF PeerDicts
  <2>5. StateOf(Uid(c))' = "free"
    BY <2>2, <2>4, ConnsAssumption DEF StateOf, Has, Own
  <2> QED
    BY <2>1, <2>2, <2>3, <2>5, Joins
<1>5. QED
  BY <1>3, <1>4

\* A task without a data session takes its entry away: a free or a leaving
\* user departs; one who has been hung up on, or is no data user, is not seen.
LEMMA DeregisterPromise ==
    ASSUME AtomicInv, UniqueUids, NEW c \in Conns, Class(c) \in Classes,
           pc[c] \notin Early, sessions["data"][Uid(c)] = NoUid,
           Deregister(c, peers, sessions)
    PROVE  [Promise!MatchNext]_(Promise!mvars)
<1>0. /\ pc \in [Conns -> Places] /\ peers \in PeerDicts
      /\ pc' = [pc EXCEPT ![c] = "done"]
      /\ sessions' = sessions
      /\ peers' = [peers EXCEPT ![Class(c)][Uid(c)] = Absent]
  BY DEF Deregister, Ends, AtomicInv, TypeOK
<1>1. \A d \in DataConns :
          /\ Class(d) \in Classes /\ Uid(d) \in Uids
          /\ d # c => Uid(d) # Uid(c) /\ pc'[d] = pc[d]
  BY <1>0, ClassFacts DEF DataConns, Classes, UniqueUids
<1>2. \A d \in DataConns : d # c => peers'[Class(d)][Uid(d)] = peers[Class(d)][Uid(d)]
  BY <1>0, <1>1 DEF PeerDicts
<1>3. pc'[c] \notin Early
  BY <1>0 DEF Early
<1>4. CASE c \notin DataConns
  <2>1. states' = states /\ partners' = partners
    BY <1>0, <1>1, <1>2, <1>4, StatesKept
  <2> QED
    BY <2>1, Stutters
<1>5. CASE c \in DataConns
  <2>1. states' = [states EXCEPT ![Uid(c)] = StateOf(Uid(c))'] /\ partners' = partners
    BY <1>0, <1>1, <1>2, <1>5, OneMoves
  <2>2. Uid(c) \in DataUsers /\ ConnOf(Uid(c)) = c
    BY <1>5, DataUserFacts
  <2>3. peers'[Class(c)][Uid(c)] = Absent
    BY <1>0, <1>1, <1>5 DEF PeerDicts
  <2>4. StateOf(Uid(c))' = "gone"
    BY <1>3, <2>2, <2>3 DEF StateOf, Has, Absent
  <2>5. states[Uid(c)] \in {"free", "leaving", "gone"}
    BY <1>5, <2>2, StateFacts DEF states
  <2>6. states \in [DataUsers -> {"out", "free", "busy", "leaving", "gone"}]
    BY DEF states, StateOf
  <2>7. CASE states[Uid(c)] = "gone"
    <3>1. states' = states
      BY <2>1, <2>2, <2>4, <2>6, <2>7
    <3> QED
      BY <2>1, <3>1, Stutters
  <2>8. CASE states[Uid(c)] # "gone"
    BY <2>1, <2>2, <2>4, <2>5, <2>8, Departs
  <2> QED
    BY <2>7, <2>8
<1>6. QED
  BY <1>4, <1>5

\* Who has a data session is a data user, registered and marked.
LEMMA BusyFacts ==
    ASSUME AtomicInv, UniqueUids, NEW u \in Uids, sessions["data"][u] # NoUid
    PROVE  \E c \in DataConns :
               /\ Uid(c) = u
               /\ pc[c] \in {"recv", "pairing", "relaying", "closing"}
               /\ peers[Class(c)][u].ws = c
               /\ Has(peers, Class(c), u) /\ Own(c).inSession
               /\ states[u] = "busy" /\ u \in DataUsers
<1>1. PICK cl \in {"Car_data", "Controller_data"} : Has(peers, cl, u)
  BY DEF AtomicInv, DataRegistered
<1>2. cl \in Classes /\ Kind(cl) = "data"
  BY KindFacts DEF Classes
<1> DEFINE c == peers[cl][u].ws
<1>3. /\ c \in Conns /\ Class(c) = cl /\ Uid(c) = u
      /\ pc[c] \in {"recv", "pairing", "relaying", "closing"}
  BY <1>1, <1>2, OwnerFacts
<1>4. c \in DataConns
  BY <1>3 DEF DataConns
<1>5. peers[cl][u].inSession
  BY <1>1, <1>2 DEF AtomicInv, FreeUnmapped
<1>6. Own(c).inSession
  BY <1>3, <1>5 DEF Own
<1>7. u \in DataUsers
  BY <1>3, <1>4, DataUserFacts
<1>8. StateOf(Uid(c)) = "busy"
  BY <1>1, <1>3, <1>4, <1>6, StateFacts
<1>9. QED
  BY <1>1, <1>3, <1>4, <1>6, <1>7, <1>8 DEF states

\* A task with a data session hangs up: the session ends for both.
LEMMA HangUpPromise ==
    ASSUME AtomicInv, UniqueUids, NEW c \in Conns,
           NEW o \in Uids, NEW vcl \in {"Car_data", "Controller_data"},
           o = sessions["data"][Uid(c)],
           Has(peers, vcl, o),
           sessions' = [sessions EXCEPT !["data"] =
                           [@ EXCEPT ![Uid(c)] = NoUid, ![o] = NoUid]],
           peers' = [peers EXCEPT ![vcl][o] = Absent],
           pc' = [pc EXCEPT ![c] = "closing"]
    PROVE  Promise!MatchNext
<1> DEFINE u == Uid(c)
<1>0. /\ pc \in [Conns -> Places] /\ peers \in PeerDicts /\ sessions \in SessionDicts
      /\ u \in Uids /\ o # NoUid /\ vcl \in Classes
  BY ClassFacts, UidsAssumption DEF AtomicInv, TypeOK, Classes
<1>1. sessions["data"][o] = u /\ o # u
  BY <1>0 DEF AtomicInv, SessionsSymmetric, NoSelfSession, Kinds
<1>2. /\ c \in DataConns /\ Has(peers, Class(c), u) /\ Own(c).inSession
      /\ states[u] = "busy" /\ u \in DataUsers
  <2>1. PICK d \in DataConns :
            /\ Uid(d) = u /\ Has(peers, Class(d), u) /\ Own(d).inSession
            /\ states[u] = "busy" /\ u \in DataUsers
    BY <1>0, BusyFacts
  <2>2. d = c
    BY <2>1 DEF UniqueUids, DataConns
  <2> QED
    BY <2>1, <2>2
<1>3. PICK e \in DataConns :
          /\ Uid(e) = o /\ pc[e] \in {"recv", "pairing", "relaying", "closing"}
          /\ states[o] = "busy" /\ o \in DataUsers
  BY <1>0, <1>1, UidsAssumption, BusyFacts
<1>4. e # c /\ e \in Conns /\ Class(e) = vcl
  <2>1. peers[vcl][o].ws = e
    BY <1>0, <1>3, OwnerFacts DEF DataConns
  <2> QED
    BY <1>0, <1>1, <1>3, <2>1, OwnerFacts DEF DataConns
<1>5. \A d \in DataConns : Class(d) \in Classes /\ Uid(d) \in Uids /\ d \in Conns
  BY ClassFacts DEF DataConns, Classes
<1>6. \A d \in DataConns \ {c, e} :
          /\ peers'[Class(d)][Uid(d)] = peers[Class(d)][Uid(d)]
          /\ sessions'["data"][Uid(d)] = sessions["data"][Uid(d)]
          /\ pc'[d] = pc[d]
  <2> TAKE d \in DataConns \ {c, e}
  <2>1. Uid(d) # u /\ Uid(d) # o
    BY <1>3, <1>5, <1>4 DEF UniqueUids
  <2> QED
    BY <1>0, <1>5, <2>1 DEF PeerDicts, SessionDicts, Kinds
<1>7. \A x \in DataUsers : x # u /\ x # o =>
          StateOf(x)' = StateOf(x) /\ sessions'["data"][x] = sessions["data"][x]
  BY <1>2, <1>3, <1>6, TwoMove, ZenonT(60)
<1>8. sessions'["data"][u] = NoUid /\ sessions'["data"][o] = NoUid
  BY <1>0, <1>1 DEF SessionDicts, Kinds
<1>9. StateOf(u)' = "leaving"
  <2>1. ConnOf(u) = c /\ Class(c) \in Classes
    BY <1>2, <1>5, DataUserFacts
  <2>2. peers'[Class(c)][u] = peers[Class(c)][u]
    BY <1>0, <1>1, <2>1 DEF PeerDicts
  <2> QED
    BY <1>2, <1>8, <2>1, <2>2 DEF StateOf, Has, Own
<1>10. StateOf(o)' = "gone"
  <2>1. ConnOf(o) = e
    BY <1>3, DataUserFacts
  <2>2. peers'[vcl][o] = Absent
    BY <1>0 DEF PeerDicts
  <2>3. pc'[e] \notin Early
    BY <1>0, <1>3, <1>4 DEF Early
  <2> QED
    BY <1>4, <2>1, <2>2, <2>3 DEF StateOf, Has, Absent
<1>11. states' = [states EXCEPT ![u] = "leaving", ![o] = "gone"]
  BY <1>1, <1>2, <1>3, <1>7, <1>9, <1>10 DEF states
<1>12. partners' = [partners EXCEPT ![u] = NoUid, ![o] = NoUid]
  BY <1>1, <1>2, <1>3, <1>7, <1>8 DEF partners
<1>13. partners[u] = o
  BY <1>2 DEF partners
<1>14. QED
  BY <1>2, <1>3, <1>11, <1>12, <1>13, Ended

\* The end of a task past its hello.
LEMMA LeavePromise ==
    ASSUME AtomicInv, UniqueUids, NEW c \in Conns, Class(c) \in Classes,
           pc[c] \notin Early, Leave(c, peers, sessions)
    PROVE  [Promise!MatchNext]_(Promise!mvars)
<1>1. CASE sessions["data"][Uid(c)] = NoUid /\ Deregister(c, peers, sessions)
  BY <1>1, DeregisterPromise
<1>2. CASE \E o \in Uids, cl \in {"Car_data", "Controller_data"} :
               /\ o = sessions["data"][Uid(c)]
               /\ Has(peers, cl, o)
               /\ sessions' = [sessions EXCEPT !["data"] =
                                  [@ EXCEPT ![Uid(c)] = NoUid, ![o] = NoUid]]
               /\ peers' = [peers EXCEPT ![cl][o] = Absent]
               /\ open' = [open EXCEPT ![peers[cl][o].ws] = FALSE]
               /\ pc' = [pc EXCEPT ![c] = "closing"]
               /\ other' = [other EXCEPT ![c] = NoOther]
  BY <1>2, HangUpPromise, ZenonT(60)
<1>3. QED
  BY <1>1, <1>2, LeaveCases

\* The two halves of a pairing are written in one step, which matches a free
\* car with a free controller; a pairing for video is not seen.
LEMMA PairPromise ==
    ASSUME AtomicInv, UniqueUids, NEW c \in Conns, InSend \subseteq {c},
           pc[c] = "pairing", PairAssign(c)
    PROVE  [Promise!MatchNext]_(Promise!mvars)
<1> DEFINE cl == Class(c)
           opp == Opposite(cl)
           u == Uid(c)
           k == Kind(cl)
<1>a. PICK v \in Uids : v = other[c].uid
  BY DEF AtomicInv, PairingHolds
<1>0. /\ pc \in [Conns -> Places] /\ peers \in PeerDicts /\ sessions \in SessionDicts
      /\ cl \in Classes /\ u \in Uids /\ k \in Kinds
      /\ Has(peers, cl, u) /\ ~Own(c).inSession
      /\ Has(peers, opp, v) /\ ~peers[opp][v].inSession
  BY <1>a, ClassFacts, KindFacts DEF AtomicInv, TypeOK, ClassesKnown, PairingHolds
<1>1. opp \in Classes /\ opp # cl /\ Kind(opp) = k
  BY <1>0, KindFacts
<1>2. /\ sessions[k][u] = NoUid /\ sessions[k][v] = NoUid
      /\ sessions' = [sessions EXCEPT ![k] = [@ EXCEPT ![u] = v, ![v] = u]]
  BY <1>a, PairCore
<1>3. /\ peers' = MarkInSession(MarkInSession(peers, cl, u), opp, v)
      /\ pc' = [pc EXCEPT ![c] = "recv"]
  BY <1>a, <1>0 DEF PairAssign
<1>b. PICK e \in Conns : e = peers[opp][v].ws
  BY <1>0, <1>1, OwnerFacts
<1>4. /\ Class(e) = opp /\ Uid(e) = v /\ e # c
      /\ pc[e] \in {"recv", "pairing", "relaying", "closing"}
      /\ peers[cl][u].ws = c
  BY <1>b, <1>0, <1>1, OwnerFacts
<1>5. u # v
  BY <1>4 DEF UniqueUids
<1>6. \A d \in DataConns : Class(d) \in Classes /\ Uid(d) \in Uids /\ d \in Conns
  BY ClassFacts DEF DataConns, Classes
<1>7. \A d \in DataConns \ {c, e} :
          /\ Uid(d) # u /\ Uid(d) # v
          /\ peers'[Class(d)][Uid(d)] = peers[Class(d)][Uid(d)]
          /\ pc'[d] = pc[d]
  <2> TAKE d \in DataConns \ {c, e}
  <2>1. Uid(d) # u /\ Uid(d) # v
    BY <1>4, <1>6 DEF UniqueUids
  <2> QED
    BY <1>0, <1>1, <1>3, <1>6, <2>1 DEF PeerDicts, MarkInSession
<1>8. CASE k # "data"
  <2>1. c \notin DataConns /\ e \notin DataConns
    BY <1>1, <1>4, <1>8, KindFacts DEF DataConns
  <2>2. sessions'["data"] = sessions["data"]
    BY <1>0, <1>2, <1>8 DEF SessionDicts
  <2>3. states' = states /\ partners' = partners
    BY <1>7, <2>1, <2>2, StatesKept
  <2> QED
    BY <2>3, Stutters
<1>9. CASE k = "data"
  <2>1. c \in DataConns /\ e \in DataConns
    BY <1>0, <1>1, <1>4, <1>9, KindFacts DEF DataConns
  <2>2. /\ u \in DataUsers /\ v \in DataUsers
        /\ ConnOf(u) = c /\ ConnOf(v) = e
    BY <1>4, <2>1, DataUserFacts
  <2>3. states[u] = "free"
    BY <1>0, <2>1, <2>2, StateFacts DEF states
  <2>4. states[v] = "free"
    <3>1. ~Own(e).inSession
      BY <1>b, <1>0, <1>4 DEF Own
    <3> QED
      BY <1>0, <1>4, <2>1, <2>2, <3>1, StateFacts DEF states
  <2>5. /\ sessions'["data"][u] = v /\ sessions'["data"][v] = u
        /\ \A d \in DataConns \ {c, e} :
               sessions'["data"][Uid(d)] = sessions["data"][Uid(d)]
    BY <1>0, <1>2, <1>5, <1>6, <1>7, <1>9 DEF SessionDicts
  <2>6. \A x \in DataUsers : x # u /\ x # v =>
            StateOf(x)' = StateOf(x) /\ sessions'["data"][x] = sessions["data"][x]
    BY <1>4, <1>7, <2>1, <2>5, TwoMove
  <2>7. /\ Has(peers, cl, u)' /\ peers'[cl][u].inSession
        /\ peers'[opp][v].ws = peers[opp][v].ws /\ peers'[opp][v].inSession
    BY <1>0, <1>1, <1>3, <1>5 DEF PeerDicts, MarkInSession, Has
  <2>8. StateOf(u)' = "busy"
    <3>1. v # NoUid
      BY <1>0, UidsAssumption
    <3> QED
      BY <2>2, <2>5, <2>7, <3>1 DEF StateOf, Own
  <2>9. StateOf(v)' = "busy"
    <3>1. u # NoUid /\ Has(peers, opp, v)'
      BY <1>0, <2>7, UidsAssumption DEF Has
    <3>2. Has(peers, Class(e), v)' /\ peers'[Class(e)][Uid(e)].inSession
      BY <1>4, <2>7, <3>1
    <3> QED
      BY <2>2, <2>5, <3>1, <3>2 DEF StateOf, Own
  <2>10. states' = [states EXCEPT ![u] = "busy", ![v] = "busy"]
    BY <1>5, <2>2, <2>6, <2>8, <2>9 DEF states
  <2>11. partners' = [partners EXCEPT ![u] = v, ![v] = u]
    BY <1>5, <2>2, <2>5, <2>6 DEF partners
  <2>12. CASE cl = "Car_data"
    <3>1. opp = "Controller_data"
      BY <2>12 DEF Opposite, ControllerClass, Kind
    <3>2. u \in UsersOf("Car_data") /\ v \in UsersOf("Controller_data")
      BY <1>4, <2>12, <3>1 DEF UsersOf
    <3> QED
      BY <2>3, <2>4, <2>10, <2>11, <3>2, Matches
  <2>13. CASE cl = "Controller_data"
    <3>1. opp = "Car_data"
      BY <2>13 DEF Opposite, CarClass, Kind
    <3>2. v \in UsersOf("Car_data") /\ u \in UsersOf("Controller_data")
      BY <1>4, <2>13, <3>1 DEF UsersOf
    <3>3. states' = [states EXCEPT ![v] = "busy", ![u] = "busy"]
      BY <1>5, <2>2, <2>6, <2>8, <2>9 DEF states
    <3>4. partners' = [partners EXCEPT ![v] = u, ![u] = v]
      BY <1>5, <2>2, <2>5, <2>6 DEF partners
    <3> QED
      BY <2>3, <2>4, <3>2, <3>3, <3>4, Matches
  <2> QED
    BY <1>0, <1>9, <2>12, <2>13, KindFacts
<1>10. QED
  BY <1>8, <1>9

\* Every step of the server is a step of the promise or not seen by it.
LEMMA PromiseStep ==
    ASSUME AtomicInv, UniqueUids, ~SendMaySuspend, [Next]_vars
    PROVE  [Promise!MatchNext]_(Promise!mvars)
<1>1. CASE UNCHANGED vars
  BY <1>1, QuietStep DEF vars
<1>2. ASSUME NEW c \in Conns, Task(c) \/ Client(c)
      PROVE  [Promise!MatchNext]_(Promise!mvars)
  <2>0. /\ pc \in [Conns -> Places]
        /\ pc[c] \notin {"off", "hello", "done"} => Class(c) \in Classes
    BY DEF AtomicInv, TypeOK, ClassesKnown
  <2>1. ASSUME NEW p, Resumed(c, p) PROVE pc[c] = p /\ InSend \subseteq {c}
    BY <2>1 DEF Resumed, Turn
  <2>2. CASE \/ AcceptHello(c) \/ Connect(c) \/ ClientSends(c) \/ ClientCloses(c)
             \/ Relay(c) \/ Relayed(c) \/ IgnoreMessage(c) \/ CallPeer(c)
    <3>1. /\ peers' = peers /\ sessions' = sessions
          /\ \A d \in Conns : pc'[d] \in Early <=> pc[d] \in Early
      BY <2>0, <2>2 DEF AcceptHello, Connect, ClientSends, ClientCloses, Relay,
         Relayed, IgnoreMessage, CallPeer, Receive, Resumed, Early
    <3> QED
      BY <3>1, QuietStep DEF DataConns
  <2>3. CASE RejectHello(c) \/ GreetFails(c)
    BY <2>3, EarlyEnd DEF RejectHello, GreetFails, Resumed, Ends, Early
  <2>4. CASE Register(c)
    BY <2>4, RegisterPromise
  <2>5. CASE \/ RecvClosed(c) \/ LookupFails(c) \/ RelayFails(c) \/ RelaySendFails(c)
             \/ CallFails(c) \/ PairSendFails(c)
    <3>1. pc[c] \in {"recv", "relaying", "pairing"} /\ Leave(c, peers, sessions)
      BY <2>5 DEF RecvClosed, LookupFails, RelayFails, RelaySendFails, CallFails,
         PairSendFails, Receive, Resumed
    <3>2. pc[c] \notin Early /\ Class(c) \in Classes
      BY <2>0, <3>1 DEF Early
    <3> QED
      BY <3>1, <3>2, LeavePromise
  <2>6. CASE FinishLeave(c)
    <3>1. pc[c] = "closing" /\ Deregister(c, peers, sessions)
      BY <2>6 DEF FinishLeave, Resumed
    <3>2. pc[c] \notin Early /\ Class(c) \in Classes /\ sessions["data"][Uid(c)] = NoUid
      BY <2>0, <3>1 DEF Early, AtomicInv, ClosingDone
    <3> QED
      BY <3>1, <3>2, DeregisterPromise
  <2>7. CASE Pair(c)
    <3>1. pc[c] = "pairing" /\ InSend \subseteq {c} /\ PairAssign(c)
      BY <2>7 DEF Pair, Resumed, Turn
    <3> QED
      BY <3>1, PairPromise
  <2> QED
    BY <1>2, <2>2, <2>3, <2>4, <2>5, <2>6, <2>7 DEF Task, Client
<1>3. QED
  BY <1>1, <1>2 DEF Next

LEMMA PromiseInit ==
    ASSUME UniqueUids, Init
    PROVE  Promise!MatchInit
<1>1. \A c \in DataConns : Class(c) \in Classes /\ Uid(c) \in Uids /\ c \in Conns
  BY ClassFacts DEF DataConns, Classes
<1>2. \A u \in DataUsers : StateOf(u) = "out" /\ sessions["data"][u] = NoUid
  <2> TAKE u \in DataUsers
  <2> DEFINE c == ConnOf(u)
  <2>1. c \in DataConns /\ Uid(c) = u
    BY DataUserFacts
  <2>2. ~Has(peers, Class(c), u) /\ pc[c] = "off" /\ sessions["data"][u] = NoUid
    BY <1>1, <2>1 DEF Init, Has, Absent, Kinds
  <2> QED
    BY <2>2 DEF StateOf, Early
<1>3. QED
  BY <1>2, PromiseVars DEF Promise!MatchInit

\* Matchmaker is what the dictionaries of the data peers implement: a pairing
\* is one step for both ends, and so is a hang-up.  (That whoever hung up is
\* let go in the end is model-checked.)
THEOREM PromiseSafe ==
    ASSUME UniqueUids, ~SendMaySuspend
    PROVE  Spec => KeepsPromiseSafely
<1>1. AtomicInv /\ [Next]_vars => [Promise!MatchNext]_(Promise!mvars)
  BY PromiseStep
<1>2. Init => Promise!MatchInit
  BY PromiseInit
<1>3. QED
  BY <1>1, <1>2, AtomicCorrect, PTL DEF Spec, KeepsPromiseSafely, Promise!MatchSafe

\* What Matchmaker promises is consistent: only Match makes partners, and End
\* parts both of them.
LEMMA OneToOneNext ==
    ASSUME UniqueUids, Promise!MatchTypeOK, Promise!OneToOne,
           [Promise!MatchNext]_(Promise!mvars)
    PROVE  Promise!MatchTypeOK' /\ Promise!OneToOne'
<1> DEFINE Cars == UsersOf("Car_data")
           Controllers == UsersOf("Controller_data")
           Shape == /\ states \in [DataUsers -> {"out", "free", "busy", "leaving", "gone"}]
                    /\ partners \in [DataUsers -> DataUsers \cup {NoUid}]
           Paired == \A u \in DataUsers :
                        /\ states[u] = "busy" <=> partners[u] # NoUid
                        /\ partners[u] # NoUid =>
                              /\ partners[partners[u]] = u
                              /\ u \in Cars <=> partners[u] \in Controllers
<1>1. /\ Promise!MatchTypeOK <=> Shape
      /\ Promise!OneToOne <=> Paired
      /\ Promise!MatchTypeOK' <=> Shape'
      /\ Promise!OneToOne' <=> Paired'
  BY DEF Promise!MatchTypeOK, Promise!OneToOne, Promise!Users, DataUsers, states, partners
<1>2. /\ DataUsers = Cars \cup Controllers
      /\ Cars \cap Controllers = {}
      /\ NoUid \notin DataUsers
  <2>1. Cars \cap Controllers = {}
    BY DEF UniqueUids, UsersOf
  <2>2. NoUid \notin DataUsers
    BY DataUserFacts, UidsAssumption
  <2>3. QED
    BY <2>1, <2>2 DEF DataUsers
<1> HIDE DEF Cars, Controllers
<1>3. ASSUME NEW u \in DataUsers, Promise!Join(u) \/ Promise!Depart(u)
      PROVE  Shape' /\ Paired'
  <2>1. /\ states' = [states EXCEPT ![u] = "free"] \/ states' = [states EXCEPT ![u] = "gone"]
        /\ states[u] # "busy" /\ partners' = partners
    BY <1>3 DEF Promise!Join, Promise!Depart, states, partners
  <2>2. QED
    BY <1>1, <2>1
<1>4. ASSUME NEW u \in Cars, NEW v \in Controllers, Promise!Match(u, v)
      PROVE  Shape' /\ Paired'
  <2>1. /\ states[u] = "free" /\ states[v] = "free"
        /\ states' = [states EXCEPT ![u] = "busy", ![v] = "busy"]
        /\ partners' = [partners EXCEPT ![u] = v, ![v] = u]
    BY <1>4 DEF Promise!Match, states, partners
  <2>2. u # v /\ partners[u] = NoUid /\ partners[v] = NoUid /\ u \in DataUsers /\ v \in DataUsers
    BY <1>1, <1>2, <2>1
  <2>3. Shape'
    BY <1>1, <2>1, <2>2
  <2>4. Paired'
    BY <1>1, <1>2, <2>1, <2>2
  <2>5. QED
    BY <2>3, <2>4
<1>5. ASSUME NEW u \in DataUsers, NEW v \in DataUsers, Promise!End(u, v)
      PROVE  Shape' /\ Paired'
  <2>1. /\ states[u] = "busy" /\ partners[u] = v
        /\ states' = [states EXCEPT ![u] = "leaving", ![v] = "gone"]
        /\ partners' = [partners EXCEPT ![u] = NoUid, ![v] = NoUid]
    BY <1>5 DEF Promise!End, states, partners
  <2>2. partners[v] = u /\ u # v
    BY <1>1, <1>2, <2>1
  <2>3. Shape'
    BY <1>1, <2>1
  <2>4. Paired'
    BY <1>1, <1>2, <2>1, <2>2
  <2>5. QED
    BY <2>3, <2>4
<1>6. CASE UNCHANGED Promise!mvars
  <2>1. states' = states /\ partners' = partners
    BY <1>6 DEF Promise!mvars, states, partners
  <2>2. QED
    BY <1>1, <2>1
<1>7. QED
  BY <1>1, <1>3, <1>4, <1>5, <1>6, PromiseVars DEF Promise!MatchNext, Cars, Controllers

\* The data sessions are 1-1: exactly the registered peers that are marked and
\* mapped have a partner, of the other role, who is mapped back to them; so no
\* car ever serves two controllers.
THEOREM OneToOneCorrect ==
    ASSUME UniqueUids, ~SendMaySuspend
    PROVE  Spec => []Promise!OneToOne
<1>1. Promise!MatchInit => Promise!MatchTypeOK /\ Promise!OneToOne
  BY DEF Promise!MatchInit, Promise!MatchTypeOK, Promise!OneToOne, Promise!Users
<1>2. Promise!MatchTypeOK /\ Promise!OneToOne /\ [Promise!MatchNext]_(Promise!mvars)
          => Promise!MatchTypeOK' /\ Promise!OneToOne'
  BY OneToOneNext
<1>3. QED
  BY <1>1, <1>2, PromiseSafe, PTL DEF KeepsPromiseSafely, Promise!MatchSafe
=============================================================================
