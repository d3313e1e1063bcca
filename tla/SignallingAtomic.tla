-------------------------- MODULE SignallingAtomic --------------------------
(* What SignallingServer guarantees when no send suspends its task and every *)
(* connection has a uid of its own: the inductive invariant behind its       *)
(* safety properties, and the abstract specification it implements.          *)
EXTENDS SignallingServer

\* "<uid> is a string which will uniquely identify this peer" (Protocol.md).
UniqueUids == \A c, d \in Conns : Uid(c) = Uid(d) => c = d

Early == {"off", "hello", "greeting"}

-----------------------------------------------------------------------------

\* Nobody is in a session with himself.
NoSelfSession == \A k \in Kinds, u \in Uids : sessions[k][u] # u

\* A registered peer that the sessions mention is marked as in a session.
FreeUnmapped ==
    \A cl \in Classes, u \in Uids :
        Has(peers, cl, u) /\ ~peers[cl][u].inSession =>
            sessions[Kind(cl)][u] = NoUid

\* The sessions do not mention a client before it is registered.
EarlyUnmapped ==
    \A c \in Conns, k \in Kinds :
        pc[c] \in Early => sessions[k][Uid(c)] = NoUid

\* Only a client that said one of the four classes gets past its hello.
ClassesKnown ==
    \A c \in Conns : pc[c] \notin {"off", "hello", "done"} => Class(c) \in Classes

\* What a task found before it sent SESSION_OK is still so after it: caller
\* and callee are registered and free.
PairingHolds ==
    \A c \in Conns :
        pc[c] = "pairing" =>
            /\ other[c].uid \in Uids
            /\ Has(peers, Class(c), Uid(c))
            /\ ~Own(c).inSession
            /\ Has(peers, Opposite(Class(c)), other[c].uid)
            /\ ~peers[Opposite(Class(c))][other[c].uid].inSession

\* One task at a time is in the middle of a send.
OneInSend == \A c, d \in InSend : c = d

\* Whoever has a data session is registered, so that cleanup_session finds
\* the other end in one of the two dicts.
DataRegistered ==
    \A u \in Uids :
        sessions["data"][u] # NoUid =>
            Has(peers, "Car_data", u) \/ Has(peers, "Controller_data", u)

\* A task that is hanging up has given up its data session, and its own entry
\* cannot be called any more.
ClosingDone ==
    \A c \in Conns :
        pc[c] = "closing" =>
            /\ sessions["data"][Uid(c)] = NoUid
            /\ Has(peers, Class(c), Uid(c)) => Own(c).inSession

\* The inductive invariant: the sessions and the registrations describe the
\* same pairs, at every point where a task can be suspended.
AtomicInv ==
    /\ TypeOK
    /\ OwnersRegistered
    /\ SessionsSymmetric
    /\ NoSelfSession
    /\ FreeUnmapped
    /\ EarlyUnmapped
    /\ ClassesKnown
    /\ PairingHolds
    /\ OneInSend
    /\ DataRegistered
    /\ ClosingDone
    /\ UidFreed

-----------------------------------------------------------------------------
(* The data sessions implement Matchmaker.                                   *)

\* The connection that uses the uid.
ConnOf(u) == CHOOSE c \in Conns : Uid(c) = u

UsersOf(cl) == {Uid(c) : c \in {d \in Conns : Class(d) = cl}}

DataUsers == UsersOf("Car_data") \cup UsersOf("Controller_data")

\* What the dictionaries say of the data peer u.
StateOf(u) ==
    LET c == ConnOf(u)
    IN  IF ~Has(peers, Class(c), u)
        THEN IF pc[c] \in Early THEN "out" ELSE "gone"
        ELSE IF ~Own(c).inSession THEN "free"
        ELSE IF sessions["data"][u] # NoUid THEN "busy" ELSE "leaving"

Promise == INSTANCE Matchmaker WITH
    Cars <- UsersOf("Car_data"),
    Controllers <- UsersOf("Controller_data"),
    NoUser <- NoUid,
    state <- [u \in DataUsers |-> StateOf(u)],
    partner <- [u \in DataUsers |-> sessions["data"][u]]

\* The server keeps what Matchmaker promises: a pairing is one step for both
\* ends, so is a hang-up, and whoever hung up is let go in the end.
KeepsPromise == Promise!MatchSpec

\* The safety part of it.
KeepsPromiseSafely == Promise!MatchSafe
=============================================================================
