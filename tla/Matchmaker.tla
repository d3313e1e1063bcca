----------------------------- MODULE Matchmaker -----------------------------
(* What signalling-server.py promises its data peers (Protocol.md, "1-1      *)
(* calls with a 'session'"): a user who joins is free; two free users of     *)
(* opposite roles are matched with each other in one step; a session ends    *)
(* for both of them in one step, when either hangs up, and the other one is  *)
(* put out at once, while the one who hung up is still seen to the door.     *)
EXTENDS FiniteSets

CONSTANTS Cars, Controllers, NoUser

Users == Cars \cup Controllers

VARIABLES
    state,    \* out, free, busy, leaving or gone
    partner   \* whom a busy user is matched with

mvars == <<state, partner>>

MatchInit ==
    /\ state = [u \in Users |-> "out"]
    /\ partner = [u \in Users |-> NoUser]

Join(u) ==
    /\ state[u] = "out"
    /\ state' = [state EXCEPT ![u] = "free"]
    /\ UNCHANGED partner

Match(u, v) ==
    /\ state[u] = "free"
    /\ state[v] = "free"
    /\ state' = [state EXCEPT ![u] = "busy", ![v] = "busy"]
    /\ partner' = [partner EXCEPT ![u] = v, ![v] = u]

\* u hangs up on v.
End(u, v) ==
    /\ state[u] = "busy"
    /\ partner[u] = v
    /\ state' = [state EXCEPT ![u] = "leaving", ![v] = "gone"]
    /\ partner' = [partner EXCEPT ![u] = NoUser, ![v] = NoUser]

Depart(u) ==
    /\ state[u] \in {"out", "free", "leaving"}
    /\ state' = [state EXCEPT ![u] = "gone"]
    /\ UNCHANGED partner

MatchNext ==
    \/ \E u \in Users : Join(u) \/ Depart(u)
    \/ \E u \in Cars, v \in Controllers : Match(u, v)
    \/ \E u, v \in Users : End(u, v)

\* Whoever has hung up is let go.
MatchFairness ==
    \A u \in Users : WF_mvars(state[u] = "leaving" /\ Depart(u))

MatchSafe == MatchInit /\ [][MatchNext]_mvars

MatchSpec == MatchSafe /\ MatchFairness

\* Everyone is somewhere, and partners are users.
MatchTypeOK ==
    /\ state \in [Users -> {"out", "free", "busy", "leaving", "gone"}]
    /\ partner \in [Users -> Users \cup {NoUser}]

\* Sessions are 1-1: exactly the busy users have a partner, of the other role,
\* who is busy with them.
OneToOne ==
    \A u \in Users :
        /\ state[u] = "busy" <=> partner[u] # NoUser
        /\ partner[u] # NoUser =>
              /\ partner[partner[u]] = u
              /\ u \in Cars <=> partner[u] \in Controllers
=============================================================================
