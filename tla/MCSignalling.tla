---------------------------- MODULE MCSignalling ----------------------------
(* Populations of clients for SignallingServer.  A connection is used once;  *)
(* a client that reconnects is another connection with the same uid.         *)
EXTENDS SignallingAtomic, TLC

CONSTANTS c1, c2, c3, c4, u1, u2, u3, u4

Says(class, uid) == [class |-> class, uid |-> uid]

\* Two cars and two controllers that all chose different uids.
DataFour ==
    c1 :> Says("Car_data", u1) @@ c2 :> Says("Controller_data", u2) @@
    c3 :> Says("Controller_data", u3) @@ c4 :> Says("Car_data", u4)

\* The renamings of connections and uids that leave what the clients say as
\* it is: the two controllers of DataFour are interchangeable, and its cars.
Renamings ==
    {r \in {p @@ q : p \in Permutations(Conns), q \in Permutations(Uids)} :
        \A c \in Conns :
            Hello[r[c]] = [class |-> Class(c), uid |-> r[Uid(c)]]}

DataThree ==
    c1 :> Says("Car_data", u1) @@ c2 :> Says("Controller_data", u2) @@
    c3 :> Says("Controller_data", u3)

\* The same and a client that does not speak the protocol.
DataThreeAndOther == DataThree @@ c4 :> Says("Other", u1)

\* The controller c2 reconnects as c3 (or is connected twice).
VideoReconnect ==
    c1 :> Says("Car_video", u1) @@ c2 :> Says("Controller_video", u2) @@
    c3 :> Says("Controller_video", u2) @@ c4 :> Says("Car_video", u3)

\* A car and its controller that use one uid for everything.
SameUid ==
    c1 :> Says("Car_data", u1) @@ c2 :> Says("Controller_data", u1) @@
    c3 :> Says("Car_video", u1) @@ c4 :> Says("Controller_video", u1)
=============================================================================
