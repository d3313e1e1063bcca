---------------------------- MODULE CarCommands ----------------------------
(* The data client with the bytes of the commands it gives to the robot and  *)
(* of the messages it takes and writes.                                      *)
EXTENDS DataClient, RobotBase, CarMessages

ResetMeant == \A number \in 0 .. SeqModulus - 1 : CommandMeant("reset", number)
SpeedMeant == \A number \in 0 .. SeqModulus - 1 : CommandMeant("speed", number)

\* What the robot reads on the line is what the program meant: every frame that
\* was written has the length and the check byte of its bytes and arrives as it
\* is (serial::Open), and its speeds are those of the curve that the controller
\* asked for, in the direction and the proportion of the two wheels.
CommandsMeant ==
    \A i \in DOMAIN line :
        LineKept /\ IF line[i].cmd = "reset" THEN ResetMeant ELSE SpeedMeant

MessageKinds == {"hello", "Hello Car_data", "Session_data", "offer", "candidate"}

\* The texts do not depend on the state: it is enough to look at them when the
\* first message has arrived.
FirstArrived == sent = 0 /\ messages # <<>>

\* The programs understand each other.  What main takes from its queue is the
\* message that was sent, byte for byte; a command has the speeds that were
\* sent; and an integer is read as itself or left to be a double, never wrapped
\* around.
MessagesMeant ==
    FirstArrived => /\ \A kind \in MessageKinds : Understood(kind)
                    /\ CommandsUnderstood
                    /\ IntegersExact

\* What the car sends is read by the library's own parser as the value it was.
\* When it is cut short it is refused, unless it is so short, and cut inside of a
\* string, that the bytes parse finds behind it may complete it.
WritingMeant == FirstArrived => WritingRead
=============================================================================
