--------------------------- MODULE MCDeliveryGateway ---------------------------
(* Small instances of the delivery gateway for TLC. *)
EXTENDS DeliveryGateway, TLC

CONSTANTS s1, s2, s3, u1, u2

\* The sessions of the turns: all queue up in one session, or each has its own.
OneTurn    == 1 :> s1
TwoTurns   == 1 :> s1 @@ 2 :> s1
ThreeTurns == 1 :> s1 @@ 2 :> s1 @@ 3 :> s1
TurnEach   == [t \in Turns |-> IF t = 1 THEN s1 ELSE IF t = 2 THEN s2 ELSE s3]

\* The owners of the sessions.
TwoUsers == [s \in Sessions |-> IF s = s1 THEN u1 ELSE u2]
OneUser  == [s \in Sessions |-> u1]

\* One channel thread: queued turns of a session can be merged.
OneContext == [t \in Turns |-> "thread"]

\* For liveness: the crashes and the expiries share one bound.  Fairness is
\* of other actions, so this leaves out behaviours with more faults only.
MaxFaults == 2
FewFaults == crashes' + expiries' <= MaxFaults
FewFaultsSpec == Init /\ [][Next /\ FewFaults]_vars /\ Fairness
=============================================================================
