------------------------------ MODULE MCAccept ------------------------------
(* Instances of BrokerAccept for TLC: three subscribers that arrive in any *)
(* rhythm, two where the threads' timing is not, or not all, assumed.      *)
EXTENDS BrokerAccept

AllSettings == SUBSET {"start", "sleep"}
AllArrivals ==
  [setting \in AllSettings |-> IF setting = {"start", "sleep"} THEN 3 ELSE 2]

SleepOnly == {{"sleep"}}
TwoArrivals == [setting \in SleepOnly |-> 2]
=============================================================================
