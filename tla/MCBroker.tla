------------------------------ MODULE MCBroker ------------------------------
(* The instances of Broker that TLC checks are given by the broker_*.cfg   *)
(* files: one or two subscribers, one or two topics.                       *)
EXTENDS BrokerProperties
=============================================================================
