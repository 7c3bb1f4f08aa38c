------------------------------- MODULE MCChat -------------------------------
(* The instances of ChatServer that TLC checks are given by the chat_*.cfg *)
(* files: two clients and a queue of two or three slots stand for ten      *)
(* clients and a hundred slots, connections that one message fills for     *)
(* those that some hundred fill.                                           *)
EXTENDS ChatProperties

OneLine == [c \in Clients |-> 1]
TwoAndOneLines == [c \in Clients |-> IF c = 0 THEN 2 ELSE 1]
NoneAndFourLines == [c \in Clients |-> IF c = 0 THEN 0 ELSE 4]
=============================================================================
