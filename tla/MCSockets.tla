------------------------------ MODULE MCSockets -----------------------------
(* One client that is started again, beside another one.                    *)
EXTENDS Sockets

CONSTANTS engine, apps

TwoClients == {engine, apps}
EngineTwice == [c \in TwoClients |-> IF c = engine THEN 2 ELSE 1]
=============================================================================
