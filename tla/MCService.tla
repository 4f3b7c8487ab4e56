------------------------------ MODULE MCService ------------------------------
(* Service with two clients.                                               *)
EXTENDS Service

CONSTANTS c1, c2

Two == {c1, c2}
One == {c1}
==============================================================================
