------------------------------ MODULE MCWorkers ------------------------------
(* Workers on two workers: a of the page, b of an iframe.                    *)
EXTENDS Workers

CONSTANTS a, b

TwoWorkers == {a, b}
OneFramed == {b}
OneAndNone == [w \in TwoWorkers |-> IF w = a THEN 1 ELSE 0]
TwoAndNone == [w \in TwoWorkers |-> IF w = a THEN 2 ELSE 0]
=============================================================================
