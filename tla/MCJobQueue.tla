------------------------------ MODULE MCJobQueue -------------------------------
(* Every connected acyclic graph of three jobs, up to their names.         *)
EXTENDS JobQueue

CONSTANTS a, b, c

MCKey == {a, b, c}
None == [k \in MCKey |-> {}]
Chain == [None EXCEPT ![b] = {a}, ![c] = {b}]
Join2 == [None EXCEPT ![c] = {a, b}]
Fork == [None EXCEPT ![b] = {a}, ![c] = {a}]
Triangle == [None EXCEPT ![b] = {a}, ![c] = {a, b}]
MCGraphs == {Chain, Join2, Fork, Triangle}
================================================================================
