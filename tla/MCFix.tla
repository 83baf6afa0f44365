--------------------------------- MODULE MCFix ---------------------------------
\* A library and its tests share an entry point.
EXTENDS Fix

CONSTANTS lib, test, f1, good, bad

Entries == [p \in Process |-> f1]
SameBad == [p \in Process |-> {bad}]

Plain == [prepare |-> None, enabled |-> None, primary |-> TRUE]
MCArgs == {Plain, [Plain EXCEPT !.prepare = "next", !.enabled = "2018"],
           [Plain EXCEPT !.primary = FALSE]}
PlainOnly == {Plain}
================================================================================
