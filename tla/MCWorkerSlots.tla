--------------------------- MODULE MCWorkerSlots ---------------------------
EXTENDS WorkerSlots

\* The first workflow has two tickets, the second one; the homes are
\* configured differently.
TwoAndOne == [h \in Homes |-> IF h = 1 THEN {1, 2} ELSE {1}]
Different == [h \in Homes |-> h]
=============================================================================
