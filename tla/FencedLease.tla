---------------------------- MODULE FencedLease ----------------------------
(***************************************************************************)
(* What a coordination lease promises the homes that use it, with no       *)
(* storage, no clock and no messages: authority is granted one generation  *)
(* at a time, a generation is granted to one home, once, and it is over    *)
(* for good when it is released or when the next one is granted.  A home   *)
(* may believe it holds a generation only if that generation was granted   *)
(* to it, and it may learn of it late or never.                            *)
(***************************************************************************)
EXTENDS Naturals, Sequences

CONSTANT Home \* the sessions that compete for one lease

VARIABLES grants,  \* grants[g] is the session generation g was granted to
          open,    \* TRUE while the last grant has not been released
          believed \* the generation each home believes it holds, 0 for none

vars == <<grants, open, believed>>

Init == /\ grants = <<>>
        /\ open = FALSE
        /\ believed = [h \in Home |-> 0]

\* The next generation is granted; it supersedes the last one.
Grant == /\ \E h \in Home : grants' = Append(grants, h)
         /\ open' = TRUE
         /\ UNCHANGED believed

\* The last generation ends before another one is granted.
End == /\ open
       /\ open' = FALSE
       /\ UNCHANGED <<grants, believed>>

\* A home learns of a generation that was granted to it.
Learn(h) == /\ \E g \in 1..Len(grants) :
                /\ grants[g] = h
                /\ believed' = [believed EXCEPT ![h] = g]
            /\ UNCHANGED <<grants, open>>

\* A home gives up what it believed it held.
Forget(h) == /\ believed' = [believed EXCEPT ![h] = 0]
             /\ UNCHANGED <<grants, open>>

Next == Grant \/ End \/ \E h \in Home : Learn(h) \/ Forget(h)

Spec == Init /\ [][Next]_vars
=============================================================================
