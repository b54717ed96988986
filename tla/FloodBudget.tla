---------------------------- MODULE FloodBudget -----------------------------
(***************************************************************************)
(* What the query limiter promises, without the ring, the rates and the    *)
(* counters it keeps to get there: between two rate checks every source    *)
(* has a budget of low-priority queries, or the whole server has one       *)
(* budget for everything.  The second regime can begin at any time without *)
(* a grant and ends at a rate check only.                                  *)
(***************************************************************************)
EXTENDS Naturals

CONSTANTS
    IPs,            \* sources
    SourceBudget,   \* low-priority grants of one source per interval
    ServerBudget    \* grants of the server per interval in the global regime

VARIABLES
    grantedLow,     \* per source, since the last rate check
    grantedGlobal,  \* in the global regime, since the last rate check
    global          \* which regime rules

vars == <<grantedLow, grantedGlobal, global>>

Init ==
    /\ grantedLow = [ip \in IPs |-> 0]
    /\ grantedGlobal = 0
    /\ global = FALSE

Grant(ip) ==
    /\ ~global
    /\ grantedLow[ip] < SourceBudget
    /\ grantedLow' = [grantedLow EXCEPT ![ip] = @ + 1]
    /\ UNCHANGED <<grantedGlobal, global>>

GrantGlobal ==
    /\ global
    /\ grantedGlobal < ServerBudget
    /\ grantedGlobal' = grantedGlobal + 1
    /\ UNCHANGED <<grantedLow, global>>

Saturate ==
    /\ global' = TRUE
    /\ UNCHANGED <<grantedLow, grantedGlobal>>

NewInterval ==
    /\ grantedLow' = [ip \in IPs |-> 0]
    /\ grantedGlobal' = 0
    /\ global' \in BOOLEAN

Next ==
    \/ \E ip \in IPs : Grant(ip)
    \/ GrantGlobal
    \/ Saturate
    \/ NewInterval

Spec == Init /\ [][Next]_vars
=============================================================================
