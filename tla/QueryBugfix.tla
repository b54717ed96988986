---------------------------- MODULE QueryBugfix -----------------------------
(***************************************************************************)
(* CBuggedQueryFix of query_bugfix.cpp: a small table of the sources that  *)
(* asked last, which tells a client whose server browser asks several      *)
(* times in a row.  Sources enter in a ring; a source that asks again keeps*)
(* its place.                                                              *)
(***************************************************************************)
EXTENDS Integers

CONSTANTS
    IPs, NoIP,      \* source ips, and 0
    MaxIPs,         \* BUGGED_QUERY_FIX_MAXIPS
    MaxDelta,       \* BUGGED_QUERY_FIX_MAXDELTA in ticks
    FrameSteps,     \* lengths of a frame in ticks
    EndOfTime,      \* bound of the model: the last frame
    MaxSeq          \* bound of the model: sources the table takes in

ASSUME BugfixAssumption ==
    /\ NoIP \notin IPs
    /\ MaxIPs \in Nat \ {0}
    /\ MaxDelta \in Nat
    /\ FrameSteps \subseteq Nat \ {0}
    /\ EndOfTime \in Nat /\ MaxSeq \in Nat

VARIABLES
    lastQueries,    \* m_lastQueries
    seq,            \* m_seq
    realTime,       \* CServerInfo::m_realTime, in ticks
    bugged,         \* what isBuggedQuery answered last
    asked,          \* observer: when each ip last asked, -1 if never
    entered         \* observer: m_seq when the table last took the ip in

vars == <<lastQueries, seq, realTime, bugged, asked, entered>>

Slots == 0 .. MaxIPs - 1

-----------------------------------------------------------------------------
Init ==
    /\ lastQueries = [i \in Slots |-> [ip |-> NoIP, time |-> 0]]
    /\ seq = 0
    /\ realTime = 0
    /\ bugged = FALSE
    /\ asked = [ip \in IPs |-> -1]
    /\ entered = [ip \in IPs |-> -1]

Hits(ip) == {i \in Slots : lastQueries[i].ip = ip}

(* faulty variant: the time of the first of several questions stays *)
SeenOnce(ip) ==
    /\ Hits(ip) # {}
    /\ LET i == CHOOSE i \in Hits(ip) : \A j \in Hits(ip) : i <= j IN
        /\ bugged' = (realTime - lastQueries[i].time < MaxDelta)
        /\ UNCHANGED lastQueries
    /\ asked' = [asked EXCEPT ![ip] = realTime]
    /\ UNCHANGED <<seq, realTime, entered>>

(* isBuggedQuery for a source in the table *)
SeenAgain(ip) ==
    /\ Hits(ip) # {}
    /\ LET i == CHOOSE i \in Hits(ip) : \A j \in Hits(ip) : i <= j IN
        /\ bugged' = (realTime - lastQueries[i].time < MaxDelta)
        /\ lastQueries' = [lastQueries EXCEPT ![i].time = realTime]
    /\ asked' = [asked EXCEPT ![ip] = realTime]
    /\ UNCHANGED <<seq, realTime, entered>>

(* faulty variants: the place is not masked; the answer of the last question
   is kept *)
SeenNewUnmasked(ip) ==
    /\ Hits(ip) = {}
    /\ seq < MaxSeq
    /\ bugged' = FALSE
    /\ lastQueries' = [i \in Slots \cup {seq} |->
           IF i = seq THEN [ip |-> ip, time |-> realTime] ELSE lastQueries[i]]
    /\ seq' = seq + 1
    /\ asked' = [asked EXCEPT ![ip] = realTime]
    /\ entered' = [entered EXCEPT ![ip] = seq]
    /\ UNCHANGED realTime

SeenNewAsBefore(ip) ==
    /\ Hits(ip) = {}
    /\ seq < MaxSeq
    /\ lastQueries' = [lastQueries EXCEPT ![seq % MaxIPs] = [ip |-> ip, time |-> realTime]]
    /\ seq' = seq + 1
    /\ asked' = [asked EXCEPT ![ip] = realTime]
    /\ entered' = [entered EXCEPT ![ip] = seq]
    /\ UNCHANGED <<bugged, realTime>>

(* isBuggedQuery for a source that is not *)
SeenNew(ip) ==
    /\ Hits(ip) = {}
    /\ seq < MaxSeq
    /\ bugged' = FALSE
    /\ lastQueries' = [lastQueries EXCEPT ![seq % MaxIPs] = [ip |-> ip, time |-> realTime]]
    /\ seq' = seq + 1
    /\ asked' = [asked EXCEPT ![ip] = realTime]
    /\ entered' = [entered EXCEPT ![ip] = seq]
    /\ UNCHANGED realTime

Frame(step) ==
    /\ realTime + step <= EndOfTime
    /\ realTime' = realTime + step
    /\ UNCHANGED <<lastQueries, seq, bugged, asked, entered>>

Next ==
    \/ \E ip \in IPs : SeenAgain(ip) \/ SeenNew(ip)
    \/ \E step \in FrameSteps : Frame(step)

Spec == Init /\ [][Next]_vars

-----------------------------------------------------------------------------
(* PROPERTIES *)

TypeOK ==
    /\ lastQueries \in [Slots -> [ip : IPs \cup {NoIP}, time : Nat]]
    /\ \A i \in Slots : lastQueries[i].time <= realTime
    /\ seq \in Nat
    /\ realTime \in Nat
    /\ bugged \in BOOLEAN
    /\ asked \in [IPs -> {-1} \cup Nat]
    /\ entered \in [IPs -> {-1} \cup Nat]

(* The table knows when the sources it took in last asked, as many of them as
   it has places, and keeps one entry for each: a question of another source,
   a repeated one or a place that changes hands makes it forget nothing and
   duplicate nothing. *)
TableRemembers ==
    \A ip \in IPs : entered[ip] >= 0 /\ seq - entered[ip] <= MaxIPs =>
        /\ lastQueries[entered[ip] % MaxIPs] = [ip |-> ip, time |-> asked[ip]]
        /\ Hits(ip) = {entered[ip] % MaxIPs}

(* Only a source that has really just asked is given the empty list that is
   meant for bugged browsers, and one that has is always given it while its
   place has not changed hands. *)
RowsAreFound ==
    [][\A ip \in IPs : SeenAgain(ip) \/ SeenNew(ip) =>
          /\ bugged' => asked[ip] >= 0 /\ realTime - asked[ip] < MaxDelta
          /\ asked[ip] >= 0 /\ realTime - asked[ip] < MaxDelta
                /\ seq - entered[ip] <= MaxIPs => bugged']_vars

=============================================================================
