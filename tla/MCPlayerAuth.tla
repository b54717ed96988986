---------------------------- MODULE MCPlayerAuth ----------------------------
(* Small instances of PlayerAuth.  In the first one, ids as older versions
   make them, the account 4 can be a legit one, an emulated one or (the ip p
   yields it) one made of an address, and all three read the same; two clients
   may share an id.  In the second one legit clients get ids made of their
   addresses. *)
EXTENDS PlayerAuth

CONSTANTS p, q, u1, u2, u3

MCSlots == 0 .. 2
MCIPs == {p, q}
MCAccounts == 0 .. 6
MCKinds == {"STEAM", "REVEMU", "AVSMP", "SETTI", "NO_STEAM_48", "HLTV", "SXEI"}

IdKindsOr(kind, idKind) ==
    [k \in MCKinds \cup {"STEAM_PENDING"} |->
        CASE k = kind -> idKind
          [] k = "SETTI" -> "STEAM_BY_IP"
          [] k = "NO_STEAM_48" -> "STEAM_ID_LAN"
          [] k \in {"HLTV", "STEAM_PENDING"} -> "DEPRECATED"
          [] k = "SXEI" -> "VALVE_ID_LAN"
          [] OTHER -> "REAL_STEAM"]

MCIdKinds == IdKindsOr("AVSMP", "REAL_VALVE")
MCIdKindsByIp == IdKindsOr("STEAM", "STEAM_BY_IP")

MCPrefix == [k \in MCKinds \cup {"STEAM_PENDING"} |-> 0]
MCIpAccount == [ip \in MCIPs |-> IF ip = p THEN 4 ELSE 6]
MCSalted == [acc \in MCAccounts |-> IF acc = 2 THEN 4 ELSE IF acc = 3 THEN 0 ELSE acc]

Someone(steam, kind, acc, badKey, ip) ==
    [steam |-> steam, kind |-> kind, acc |-> acc, key |-> 2, badKey |-> badKey, ip |-> ip]

MCClients == {
    Someone(TRUE,  "UNKNOWN",     4, FALSE, p),   \* legit, shares its id
    Someone(TRUE,  "UNKNOWN",     5, FALSE, q),   \* legit, banned by its id
    Someone(TRUE,  "UNKNOWN",     0, FALSE, q),   \* Steam gave it no number: deprecated
    Someone(FALSE, "REVEMU",      2, FALSE, q),   \* salted to 4
    Someone(FALSE, "REVEMU",      3, FALSE, q),   \* salted to a number that is none
    Someone(FALSE, "REVEMU",      6, TRUE,  p),   \* the serial number of many
    Someone(FALSE, "AVSMP",       5, FALSE, q),   \* VALVE id
    Someone(FALSE, "AVSMP",       1, FALSE, q),   \* pending
    Someone(FALSE, "SETTI",       0, FALSE, p),   \* id of an ip, reads as account 4
    Someone(FALSE, "NO_STEAM_48", 0, FALSE, q),   \* no id at all
    Someone(FALSE, "HLTV",        0, FALSE, p),   \* from the excepted address
    Someone(FALSE, "HLTV",        0, FALSE, q),
    Someone(FALSE, "SXEI",        5, FALSE, q),   \* no id either
    Someone(FALSE, "UNKNOWN",     0, FALSE, q) }

MCBanned == { <<"STEAM", <<"individual", 5>> >>, <<"VALVE", <<"gameserver", 5>> >>,
              <<"STEAM", <<"individual", 6>> >> }
MCUnauthIds == {u1, u2, u3}
=============================================================================
