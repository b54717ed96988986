----------------------------- MODULE PlayerAuth -----------------------------
(***************************************************************************)
(* How clients get a slot, an id and a Steam session: the hooks of         *)
(* client_auth.cpp that run inside SV_ConnectClient and on disconnect, and *)
(* the per-slot state of reunion_player.cpp.                               *)
(*                                                                         *)
(* One action is one pass of the engine through the hooks.  The eviction   *)
(* of a duplicate id executes the engine's kick, hence the disconnect hook *)
(* of other slots, in the middle of the connect hook of a new one.         *)
(*                                                                         *)
(* A client is what the hooks can see of a connection: whether Steam       *)
(* accepts its ticket and for which account, which emulator the ticket     *)
(* belongs to otherwise, the account it carries, its hardware key, its ip. *)
(* A bot gets its slot and its session past the hooks that the plugin sets *)
(* on connecting, so its slot is connected without an identity.            *)
(***************************************************************************)
EXTENDS Integers, FiniteSets

CONSTANTS
    Slots,          \* client slots: an interval of Nat, scanned upwards
    Clients,        \* the clients that try to connect, see Client
    IPs,
    Accounts,       \* account numbers; 0 is LAN and 1 is PENDING
    AuthKinds,      \* client_auth_kind without CA_UNKNOWN and CA_STEAM_PENDING
    IdKindOf,       \* cid_*: the id kind configured for each auth kind
    AkPrefixes,     \* AuthVersion >= av_reunion2018: prefixes tell the key kinds apart
    Prefix,         \* prefix1 of cid_*, for older versions
    KeyKinds,       \* auth_key_kind without AK_STEAM = 0
    IpPrefix,       \* AK_MAX, or the prefix1 of the ids made of an ip
    IpPrefix2,      \* their prefix2, for older versions
    IpAccount,      \* SteamByIp: the account made of an ip
    Salted,         \* SaltSteamId and the shift after it: account to account
    HLTVExceptIP,   \* cid_HLTV exception: a proxy from here is let in
    ClientsLimit,   \* IDClientsLimit, 0 for unlimited
    Banned,         \* serialized ids the engine's user filter refuses
    UnauthIds,      \* ids Steam gives to unauthenticated connections
    NoId            \* m_UnauthenticatedSteamId = 0

NumericKinds == {"STEAM", "STEAM_EMU", "OLD_REVEMU", "REVEMU",
                 "STEAMCLIENT_2009", "REVEMU_2013", "AVSMP", "SXEI"}
UniqueIdKinds == {"REAL_STEAM", "REAL_VALVE", "STEAM_BY_IP", "VALVE_BY_IP"}
IpIdKinds     == {"STEAM_BY_IP", "VALVE_BY_IP"}
IdKinds == UniqueIdKinds \cup
           {"DEPRECATED", "HLTV", "STEAM_ID_LAN", "STEAM_ID_PENDING",
            "VALVE_ID_LAN", "VALVE_ID_PENDING", "STEAM_666_88_666"}

Client == [steam : BOOLEAN,                   \* Steam accepted the ticket
           \* what the emulators make of it
           kind : (AuthKinds \ {"STEAM"}) \cup {"UNKNOWN"},
           acc : Accounts, key : KeyKinds, badKey : BOOLEAN, ip : IPs]

ASSUME AuthAssumption ==
    /\ Slots \subseteq Nat /\ IsFiniteSet(Slots)
    /\ {0, 1} \subseteq Accounts /\ Accounts \subseteq Nat
    /\ "STEAM" \in AuthKinds /\ "UNKNOWN" \notin AuthKinds
    /\ IdKindOf \in [AuthKinds \cup {"STEAM_PENDING"} -> IdKinds]
    /\ AkPrefixes \in BOOLEAN
    /\ Prefix \in [AuthKinds \cup {"STEAM_PENDING"} -> Nat]
    /\ KeyKinds \subseteq Nat /\ IpPrefix \in Nat /\ IpPrefix2 \in Nat
    /\ IpAccount \in [IPs -> Accounts]
    /\ Salted \in [Accounts -> Accounts]
    /\ ClientsLimit \in Nat
    /\ Clients \subseteq Client
    /\ NoId \notin UnauthIds

(* network_userid.m_SteamID: accounts made by Steam, or of an ip, are
   individual; those made from an emulator's ticket are game servers. *)
UserIds == {"individual", "gameserver"} \X Accounts
SessionIds == UserIds \cup UnauthIds

VARIABLES
    connected,  \* the slots for which IGameClient::IsConnected holds
    bots,       \* those of them for which IsFakeClient holds
    userid,     \* per slot, the engine's network_userid.m_SteamID
    players,    \* per slot, the CReunionPlayer, see Player
    sessions    \* Steam's side: how many sessions it has open per id

vars == <<connected, bots, userid, players, sessions>>

(* what m_idString reads: "STEAM" or "VALVE" with the three numbers that
   follow it, or one of the words, or nothing *)
Words == {"HLTV", "STEAM_ID_LAN", "STEAM_ID_PENDING", "VALVE_ID_LAN",
          "VALVE_ID_PENDING", "STEAM_666_88_666", ""}
IdStrings == ({"STEAM", "VALVE"} \cup Words) \X Nat \X Nat \X Nat

(* opened is an observer: the id of the session opened for this player. *)
Player == [auth : AuthKinds \cup {"STEAM_PENDING", "UNKNOWN"},
           idKind : IdKinds \cup {"UNKNOWN"},
           idString : IdStrings,
           valid : BOOLEAN,
           unauth : UnauthIds \cup {NoId},
           opened : SessionIds \cup {NoId}]

(* CReunionPlayer::clear *)
Cleared == [auth |-> "UNKNOWN", idKind |-> "UNKNOWN", idString |-> <<"", 0, 0, 0>>,
            valid |-> FALSE, unauth |-> NoId, opened |-> NoId]

-----------------------------------------------------------------------------
(* Reunion_FinishClientAuth, the part that decides what the client is. *)

ValidId(acc) == acc > 1

(* the account of an emulator's ticket, salted unless it is pending *)
AccountOf(c) ==
    IF ~c.steam /\ c.kind \in NumericKinds /\ ValidId(c.acc)
    THEN Salted[c.acc]
    ELSE c.acc

AuthKindOf(c) ==
    LET kind == IF c.steam THEN "STEAM" ELSE c.kind
    IN  IF kind \in NumericKinds /\ ~ValidId(AccountOf(c)) THEN "STEAM_PENDING" ELSE kind

(* A hardware number that many clients share does not make an id: such a
   client gets one made of its ip, whatever cid_* says. *)
FromBadKey(c) ==
    ~c.steam /\ c.kind \in NumericKinds /\ ValidId(c.acc) /\ c.badKey

IdKindFor(c) ==
    LET configured == IF FromBadKey(c) THEN "VALVE_BY_IP" ELSE IdKindOf[AuthKindOf(c)]
    IN  IF configured = "DEPRECATED" /\ AuthKindOf(c) = "HLTV" /\ c.ip = HLTVExceptIP
        THEN "HLTV"
        ELSE configured

Deprecated(c) == IdKindFor(c) = "DEPRECATED"

(* the id of the ticket, and the id the slot has after the switch over the
   id kind *)
TicketId(c) == <<IF c.steam THEN "individual" ELSE "gameserver", AccountOf(c)>>

FinalId(c) ==
    IF IdKindFor(c) \in IpIdKinds THEN <<"individual", IpAccount[c.ip]>> ELSE TicketId(c)

IdType(c) ==
    CASE IdKindFor(c) \in {"REAL_VALVE", "VALVE_ID_LAN", "VALVE_ID_PENDING", "VALVE_BY_IP"}
             -> "VALVE"
      [] OTHER -> IF c.steam THEN "STEAM" ELSE "LOCAL"

(* CReunionPlayer::authenticated: ids are equal when they read equal.  In the
   older versions the configured second prefix of an id made of an ip takes
   the place of its lowest bit. *)
FirstPrefix(c) ==
    CASE ~AkPrefixes -> Prefix[AuthKindOf(c)]
      [] AkPrefixes /\ c.steam -> 0
      [] OTHER       -> c.key

Number(universe, prefix, acc) == <<universe, prefix, acc % 2, acc \div 2>>

ByIp(universe, acc) ==
    IF AkPrefixes THEN Number(universe, IpPrefix, acc)
                  ELSE <<universe, IpPrefix, IpPrefix2, acc \div 2>>

(* faulty variant: the ids that are words fall into the default case *)
IdStringForNumbers(c) ==
    LET kind == IdKindFor(c)  acc == FinalId(c)[2] IN
    CASE kind = "REAL_STEAM"  -> Number("STEAM", FirstPrefix(c), acc)
      [] kind = "REAL_VALVE"  -> Number("VALVE", FirstPrefix(c), acc)
      [] kind = "STEAM_BY_IP" -> ByIp("STEAM", acc)
      [] kind = "VALVE_BY_IP" -> ByIp("VALVE", acc)
      [] OTHER                -> <<"UNKNOWN", 0, 0, 0>>

IdStringFor(c) ==
    LET kind == IdKindFor(c)  acc == FinalId(c)[2] IN
    CASE kind = "REAL_STEAM"  -> Number("STEAM", FirstPrefix(c), acc)
      [] kind = "REAL_VALVE"  -> Number("VALVE", FirstPrefix(c), acc)
      [] kind = "STEAM_BY_IP" -> ByIp("STEAM", acc)
      [] kind = "VALVE_BY_IP" -> ByIp("VALVE", acc)
      [] OTHER                -> <<kind, 0, 0, 0>>

(* ids that are checked for duplicates and bans *)
Checked(c) == ValidId(FinalId(c)[2]) /\ IdKindFor(c) \in UniqueIdKinds

(* FilterUser: the engine compares serialized ids, which for these id kinds
   are the displayed ones (generateSerializedId) *)
FilteredOut(c) == Checked(c) /\ <<IdType(c), FinalId(c)>> \in Banned

-----------------------------------------------------------------------------
(* Slots that show the same id, and what is done about them.  A slot that is
   connected without an identity is a bot's. *)

Others(s, c) ==
    {t \in connected \ {s} :
        players[t].auth # "UNKNOWN" /\ players[t].idString = IdStringFor(c)}

(* faulty variant: one more than the limit is let in *)
InUseAfterLimit(s, c) == ClientsLimit # 0 /\ Cardinality(Others(s, c)) > ClientsLimit

(* Reunion_IsSteamIdInUse *)
InUse(s, c) == ClientsLimit # 0 /\ Cardinality(Others(s, c)) >= ClientsLimit

(* faulty variant: the engine keeps the id of the slot *)
DisconnectIdOfSlot(t) == userid[t]

(* the id the disconnect hook puts under the engine's hand *)
DisconnectId(t) == IF players[t].unauth # NoId THEN players[t].unauth ELSE userid[t]

(* Steam closes one session per slot of the set that is disconnected. *)
ClosedFor(open, gone) ==
    [id \in SessionIds |->
        LET n == Cardinality({t \in gone : DisconnectId(t) = id})
        IN  IF open[id] > n THEN open[id] - n ELSE 0]

Opened(open, id) == [open EXCEPT ![id] = @ + 1]
Closed(open, id) == [open EXCEPT ![id] = IF @ > 0 THEN @ - 1 ELSE 0]

(* faulty variant: the duplicates stay while the limit allows them *)
EvictedAtLimit(s, c) ==
    IF c.steam /\ Checked(c) /\ InUse(s, c) THEN Others(s, c) ELSE {}

(* Reunion_RemoveDuplicateSteamIds *)
Evicted(s, c) == IF c.steam /\ Checked(c) THEN Others(s, c) ELSE {}

PlayerFor(c, unauth) ==
    [auth     |-> AuthKindOf(c),
     idKind   |-> IdKindFor(c),
     idString |-> IdStringFor(c),
     valid    |-> ValidId(FinalId(c)[2]),
     unauth   |-> unauth,
     opened   |-> IF c.steam THEN TicketId(c) ELSE unauth]

-----------------------------------------------------------------------------
Init ==
    /\ connected = {}
    /\ bots = {}
    /\ userid = [s \in Slots |-> <<"individual", 0>>]
    /\ players = [s \in Slots |-> Cleared]
    /\ sessions = [id \in SessionIds |-> 0]

(* A client that neither Steam nor any emulator knows. *)
RejectUnknown(s, c) ==
    /\ s \notin connected
    /\ ~c.steam /\ c.kind = "UNKNOWN"
    /\ players' = [players EXCEPT ![s] = Cleared]
    /\ UNCHANGED <<connected, bots, userid, sessions>>

Known(s, c) == s \notin connected /\ (c.steam \/ c.kind # "UNKNOWN")

(* faulty variant: Steam is not told that the client was refused *)
RejectDeprecatedSilently(s, c) ==
    /\ Known(s, c)
    /\ Deprecated(c)
    /\ userid' = [userid EXCEPT ![s] = TicketId(c)]
    /\ players' = [players EXCEPT ![s] = Cleared]
    /\ sessions' = IF c.steam THEN Opened(sessions, TicketId(c)) ELSE sessions
    /\ UNCHANGED <<connected, bots>>

(* A client kind that the configuration does not want.  The session that
   Steam has just opened for a legit client is closed again. *)
RejectDeprecated(s, c) ==
    /\ Known(s, c)
    /\ Deprecated(c)
    /\ userid' = [userid EXCEPT ![s] = TicketId(c)]
    /\ players' = [players EXCEPT ![s] = Cleared]
    /\ sessions' = IF c.steam THEN Closed(Opened(sessions, TicketId(c)), TicketId(c))
                   ELSE sessions
    /\ UNCHANGED <<connected, bots>>

(* faulty variant: the slot of the refused client is not cleared *)
RejectInUseUncleared(s, c) ==
    /\ Known(s, c)
    /\ ~Deprecated(c)
    /\ Checked(c) /\ ~c.steam /\ InUse(s, c)
    /\ userid' = [userid EXCEPT ![s] = FinalId(c)]
    /\ players' = [players EXCEPT ![s] = PlayerFor(c, NoId)]
    /\ UNCHANGED <<connected, bots, sessions>>

(* An emulated id that is taken. *)
RejectInUse(s, c) ==
    /\ Known(s, c)
    /\ ~Deprecated(c)
    /\ Checked(c) /\ ~c.steam /\ InUse(s, c)
    /\ userid' = [userid EXCEPT ![s] = FinalId(c)]
    /\ players' = [players EXCEPT ![s] = Cleared]
    /\ UNCHANGED <<connected, bots, sessions>>

(* A banned id.  A Steam client has evicted its duplicates by then; the
   session that SendUserDisconnect closes is the one of the slot's id. *)
RejectBanned(s, c) ==
    /\ Known(s, c)
    /\ ~Deprecated(c)
    /\ c.steam \/ ~InUse(s, c)
    /\ FilteredOut(c)
    /\ connected' = connected \ Evicted(s, c)
    /\ userid' = [userid EXCEPT ![s] = FinalId(c)]
    /\ players' = [t \in Slots |->
           IF t = s \/ t \in Evicted(s, c) THEN Cleared ELSE players[t]]
    /\ sessions' =
           IF c.steam
           THEN Closed(ClosedFor(Opened(sessions, TicketId(c)), Evicted(s, c)), FinalId(c))
           ELSE sessions
    /\ UNCHANGED bots

Acceptable(s, c) ==
    /\ Known(s, c)
    /\ ~Deprecated(c)
    /\ ~FilteredOut(c)
    /\ ~c.steam /\ Checked(c) => ~InUse(s, c)

AdmitSteam(s, c) ==
    /\ Acceptable(s, c) /\ c.steam
    /\ connected' = (connected \ Evicted(s, c)) \cup {s}
    /\ userid' = [userid EXCEPT ![s] = FinalId(c)]
    /\ players' = [t \in Slots |->
           IF t = s THEN PlayerFor(c, NoId)
           ELSE IF t \in Evicted(s, c) THEN Cleared ELSE players[t]]
    /\ sessions' = ClosedFor(Opened(sessions, TicketId(c)), Evicted(s, c))
    /\ UNCHANGED bots

(* Steam is told of an emulated client too: CreateUnauthenticatedUserConnection
   returns an id nobody else has. *)
AdmitEmulated(s, c) ==
    /\ Acceptable(s, c) /\ ~c.steam
    /\ \E unauth \in UnauthIds :
        /\ sessions[unauth] = 0
        /\ players' = [players EXCEPT ![s] = PlayerFor(c, unauth)]
        /\ sessions' = Opened(sessions, unauth)
    /\ connected' = connected \cup {s}
    /\ userid' = [userid EXCEPT ![s] = FinalId(c)]
    /\ UNCHANGED bots

(* The engine's CreateFakeClient and Steam_NotifyBotConnect, on which the
   plugin sets no hook: the engine keeps the id of the unauthenticated
   connection in the slot, and the player stays as clear() left it. *)
BotConnects(s) ==
    /\ s \notin connected
    /\ \E unauth \in UnauthIds :
        /\ sessions[unauth] = 0
        /\ userid' = [userid EXCEPT ![s] = unauth]
        /\ sessions' = Opened(sessions, unauth)
    /\ connected' = connected \cup {s}
    /\ bots' = bots \cup {s}
    /\ UNCHANGED players

(* Steam_NotifyClientDisconnect_hook: the slot's id is exchanged for the
   unauthenticated one while the engine closes the session.  A bot has none
   in m_UnauthenticatedSteamId, and its own in the slot. *)
Disconnect(s) ==
    /\ s \in connected
    /\ connected' = connected \ {s}
    /\ bots' = bots \ {s}
    /\ sessions' = ClosedFor(sessions, {s})
    /\ players' = [players EXCEPT ![s] = Cleared]
    /\ UNCHANGED userid

Connect(s, c) ==
    \/ RejectUnknown(s, c)
    \/ RejectDeprecated(s, c)
    \/ RejectInUse(s, c)
    \/ RejectBanned(s, c)
    \/ AdmitSteam(s, c)
    \/ AdmitEmulated(s, c)

Next ==
    \/ \E s \in Slots, c \in Clients : Connect(s, c)
    \/ \E s \in Slots : BotConnects(s)
    \/ \E s \in Slots : Disconnect(s)

Spec == Init /\ [][Next]_vars

-----------------------------------------------------------------------------
(* PROPERTIES *)

TypeOK ==
    /\ connected \subseteq Slots /\ bots \subseteq connected
    /\ userid \in [Slots -> SessionIds]
    /\ \A s \in Slots :
        /\ players[s].auth \in AuthKinds \cup {"STEAM_PENDING", "UNKNOWN"}
        /\ players[s].idKind \in (IdKinds \ {"DEPRECATED"}) \cup {"UNKNOWN"}
        /\ players[s].idString \in IdStrings
        /\ players[s].valid \in BOOLEAN
        /\ players[s].unauth \in UnauthIds \cup {NoId}
        /\ players[s].opened \in SessionIds \cup {NoId}
    /\ sessions \in [SessionIds -> Nat]

(* Slots change hands between clients and bots, and no identity is left behind
   or lost on the way: a slot that is free, after a refusal in the middle of the
   connect hook, a kick by another client's connect or a plain disconnect, or
   that a bot has taken since, shows none of those before it, and every client
   that is connected has its own.  (The duplicate checks count any connected
   slot that has an identity, bots' slots too.) *)
IdentitiesAreLive ==
    \A s \in Slots :
        /\ s \in connected \ bots => players[s].auth # "UNKNOWN"
        /\ s \notin connected \ bots => players[s] = Cleared

(* the id of the session that was opened for the one in the slot *)
OpenedFor(s) == IF s \in bots THEN userid[s] ELSE players[s].opened

(* Steam's view of the server is the server's own: everyone connected has one
   session, legit or unauthenticated, and nobody who left or was refused or
   evicted still has one. *)
SessionsBalanced ==
    \A id \in SessionIds :
        sessions[id] = Cardinality({s \in connected : OpenedFor(s) = id})

(* "Maximum number of clients from single steamid" (reunion.cfg:226): the
   limit holds for ids that emulators, real accounts and ips share, although
   only the client that connects last is ever checked. *)
IdLimitKept ==
    ClientsLimit # 0 =>
        \A id \in {players[s].idString : s \in {t \in connected :
                      players[t].valid /\ players[t].idKind \in UniqueIdKinds}} :
            Cardinality({s \in connected : players[s].idString = id}) <= ClientsLimit

(* A legit client has its id to itself when it comes in, however many clients
   the limit would allow to share it. *)
LegitTakesOver ==
    [][\A s \in connected' \ connected :
          players'[s].auth = "STEAM" /\ players'[s].idKind \in UniqueIdKinds =>
              \A t \in connected' \ {s} :
                  players'[t].idString # players'[s].idString]_vars

(* "disconnect from steam if authorized" (client_auth.cpp:227): no client that
   is refused leaves a session behind. *)
RefusedLeaveSteam ==
    [][connected' \subseteq connected =>
          \A id \in SessionIds : sessions'[id] <= sessions[id]]_vars

=============================================================================
