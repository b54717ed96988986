-------------------------- MODULE PlayerAuthProofs --------------------------
(***************************************************************************)
(* Theorems about PlayerAuth, for every set of slots, of clients and of    *)
(* ids, and every configuration.                                           *)
(*                                                                         *)
(* That the slots of clients have an identity, and the free ones and those *)
(* of bots none, is inductive once the types are known: each exit of the   *)
(* connect hook fills or clears the slot that it connects or leaves free,  *)
(* and those that are evicted in the middle of it are cleared with the     *)
(* connection they lose; a bot takes a slot that is cleared.  That a legit *)
(* client has its id to itself follows from it, as the eviction skips the  *)
(* slots without an identity.                                              *)
(***************************************************************************)
EXTENDS PlayerAuth, FiniteSetTheorems, TLAPS

TypeInv ==
    /\ connected \subseteq Slots /\ bots \subseteq connected
    /\ userid \in [Slots -> SessionIds]
    /\ players \in [Slots -> Player]
    /\ \A s \in Slots : players[s].idKind # "DEPRECATED"
    /\ sessions \in [SessionIds -> Nat]

IInv == TypeInv /\ IdentitiesAreLive

-----------------------------------------------------------------------------
(* LEMMAS ON CLIENTS *)

(* Salting and the search for a valid id end in an account again. *)
LEMMA AccountOfClient ==
    ASSUME NEW c \in Clients
    PROVE  AccountOf(c) \in Accounts
BY AuthAssumption DEF AccountOf, Client

(* What Steam or an emulator knows has a kind that cid_* lists. *)
LEMMA KindOfClient ==
    ASSUME NEW c \in Clients, c.steam \/ c.kind # "UNKNOWN"
    PROVE  /\ AuthKindOf(c) \in AuthKinds \cup {"STEAM_PENDING"}
           /\ AuthKindOf(c) # "UNKNOWN"
           /\ AuthKindOf(c) = "STEAM" => c.steam
           /\ IdKindFor(c) \in IdKinds
<1>1. c \in Client
    BY AuthAssumption
<1>2. /\ AuthKindOf(c) \in AuthKinds \cup {"STEAM_PENDING"}
      /\ AuthKindOf(c) # "UNKNOWN"
      /\ AuthKindOf(c) = "STEAM" => c.steam
    BY <1>1, AuthAssumption DEF AuthKindOf, Client
<1>3. IdKindFor(c) \in IdKinds
    BY <1>2, AuthAssumption DEF IdKindFor, IdKinds, UniqueIdKinds
<1> QED
    BY <1>2, <1>3

(* The id of a ticket, and the one a slot gets, are ids of users. *)
LEMMA IdsOfClient ==
    ASSUME NEW c \in Clients
    PROVE  /\ TicketId(c) \in UserIds /\ TicketId(c) \in SessionIds
           /\ FinalId(c) \in UserIds /\ FinalId(c) \in SessionIds
<1>1. c \in Client
    BY AuthAssumption
<1>2. TicketId(c) \in UserIds
    BY AccountOfClient DEF TicketId, UserIds
<1>3. FinalId(c) \in UserIds
    BY <1>1, <1>2, AuthAssumption DEF FinalId, UserIds, Client
<1> QED
    BY <1>2, <1>3 DEF SessionIds

(* An id reads as one of the forms that m_idString can have. *)
LEMMA IdStringOfClient ==
    ASSUME NEW c \in Clients, c.steam \/ c.kind # "UNKNOWN", ~Deprecated(c)
    PROVE  IdStringFor(c) \in IdStrings
<1>1. c.key \in Nat
    BY AuthAssumption DEF Client
<1>2. FirstPrefix(c) \in Nat
    BY <1>1, KindOfClient, AuthAssumption DEF FirstPrefix
<1>3. FinalId(c)[2] \in Nat
    BY IdsOfClient, AuthAssumption DEF UserIds
<1>4. FinalId(c)[2] % 2 \in Nat /\ FinalId(c)[2] \div 2 \in Nat
    BY <1>3
<1>5. ASSUME NEW universe \in {"STEAM", "VALVE"}
      PROVE  /\ Number(universe, FirstPrefix(c), FinalId(c)[2]) \in IdStrings
             /\ ByIp(universe, FinalId(c)[2]) \in IdStrings
    BY <1>2, <1>4, AuthAssumption DEF Number, ByIp, IdStrings
<1>6. CASE IdKindFor(c) \in UniqueIdKinds
    BY <1>5, <1>6 DEF IdStringFor, UniqueIdKinds
<1>7. CASE IdKindFor(c) \notin UniqueIdKinds
    <2>1. IdKindFor(c) \in Words
        BY <1>7, KindOfClient DEF Deprecated, IdKinds, Words
    <2>2. IdStringFor(c) = <<IdKindFor(c), 0, 0, 0>>
        BY <1>7 DEF IdStringFor, UniqueIdKinds
    <2> QED
        BY <2>1, <2>2 DEF IdStrings
<1> QED
    BY <1>6, <1>7

(* A client that is let in fills its slot with an identity. *)
LEMMA PlayerOfClient ==
    ASSUME NEW c \in Clients, c.steam \/ c.kind # "UNKNOWN", ~Deprecated(c),
           NEW unauth \in UnauthIds \cup {NoId}
    PROVE  /\ PlayerFor(c, unauth) \in Player
           /\ PlayerFor(c, unauth).auth # "UNKNOWN"
           /\ PlayerFor(c, unauth).idKind # "DEPRECATED"
<1>1. ValidId(FinalId(c)[2]) \in BOOLEAN
    BY DEF ValidId
<1>2. (IF c.steam THEN TicketId(c) ELSE unauth) \in SessionIds \cup {NoId}
    BY IdsOfClient DEF SessionIds
<1> QED
    BY <1>1, <1>2, KindOfClient, IdStringOfClient DEF PlayerFor, Player, Deprecated

LEMMA ClearedPlayer ==
    /\ Cleared \in Player
    /\ Cleared.auth = "UNKNOWN"
    /\ Cleared.idKind # "DEPRECATED"
BY DEF Cleared, Player, IdStrings, Words

LEMMA ClearedShowsNothing ==
    /\ Cleared.idString = <<"", 0, 0, 0>>
    /\ Cleared.idString[1] = ""
    /\ Cleared.unauth = NoId
<1>1. Cleared.idString = <<"", 0, 0, 0>> /\ Cleared.unauth = NoId
    BY Zenon DEF Cleared
<1>2. <<"", 0, 0, 0>>[1] = ""
    OBVIOUS
<1> QED
    BY <1>1, <1>2

-----------------------------------------------------------------------------
(* LEMMAS ON SESSIONS *)

LEMMA OpenedTyped ==
    ASSUME NEW open \in [SessionIds -> Nat], NEW id \in SessionIds
    PROVE  Opened(open, id) \in [SessionIds -> Nat]
BY DEF Opened

LEMMA ClosedTyped ==
    ASSUME NEW open \in [SessionIds -> Nat], NEW id \in SessionIds
    PROVE  Closed(open, id) \in [SessionIds -> Nat]
BY DEF Closed

(* Slots are finitely many, so those that go at once can be counted. *)
LEMMA ClosedForTyped ==
    ASSUME NEW open \in [SessionIds -> Nat], NEW gone \in SUBSET Slots
    PROVE  ClosedFor(open, gone) \in [SessionIds -> Nat]
<1> SUFFICES ASSUME NEW id \in SessionIds,
                    NEW n, n = Cardinality({t \in gone : DisconnectId(t) = id})
             PROVE  (IF open[id] > n THEN open[id] - n ELSE 0) \in Nat
    BY DEF ClosedFor
<1>1. IsFiniteSet({t \in gone : DisconnectId(t) = id})
    BY FS_Subset, AuthAssumption
<1>2. n \in Nat
    BY <1>1, FS_CardinalityType
<1> QED
    BY <1>2

LEMMA EvictedSlots ==
    ASSUME NEW s \in Slots, NEW c \in Clients
    PROVE  Evicted(s, c) \subseteq connected \ {s}
BY DEF Evicted, Others

(* A bot has no identity, so it is never taken for a duplicate. *)
LEMMA BotsStay ==
    ASSUME IInv, NEW s \in Slots, NEW c \in Clients
    PROVE  Evicted(s, c) \cap bots = {}
<1> SUFFICES ASSUME NEW t \in bots PROVE t \notin Evicted(s, c)
    OBVIOUS
<1>1. t \in Slots
    BY DEF IInv, TypeInv
<1>2. players[t].auth = "UNKNOWN"
    BY <1>1, ClearedPlayer DEF IInv, IdentitiesAreLive
<1> QED
    BY <1>2 DEF Evicted, Others

-----------------------------------------------------------------------------
(* THE INVARIANT *)

LEMMA InitIInv == Init => IInv
<1> SUFFICES ASSUME Init PROVE IInv
    OBVIOUS
<1>1. <<"individual", 0>> \in SessionIds
    BY AuthAssumption DEF UserIds, SessionIds
<1>2. TypeInv
    BY <1>1, ClearedPlayer DEF Init, TypeInv
<1> QED
    BY <1>2, ClearedPlayer DEF Init, IInv, IdentitiesAreLive

(* A refusal that evicted nobody: the slot stays free and is cleared. *)
LEMMA RefusalStep ==
    ASSUME IInv, NEW s \in Slots, s \notin connected, NEW id \in SessionIds,
           userid' = [userid EXCEPT ![s] = id] \/ userid' = userid,
           players' = [players EXCEPT ![s] = Cleared],
           sessions' \in [SessionIds -> Nat],
           connected' = connected, bots' = bots
    PROVE  IInv'
<1>1. TypeInv'
    BY ClearedPlayer DEF IInv, TypeInv
<1>2. IdentitiesAreLive'
    BY ClearedPlayer DEF IInv, TypeInv, IdentitiesAreLive
<1> QED
    BY <1>1, <1>2 DEF IInv

LEMMA RejectUnknownStep ==
    ASSUME IInv, NEW s \in Slots, NEW c \in Clients, RejectUnknown(s, c)
    PROVE  IInv'
BY RefusalStep, IdsOfClient DEF RejectUnknown, IInv, TypeInv

LEMMA RejectDeprecatedStep ==
    ASSUME IInv, NEW s \in Slots, NEW c \in Clients, RejectDeprecated(s, c)
    PROVE  IInv'
<1>1. TicketId(c) \in SessionIds
    BY IdsOfClient
<1>2. sessions' \in [SessionIds -> Nat]
    BY <1>1, OpenedTyped, ClosedTyped DEF RejectDeprecated, IInv, TypeInv
<1> QED
    BY <1>2, RefusalStep, IdsOfClient DEF RejectDeprecated, Known

LEMMA RejectInUseStep ==
    ASSUME IInv, NEW s \in Slots, NEW c \in Clients, RejectInUse(s, c)
    PROVE  IInv'
BY RefusalStep, IdsOfClient DEF RejectInUse, Known, IInv, TypeInv

LEMMA RejectBannedStep ==
    ASSUME IInv, NEW s \in Slots, NEW c \in Clients, RejectBanned(s, c)
    PROVE  IInv'
<1>1. Evicted(s, c) \subseteq connected /\ Evicted(s, c) \in SUBSET Slots
    BY EvictedSlots DEF IInv, TypeInv
<1>2. TicketId(c) \in SessionIds /\ FinalId(c) \in SessionIds
      /\ Evicted(s, c) \cap bots = {}
    BY IdsOfClient, BotsStay
<1>3. ClosedFor(Opened(sessions, TicketId(c)), Evicted(s, c)) \in [SessionIds -> Nat]
    BY <1>1, <1>2, OpenedTyped, ClosedForTyped DEF IInv, TypeInv
<1>4. sessions' \in [SessionIds -> Nat]
    BY <1>2, <1>3, ClosedTyped DEF RejectBanned, IInv, TypeInv
<1>5. TypeInv'
    BY <1>1, <1>2, <1>4, ClearedPlayer DEF RejectBanned, IInv, TypeInv
<1>6. IdentitiesAreLive'
    BY <1>1, <1>2, ClearedPlayer DEF RejectBanned, Known, IInv, TypeInv, IdentitiesAreLive
<1> QED
    BY <1>5, <1>6 DEF IInv

LEMMA AdmitSteamStep ==
    ASSUME IInv, NEW s \in Slots, NEW c \in Clients, AdmitSteam(s, c)
    PROVE  IInv'
<1>1. Evicted(s, c) \subseteq connected \ {s} /\ Evicted(s, c) \in SUBSET Slots
    BY EvictedSlots DEF IInv, TypeInv
<1>2. TicketId(c) \in SessionIds /\ FinalId(c) \in SessionIds
      /\ Evicted(s, c) \cap bots = {}
    BY IdsOfClient, BotsStay
<1>3. sessions' \in [SessionIds -> Nat]
    BY <1>1, <1>2, OpenedTyped, ClosedForTyped DEF AdmitSteam, IInv, TypeInv
<1>4. /\ PlayerFor(c, NoId) \in Player
      /\ PlayerFor(c, NoId).auth # "UNKNOWN"
      /\ PlayerFor(c, NoId).idKind # "DEPRECATED"
    BY PlayerOfClient DEF AdmitSteam, Acceptable, Known
<1>5. TypeInv'
    BY <1>1, <1>2, <1>3, <1>4, ClearedPlayer DEF AdmitSteam, IInv, TypeInv
<1>6. IdentitiesAreLive'
    BY <1>1, <1>2, <1>4, ClearedPlayer
       DEF AdmitSteam, Acceptable, Known, IInv, TypeInv, IdentitiesAreLive
<1> QED
    BY <1>5, <1>6 DEF IInv

LEMMA AdmitEmulatedStep ==
    ASSUME IInv, NEW s \in Slots, NEW c \in Clients, AdmitEmulated(s, c)
    PROVE  IInv'
<1>1. PICK unauth \in UnauthIds :
          /\ players' = [players EXCEPT ![s] = PlayerFor(c, unauth)]
          /\ sessions' = Opened(sessions, unauth)
    BY DEF AdmitEmulated
<1>2. sessions' \in [SessionIds -> Nat]
    BY <1>1, OpenedTyped DEF SessionIds, IInv, TypeInv
<1>3. /\ PlayerFor(c, unauth) \in Player
      /\ PlayerFor(c, unauth).auth # "UNKNOWN"
      /\ PlayerFor(c, unauth).idKind # "DEPRECATED"
    BY PlayerOfClient DEF AdmitEmulated, Acceptable, Known
<1>4. TypeInv'
    BY <1>1, <1>2, <1>3, IdsOfClient DEF AdmitEmulated, IInv, TypeInv
<1>5. IdentitiesAreLive'
    BY <1>1, <1>3 DEF AdmitEmulated, Acceptable, Known, IInv, TypeInv, IdentitiesAreLive
<1> QED
    BY <1>4, <1>5 DEF IInv

LEMMA BotConnectsStep ==
    ASSUME IInv, NEW s \in Slots, BotConnects(s)
    PROVE  IInv'
<1>1. PICK unauth \in UnauthIds :
          /\ userid' = [userid EXCEPT ![s] = unauth]
          /\ sessions' = Opened(sessions, unauth)
    BY DEF BotConnects
<1>2. unauth \in SessionIds
    BY DEF SessionIds
<1>3. sessions' \in [SessionIds -> Nat]
    BY <1>1, <1>2, OpenedTyped DEF IInv, TypeInv
<1>4. TypeInv'
    BY <1>1, <1>2, <1>3 DEF BotConnects, IInv, TypeInv
<1>5. IdentitiesAreLive'
    BY DEF BotConnects, IInv, TypeInv, IdentitiesAreLive
<1> QED
    BY <1>4, <1>5 DEF IInv

LEMMA DisconnectStep ==
    ASSUME IInv, NEW s \in Slots, Disconnect(s)
    PROVE  IInv'
<1>1. sessions' \in [SessionIds -> Nat]
    BY ClosedForTyped DEF Disconnect, IInv, TypeInv
<1>2. TypeInv'
    BY <1>1, ClearedPlayer DEF Disconnect, IInv, TypeInv
<1>3. IdentitiesAreLive'
    BY ClearedPlayer DEF Disconnect, IInv, TypeInv, IdentitiesAreLive
<1> QED
    BY <1>2, <1>3 DEF IInv

LEMMA NextIInv == IInv /\ [Next]_vars => IInv'
<1> SUFFICES ASSUME IInv, [Next]_vars PROVE IInv'
    OBVIOUS
<1>1. ASSUME NEW s \in Slots, NEW c \in Clients, Connect(s, c)
      PROVE  IInv'
    BY <1>1, RejectUnknownStep, RejectDeprecatedStep, RejectInUseStep,
       RejectBannedStep, AdmitSteamStep, AdmitEmulatedStep DEF Connect
<1>2. ASSUME NEW s \in Slots, BotConnects(s) \/ Disconnect(s)
      PROVE  IInv'
    BY <1>2, BotConnectsStep, DisconnectStep
<1>3. CASE UNCHANGED vars
    BY <1>3 DEF vars, IInv, TypeInv, IdentitiesAreLive
<1> QED
    BY <1>1, <1>2, <1>3 DEF Next

(* The types and the link between connection and identity hold together in
   every reachable state. *)
THEOREM Inductive == Spec => []IInv
BY InitIInv, NextIInv, PTL DEF Spec

(* The state of slots and sessions has its type: the accounts and ids that
   salting, addresses and prefixes yield are of the kinds the slots hold, and
   no player ever has a deprecated kind. *)
THEOREM TypeCorrect == Spec => []TypeOK
<1>1. IInv => TypeOK
    BY DEF IInv, TypeInv, TypeOK, Player
<1> QED
    BY <1>1, Inductive, PTL

(* Every client that is connected has its identity in g_Players, and neither a
   free slot nor one that a bot has taken shows anybody's. *)
THEOREM IdentitiesLive == Spec => []IdentitiesAreLive
<1>1. IInv => IdentitiesAreLive
    BY DEF IInv
<1> QED
    BY <1>1, Inductive, PTL

-----------------------------------------------------------------------------
(* THE ACTION PROPERTY *)

AddressesMakeIds == \A ip \in IPs : ValidId(IpAccount[ip])

(* The slots that show the id of a legit client are those that it evicts. *)
LEMMA LegitEvictsOthers ==
    ASSUME AddressesMakeIds, NEW s \in Slots, NEW c \in Clients,
           c.steam, AuthKindOf(c) = "STEAM", IdKindFor(c) \in UniqueIdKinds
    PROVE  Evicted(s, c) = Others(s, c)
<1>1. ValidId(AccountOf(c))
    BY DEF AuthKindOf, NumericKinds
<1>2. ValidId(FinalId(c)[2])
    BY <1>1, AuthAssumption DEF FinalId, TicketId, AddressesMakeIds, Client
<1> QED
    BY <1>2 DEF Evicted, Checked

LEMMA TakeOverStep ==
    ASSUME AddressesMakeIds, IInv, NEW s0 \in Slots, NEW c \in Clients, AdmitSteam(s0, c),
           NEW s \in connected' \ connected,
           players'[s].auth = "STEAM", players'[s].idKind \in UniqueIdKinds,
           NEW t \in connected' \ {s}
    PROVE  players'[t].idString # players'[s].idString
<1>1. s = s0 /\ t \in connected \ Evicted(s0, c)
    BY DEF AdmitSteam
<1>2. s \in Slots /\ t \in Slots
    BY <1>1 DEF IInv, TypeInv
<1>3. players'[s] = PlayerFor(c, NoId) /\ players'[t] = players[t]
    BY <1>1, <1>2 DEF AdmitSteam
<1>4. t \notin Others(s, c)
    BY <1>1, <1>3, LegitEvictsOthers DEF PlayerFor, AdmitSteam
<1>5. CASE t \in bots
    <2>1. players[t].idString[1] = ""
        BY <1>2, <1>5, ClearedShowsNothing DEF IInv, IdentitiesAreLive
    <2>2. IdKindFor(c) \in UniqueIdKinds /\ players'[s].idString = IdStringFor(c)
        BY <1>3 DEF PlayerFor
    <2>3. IdStringFor(c)[1] \in {"STEAM", "VALVE"}
        BY <2>2 DEF IdStringFor, UniqueIdKinds, Number, ByIp
    <2> QED
        BY <1>3, <2>1, <2>2, <2>3
<1>6. CASE t \notin bots
    <2>1. players[t].auth # "UNKNOWN"
        BY <1>1, <1>2, <1>6 DEF IInv, IdentitiesAreLive
    <2> QED
        BY <1>1, <1>3, <1>4, <2>1 DEF Others, PlayerFor
<1> QED
    BY <1>5, <1>6

(* A legit client has its id to itself when it comes in, as long as no address
   hashes to one of the two numbers that are no ids: ids are only compared
   when they are valid. *)
THEOREM LegitHasItsId ==
    ASSUME AddressesMakeIds
    PROVE  Spec => LegitTakesOver
<1> DEFINE TakesOver ==
        \A s \in connected' \ connected :
            players'[s].auth = "STEAM" /\ players'[s].idKind \in UniqueIdKinds =>
                \A t \in connected' \ {s} : players'[t].idString # players'[s].idString
<1>1. IInv /\ [Next]_vars => [TakesOver]_vars
    <2> SUFFICES ASSUME IInv, Next PROVE TakesOver
        BY DEF vars
    <2>1. ASSUME NEW s0 \in Slots, NEW c \in Clients, AdmitSteam(s0, c)
          PROVE  TakesOver
        BY <2>1, TakeOverStep
    <2>2. ASSUME NEW s0 \in Slots, NEW c \in Clients, AdmitEmulated(s0, c)
          PROVE  TakesOver
        <3>1. AuthKindOf(c) # "STEAM"
            BY <2>2, KindOfClient DEF AdmitEmulated, Acceptable, Known
        <3>2. players'[s0].auth # "STEAM"
            BY <2>2, <3>1 DEF AdmitEmulated, PlayerFor, IInv, TypeInv
        <3> QED
            BY <2>2, <3>2 DEF AdmitEmulated
    <2>3. ASSUME NEW s0 \in Slots, NEW c \in Clients, Connect(s0, c),
                 ~AdmitSteam(s0, c), ~AdmitEmulated(s0, c)
          PROVE  connected' \subseteq connected
        BY <2>3 DEF Connect, RejectUnknown, RejectDeprecated, RejectInUse, RejectBanned
    <2>4. ASSUME NEW s0 \in Slots, Disconnect(s0)
          PROVE  connected' \subseteq connected
        BY <2>4 DEF Disconnect
    <2>5. ASSUME NEW s0 \in Slots, BotConnects(s0)
          PROVE  TakesOver
        <3>1. players'[s0].auth = "UNKNOWN"
            BY <2>5, ClearedPlayer DEF BotConnects, IInv, TypeInv, IdentitiesAreLive
        <3> QED
            BY <2>5, <3>1 DEF BotConnects
    <2> QED
        BY <2>1, <2>2, <2>3, <2>4, <2>5 DEF Next
<1>2. [][TakesOver]_vars <=> LegitTakesOver
    BY DEF LegitTakesOver
<1> QED
    BY <1>1, <1>2, Inductive, PTL DEF Spec

-----------------------------------------------------------------------------
(* THE LIMIT PER ID *)
(* The limit is checked for the ids with a number behind their prefix, and *)
(* for no other: the words are shared by whoever gets them.  So it is an   *)
(* invariant of all numbered ids, which is what a client that comes in can *)
(* rely on whatever the others are.                                        *)

Numbered(id) == id[1] \in {"STEAM", "VALVE"} /\ id[4] # 0

Showing(id) == {s \in connected : players[s].idString = id}

NumberedIds ==
    \A s \in Slots :
        players[s].valid /\ players[s].idKind \in UniqueIdKinds => Numbered(players[s].idString)

NumberedLimit ==
    ClientsLimit # 0 =>
        \A id \in IdStrings : Numbered(id) => Cardinality(Showing(id)) <= ClientsLimit

LimitInv == IInv /\ NumberedIds /\ NumberedLimit

LEMMA NumberedIffChecked ==
    ASSUME NEW c \in Clients, c.steam \/ c.kind # "UNKNOWN"
    PROVE  Numbered(IdStringFor(c)) <=> Checked(c)
<1> DEFINE acc == FinalId(c)[2]
<1>1. acc \in Nat
    BY IdsOfClient, AuthAssumption DEF UserIds
<1>2. ValidId(acc) <=> acc \div 2 # 0
    BY <1>1 DEF ValidId
<1>3. CASE IdKindFor(c) \in UniqueIdKinds
    <2>1. /\ IdStringFor(c)[1] \in {"STEAM", "VALVE"}
          /\ IdStringFor(c)[4] = acc \div 2
        BY <1>3 DEF IdStringFor, UniqueIdKinds, Number, ByIp
    <2> QED
        BY <1>2, <1>3, <2>1 DEF Numbered, Checked
<1>4. CASE IdKindFor(c) \notin UniqueIdKinds
    <2>1. IdStringFor(c)[4] = 0
        BY <1>4 DEF IdStringFor, UniqueIdKinds
    <2> QED
        BY <1>4, <2>1 DEF Numbered, Checked
<1> QED
    BY <1>3, <1>4

LEMMA ShowingFinite ==
    ASSUME TypeInv, NEW id
    PROVE  IsFiniteSet(Showing(id)) /\ Cardinality(Showing(id)) \in Nat
<1>1. IsFiniteSet(Showing(id))
    BY FS_Subset, AuthAssumption DEF Showing, TypeInv
<1> QED
    BY <1>1, FS_CardinalityType

LEMMA FewerShow ==
    ASSUME TypeInv, NEW id, NEW S \in SUBSET Showing(id)
    PROVE  IsFiniteSet(S) /\ Cardinality(S) \in Nat
           /\ Cardinality(S) <= Cardinality(Showing(id))
BY ShowingFinite, FS_Subset, FS_CardinalityType

LEMMA ClearedUnnumbered == ~Numbered(Cleared.idString)
BY ClearedShowsNothing DEF Numbered

(* Who shows a numbered id is no bot. *)
LEMMA NumberedHaveIdentity ==
    ASSUME IInv, NEW t \in connected, Numbered(players[t].idString)
    PROVE  players[t].auth # "UNKNOWN"
<1>1. t \in Slots
    BY DEF IInv, TypeInv
<1>2. players[t] # Cleared
    BY ClearedUnnumbered
<1> QED
    BY <1>1, <1>2 DEF IInv, IdentitiesAreLive

(* a step that connects nobody *)
LEMMA FewerKeepLimit ==
    ASSUME LimitInv, connected' \subseteq connected,
           \A t \in connected' : players'[t] = players[t]
    PROVE  NumberedLimit'
<1> SUFFICES ASSUME ClientsLimit # 0, NEW id \in IdStrings, Numbered(id)
             PROVE  Cardinality(Showing(id)') <= ClientsLimit
    BY DEF NumberedLimit, Numbered
<1>1. Showing(id)' \in SUBSET Showing(id)
    BY DEF Showing
<1>2. Cardinality(Showing(id)) <= ClientsLimit
    BY DEF LimitInv, NumberedLimit
<1> QED
    BY <1>1, <1>2, FewerShow, ShowingFinite, AuthAssumption DEF LimitInv, IInv

(* a step that connects client c in slot s, with those of set stay beside it *)
LEMMA OneMoreKeepsLimit ==
    ASSUME LimitInv, NEW s \in Slots, s \notin connected, NEW c \in Clients,
           c.steam \/ c.kind # "UNKNOWN",
           NEW stay \in SUBSET connected, connected' = stay \cup {s},
           \A t \in stay : players'[t] = players[t],
           players'[s].idString = IdStringFor(c),
           ClientsLimit # 0 /\ Checked(c) =>
               Cardinality(Others(s, c) \cap stay) < ClientsLimit
    PROVE  NumberedLimit'
<1> SUFFICES ASSUME ClientsLimit # 0, NEW id \in IdStrings, Numbered(id)
             PROVE  Cardinality(Showing(id)') <= ClientsLimit
    BY DEF NumberedLimit, Numbered
<1>1. CASE id = IdStringFor(c)
    <2> DEFINE before == Others(s, c) \cap stay
    <2>1. Cardinality(before) < ClientsLimit
        BY <1>1, NumberedIffChecked
    <2>2. Showing(id)' = before \cup {s}
        BY <1>1, NumberedHaveIdentity DEF Showing, Others, LimitInv
    <2>3. before \in SUBSET Showing(id) /\ s \notin before
        BY <1>1 DEF Showing, Others
    <2>4. Cardinality(before \cup {s}) = Cardinality(before) + 1
          /\ Cardinality(before) \in Nat
        BY <2>3, FewerShow, FS_AddElement DEF LimitInv, IInv
    <2> QED
        BY <2>1, <2>2, <2>4, AuthAssumption
<1>2. CASE id # IdStringFor(c)
    <2>1. Showing(id)' \in SUBSET Showing(id)
        BY <1>2 DEF Showing
    <2>2. Cardinality(Showing(id)) <= ClientsLimit
        BY DEF LimitInv, NumberedLimit
    <2> QED
        BY <2>1, <2>2, FewerShow, ShowingFinite, AuthAssumption DEF LimitInv, IInv
<1> QED
    BY <1>1, <1>2

LEMMA InitLimitInv == Init => LimitInv
<1> SUFFICES ASSUME Init PROVE LimitInv
    OBVIOUS
<1>1. NumberedIds
    BY DEF Init, NumberedIds, Cleared
<1>2. \A id : Cardinality(Showing(id)) = 0
    <2>1. \A id : Showing(id) = {}
        BY DEF Init, Showing
    <2> QED
        BY <2>1, FS_EmptySet
<1>3. NumberedLimit
    BY <1>2, AuthAssumption DEF NumberedLimit
<1> QED
    BY <1>1, <1>3, InitIInv DEF LimitInv

(* Whatever a step puts into a slot, a valid id of a unique kind is numbered. *)
LEMMA NumberedIdsStep ==
    ASSUME LimitInv,
           \A t \in Slots :
               \/ players'[t] = players[t]
               \/ players'[t] = Cleared
               \/ \E c \in Clients, unauth \in UnauthIds \cup {NoId} :
                      (c.steam \/ c.kind # "UNKNOWN") /\ players'[t] = PlayerFor(c, unauth)
    PROVE  NumberedIds'
<1> SUFFICES ASSUME NEW t \in Slots,
                    players'[t].valid, players'[t].idKind \in UniqueIdKinds
             PROVE  Numbered(players'[t].idString)
    BY DEF NumberedIds, Numbered
<1>1. CASE players'[t] = players[t]
    BY <1>1 DEF LimitInv, NumberedIds
<1>2. CASE players'[t] = Cleared
    <2>1. Cleared.idKind \notin UniqueIdKinds
        BY DEF Cleared, UniqueIdKinds
    <2> QED
        BY <1>2, <2>1
<1>3. ASSUME NEW c \in Clients, NEW unauth \in UnauthIds \cup {NoId},
             c.steam \/ c.kind # "UNKNOWN", players'[t] = PlayerFor(c, unauth)
      PROVE  Numbered(players'[t].idString)
    <2>1. /\ players'[t].idKind = IdKindFor(c)
          /\ players'[t].idString = IdStringFor(c)
        BY <1>3 DEF PlayerFor
    <2>2. PlayerFor(c, unauth).valid = ValidId(FinalId(c)[2])
        BY Zenon DEF PlayerFor
    <2>3. ValidId(FinalId(c)[2])
        BY <1>3, <2>2, Zenon
    <2>4. Checked(c)
        BY <2>1, <2>3 DEF Checked
    <2> QED
        BY <1>3, <2>1, <2>4, NumberedIffChecked
<1> QED
    BY <1>1, <1>2, <1>3

LEMMA ConnectKeepsLimit ==
    ASSUME LimitInv, NEW s \in Slots, NEW c \in Clients, Connect(s, c)
    PROVE  NumberedIds' /\ NumberedLimit'
<1>1. CASE RejectUnknown(s, c) \/ RejectDeprecated(s, c) \/ RejectInUse(s, c)
           \/ RejectBanned(s, c)
    <2>1. /\ connected' \subseteq connected
          /\ \A t \in connected' : players'[t] = players[t]
          /\ \A t \in Slots : players'[t] = players[t] \/ players'[t] = Cleared
        BY <1>1 DEF RejectUnknown, RejectDeprecated, RejectInUse, RejectBanned, Known,
           LimitInv, IInv, TypeInv
    <2> QED
        BY <2>1, FewerKeepLimit, NumberedIdsStep
<1>2. CASE AdmitSteam(s, c)
    <2> DEFINE stay == connected \ Evicted(s, c)
    <2>1. /\ s \notin connected /\ connected' = stay \cup {s}
          /\ c.steam /\ players'[s] = PlayerFor(c, NoId)
          /\ \A t \in Slots \ {s} : players'[t] = players[t] \/ players'[t] = Cleared
        BY <1>2 DEF AdmitSteam, Acceptable, Known
    <2>2. \A t \in stay : players'[t] = players[t]
        BY <1>2, <2>1 DEF AdmitSteam, LimitInv, IInv, TypeInv
    <2>3. Checked(c) => Others(s, c) \cap stay = {}
        BY <2>1 DEF Evicted
    <2>4. ClientsLimit # 0 /\ Checked(c) => Cardinality(Others(s, c) \cap stay) < ClientsLimit
        <3>1. Cardinality({}) = 0
            BY FS_EmptySet
        <3>2. ClientsLimit \in Nat
            BY AuthAssumption
        <3> QED
            BY <2>3, <3>1, <3>2
    <2>5. players'[s].idString = IdStringFor(c)
        BY <2>1 DEF PlayerFor
    <2>6. NumberedLimit'
        BY <2>1, <2>2, <2>4, <2>5, OneMoreKeepsLimit
    <2> QED
        BY <2>1, <2>6, NumberedIdsStep
<1>3. CASE AdmitEmulated(s, c)
    <2>1. PICK unauth \in UnauthIds :
              players' = [players EXCEPT ![s] = PlayerFor(c, unauth)]
        BY <1>3 DEF AdmitEmulated
    <2>2. /\ s \notin connected /\ connected' = connected \cup {s}
          /\ ~c.steam /\ c.kind # "UNKNOWN"
          /\ players'[s] = PlayerFor(c, unauth)
          /\ \A t \in Slots \ {s} : players'[t] = players[t]
        BY <1>3, <2>1 DEF AdmitEmulated, Acceptable, Known, LimitInv, IInv, TypeInv
    <2>3. \A t \in connected : players'[t] = players[t]
        BY <2>2 DEF LimitInv, IInv, TypeInv
    <2>4. Others(s, c) \in SUBSET Showing(IdStringFor(c))
        BY DEF Others, Showing
    <2>5. Cardinality(Others(s, c)) \in Nat
        BY <2>4, FewerShow DEF LimitInv, IInv
    <2>6. Checked(c) => ~InUse(s, c)
        BY <1>3 DEF AdmitEmulated, Acceptable
    <2>7. ClientsLimit # 0 /\ Checked(c) => Cardinality(Others(s, c)) < ClientsLimit
        BY <2>5, <2>6, AuthAssumption DEF InUse
    <2>8. Others(s, c) \cap connected = Others(s, c)
        BY DEF Others
    <2>9. NumberedLimit'
        BY <2>2, <2>3, <2>7, <2>8, OneMoreKeepsLimit DEF PlayerFor
    <2> QED
        BY <2>2, <2>9, NumberedIdsStep
<1> QED
    BY <1>1, <1>2, <1>3 DEF Connect

LEMMA NextLimitInv == LimitInv /\ [Next]_vars => LimitInv'
<1> SUFFICES ASSUME LimitInv, [Next]_vars PROVE LimitInv'
    OBVIOUS
<1>1. IInv'
    BY NextIInv DEF LimitInv
<1>2. ASSUME NEW s \in Slots, Disconnect(s)
      PROVE  NumberedIds' /\ NumberedLimit'
    <2>1. /\ connected' \subseteq connected
          /\ \A t \in connected' : players'[t] = players[t]
          /\ \A t \in Slots : players'[t] = players[t] \/ players'[t] = Cleared
        BY <1>2 DEF Disconnect, LimitInv, IInv, TypeInv
    <2> QED
        BY <2>1, FewerKeepLimit, NumberedIdsStep
<1>3. ASSUME NEW s \in Slots, BotConnects(s)
      PROVE  NumberedIds' /\ NumberedLimit'
    <2>1. players' = players /\ connected' = connected \cup {s} /\ players[s] = Cleared
        BY <1>3 DEF BotConnects, LimitInv, IInv, TypeInv, IdentitiesAreLive
    <2>2. ASSUME NEW id \in IdStrings, Numbered(id)
          PROVE  Showing(id)' = Showing(id)
        BY <2>1, <2>2, ClearedUnnumbered DEF Showing
    <2>3. NumberedLimit'
        BY <2>2 DEF LimitInv, NumberedLimit, Numbered
    <2>4. NumberedIds'
        BY <2>1, NumberedIdsStep
    <2> QED
        BY <2>3, <2>4
<1>4. ASSUME UNCHANGED vars
      PROVE  NumberedIds' /\ NumberedLimit'
    BY <1>4 DEF vars, LimitInv, NumberedIds, NumberedLimit, Numbered, Showing
<1>5. NumberedIds' /\ NumberedLimit'
    BY <1>2, <1>3, <1>4, ConnectKeepsLimit DEF Next
<1> QED
    BY <1>1, <1>5 DEF LimitInv

(* No more clients than IDClientsLimit show one id, be they legit, emulated or
   known by their address: the newcomer alone is checked, and that suffices. *)
THEOREM LimitHolds == Spec => []IdLimitKept
<1>1. LimitInv => IdLimitKept
    <2> SUFFICES ASSUME LimitInv, ClientsLimit # 0, NEW s \in connected,
                        players[s].valid, players[s].idKind \in UniqueIdKinds
                 PROVE  Cardinality(Showing(players[s].idString)) <= ClientsLimit
        BY DEF IdLimitKept, Showing
    <2>1. s \in Slots /\ players[s].idString \in IdStrings
        BY DEF LimitInv, IInv, TypeInv, Player
    <2> QED
        BY <2>1 DEF LimitInv, NumberedIds, NumberedLimit
<1> QED
    BY <1>1, InitLimitInv, NextLimitInv, PTL DEF Spec

-----------------------------------------------------------------------------
(* STEAM'S SESSIONS *)
(* The engine closes the session of the id it finds in the slot.  That this *)
(* is the id the session was opened for needs the configuration to leave    *)
(* legit clients the id of their ticket, which the default does; with ids   *)
(* made of addresses the property is false.                                 *)

LegitKeepTicket ==
    IdKindOf["STEAM"] \notin IpIdKinds /\ IdKindOf["STEAM_PENDING"] \notin IpIdKinds

Holding(id) == {s \in connected : OpenedFor(s) = id}

OpenedIsClosed == \A s \in connected : DisconnectId(s) = OpenedFor(s)

SessionInv == IInv /\ OpenedIsClosed /\ SessionsBalanced

LEMMA LegitTicket ==
    ASSUME LegitKeepTicket, NEW c \in Clients, c.steam
    PROVE  FinalId(c) = TicketId(c)
<1>1. AuthKindOf(c) \in {"STEAM", "STEAM_PENDING"}
    BY DEF AuthKindOf
<1>2. ~FromBadKey(c) /\ IdKindFor(c) \notin IpIdKinds
    BY <1>1 DEF IdKindFor, FromBadKey, LegitKeepTicket, IpIdKinds
<1> QED
    BY <1>2 DEF FinalId

LEMMA HoldingFinite ==
    ASSUME TypeInv, NEW id
    PROVE  IsFiniteSet(Holding(id)) /\ Cardinality(Holding(id)) \in Nat
<1>1. IsFiniteSet(Holding(id))
    BY FS_Subset, AuthAssumption DEF Holding, TypeInv
<1> QED
    BY <1>1, FS_CardinalityType

(* Of the sessions of an id, those of the slots that go are closed. *)
LEMMA ClosedForCount ==
    ASSUME TypeInv, OpenedIsClosed, NEW gone \in SUBSET connected,
           NEW open \in [SessionIds -> Nat], NEW id \in SessionIds, NEW extra \in Nat,
           open[id] = Cardinality(Holding(id)) + extra
    PROVE  ClosedFor(open, gone)[id] = Cardinality(Holding(id) \ gone) + extra
<1> DEFINE leave == {t \in gone : DisconnectId(t) = id}
<1>1. leave = Holding(id) \cap gone
    BY DEF OpenedIsClosed, Holding
<1>2. /\ Cardinality(Holding(id) \ gone) = Cardinality(Holding(id)) - Cardinality(leave)
      /\ Cardinality(Holding(id) \ gone) \in Nat
      /\ Cardinality(leave) \in Nat
    <2>1. IsFiniteSet(Holding(id))
        BY HoldingFinite
    <2>2. /\ IsFiniteSet(Holding(id) \ gone)
          /\ Cardinality(Holding(id) \ gone) =
                 Cardinality(Holding(id)) - Cardinality(Holding(id) \cap gone)
        BY <2>1, FS_Difference
    <2>3. IsFiniteSet(Holding(id) \cap gone)
        BY <2>1, FS_Subset
    <2> QED
        BY <1>1, <2>2, <2>3, FS_CardinalityType
<1>3. ClosedFor(open, gone)[id] =
          IF open[id] > Cardinality(leave) THEN open[id] - Cardinality(leave) ELSE 0
    BY DEF ClosedFor
<1> QED
    BY <1>2, <1>3, HoldingFinite

(* Of the slots that hold an id, those that stay, and the new one if any. *)
LEMMA HoldingAfterConnect ==
    ASSUME TypeInv, NEW s \in Slots, s \notin connected, NEW stay \in SUBSET connected,
           connected' = stay \cup {s}, \A t \in stay : OpenedFor(t)' = OpenedFor(t),
           NEW id
    PROVE  Cardinality(Holding(id)') =
               Cardinality(Holding(id) \ (connected \ stay))
               + (IF OpenedFor(s)' = id THEN 1 ELSE 0)
<1> DEFINE kept == Holding(id) \ (connected \ stay)
<1>1. IsFiniteSet(kept) /\ Cardinality(kept) \in Nat /\ s \notin kept
    BY HoldingFinite, FS_Subset, FS_CardinalityType DEF Holding
<1>2. CASE OpenedFor(s)' = id
    <2>1. Holding(id)' = kept \cup {s}
        BY <1>2 DEF Holding
    <2> QED
        BY <1>1, <1>2, <2>1, FS_AddElement
<1>3. CASE OpenedFor(s)' # id
    <2>1. Holding(id)' = kept
        BY <1>3 DEF Holding
    <2> QED
        BY <1>1, <1>3, <2>1
<1> QED
    BY <1>2, <1>3

LEMMA HoldingAfterLeave ==
    ASSUME NEW gone \in SUBSET connected, connected' = connected \ gone,
           \A t \in connected' : OpenedFor(t)' = OpenedFor(t),
           NEW id
    PROVE  Holding(id)' = Holding(id) \ gone
BY DEF Holding

LEMMA OpenedClosed ==
    ASSUME NEW open \in [SessionIds -> Nat], NEW id \in SessionIds
    PROVE  Closed(Opened(open, id), id) = open
<1>1. Closed(Opened(open, id), id) \in [SessionIds -> Nat]
    BY OpenedTyped, ClosedTyped
<1>2. \A x \in SessionIds : Closed(Opened(open, id), id)[x] = open[x]
    BY DEF Closed, Opened
<1> QED
    BY <1>1, <1>2

LEMMA InitSessionInv == Init => SessionInv
<1> SUFFICES ASSUME Init PROVE SessionInv
    OBVIOUS
<1>1. OpenedIsClosed
    BY DEF Init, OpenedIsClosed
<1>2. \A id : Holding(id) = {}
    BY DEF Init, Holding
<1>3. SessionsBalanced
    BY <1>2, FS_EmptySet DEF Init, SessionsBalanced, Holding
<1> QED
    BY <1>1, <1>3, InitIInv DEF SessionInv

(* The slots that stay connected keep what they would close. *)
LEMMA OthersClose ==
    ASSUME SessionInv, NEW t \in connected, players'[t] = players[t], userid'[t] = userid[t],
           t \in bots' <=> t \in bots
    PROVE  /\ OpenedFor(t)' = OpenedFor(t)
           /\ DisconnectId(t)' = OpenedFor(t)'
BY DEF SessionInv, OpenedIsClosed, DisconnectId, OpenedFor

LEMMA QuietStep ==
    ASSUME SessionInv, connected' = connected, bots' = bots, sessions' = sessions,
           \A t \in connected : players'[t] = players[t] /\ userid'[t] = userid[t]
    PROVE  OpenedIsClosed' /\ SessionsBalanced'
<1>1. OpenedIsClosed'
    BY OthersClose DEF OpenedIsClosed
<1>2. \A id : Holding(id)' = Holding(id)
    BY OthersClose DEF Holding
<1>3. SessionsBalanced'
    BY <1>2 DEF SessionInv, SessionsBalanced, Holding
<1> QED
    BY <1>1, <1>3

LEMMA QuietRejections ==
    ASSUME SessionInv, NEW s \in Slots, NEW c \in Clients,
           RejectUnknown(s, c) \/ RejectDeprecated(s, c) \/ RejectInUse(s, c)
    PROVE  OpenedIsClosed' /\ SessionsBalanced'
<1>1. TicketId(c) \in SessionIds
    BY IdsOfClient
<1>2. sessions' = sessions
    BY <1>1, OpenedClosed DEF RejectUnknown, RejectDeprecated, RejectInUse,
       SessionInv, IInv, TypeInv
<1>3. /\ connected' = connected /\ bots' = bots
      /\ \A t \in connected : players'[t] = players[t] /\ userid'[t] = userid[t]
    BY DEF RejectUnknown, RejectDeprecated, RejectInUse, Known, SessionInv, IInv, TypeInv
<1> QED
    BY <1>2, <1>3, QuietStep

LEMMA RejectBannedBalanced ==
    ASSUME LegitKeepTicket, SessionInv, NEW s \in Slots, NEW c \in Clients, RejectBanned(s, c)
    PROVE  OpenedIsClosed' /\ SessionsBalanced'
<1>1. /\ Evicted(s, c) \in SUBSET connected /\ s \notin connected
      /\ connected' = connected \ Evicted(s, c)
      /\ \A t \in connected' : t \in connected /\ players'[t] = players[t]
                               /\ userid'[t] = userid[t]
      /\ bots' = bots
    BY EvictedSlots DEF RejectBanned, Known, SessionInv, IInv, TypeInv
<1>2. OpenedIsClosed'
    BY <1>1, OthersClose DEF OpenedIsClosed
<1>3. \A id : Holding(id)' = Holding(id) \ Evicted(s, c)
    BY <1>1, OthersClose, HoldingAfterLeave
<1>4. TicketId(c) \in SessionIds
    BY IdsOfClient
<1>5. ASSUME NEW id \in SessionIds
      PROVE  sessions'[id] = Cardinality(Holding(id)')
    <2>1. CASE c.steam
        <3> DEFINE open   == Opened(sessions, TicketId(c))
                   extra  == IF id = TicketId(c) THEN 1 ELSE 0
                   closed == ClosedFor(open, Evicted(s, c))
        <3>1. open \in [SessionIds -> Nat]
            BY <1>4, OpenedTyped DEF SessionInv, IInv, TypeInv
        <3>2. open[id] = Cardinality(Holding(id)) + extra
            BY <1>4, HoldingFinite DEF Opened, SessionInv, SessionsBalanced, Holding, IInv, TypeInv
        <3>3. closed[id] = Cardinality(Holding(id) \ Evicted(s, c)) + extra
            <4>1. extra \in Nat /\ TypeInv /\ OpenedIsClosed
                BY DEF SessionInv, IInv
            <4>2. Evicted(s, c) \in SUBSET connected
                BY <1>1
            <4> HIDE DEF open, extra
            <4> QED
                BY <3>1, <3>2, <4>1, <4>2, ClosedForCount
        <3>4. Cardinality(Holding(id) \ Evicted(s, c)) \in Nat
            BY HoldingFinite, FS_Subset, FS_CardinalityType DEF SessionInv, IInv
        <3>5. sessions' = Closed(closed, TicketId(c))
            BY <2>1, LegitTicket DEF RejectBanned
        <3>6. sessions'[id] = closed[id] - extra
            BY <3>3, <3>4, <3>5 DEF Closed, ClosedFor
        <3>7. Holding(id)' = Holding(id) \ Evicted(s, c)
            BY <1>3
        <3> QED
            BY <3>3, <3>4, <3>6, <3>7
    <2>2. CASE ~c.steam
        <3>1. sessions' = sessions /\ Evicted(s, c) = {}
            BY <2>2 DEF RejectBanned, Evicted
        <3>2. Holding(id)' = Holding(id)
            BY <1>3, <3>1
        <3> QED
            BY <3>1, <3>2 DEF SessionInv, SessionsBalanced, Holding
    <2> QED
        BY <2>1, <2>2
<1> QED
    BY <1>2, <1>5 DEF SessionsBalanced, Holding

LEMMA AdmitSteamBalanced ==
    ASSUME LegitKeepTicket, SessionInv, NEW s \in Slots, NEW c \in Clients, AdmitSteam(s, c)
    PROVE  OpenedIsClosed' /\ SessionsBalanced'
<1> DEFINE stay == connected \ Evicted(s, c)
<1>1. /\ Evicted(s, c) \in SUBSET connected /\ s \notin connected
      /\ connected' = stay \cup {s} /\ connected \ stay = Evicted(s, c)
      /\ \A t \in stay : players'[t] = players[t] /\ userid'[t] = userid[t]
      /\ bots' = bots /\ s \notin bots'
    BY EvictedSlots DEF AdmitSteam, Acceptable, Known, SessionInv, IInv, TypeInv
<1>2. players'[s] = PlayerFor(c, NoId) /\ userid'[s] = FinalId(c) /\ c.steam
    BY DEF AdmitSteam, SessionInv, IInv, TypeInv
<1>3. OpenedFor(s)' = TicketId(c) /\ players'[s].unauth = NoId
    BY <1>1, <1>2 DEF PlayerFor, OpenedFor
<1>4. DisconnectId(s)' = OpenedFor(s)'
    BY <1>2, <1>3, LegitTicket DEF DisconnectId
<1>5. /\ OpenedIsClosed'
      /\ \A t \in stay : OpenedFor(t)' = OpenedFor(t)
    BY <1>1, <1>4, OthersClose DEF OpenedIsClosed
<1>6. ASSUME NEW id \in SessionIds
      PROVE  sessions'[id] = Cardinality(Holding(id)')
    <2> DEFINE open  == Opened(sessions, TicketId(c))
               extra == IF id = TicketId(c) THEN 1 ELSE 0
    <2>1. TicketId(c) \in SessionIds
        BY IdsOfClient
    <2>2. open \in [SessionIds -> Nat]
        BY <2>1, OpenedTyped DEF SessionInv, IInv, TypeInv
    <2>3. open[id] = Cardinality(Holding(id)) + extra
        BY <2>1, HoldingFinite DEF Opened, SessionInv, SessionsBalanced, Holding, IInv, TypeInv
    <2>4. ClosedFor(open, Evicted(s, c))[id] =
              Cardinality(Holding(id) \ Evicted(s, c)) + extra
        <3>1. extra \in Nat /\ TypeInv /\ OpenedIsClosed
            BY DEF SessionInv, IInv
        <3>2. Evicted(s, c) \in SUBSET connected
            BY <1>1
        <3> HIDE DEF stay, open, extra
        <3> QED
            BY <2>2, <2>3, <3>1, <3>2, ClosedForCount
    <2>5. Cardinality(Holding(id)') = Cardinality(Holding(id) \ Evicted(s, c)) + extra
        <3>1. TypeInv /\ stay \in SUBSET connected
            BY DEF SessionInv, IInv
        <3>2. Cardinality(Holding(id)') =
                  Cardinality(Holding(id) \ (connected \ stay))
                  + (IF OpenedFor(s)' = id THEN 1 ELSE 0)
            <4> HIDE DEF stay
            <4> QED
                BY <1>1, <1>5, <3>1, HoldingAfterConnect
        <3> QED
            BY <1>1, <1>3, <3>2
    <2>6. sessions' = ClosedFor(open, Evicted(s, c))
        BY DEF AdmitSteam
    <2> QED
        BY <2>4, <2>5, <2>6
<1> QED
    BY <1>5, <1>6 DEF SessionsBalanced, Holding

(* One more connection comes with one more session, that of an unauthenticated
   id. *)
LEMMA OneMoreSession ==
    ASSUME SessionInv, NEW s \in Slots, s \notin connected, NEW unauth \in UnauthIds,
           connected' = connected \cup {s}, sessions' = Opened(sessions, unauth),
           OpenedFor(s)' = unauth, \A t \in connected : OpenedFor(t)' = OpenedFor(t)
    PROVE  SessionsBalanced'
<1> SUFFICES ASSUME NEW id \in SessionIds
             PROVE  sessions'[id] = Cardinality(Holding(id)')
    BY DEF SessionsBalanced, Holding
<1> DEFINE extra == IF id = unauth THEN 1 ELSE 0
<1>1. sessions'[id] = Cardinality(Holding(id)) + extra
    BY HoldingFinite DEF Opened, SessionInv, SessionsBalanced, Holding, IInv, TypeInv
<1>2. Holding(id) \ (connected \ connected) = Holding(id)
    OBVIOUS
<1>3. TypeInv /\ connected \in SUBSET connected
    BY DEF SessionInv, IInv
<1>4. Cardinality(Holding(id)') =
          Cardinality(Holding(id) \ (connected \ connected))
          + (IF OpenedFor(s)' = id THEN 1 ELSE 0)
    BY <1>3, HoldingAfterConnect
<1> QED
    BY <1>1, <1>2, <1>4

LEMMA AdmitEmulatedBalanced ==
    ASSUME SessionInv, NEW s \in Slots, NEW c \in Clients, AdmitEmulated(s, c)
    PROVE  OpenedIsClosed' /\ SessionsBalanced'
<1>1. PICK unauth \in UnauthIds :
          /\ players' = [players EXCEPT ![s] = PlayerFor(c, unauth)]
          /\ sessions' = Opened(sessions, unauth)
    BY DEF AdmitEmulated
<1>2. /\ s \notin connected /\ connected' = connected \cup {s} /\ ~c.steam
      /\ \A t \in connected : players'[t] = players[t] /\ userid'[t] = userid[t]
      /\ players'[s] = PlayerFor(c, unauth)
      /\ bots' = bots /\ s \notin bots'
    BY <1>1 DEF AdmitEmulated, Acceptable, Known, SessionInv, IInv, TypeInv
<1>3. OpenedFor(s)' = unauth /\ players'[s].unauth = unauth
    BY <1>2 DEF PlayerFor, OpenedFor
<1>4. DisconnectId(s)' = OpenedFor(s)'
    BY <1>3, AuthAssumption DEF DisconnectId
<1>5. /\ OpenedIsClosed'
      /\ \A t \in connected : OpenedFor(t)' = OpenedFor(t)
    BY <1>2, <1>4, OthersClose DEF OpenedIsClosed
<1>6. SessionsBalanced'
    BY <1>1, <1>2, <1>3, <1>5, OneMoreSession
<1> QED
    BY <1>5, <1>6

LEMMA BotConnectsBalanced ==
    ASSUME SessionInv, NEW s \in Slots, BotConnects(s)
    PROVE  OpenedIsClosed' /\ SessionsBalanced'
<1>1. PICK unauth \in UnauthIds :
          /\ userid' = [userid EXCEPT ![s] = unauth]
          /\ sessions' = Opened(sessions, unauth)
    BY DEF BotConnects
<1>2. /\ s \notin connected /\ connected' = connected \cup {s} /\ bots' = bots \cup {s}
      /\ \A t \in connected : players'[t] = players[t] /\ userid'[t] = userid[t]
      /\ players'[s] = Cleared /\ userid'[s] = unauth
    BY <1>1 DEF BotConnects, SessionInv, IInv, TypeInv, IdentitiesAreLive
<1>3. OpenedFor(s)' = unauth
    BY <1>2 DEF OpenedFor
<1>4. DisconnectId(s)' = OpenedFor(s)'
    BY <1>2, <1>3, ClearedShowsNothing DEF DisconnectId
<1>5. /\ OpenedIsClosed'
      /\ \A t \in connected : OpenedFor(t)' = OpenedFor(t)
    BY <1>2, <1>4, OthersClose DEF OpenedIsClosed
<1>6. SessionsBalanced'
    BY <1>1, <1>2, <1>3, <1>5, OneMoreSession
<1> QED
    BY <1>5, <1>6 DEF SessionsBalanced, Holding

LEMMA DisconnectBalanced ==
    ASSUME SessionInv, NEW s \in Slots, Disconnect(s)
    PROVE  OpenedIsClosed' /\ SessionsBalanced'
<1>1. /\ s \in connected /\ connected' = connected \ {s}
      /\ \A t \in connected' : t \in connected /\ players'[t] = players[t]
                               /\ userid'[t] = userid[t] /\ (t \in bots' <=> t \in bots)
    BY DEF Disconnect, SessionInv, IInv, TypeInv
<1>2. OpenedIsClosed'
    BY <1>1, OthersClose DEF OpenedIsClosed
<1>3. ASSUME NEW id \in SessionIds
      PROVE  sessions'[id] = Cardinality(Holding(id)')
    <2>1. sessions[id] = Cardinality(Holding(id)) + 0
        <3>1. sessions[id] = Cardinality(Holding(id))
            BY DEF SessionInv, SessionsBalanced, Holding
        <3>2. Cardinality(Holding(id)) \in Nat
            BY HoldingFinite DEF SessionInv, IInv
        <3> QED
            BY <3>1, <3>2
    <2>2. ClosedFor(sessions, {s})[id] = Cardinality(Holding(id) \ {s}) + 0
        <3>1. TypeInv /\ OpenedIsClosed /\ sessions \in [SessionIds -> Nat]
            BY DEF SessionInv, IInv, TypeInv
        <3> QED
            BY <1>1, <2>1, <3>1, ClosedForCount
    <2>3. Holding(id)' = Holding(id) \ {s}
        BY <1>1, OthersClose, HoldingAfterLeave
    <2>4. Cardinality(Holding(id) \ {s}) \in Nat
        BY HoldingFinite, FS_Subset, FS_CardinalityType DEF SessionInv, IInv
    <2> QED
        BY <2>2, <2>3, <2>4 DEF Disconnect
<1> QED
    BY <1>2, <1>3 DEF SessionsBalanced, Holding

LEMMA NextSessionInv == LegitKeepTicket /\ SessionInv /\ [Next]_vars => SessionInv'
<1> SUFFICES ASSUME LegitKeepTicket, SessionInv, [Next]_vars PROVE SessionInv'
    OBVIOUS
<1>1. IInv'
    BY NextIInv DEF SessionInv
<1>2. ASSUME NEW s \in Slots, NEW c \in Clients, Connect(s, c)
      PROVE  OpenedIsClosed' /\ SessionsBalanced'
    BY <1>2, QuietRejections, RejectBannedBalanced, AdmitSteamBalanced,
       AdmitEmulatedBalanced DEF Connect
<1>3. ASSUME UNCHANGED vars
      PROVE  OpenedIsClosed' /\ SessionsBalanced'
    BY <1>3, QuietStep DEF vars
<1>4. OpenedIsClosed' /\ SessionsBalanced'
    BY <1>2, <1>3, BotConnectsBalanced, DisconnectBalanced DEF Next
<1> QED
    BY <1>1, <1>4 DEF SessionInv

(* While legit clients keep the id of their ticket, Steam has open one session
   for each connected client and none for anyone else: whoever was refused
   or evicted, at whatever point of the hook, has had his closed. *)
THEOREM SessionsAreBalanced ==
    ASSUME LegitKeepTicket
    PROVE  Spec => []SessionsBalanced
<1>1. SessionInv => SessionsBalanced
    BY DEF SessionInv
<1>2. SessionInv /\ [Next]_vars => SessionInv'
    BY NextSessionInv
<1> QED
    BY <1>1, <1>2, InitSessionInv, PTL DEF Spec

(* A step that connects nobody leaves those who stay as they are. *)
LEMMA StayersKept ==
    ASSUME IInv, [Next]_vars, connected' \subseteq connected
    PROVE  \A t \in connected' : OpenedFor(t)' = OpenedFor(t)
<1> DEFINE Kept(t) == /\ players'[t] = players[t] /\ userid'[t] = userid[t]
                      /\ t \in bots' <=> t \in bots
<1>1. ASSUME NEW s \in Slots, NEW c \in Clients, Connect(s, c)
      PROVE  \A t \in connected' : Kept(t)
    <2>1. ~AdmitSteam(s, c) /\ ~AdmitEmulated(s, c)
        BY DEF AdmitSteam, AdmitEmulated, Acceptable, Known
    <2> QED
        BY <1>1, <2>1 DEF Connect, RejectUnknown, RejectDeprecated, RejectInUse,
           RejectBanned, Known, IInv, TypeInv
<1>2. ASSUME NEW s \in Slots, Disconnect(s)
      PROVE  \A t \in connected' : Kept(t)
    BY <1>2 DEF Disconnect, IInv, TypeInv
<1>3. ~\E s \in Slots : BotConnects(s)
    BY DEF BotConnects
<1>4. \A t \in connected' : Kept(t)
    BY <1>1, <1>2, <1>3 DEF Next, vars
<1> QED
    BY <1>4 DEF OpenedFor

(* While legit clients keep the id of their ticket, no client that is refused
   leaves a session behind: Steam's sessions are those of the connected clients
   before the step and after it, and nobody was added to these. *)
THEOREM RefusalsLeaveSteam ==
    ASSUME LegitKeepTicket
    PROVE  Spec => RefusedLeaveSteam
<1> DEFINE Leave == connected' \subseteq connected =>
                        \A id \in SessionIds : sessions'[id] <= sessions[id]
<1>1. SessionInv /\ SessionInv' /\ [Next]_vars => [Leave]_vars
    <2> SUFFICES ASSUME SessionInv, SessionInv', [Next]_vars,
                        connected' \subseteq connected, NEW id \in SessionIds
                 PROVE  sessions'[id] <= sessions[id]
        BY DEF vars
    <2>1. Holding(id)' \in SUBSET Holding(id)
        BY StayersKept DEF Holding, SessionInv
    <2>2. IsFiniteSet(Holding(id)) /\ Cardinality(Holding(id)) \in Nat
        BY HoldingFinite DEF SessionInv, IInv
    <2>3. Cardinality(Holding(id)') \in Nat
          /\ Cardinality(Holding(id)') <= Cardinality(Holding(id))
        BY <2>1, <2>2, FS_Subset, FS_CardinalityType
    <2>4. sessions[id] = Cardinality(Holding(id))
        BY DEF SessionInv, SessionsBalanced, Holding
    <2>5. sessions'[id] = Cardinality(Holding(id)')
        BY DEF SessionInv, SessionsBalanced, Holding
    <2> QED
        BY <2>3, <2>4, <2>5
<1>2. SessionInv /\ [Next]_vars => SessionInv'
    BY NextSessionInv
<1>3. [][Leave]_vars <=> RefusedLeaveSteam
    BY DEF RefusedLeaveSteam
<1> QED
    BY <1>1, <1>2, <1>3, InitSessionInv, PTL DEF Spec
=============================================================================
