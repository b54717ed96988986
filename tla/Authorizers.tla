---------------------------- MODULE Authorizers ----------------------------
(***************************************************************************)
(* The emulators' authorizers of reunion_authorizers.cpp and the id that   *)
(* Reunion_FinishClientAuth makes of what they find.  A client that Steam  *)
(* did not accept is shown to one authorizer after another until one of    *)
(* them recognises its ticket and tells what machine it came from.         *)
(*                                                                         *)
(* A byte is a number below Base, a word is two bytes; a string is a       *)
(* sequence of bytes other than NUL.  Hashes are ideal: the id made by one *)
(* is represented by what was hashed.                                      *)
(***************************************************************************)
EXTENDS Integers, Sequences, FiniteSets, Sublists

CONSTANTS
    Base,           \* values of a byte; NUL is 0, the digits are 1..10
    Stripped,       \* the bytes " \/-" that strecpy leaves out
    Keyed,          \* x ^ g_SteamEmuHashKey, on words
    BlockLen,       \* REVEMU_BLOCK_SIZE, the longest key in a sealed ticket
    TextLen,        \* TICKET_BUF_SIZE - 1, the longest key in an open one
    Len2015,        \* MAX_RAWAUTHDATA_2015_TRUNCATED
    Len2018,        \* MAX_RAWAUTHDATA_2018_TRUNCATED
    BadHddsn,       \* BadHddsnNumber
    AvsmpPending, SteamEmuLan, SteamEmuPending,     \* ids that stand for "pending"
    Configs,        \* the settings that matter here, see Config
    Tickets,        \* what clients send, see Ticket
    MaxPlayers

Words  == 0 .. Base * Base - 1
Half   == (Base * Base) \div 2
Digits == 1 .. 10
Texts  == Seq(1 .. Base - 1)

Dproto == 1   Reunion2015 == 2   Reunion2018 == 3   Reunion2024 == 4

Config == [av : Dproto .. Reunion2024,      \* AuthVersion
           compat : BOOLEAN,                \* SC2009_RevCompatMode
           salt : BOOLEAN,                  \* m_SteamIdHashSaltLen # 0
           sxei : BOOLEAN]                  \* EnableSXEIdGeneration

(* A ticket is the views that the authorizers have of its bytes. *)
Ticket == [len : Nat,
           version : {"0x14", "0x4A", "0x53", "0xFFFF", "other"},   \* first word
           rev : BOOLEAN,           \* RevSignature and Signature2 are those of RevEmu
           hashed : Texts,          \* Hash and SteamID are made of this string
           open : Texts,            \* the string in TicketBuf
           sealed : Texts,          \* what decrypts and agrees with its digest ...
           sealedAt : {0, 24, 40},  \* ... and where, 0 for nowhere
           setti : BOOLEAN,         \* one of the four words of Setti is in place
           zeros : BOOLEAN,         \* the last two of ten bytes are zero
           ones : BOOLEAN,          \* word 20 is 0xFFFFFFFF
           word : Words,            \* the id or volume: word 1, 3 or 21
           hltv : BOOLEAN,          \* "*hltv" in userinfo
           hid : Words \cup {-1},   \* "*HID" in userinfo, -1 for none
           protocol : {47, 48}]

ASSUME TicketAssumption ==
    /\ Base \in Nat /\ Base > 10
    /\ Keyed \in [Words -> Words] /\ \A w \in Words : Keyed[Keyed[w]] = w
    /\ BlockLen \in Nat \ {0} /\ TextLen \in Nat \ {0}
    /\ Len2015 \in Nat /\ Len2018 \in Nat
    /\ Len2015 >= 2 /\ Len2018 >= 2         \* a number written into a key is not cut
    /\ Configs \subseteq Config
    /\ \A c \in Configs : c.av >= Reunion2018 => c.compat /\ c.salt
    /\ Tickets \subseteq Ticket
    /\ \A t \in Tickets : Len(t.sealed) <= BlockLen /\ Len(t.open) <= TextLen
    /\ MaxPlayers \in Nat \ {0}

VARIABLES
    config,     \* g_ReunionConfig
    client,     \* the ticket being examined
    next,       \* the authorizer it is shown to; 0 between two clients
    result,     \* client_auth_kind
    authdata,   \* the fields of authdata_t that authorizers fill
    players     \* the ids given so far, with the tickets they were given for

vars == <<config, client, next, result, authdata, players>>

-----------------------------------------------------------------------------
(* Account numbers: <<n, <<>>>> is the number n, <<Base * Base, s>> a number
   that is the hash of the string s. *)

Account(n) == <<n, <<>>>>
Lan     == Account(0)
Pending == Account(1)
ValidId(id) == id[1] > 1

(* hash << 1, n << 1: 32 bits are left *)
Twice(n) == Account((2 * n) % (2 * Half))
Volume(n) == n % Half

(* a number written into authKey *)
KeyOf(n) == <<n % Base, n \div Base>>

(* what revHash sees of a key: it ends at NUL *)
CString(key) ==
    IF \E i \in DOMAIN key : key[i] = 0
    THEN SubSeq(key, 1, (CHOOSE i \in DOMAIN key :
                            key[i] = 0 /\ \A j \in 1 .. i - 1 : key[j] # 0) - 1)
    ELSE key

RevHash(key) == <<2 * Half, CString(key)>>

(* strtoul, strtoull: the digits at the front *)
Number(text) ==
    LET value[i \in 0 .. Len(text)] ==
            IF i = 0 THEN 0 ELSE 10 * value[i - 1] + (text[i] - 1)
    IN  value[Len(text)]

IsHddsn(text) ==
    \/ \E i \in DOMAIN text : text[i] \notin Digits
    \/ Number(text) >= 2 * Half - 1

Cut(s, n) == IF Len(s) > n THEN SubSeq(s, 1, n) ELSE s

Plain(s) == Sublist(s, {i \in DOMAIN s : s[i] \notin Stripped})

(* The stale stack of an authdata_t nobody has filled. *)
Unset  == [id |-> Lan, kind |-> "unset", key |-> <<>>]
NoKey(id) == [id |-> id, kind |-> "OTHER", key |-> <<>>]
Found(id, kind, key) == [id |-> id, kind |-> kind, key |-> key]

(* faulty variant: a key without bytes still makes an id *)
RevEmuKeyEmpty(text, maxLen, strip) ==
    IF IsHddsn(text)
    THEN LET key == Cut(IF strip THEN Plain(text) ELSE text, maxLen)
         IN  Found(RevHash(key), "HDDSN", key)
    ELSE LET key == IF config.av < Reunion2018 THEN Cut(text, maxLen)
                    ELSE IF Volume(Number(text)) = 0 THEN <<>>
                    ELSE KeyOf(Volume(Number(text)))
         IN  Found(RevHash(key), "VOLUMEID", key)

(* RevEmuFinishAuthorization: a serial number as text, a volume number as text
   in the older versions and as a word since. *)
RevEmuKey(text, maxLen, strip) ==
    LET serial == Cut(IF strip THEN Plain(text) ELSE text, maxLen)
        volume == IF config.av < Reunion2018 THEN Cut(text, maxLen)
                  ELSE IF Volume(Number(text)) = 0 THEN <<>>
                  ELSE KeyOf(Volume(Number(text)))
        key    == IF IsHddsn(text) THEN serial ELSE volume
    IN  IF key = <<>> THEN NoKey(Pending)
        ELSE Found(RevHash(key), IF IsHddsn(text) THEN "HDDSN" ELSE "VOLUMEID", key)

-----------------------------------------------------------------------------
(* The authorizers: whom each recognises, and what it makes of him. *)

(* faulty variant: clients of the old protocol are forgotten *)
ChainWithout47 ==
    <<"HLTV", "SXEI", "SETTI", "AVSMP", "REVEMU_2013", "STEAMCLIENT_2009",
      "REVEMU", "OLD_REVEMU", "STEAM_EMU", "NO_STEAM_48">>

(* Reunion_Init_Authorizers *)
Chain == <<"HLTV", "SXEI", "SETTI", "AVSMP", "REVEMU_2013", "STEAMCLIENT_2009",
           "REVEMU", "OLD_REVEMU", "STEAM_EMU", "NO_STEAM_47", "NO_STEAM_48">>

(* faulty variant: the layouts of the two sealed tickets are not told apart *)
OpensAnywhere(t, place) ==
    /\ t.version = "0x53" /\ t.rev
    /\ t.sealedAt # 0
    /\ t.hashed = t.sealed

(* RevEmu2009to2013Authorize: the sealed key must be at the place the layout
   gives, and the ticket's own hash must be that of the key. *)
Opens(t, place) ==
    /\ t.version = "0x53" /\ t.rev
    /\ t.sealedAt = place
    /\ t.hashed = t.sealed

(* authorize() of each class, up to what it tells of the client *)
Recognises(a, t) ==
    CASE a = "HLTV"             -> t.hltv
      [] a = "SXEI"             -> config.sxei /\ t.hid # -1
      [] a = "SETTI"            -> t.len = 768 /\ t.setti
      [] a = "AVSMP"            -> t.len = 28 /\ t.version = "0x14"
      [] a = "REVEMU_2013"      -> t.len >= 136 /\ Opens(t, 40)
      [] a = "STEAMCLIENT_2009" -> t.len >= 120 /\ Opens(t, 24)
      [] a = "REVEMU"           -> /\ t.len >= 152 /\ t.version = "0x4A" /\ t.rev
                                   /\ t.hashed = t.open
      [] a = "OLD_REVEMU"       -> t.len = 10 /\ t.version = "0xFFFF" /\ t.zeros
      [] a = "STEAM_EMU"        -> t.len = 768 /\ t.ones
      [] a = "NO_STEAM_47"      -> t.protocol = 47
      [] a = "NO_STEAM_48"      -> t.protocol = 48

(* before AuthVersion 3 the key is the text of the id, for which the number stands *)
SxeiData(id) ==
    IF id = 0 THEN NoKey(Pending)
    ELSE Found(Twice(id), "SXEID", KeyOf(id))

AvsmpData(id) ==
    IF id \in {0, AvsmpPending} THEN NoKey(Pending)
    ELSE Found(Account(id), "FILEID", KeyOf(id))

OldRevEmuData(word) ==
    IF Volume(word) = 0 THEN NoKey(Pending)
    ELSE Found(Twice(Keyed[Volume(word)]), "VOLUMEID", KeyOf(Volume(word)))

(* CI_STEAM_ID_LAN, which the code compares with, is the id kind 8. *)
SteamEmuData(id) ==
    IF id \in {SteamEmuLan, SteamEmuPending} THEN NoKey(Pending)
    ELSE Found(Twice(Keyed[id]), "VOLUMEID",
               KeyOf(IF config.av >= Reunion2018 THEN Volume(Keyed[id]) ELSE id))

Authorized(a, t) ==
    CASE a = "SXEI"       -> SxeiData(t.hid)
      [] a = "AVSMP"      -> AvsmpData(t.word)
      [] a \in {"REVEMU_2013", "STEAMCLIENT_2009"}
                          -> RevEmuKey(t.sealed, BlockLen,
                                       config.compat \/ config.av >= Reunion2018)
      [] a = "REVEMU"     -> RevEmuKey(t.open, TextLen, config.av >= Reunion2018)
      [] a = "OLD_REVEMU" -> OldRevEmuData(t.word)
      [] a = "STEAM_EMU"  -> SteamEmuData(t.word)
      [] OTHER            -> NoKey(Lan)

(* IsNumericAuthKind *)
Numeric == {"SXEI", "AVSMP", "REVEMU_2013", "STEAMCLIENT_2009", "REVEMU",
            "OLD_REVEMU", "STEAM_EMU"}

-----------------------------------------------------------------------------
(* The id a player shows, as Reunion_FinishClientAuth makes it. *)

(* faulty variant: every version cuts the key *)
AuthKeyAlwaysCut(key) == Cut(key, IF config.av = Reunion2015 THEN Len2015 ELSE Len2018)

(* Reunion_AuthKeyMaxLen *)
AuthKey(key) ==
    CASE config.av = Reunion2015 -> Cut(key, Len2015)
      [] config.av = Reunion2018 -> Cut(key, Len2018)
      [] OTHER                   -> key

(* IsValidHddsnNumber, asked of keys of any kind *)
Bad(key) == \A i \in DOMAIN key \cap DOMAIN BadHddsn : key[i] = BadHddsn[i]

(* faulty variant: the account, which every emulator makes its own way, is
   hashed in every version *)
SaltedWithAccount(data) == <<data.id, AuthKey(data.key)>>

(* SaltSteamId: what is hashed, together with the salt *)
Salted(data) ==
    <<IF config.av < Reunion2018 THEN data.id ELSE Lan,
      IF config.av > Dproto THEN AuthKey(data.key) ELSE <<>> >>

(* The emulators' first prefixes of the older versions are taken to be equal,
   so that nothing but the number tells the ids apart. *)
Shown(kind, data) ==
    CASE kind \notin Numeric  -> <<"word", "", Lan, <<>> >>
      [] kind \in Numeric /\ ~ValidId(data.id)
                              -> <<"pending", "", Lan, <<>> >>
      [] ValidId(data.id) /\ Bad(data.key) /\ kind \in Numeric
                              -> <<"ip", "", Lan, <<>> >>
      [] OTHER                ->
            <<"number", IF config.av >= Reunion2018 THEN data.kind ELSE "">> \o
            (IF config.salt THEN Salted(data) ELSE <<data.id, <<>> >>)

-----------------------------------------------------------------------------
Init ==
    /\ config \in Configs
    /\ client \in Tickets
    /\ next = 0
    /\ result = "UNKNOWN"
    /\ authdata = Unset
    /\ players = {}

(* Reunion_FinishClientAuth fills what the authorizers read. *)
Connects(t) ==
    /\ next = 0
    /\ Cardinality(players) < MaxPlayers
    /\ client' = t
    /\ next' = 1
    /\ result' = "UNKNOWN"
    /\ authdata' = Unset
    /\ UNCHANGED <<config, players>>

Asked == next \in DOMAIN Chain /\ result = "UNKNOWN"

(* An authorizer that does not know the ticket leaves authdata alone.  (That
   of RevEmu ends the string in the ticket for the time it looks at it.) *)
Refuses ==
    /\ Asked
    /\ ~Recognises(Chain[next], client)
    /\ next' = next + 1
    /\ UNCHANGED <<config, client, result, authdata, players>>

Authorizes ==
    /\ Asked
    /\ Recognises(Chain[next], client)
    /\ result' = Chain[next]
    /\ authdata' = Authorized(Chain[next], client)
    /\ UNCHANGED <<config, client, next, players>>

(* The rest of Reunion_FinishClientAuth; slots, limits and bans are those of
   PlayerAuth. *)
Enters ==
    /\ result # "UNKNOWN"
    /\ players' = players \cup
           {[ticket |-> client, kind |-> result, data |-> authdata,
             shown |-> Shown(result, authdata)]}
    /\ next' = 0
    /\ result' = "UNKNOWN"
    /\ UNCHANGED <<config, client, authdata>>

Leaves(p) ==
    /\ next = 0
    /\ players' = players \ {p}
    /\ UNCHANGED <<config, client, next, result, authdata>>

Next ==
    \/ \E t \in Tickets : Connects(t)
    \/ Refuses
    \/ Authorizes
    \/ Enters
    \/ \E p \in players : Leaves(p)

Spec == Init /\ [][Next]_vars

-----------------------------------------------------------------------------
(* PROPERTIES *)

Kinds == {Chain[i] : i \in DOMAIN Chain}
KeyKinds == {"unset", "OTHER", "VOLUMEID", "HDDSN", "FILEID", "SXEID"}

(* Everybody is recognised by someone: the chain is never left at its end, so
   that the refusal for CA_UNKNOWN is not reached by clients that passed
   SV_CheckProtocol. *)
TypeOK ==
    /\ config \in Configs
    /\ client \in Tickets
    /\ next \in 0 .. Len(Chain)
    /\ result \in Kinds \cup {"UNKNOWN"}
    /\ authdata.kind \in KeyKinds
    /\ \A p \in players : p.ticket \in Tickets /\ p.kind \in Kinds

(* authdata is on the stack and nobody clears it: whoever recognises a client
   fills all of it, and a client without a key has an id that stands for none
   (IsValidHddsnNumber takes an empty key for a bad one). *)
KeyOrPending ==
    result # "UNKNOWN" =>
        /\ authdata.kind # "unset"
        /\ authdata.key = <<>> <=> authdata.kind = "OTHER"
        /\ authdata.kind = "OTHER" => ~ValidId(authdata.id)

TicketKinds == Kinds \ {"HLTV", "SXEI", "NO_STEAM_47", "NO_STEAM_48"}

(* The layouts overlap, and the first authorizer that matches wins; but a
   ticket is another emulator's too only if it has the 768 bytes that Setti,
   SteamEmu and padded tickets of RevEmu share.  For all others the order of
   Reunion_Init_Authorizers decides nothing. *)
RecognisedOnce ==
    result \in TicketKinds /\ client.len # 768 =>
        \A a \in TicketKinds \ {result} : ~Recognises(a, client)

(* The disk a ticket tells of: the number of a volume, or the serial number.
   (One of more than 32 characters does not fit into the sealed tickets.) *)
Machine(p) ==
    LET text == IF p.kind = "REVEMU" THEN p.ticket.open ELSE p.ticket.sealed IN
    CASE p.kind = "OLD_REVEMU" -> <<"volume", KeyOf(Volume(p.ticket.word))>>
      [] p.kind = "STEAM_EMU"  -> <<"volume", KeyOf(Volume(Keyed[p.ticket.word]))>>
      [] OTHER -> IF IsHddsn(text) THEN <<"serial", text>>
                  ELSE <<"volume", KeyOf(Volume(Number(text)))>>

DiskKinds == {"REVEMU_2013", "STEAMCLIENT_2009", "REVEMU", "OLD_REVEMU", "STEAM_EMU"}

(* A player keeps his id when he changes the emulator: since AuthVersion 3 it
   depends on the disk alone, although every emulator sends it in another form
   and makes another account of it ("make steamids generated for SC2009
   compatible with revEmu", reunion.cfg:102). *)
SameMachineSameId ==
    config.av >= Reunion2018 =>
        \A p, q \in {r \in players : r.kind \in DiskKinds /\ r.shown[1] # "pending"} :
            Machine(p) = Machine(q) => p.shown = q.shown

SameKey(p, q) ==
    /\ p.data.key = q.data.key
    /\ config.av >= Reunion2018 => p.data.kind = q.data.kind

(* Two players show the same generated id only if they have the same key,
   though keys of every kind and length go into the same hash. *)
KeysTellApart ==
    config.av \in {Reunion2015, Reunion2024} /\ config.salt =>
        \A p, q \in {r \in players : r.shown[1] = "number"} :
            p.shown = q.shown => SameKey(p, q)

(* "Fixed collisions of SteamIDs with AuthVersion >= 3, due to truncation of
   authkey to 31 chars" (CHANGELOG.md:11): the same, for AuthVersion 3 too. *)
LongKeysTellApart ==
    config.av >= Reunion2018 =>
        \A p, q \in {r \in players : r.shown[1] = "number"} :
            p.shown = q.shown => SameKey(p, q)
=============================================================================
