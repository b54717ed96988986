------------------------- MODULE AuthorizersProofs -------------------------
(***************************************************************************)
(* Proofs about the chain of authorizers, for every set of tickets and of  *)
(* configurations: somebody recognises each client, whoever does fills all *)
(* of authdata, and no ticket but those of 768 bytes has two readings.     *)
(***************************************************************************)
EXTENDS Authorizers, SublistProofs, SequenceTheorems, TLAPS

(* What is known of the client while he is passed along. *)
PassedBy == result = "UNKNOWN" =>
    \A i \in DOMAIN Chain : i < next => ~Recognises(Chain[i], client)

(* What the one who recognised him has left. *)
Identified == result # "UNKNOWN" =>
    \E a \in Kinds :
        /\ result = a
        /\ Recognises(a, client)
        /\ authdata = Authorized(a, client)

Shape(data) ==
    /\ data.kind \in KeyKinds
    /\ data.kind # "unset" =>
        /\ data.key = <<>> <=> data.kind = "OTHER"
        /\ data.kind = "OTHER" => ~ValidId(data.id)

Inv == TypeOK /\ PassedBy /\ Identified /\ Shape(authdata)

-----------------------------------------------------------------------------
LEMMA ChainDomain == DOMAIN Chain = 1 .. 11 /\ Len(Chain) = 11
BY DEF Chain

LEMMA KindsAre ==
    Kinds = {"HLTV", "SXEI", "SETTI", "AVSMP", "REVEMU_2013", "STEAMCLIENT_2009",
             "REVEMU", "OLD_REVEMU", "STEAM_EMU", "NO_STEAM_47", "NO_STEAM_48"}
<1>1. \A i \in 1 .. 11 : i \in {1, 2, 3, 4, 5, 6, 7, 8, 9, 10, 11}
  OBVIOUS
<1> QED
  BY <1>1, ChainDomain DEF Kinds, Chain

(* The engine lets in clients of two protocols, and the last two authorizers
   take one each. *)
LEMMA SomeoneRecognises ==
    ASSUME client \in Ticket
    PROVE  Recognises(Chain[10], client) \/ Recognises(Chain[11], client)
<1>1. client.protocol \in {47, 48}
  BY DEF Ticket
<1>2. Chain[10] = "NO_STEAM_47" /\ Chain[11] = "NO_STEAM_48"
  BY DEF Chain
<1>3. Recognises("NO_STEAM_47", client) <=> client.protocol = 47
  BY DEF Recognises
<1>4. Recognises("NO_STEAM_48", client) <=> client.protocol = 48
  BY DEF Recognises
<1> QED
  BY <1>1, <1>2, <1>3, <1>4

-----------------------------------------------------------------------------
(* What authorizers leave. *)

LEMMA NoKeyShape ==
    ASSUME NEW id \in {Lan, Pending}
    PROVE  Shape(NoKey(id)) /\ NoKey(id).kind # "unset"
BY DEF Shape, NoKey, Lan, Pending, Account, ValidId, KeyKinds

LEMMA FoundShape ==
    ASSUME NEW id, NEW key, key # <<>>, NEW kind \in {"VOLUMEID", "HDDSN", "FILEID", "SXEID"}
    PROVE  Shape(Found(id, kind, key)) /\ Found(id, kind, key).kind # "unset"
BY DEF Shape, Found, KeyKinds

LEMMA KeyOfIsKey == \A n : KeyOf(n) # <<>>
BY DEF KeyOf

(* A serial number of blanks and volume 0 are no keys. *)
LEMMA RevEmuShape ==
    ASSUME NEW text, NEW maxLen, NEW strip
    PROVE  Shape(RevEmuKey(text, maxLen, strip)) /\ RevEmuKey(text, maxLen, strip).kind # "unset"
<1> DEFINE serial == Cut(IF strip THEN Plain(text) ELSE text, maxLen)
           volume == IF config.av < Reunion2018 THEN Cut(text, maxLen)
                     ELSE IF Volume(Number(text)) = 0 THEN <<>>
                     ELSE KeyOf(Volume(Number(text)))
           key    == IF IsHddsn(text) THEN serial ELSE volume
           kind   == IF IsHddsn(text) THEN "HDDSN" ELSE "VOLUMEID"
<1>1. RevEmuKey(text, maxLen, strip) =
        IF key = <<>> THEN NoKey(Pending) ELSE Found(RevHash(key), kind, key)
  BY DEF RevEmuKey
<1>2. kind \in {"VOLUMEID", "HDDSN", "FILEID", "SXEID"}
  OBVIOUS
<1> HIDE DEF key, kind
<1>3. CASE key = <<>>
  BY <1>1, <1>3, NoKeyShape
<1>4. CASE key # <<>>
  BY <1>1, <1>2, <1>4, FoundShape
<1> QED
  BY <1>3, <1>4

LEMMA AuthorizedShape ==
    ASSUME NEW a \in Kinds, NEW t
    PROVE  Shape(Authorized(a, t)) /\ Authorized(a, t).kind # "unset"
<1>1. CASE a = "SXEI"
  BY <1>1, NoKeyShape, FoundShape, KeyOfIsKey DEF Authorized, SxeiData
<1>2. CASE a = "AVSMP"
  BY <1>2, NoKeyShape, FoundShape, KeyOfIsKey DEF Authorized, AvsmpData
<1>3. CASE a \in {"REVEMU_2013", "STEAMCLIENT_2009"}
  BY <1>3, RevEmuShape DEF Authorized
<1>4. CASE a = "REVEMU"
  BY <1>4, RevEmuShape DEF Authorized
<1>5. CASE a = "OLD_REVEMU"
  BY <1>5, NoKeyShape, FoundShape, KeyOfIsKey DEF Authorized, OldRevEmuData
<1>6. CASE a = "STEAM_EMU"
  BY <1>6, NoKeyShape, FoundShape, KeyOfIsKey DEF Authorized, SteamEmuData
<1>7. CASE a \in {"HLTV", "SETTI", "NO_STEAM_47", "NO_STEAM_48"}
  BY <1>7, NoKeyShape DEF Authorized
<1> QED
  BY <1>1, <1>2, <1>3, <1>4, <1>5, <1>6, <1>7, KindsAre

(* Authorizers read the client and the configuration, nothing else. *)
LEMMA ReadsConfigOnly ==
    ASSUME NEW a, UNCHANGED <<config, client>>
    PROVE  /\ Recognises(a, client)' <=> Recognises(a, client)
           /\ Authorized(a, client)' = Authorized(a, client)
<1>1. Recognises(a, client)' <=> Recognises(a, client)
  BY DEF Recognises, Opens
<1>2. Authorized(a, client)' = Authorized(a, client)
  BY DEF Authorized, RevEmuKey, SxeiData, AvsmpData, OldRevEmuData, SteamEmuData
<1> QED
  BY <1>1, <1>2

LEMMA PassedByStays ==
    ASSUME PassedBy, UNCHANGED <<config, client, next, result>>
    PROVE  PassedBy'
<1>1. \A a : Recognises(a, client)' <=> Recognises(a, client)
  BY ReadsConfigOnly
<1>2. result = "UNKNOWN" => \A i \in DOMAIN Chain : i < next => ~Recognises(Chain[i], client)
  BY DEF PassedBy
<1>3. result = "UNKNOWN" => \A i \in DOMAIN Chain : i < next => ~Recognises(Chain[i], client)'
  BY <1>1, <1>2
<1> QED
  BY <1>3 DEF PassedBy

-----------------------------------------------------------------------------
LEMMA Initially == Init => Inv
<1> SUFFICES ASSUME Init PROVE Inv
  OBVIOUS
<1> USE DEF Init
<1>1. TypeOK
  BY ChainDomain DEF TypeOK, Unset, KeyKinds
<1>2. PassedBy
  BY ChainDomain DEF PassedBy
<1>3. Identified
  BY DEF Identified
<1>4. Shape(authdata)
  BY DEF Shape, Unset, KeyKinds
<1> QED
  BY <1>1, <1>2, <1>3, <1>4 DEF Inv

LEMMA Preserved == Inv /\ [Next]_vars => Inv'
<1> SUFFICES ASSUME Inv, [Next]_vars PROVE Inv'
  OBVIOUS
<1> USE ChainDomain
<1>t. TypeOK /\ PassedBy /\ Identified /\ Shape(authdata)
  BY DEF Inv
<1>k. "UNKNOWN" \notin Kinds
  BY KindsAre
<1>1. CASE \E t \in Tickets : Connects(t)
  <2> PICK t \in Tickets : Connects(t)
    BY <1>1
  <2>1. TypeOK'
    BY <1>t DEF Connects, TypeOK, Unset, KeyKinds
  <2>2. PassedBy'
    BY DEF Connects, PassedBy
  <2>3. Identified'
    BY DEF Connects, Identified
  <2>4. Shape(authdata)'
    BY DEF Connects, Shape, Unset, KeyKinds
  <2> QED
    BY <2>1, <2>2, <2>3, <2>4 DEF Inv
<1>2. CASE Refuses
  <2> USE <1>2
  <2>1. next' = next + 1 /\ next \in 1 .. 11 /\ result = "UNKNOWN"
    BY DEF Refuses, Asked
  <2>2. UNCHANGED <<config, client, result, authdata, players>>
    BY DEF Refuses
  <2>3. \A a : Recognises(a, client)' <=> Recognises(a, client)
    BY <2>2 DEF Recognises, Opens
  <2>4. \A i \in DOMAIN Chain : i < next' => ~Recognises(Chain[i], client)
    <3>1. \A i \in DOMAIN Chain : i < next => ~Recognises(Chain[i], client)
      BY <1>t, <2>1 DEF PassedBy
    <3>2. ~Recognises(Chain[next], client)
      BY DEF Refuses
    <3> QED
      BY <2>1, <3>1, <3>2
  <2>5. next # 11
    <3> SUFFICES ASSUME next = 11 PROVE FALSE
      OBVIOUS
    <3>1. client \in Ticket
      BY <1>t, TicketAssumption DEF TypeOK
    <3>2. ~Recognises(Chain[10], client) /\ ~Recognises(Chain[11], client)
      BY <2>1, <2>4
    <3> QED
      BY <3>1, <3>2, SomeoneRecognises
  <2>6. TypeOK'
    BY <1>t, <2>1, <2>2, <2>5 DEF TypeOK
  <2>7. PassedBy'
    <3>1. \A i \in DOMAIN Chain : i < next' => ~Recognises(Chain[i], client)'
      BY <2>2, <2>3, <2>4
    <3> QED
      BY <3>1 DEF PassedBy
  <2>8. Identified'
    BY <2>1, <2>2 DEF Identified
  <2>9. Shape(authdata)'
    BY <1>t, <2>2 DEF Shape
  <2> QED
    BY <2>6, <2>7, <2>8, <2>9 DEF Inv
<1>3. CASE Authorizes
  <2>1. next \in 1 .. 11 /\ result' = Chain[next] /\ Recognises(Chain[next], client)
    BY <1>3 DEF Authorizes, Asked
  <2>2. authdata' = Authorized(result', client) /\ UNCHANGED <<config, client, next, players>>
    BY <1>3 DEF Authorizes
  <2>3. result' \in Kinds
    BY <2>1 DEF Kinds
  <2>4. Shape(authdata') /\ authdata'.kind # "unset"
    BY <2>2, <2>3, AuthorizedShape
  <2>5. TypeOK'
    BY <1>t, <2>2, <2>3, <2>4 DEF TypeOK, Shape
  <2>6. PassedBy'
    BY <1>k, <2>3 DEF PassedBy
  <2>7. Identified'
    <3> PICK a \in Kinds : a = result'
      BY <2>3
    <3>1. Authorized(a, client)' = Authorized(a, client)
      BY <2>2, ReadsConfigOnly
    <3>2. Recognises(a, client)' <=> Recognises(a, client)
      BY <2>2, ReadsConfigOnly
    <3> QED
      BY <2>1, <2>2, <3>1, <3>2 DEF Identified
  <2> QED
    BY <2>4, <2>5, <2>6, <2>7 DEF Inv, Shape
<1>4. CASE Enters
  <2>1. result \in Kinds /\ client \in Tickets
    BY <1>4, <1>t DEF Enters, TypeOK
  <2>2. TypeOK'
    <3>1. \A p \in players' : p.ticket \in Tickets /\ p.kind \in Kinds
      BY <1>4, <1>t, <2>1 DEF Enters, TypeOK
    <3> QED
      BY <1>4, <1>t, <3>1 DEF Enters, TypeOK
  <2>3. PassedBy'
    BY <1>4 DEF Enters, PassedBy
  <2>4. Identified'
    BY <1>4 DEF Enters, Identified
  <2>5. Shape(authdata)'
    BY <1>4, <1>t DEF Enters, Shape
  <2> QED
    BY <2>2, <2>3, <2>4, <2>5 DEF Inv
<1>5. CASE \E p \in players : Leaves(p)
  <2> PICK p \in players : Leaves(p)
    BY <1>5
  <2>1. TypeOK'
    BY <1>t DEF Leaves, TypeOK
  <2>2. PassedBy'
    BY <1>t, PassedByStays DEF Leaves
  <2>3. Identified'
    BY <1>t, ReadsConfigOnly DEF Leaves, Identified
  <2>4. Shape(authdata)'
    BY <1>t DEF Leaves, Shape
  <2> QED
    BY <2>1, <2>2, <2>3, <2>4 DEF Inv
<1>6. CASE UNCHANGED vars
  <2> USE <1>6 DEF vars
  <2>1. TypeOK'
    BY <1>t DEF TypeOK
  <2>2. PassedBy'
    BY <1>t, PassedByStays
  <2>3. Identified'
    BY <1>t, ReadsConfigOnly DEF Identified
  <2>4. Shape(authdata)'
    BY <1>t DEF Shape
  <2> QED
    BY <2>1, <2>2, <2>3, <2>4 DEF Inv
<1> QED
  BY <1>1, <1>2, <1>3, <1>4, <1>5, <1>6 DEF Next

THEOREM Invariant == Spec => []Inv
<1> QED
  BY Initially, Preserved, PTL DEF Spec

(* The chain is never left at its end: whoever passed the engine's check of the
   protocol is taken by one of the authorizers of Reunion_Init_Authorizers. *)
THEOREM TypeCorrect == Spec => []TypeOK
<1>1. Inv => TypeOK
  BY DEF Inv
<1> QED
  BY <1>1, Invariant, PTL

(* Whoever recognises a client fills all of authdata_t, and leaves an id that
   stands for none where it leaves no key. *)
THEOREM AuthdataIsFilled == Spec => []KeyOrPending
<1>1. Inv => KeyOrPending
  <2> SUFFICES ASSUME Inv, result # "UNKNOWN" PROVE KeyOrPending
    BY DEF KeyOrPending
  <2> PICK a \in Kinds : authdata = Authorized(a, client)
    BY DEF Inv, Identified
  <2>1. Shape(authdata) /\ authdata.kind # "unset"
    BY AuthorizedShape
  <2> QED
    BY <2>1 DEF Shape, KeyOrPending
<1> QED
  BY <1>1, Invariant, PTL

(* The layouts that Reunion_Init_Authorizers puts in an order overlap in the
   tickets of 768 bytes alone. *)
THEOREM LayoutsAreApart == Spec => []RecognisedOnce
<1>1. Inv => RecognisedOnce
  <2> SUFFICES ASSUME Inv, result \in TicketKinds, client.len # 768,
                      NEW a \in TicketKinds \ {result}, Recognises(a, client)
               PROVE  FALSE
    BY DEF RecognisedOnce
  <2>1. Recognises(result, client)
    BY KindsAre DEF Inv, Identified, TicketKinds
  <2>2. \A b \in TicketKinds : b \in {"SETTI", "AVSMP", "REVEMU_2013", "STEAMCLIENT_2009",
                                     "REVEMU", "OLD_REVEMU", "STEAM_EMU"}
    BY KindsAre DEF TicketKinds
  <2>3. \A b \in TicketKinds : Recognises(b, client) =>
            \/ b = "AVSMP" /\ client.version = "0x14"
            \/ b = "REVEMU_2013" /\ client.version = "0x53" /\ client.sealedAt = 40
            \/ b = "STEAMCLIENT_2009" /\ client.version = "0x53" /\ client.sealedAt = 24
            \/ b = "REVEMU" /\ client.version = "0x4A"
            \/ b = "OLD_REVEMU" /\ client.version = "0xFFFF"
    <3> SUFFICES ASSUME NEW b \in TicketKinds, Recognises(b, client)
                 PROVE  \/ b = "AVSMP" /\ client.version = "0x14"
                        \/ b = "REVEMU_2013" /\ client.version = "0x53" /\ client.sealedAt = 40
                        \/ b = "STEAMCLIENT_2009" /\ client.version = "0x53" /\ client.sealedAt = 24
                        \/ b = "REVEMU" /\ client.version = "0x4A"
                        \/ b = "OLD_REVEMU" /\ client.version = "0xFFFF"
      OBVIOUS
    <3>1. CASE b \in {"SETTI", "STEAM_EMU"}
      BY <3>1 DEF Recognises
    <3>2. CASE b = "AVSMP"
      BY <3>2 DEF Recognises
    <3>3. CASE b = "REVEMU_2013"
      BY <3>3 DEF Recognises, Opens
    <3>4. CASE b = "STEAMCLIENT_2009"
      BY <3>4 DEF Recognises, Opens
    <3>5. CASE b = "REVEMU"
      BY <3>5 DEF Recognises
    <3>6. CASE b = "OLD_REVEMU"
      BY <3>6 DEF Recognises
    <3> QED
      BY <2>2, <3>1, <3>2, <3>3, <3>4, <3>5, <3>6
  <2> QED
    BY <2>1, <2>3
<1> QED
  BY <1>1, Invariant, PTL

-----------------------------------------------------------------------------
(* What a player shows is made of what was found in his ticket. *)
DataAsAuthorized == \A p \in players :
    p.data = Authorized(p.kind, p.ticket) /\ p.shown = Shown(p.kind, p.data)

LEMMA DataStaysAuthorized == Spec => []DataAsAuthorized
<1>1. Init => DataAsAuthorized
  BY DEF Init, DataAsAuthorized
<1>2. Inv /\ DataAsAuthorized /\ [Next]_vars => DataAsAuthorized'
  <2> SUFFICES ASSUME Inv, DataAsAuthorized, [Next]_vars PROVE DataAsAuthorized'
    OBVIOUS
  <2>1. config' = config
    BY DEF Next, vars, Connects, Refuses, Authorizes, Enters, Leaves
  <2>2. \A kind, data : Shown(kind, data)' = Shown(kind, data)
    BY <2>1 DEF Shown, Salted, AuthKey
  <2>3. \A a, t : Authorized(a, t)' = Authorized(a, t)
    BY <2>1 DEF Authorized, RevEmuKey, SxeiData, AvsmpData, OldRevEmuData, SteamEmuData
  <2>4. ASSUME Enters
        PROVE  \A p \in players' : p \in players \/
                  (p.data = Authorized(p.kind, p.ticket) /\ p.shown = Shown(p.kind, p.data))
    <3>1. authdata = Authorized(result, client)
      BY <2>4 DEF Enters, Inv, Identified
    <3> DEFINE new == [ticket |-> client, kind |-> result, data |-> authdata,
                       shown |-> Shown(result, authdata)]
    <3>2. players' = players \cup {new}
      BY <2>4 DEF Enters
    <3>3. new.data = Authorized(new.kind, new.ticket)
          /\ new.shown = Shown(new.kind, new.data)
      BY <3>1
    <3> HIDE DEF new
    <3> QED
      BY <3>2, <3>3
  <2>5. \A p \in players' : p \in players \/
            (p.data = Authorized(p.kind, p.ticket) /\ p.shown = Shown(p.kind, p.data))
    BY <2>4 DEF Next, vars, Connects, Refuses, Authorizes, Leaves
  <2> QED
    BY <2>2, <2>3, <2>5 DEF DataAsAuthorized
<1> QED
  BY <1>1, <1>2, Invariant, PTL DEF Spec

-----------------------------------------------------------------------------
(* Ids of AuthVersion 4. *)

LEMMA Joined ==
    ASSUME NEW a, NEW b, NEW c, NEW d
    PROVE  <<a, b>> \o <<c, d>> = <<a, b, c, d>>
<1> DEFINE S == {a, b, c, d}
<1>1. <<a, b>> \in Seq(S) /\ <<c, d>> \in Seq(S) /\ <<a, b, c, d>> \in Seq(S)
  OBVIOUS
<1>2. /\ <<a, b>> \o <<c, d>> \in Seq(S)
      /\ Len(<<a, b>> \o <<c, d>>) = 4
      /\ \A i \in 1 .. 4 : (<<a, b>> \o <<c, d>>)[i] = <<a, b, c, d>>[i]
  <2>1. \A i \in 1 .. 4 : i \in {1, 2, 3, 4}
    OBVIOUS
  <2> QED
    BY <1>1, <2>1, ConcatProperties
<1> QED
  BY <1>1, <1>2, SeqEqual

LEMMA FourAlike ==
    ASSUME NEW a, NEW b, NEW c, NEW d, NEW e, NEW f, NEW g, NEW h,
           <<a, b, c, d>> = <<e, f, g, h>>
    PROVE  b = f /\ c = g /\ d = h
OBVIOUS

(* A generated id is that of a client who has one. *)
LEMMA NumberOfValid ==
    ASSUME NEW kind, NEW data, Shown(kind, data)[1] = "number"
    PROVE  /\ kind \in Numeric /\ ValidId(data.id)
           /\ Shown(kind, data) =
                  <<"number", IF config.av >= Reunion2018 THEN data.kind ELSE "">> \o
                  (IF config.salt THEN Salted(data) ELSE <<data.id, <<>> >>)
<1>1. CASE kind \notin Numeric
  <2>1. Shown(kind, data) = <<"word", "", Lan, <<>> >>
    BY <1>1 DEF Shown
  <2>2. <<"word", "", Lan, <<>> >>[1] = "word"
    OBVIOUS
  <2>3. Shown(kind, data)[1] = "word"
    BY <2>1, <2>2, Zenon
  <2> QED
    BY <2>3
<1>2. CASE kind \in Numeric /\ ~ValidId(data.id)
  <2>1. Shown(kind, data) = <<"pending", "", Lan, <<>> >>
    BY <1>2 DEF Shown
  <2>2. <<"pending", "", Lan, <<>> >>[1] = "pending"
    OBVIOUS
  <2>3. Shown(kind, data)[1] = "pending"
    BY <2>1, <2>2, Zenon
  <2> QED
    BY <2>3
<1>3. CASE kind \in Numeric /\ ValidId(data.id) /\ Bad(data.key)
  <2>1. Shown(kind, data) = <<"ip", "", Lan, <<>> >>
    BY <1>3 DEF Shown
  <2>2. <<"ip", "", Lan, <<>> >>[1] = "ip"
    OBVIOUS
  <2>3. Shown(kind, data)[1] = "ip"
    BY <2>1, <2>2, Zenon
  <2> QED
    BY <2>3
<1>4. CASE kind \in Numeric /\ ValidId(data.id) /\ ~Bad(data.key)
  BY <1>4 DEF Shown
<1> QED
  BY <1>1, <1>2, <1>3, <1>4

LEMMA NumberShown ==
    ASSUME config.av = Reunion2024, config.salt, NEW kind, NEW data,
           Shown(kind, data)[1] = "number"
    PROVE  Shown(kind, data) = <<"number", data.kind, Lan, data.key>>
<1>1. Shown(kind, data) = <<"number", data.kind>> \o Salted(data)
  BY NumberOfValid DEF Reunion2018, Reunion2024
<1>2. Salted(data) = <<Lan, data.key>>
  BY DEF Salted, AuthKey, Dproto, Reunion2015, Reunion2018, Reunion2024
<1> QED
  BY <1>1, <1>2, Joined

(* With AuthVersion 4 no two keys, of whatever kinds and lengths, give one id:
   nothing is cut from them and nothing else tells the ids apart. *)
THEOREM WholeKeysTellApart == Spec => [](config.av = Reunion2024 => KeysTellApart)
<1>1. DataAsAuthorized => (config.av = Reunion2024 => KeysTellApart)
  <2> SUFFICES ASSUME DataAsAuthorized, config.av = Reunion2024, config.salt,
                      NEW p \in players, NEW q \in players,
                      p.shown[1] = "number", q.shown[1] = "number", p.shown = q.shown
               PROVE  SameKey(p, q)
    BY DEF KeysTellApart
  <2>1. p.shown = <<"number", p.data.kind, Lan, p.data.key>>
    BY NumberShown DEF DataAsAuthorized
  <2>2. q.shown = <<"number", q.data.kind, Lan, q.data.key>>
    BY NumberShown DEF DataAsAuthorized
  <2> QED
    <3>1. <<"number", p.data.kind, Lan, p.data.key>> = <<"number", q.data.kind, Lan, q.data.key>>
      BY <2>1, <2>2, Zenon
    <3>2. p.data.kind = q.data.kind /\ p.data.key = q.data.key
      BY <3>1, FourAlike
    <3> QED
      BY <3>2 DEF SameKey
<1> QED
  BY <1>1, DataStaysAuthorized, PTL

-----------------------------------------------------------------------------
(* The id of a disk. *)

(* Leaving bytes out makes no string longer, so a serial number that fits into
   a ticket has a key that is not cut. *)
LEMMA PlainFits ==
    ASSUME NEW text \in Texts, NEW n \in Nat, Len(text) <= n
    PROVE  Cut(Plain(text), n) = Plain(text)
<1> DEFINE places == {i \in DOMAIN text : text[i] \notin Stripped}
<1>1. places \in SUBSET DOMAIN text /\ text \in Seq(1 .. Base - 1)
  BY DEF Texts
<1>2. Plain(text) = Sublist(text, places)
  BY DEF Plain
<1>3. DOMAIN text = 1 .. Len(text) /\ Len(text) \in Nat
  BY <1>1
<1> HIDE DEF places
<1>4. Len(Plain(text)) = Cardinality(places)
  BY <1>1, <1>2, SublistIsList
<1>5. IsFiniteSet(1 .. Len(text)) /\ Cardinality(1 .. Len(text)) = Len(text)
  <2> PICK m \in Nat : m = Len(text)
    BY <1>3
  <2>1. 1 \in Int /\ m \in Int
    OBVIOUS
  <2>2. IsFiniteSet(1 .. m) /\ Cardinality(1 .. m) = IF 1 > m THEN 0 ELSE (m - 1) + 1
    BY <2>1, FS_Interval
  <2> QED
    BY <2>2
<1>6. Cardinality(places) <= Len(text) /\ Cardinality(places) \in Nat
  BY <1>1, <1>3, <1>5, FS_Subset, FS_CardinalityType
<1> QED
  BY <1>3, <1>4, <1>6 DEF Cut

LEMMA SinceReunion2018 ==
    ASSUME config \in Configs, config.av >= Reunion2018
    PROVE  ~(config.av < Reunion2018) /\ config.salt /\ config.compat
<1>1. config \in Config /\ config.salt /\ config.compat
  BY TicketAssumption
<1>2. config.av \in Int
  BY <1>1 DEF Config
<1> QED
  BY <1>1, <1>2 DEF Reunion2018

(* What RevEmu's tickets are told apart by since AuthVersion 3: nothing but
   the text, whichever ticket it comes in. *)
DiskKey(text) == IF IsHddsn(text) THEN Plain(text) ELSE KeyOf(Volume(Number(text)))

LEMMA KeyOfText ==
    ASSUME config \in Configs, config.av >= Reunion2018, NEW text \in Texts, NEW n \in Nat, Len(text) <= n,
           ValidId(RevEmuKey(text, n, TRUE).id)
    PROVE  /\ RevEmuKey(text, n, TRUE).key = DiskKey(text)
           /\ RevEmuKey(text, n, TRUE).kind = IF IsHddsn(text) THEN "HDDSN" ELSE "VOLUMEID"
<1> DEFINE volume == IF Volume(Number(text)) = 0 THEN <<>> ELSE KeyOf(Volume(Number(text)))
           key    == IF IsHddsn(text) THEN Plain(text) ELSE volume
           kind   == IF IsHddsn(text) THEN "HDDSN" ELSE "VOLUMEID"
<1>1. Cut(Plain(text), n) = Plain(text)
  BY PlainFits
<1>2. ~(config.av < Reunion2018)
  BY SinceReunion2018
<1>3. RevEmuKey(text, n, TRUE) =
        IF key = <<>> THEN NoKey(Pending) ELSE Found(RevHash(key), kind, key)
  BY <1>1, <1>2 DEF RevEmuKey
<1>4. ~ValidId(NoKey(Pending).id)
  BY DEF ValidId, NoKey, Pending, Account
<1>5. key # <<>>
  BY <1>3, <1>4
<1>6. RevEmuKey(text, n, TRUE) = Found(RevHash(key), kind, key)
  BY <1>3, <1>5
<1>7. \A x, y, z : Found(x, y, z).key = z /\ Found(x, y, z).kind = y
  BY DEF Found
<1>8. PICK hash : hash = RevHash(key)
  OBVIOUS
<1>9. RevEmuKey(text, n, TRUE).key = key /\ RevEmuKey(text, n, TRUE).kind = kind
  <2> HIDE DEF key, kind
  <2>1. Found(hash, kind, key).key = key /\ Found(hash, kind, key).kind = kind
    BY <1>7
  <2> QED
    BY <1>6, <1>8, <2>1
<1> QED
  BY <1>5, <1>9 DEF DiskKey

(* The id that is shown since AuthVersion 3 depends on the key and its kind. *)
LEMMA ShownOfKey ==
    ASSUME config \in Configs, config.av >= Reunion2018,
           NEW k \in Numeric, NEW d, NEW l \in Numeric, NEW e,
           ValidId(d.id), ValidId(e.id), d.key = e.key, d.kind = e.kind
    PROVE  Shown(k, d) = Shown(l, e)
<1>1. Salted(d) = Salted(e)
  BY SinceReunion2018 DEF Salted
<1>2. Bad(d.key) <=> Bad(e.key)
  OBVIOUS
<1> QED
  BY <1>1, <1>2, SinceReunion2018 DEF Shown

(* The key of a player, from the disk. *)
DataOfDisk(data, disk) ==
    \/ \E key : disk = <<"volume", key>> /\ data.kind = "VOLUMEID" /\ data.key = key
    \/ \E text : disk = <<"serial", text>> /\ data.kind = "HDDSN" /\ data.key = Plain(text)

LEMMA DiskOfPlayer ==
    ASSUME Inv, DataAsAuthorized, config.av >= Reunion2018,
           NEW p \in players, p.kind \in DiskKinds, p.shown[1] # "pending"
    PROVE  /\ p.kind \in Numeric /\ ValidId(p.data.id)
           /\ p.shown = Shown(p.kind, p.data)
           /\ DataOfDisk(p.data, Machine(p))
<1> DEFINE t == p.ticket
<1>1. /\ config \in Configs /\ t \in Ticket
      /\ Len(t.sealed) <= BlockLen /\ Len(t.open) <= TextLen
      /\ BlockLen \in Nat /\ TextLen \in Nat
  BY TicketAssumption DEF Inv, TypeOK
<1>2. t.sealed \in Texts /\ t.open \in Texts
  BY <1>1 DEF Ticket
<1>3. p.data = Authorized(p.kind, t) /\ p.shown = Shown(p.kind, p.data)
  BY DEF DataAsAuthorized
<1>4. p.kind \in Numeric
  BY DEF DiskKinds, Numeric
<1>5. ValidId(p.data.id)
  <2> SUFFICES ASSUME ~ValidId(p.data.id) PROVE FALSE
    OBVIOUS
  <2>1. p.shown = <<"pending", "", Lan, <<>> >>
    BY <1>3, <1>4 DEF Shown
  <2>2. <<"pending", "", Lan, <<>> >>[1] = "pending"
    OBVIOUS
  <2>3. p.shown[1] = "pending"
    BY <2>1, <2>2, Zenon
  <2> QED
    BY <2>3
<1>6. ~(config.av < Reunion2018) /\ config.compat
  BY <1>1, SinceReunion2018
<1>7. ~ValidId(NoKey(Pending).id)
  BY DEF ValidId, NoKey, Pending, Account
<1>8. CASE p.kind = "OLD_REVEMU"
  <2> DEFINE key == KeyOf(Volume(t.word))
  <2>1. p.data = OldRevEmuData(t.word)
    BY <1>3, <1>8 DEF Authorized
  <2>2. p.data = Found(Twice(Keyed[Volume(t.word)]), "VOLUMEID", key)
    BY <1>5, <1>7, <2>1 DEF OldRevEmuData
  <2>3. Machine(p) = <<"volume", key>>
    BY <1>8 DEF Machine
  <2> HIDE DEF key
  <2>4. p.data.kind = "VOLUMEID" /\ p.data.key = key
    BY <2>2 DEF Found
  <2>5. DataOfDisk(p.data, Machine(p))
    BY <2>3, <2>4 DEF DataOfDisk
  <2> QED
    BY <1>3, <1>4, <1>5, <2>5
<1>9. CASE p.kind = "STEAM_EMU"
  <2> DEFINE key == KeyOf(Volume(Keyed[t.word]))
  <2>1. p.data = SteamEmuData(t.word)
    BY <1>3, <1>9 DEF Authorized
  <2>2. p.data = Found(Twice(Keyed[t.word]), "VOLUMEID", key)
    BY <1>5, <1>7, <2>1 DEF SteamEmuData
  <2>3. Machine(p) = <<"volume", key>>
    BY <1>9 DEF Machine
  <2> HIDE DEF key
  <2>4. p.data.kind = "VOLUMEID" /\ p.data.key = key
    BY <2>2 DEF Found
  <2>5. DataOfDisk(p.data, Machine(p))
    BY <2>3, <2>4 DEF DataOfDisk
  <2> QED
    BY <1>3, <1>4, <1>5, <2>5
<1>10. CASE p.kind \in {"REVEMU_2013", "STEAMCLIENT_2009", "REVEMU"}
  <2> DEFINE text == IF p.kind = "REVEMU" THEN t.open ELSE t.sealed
             n    == IF p.kind = "REVEMU" THEN TextLen ELSE BlockLen
             disk == IF IsHddsn(text) THEN <<"serial", text>>
                     ELSE <<"volume", KeyOf(Volume(Number(text)))>>
  <2>1. text \in Texts /\ n \in Nat /\ Len(text) <= n
    BY <1>1, <1>2
  <2>2. p.data = RevEmuKey(text, n, TRUE)
    <3>1. CASE p.kind = "REVEMU"
      BY <1>3, <1>6, <3>1 DEF Authorized
    <3>2. CASE p.kind \in {"REVEMU_2013", "STEAMCLIENT_2009"}
      BY <1>3, <1>6, <3>2 DEF Authorized
    <3> QED
      BY <1>10, <3>1, <3>2
  <2>3. Machine(p) = disk
    BY <1>10 DEF Machine
  <2> HIDE DEF text, n
  <2>4. p.data.key = DiskKey(text)
        /\ p.data.kind = IF IsHddsn(text) THEN "HDDSN" ELSE "VOLUMEID"
    BY <1>1, <1>5, <2>1, <2>2, KeyOfText
  <2>5. DataOfDisk(p.data, Machine(p))
    <3>1. CASE IsHddsn(text)
      BY <2>3, <2>4, <3>1 DEF DataOfDisk, DiskKey
    <3>2. CASE ~IsHddsn(text)
      BY <2>3, <2>4, <3>2 DEF DataOfDisk, DiskKey
    <3> QED
      BY <3>1, <3>2
  <2> QED
    BY <1>3, <1>4, <1>5, <2>5
<1> QED
  BY <1>8, <1>9, <1>10 DEF DiskKinds

LEMMA OneDiskOneKey ==
    ASSUME NEW d, NEW e, NEW disk, DataOfDisk(d, disk), DataOfDisk(e, disk)
    PROVE  d.kind = e.kind /\ d.key = e.key
<1>1. \A x, y, u, v : <<x, y>> = <<u, v>> => x = u /\ y = v
  OBVIOUS
<1> QED
  BY <1>1 DEF DataOfDisk

(* Since AuthVersion 3 a player's id depends on his disk alone, whichever of
   the five emulators he comes with. *)
THEOREM OneDiskOneId == Spec => []SameMachineSameId
<1>1. Inv /\ DataAsAuthorized => SameMachineSameId
  <2> SUFFICES ASSUME Inv, DataAsAuthorized, config.av >= Reunion2018,
                      NEW p \in players, p.kind \in DiskKinds, p.shown[1] # "pending",
                      NEW q \in players, q.kind \in DiskKinds, q.shown[1] # "pending",
                      Machine(p) = Machine(q)
               PROVE  p.shown = q.shown
    BY DEF SameMachineSameId
  <2>1. config \in Configs
    BY DEF Inv, TypeOK
  <2>2. /\ p.kind \in Numeric /\ ValidId(p.data.id) /\ p.shown = Shown(p.kind, p.data)
        /\ q.kind \in Numeric /\ ValidId(q.data.id) /\ q.shown = Shown(q.kind, q.data)
        /\ DataOfDisk(p.data, Machine(p)) /\ DataOfDisk(q.data, Machine(p))
    BY DiskOfPlayer
  <2>3. p.data.kind = q.data.kind /\ p.data.key = q.data.key
    BY <2>2, OneDiskOneKey
  <2> QED
    BY <2>1, <2>2, <2>3, ShownOfKey
<1> QED
  BY <1>1, DataStaysAuthorized, Invariant, PTL

-----------------------------------------------------------------------------
(* Ids of AuthVersion 2.  Keys are cut before they are hashed, but the account
   is hashed with them, and RevEmu's accounts are made of the whole key. *)

KeyInId(data) ==
    \/ \E x, a, b : data.id = <<x, <<>>>> /\ data.key = <<a, b>>
    \/ \E x : data.key # <<>> /\ data.id = <<x, data.key>>

LEMMA PlainText ==
    ASSUME NEW text \in Texts
    PROVE  Plain(text) \in Texts
<1> DEFINE places == {i \in DOMAIN text : text[i] \notin Stripped}
<1>1. places \in SUBSET DOMAIN text /\ text \in Seq(1 .. Base - 1)
  BY DEF Texts
<1>2. Plain(text) = Sublist(text, places)
  BY DEF Plain
<1> HIDE DEF places
<1> QED
  BY <1>1, <1>2, SublistIsList DEF Texts

LEMMA CutText ==
    ASSUME NEW text \in Texts, NEW n \in Nat
    PROVE  Cut(text, n) \in Texts
<1> DEFINE S == 1 .. Base - 1
<1>1. text \in Seq(S)
  BY DEF Texts
<1> HIDE DEF S
<1>2. ASSUME Len(text) > n
      PROVE  SubSeq(text, 1, n) \in Seq(S)
  <2>1. DOMAIN text = 1 .. Len(text) /\ Len(text) \in Nat
        /\ \A i \in DOMAIN text : text[i] \in S
    BY <1>1
  <2>2. \A i \in 1 .. n : i \in 1 .. Len(text)
    BY <1>2, <2>1
  <2>3. \A i \in 1 .. n : text[i] \in S
    BY <2>1, <2>2
  <2> QED
    BY <2>3, SubSeqProperties
<1>3. Cut(text, n) \in Seq(S)
  BY <1>1, <1>2 DEF Cut
<1> QED
  BY <1>3 DEF Texts, S

LEMMA NoNulInText ==
    ASSUME NEW text \in Texts
    PROVE  CString(text) = text
<1> DEFINE S == 1 .. Base - 1
<1>1. text \in Seq(S)
  BY DEF Texts
<1>2. 0 \notin S
  BY TicketAssumption
<1> HIDE DEF S
<1>3. \A i \in DOMAIN text : text[i] # 0
  BY <1>1, <1>2
<1> QED
  BY <1>3 DEF CString

LEMMA WordKeyInId ==
    ASSUME NEW n, NEW m, NEW kind
    PROVE  KeyInId(Found(Account(n), kind, KeyOf(m)))
BY DEF KeyInId, Found, Account, KeyOf

LEMMA TextKeyInId ==
    ASSUME config.av = Reunion2015, NEW text \in Texts, NEW n \in Nat, NEW strip \in BOOLEAN,
           ValidId(RevEmuKey(text, n, strip).id)
    PROVE  KeyInId(RevEmuKey(text, n, strip))
<1> DEFINE serial == Cut(IF strip THEN Plain(text) ELSE text, n)
           key    == IF IsHddsn(text) THEN serial ELSE Cut(text, n)
           kind   == IF IsHddsn(text) THEN "HDDSN" ELSE "VOLUMEID"
<1>1. RevEmuKey(text, n, strip) =
        IF key = <<>> THEN NoKey(Pending) ELSE Found(RevHash(key), kind, key)
  BY DEF RevEmuKey, Reunion2015, Reunion2018
<1>2. ~ValidId(NoKey(Pending).id)
  BY DEF ValidId, NoKey, Pending, Account
<1>3. key # <<>>
  BY <1>1, <1>2
<1>4. RevEmuKey(text, n, strip) = Found(RevHash(key), kind, key)
  BY <1>1, <1>3
<1>5. key \in Texts
  BY PlainText, CutText
<1> HIDE DEF key, kind
<1>6. RevHash(key) = <<2 * Half, key>>
  BY <1>5, NoNulInText DEF RevHash
<1>7. KeyInId(Found(<<2 * Half, key>>, kind, key))
  <2>1. \A x, y, z : Found(x, y, z).key = z /\ Found(x, y, z).id = x
    BY DEF Found
  <2> QED
    BY <1>3, <2>1 DEF KeyInId
<1> QED
  BY <1>4, <1>6, <1>7

LEMMA AuthorizedKeyInId ==
    ASSUME config.av = Reunion2015, config \in Configs, NEW a \in Numeric, NEW t \in Tickets,
           ValidId(Authorized(a, t).id)
    PROVE  KeyInId(Authorized(a, t))
<1> USE DEF Twice
<1>1. ~ValidId(NoKey(Pending).id)
  BY DEF ValidId, NoKey, Pending, Account
<1>2. t.sealed \in Texts /\ t.open \in Texts /\ BlockLen \in Nat /\ TextLen \in Nat
  <2>1. t \in Ticket
    BY TicketAssumption
  <2> QED
    BY <2>1, TicketAssumption DEF Ticket
<1>3. config.compat \in BOOLEAN
  <2>1. config \in Config
    BY TicketAssumption
  <2> QED
    BY <2>1 DEF Config
<1>4. CASE a = "SXEI"
  <2>1. Authorized(a, t) = SxeiData(t.hid)
    BY <1>4 DEF Authorized
  <2> QED
    BY <1>1, <2>1, WordKeyInId DEF SxeiData
<1>5. CASE a = "AVSMP"
  <2>1. Authorized(a, t) = AvsmpData(t.word)
    BY <1>5 DEF Authorized
  <2> QED
    BY <1>1, <2>1, WordKeyInId DEF AvsmpData
<1>6. CASE a = "OLD_REVEMU"
  <2>1. Authorized(a, t) = OldRevEmuData(t.word)
    BY <1>6 DEF Authorized
  <2> QED
    BY <1>1, <2>1, WordKeyInId DEF OldRevEmuData
<1>7. CASE a = "STEAM_EMU"
  <2>1. Authorized(a, t) = SteamEmuData(t.word)
    BY <1>7 DEF Authorized
  <2> QED
    BY <1>1, <2>1, WordKeyInId DEF SteamEmuData
<1>8. CASE a \in {"REVEMU_2013", "STEAMCLIENT_2009", "REVEMU"}
  <2>1. PICK old \in BOOLEAN : old <=> config.compat \/ config.av >= Reunion2018
    OBVIOUS
  <2>2. PICK recent \in BOOLEAN : recent <=> config.av >= Reunion2018
    OBVIOUS
  <2>3. \/ Authorized(a, t) = RevEmuKey(t.sealed, BlockLen, old)
        \/ Authorized(a, t) = RevEmuKey(t.open, TextLen, recent)
    BY <1>8, <2>1, <2>2 DEF Authorized
  <2> QED
    BY <1>2, <2>3, TextKeyInId
<1> QED
  BY <1>4, <1>5, <1>6, <1>7, <1>8 DEF Numeric

LEMMA CutNumberShown ==
    ASSUME config.av = Reunion2015, config.salt, NEW kind, NEW data,
           Shown(kind, data)[1] = "number"
    PROVE  Shown(kind, data) = <<"number", "", data.id, Cut(data.key, Len2015)>>
<1>1. ~(config.av >= Reunion2018) /\ config.av < Reunion2018 /\ config.av > Dproto
  BY DEF Dproto, Reunion2015, Reunion2018
<1>2. Shown(kind, data) = <<"number", "">> \o Salted(data)
  BY <1>1, NumberOfValid, Zenon
<1>3. AuthKey(data.key) = Cut(data.key, Len2015)
  BY DEF AuthKey, Reunion2015, Reunion2018
<1>4. Salted(data) = <<data.id, Cut(data.key, Len2015)>>
  BY <1>1, <1>3 DEF Salted
<1>5. \A id, key : <<"number", "">> \o <<id, key>> = <<"number", "", id, key>>
  BY Joined
<1> QED
  BY <1>2, <1>4, <1>5, Zenon

LEMMA KeyFromId ==
    ASSUME NEW d, NEW e, KeyInId(d), KeyInId(e), d.id = e.id,
           Cut(d.key, Len2015) = Cut(e.key, Len2015)
    PROVE  d.key = e.key
<1>1. \A x, y, u, v : <<x, y>> = <<u, v>> => y = v
  OBVIOUS
<1>2. ASSUME NEW a, NEW b PROVE Cut(<<a, b>>, Len2015) = <<a, b>>
  <2>1. Len(<<a, b>>) = 2
    OBVIOUS
  <2>2. ~(2 > Len2015)
    BY TicketAssumption
  <2> QED
    BY <2>1, <2>2 DEF Cut
<1>3. CASE \E x : d.key # <<>> /\ d.id = <<x, d.key>>
  BY <1>1, <1>3 DEF KeyInId
<1>4. CASE \E x : e.key # <<>> /\ e.id = <<x, e.key>>
  BY <1>1, <1>4 DEF KeyInId
<1>5. CASE /\ \E x, a, b : d.id = <<x, <<>>>> /\ d.key = <<a, b>>
           /\ \E x, a, b : e.id = <<x, <<>>>> /\ e.key = <<a, b>>
  BY <1>2, <1>5
<1> QED
  BY <1>3, <1>4, <1>5 DEF KeyInId

(* In the two versions that claim it no two keys give one id: AuthVersion 4
   cuts nothing, and AuthVersion 2 hashes the account together with what it
   has cut.  (AuthVersion 3 does neither, see LongKeysTellApart.) *)
THEOREM OneIdOneKey == Spec => []KeysTellApart
<1>1. Inv /\ DataAsAuthorized => (config.av = Reunion2015 => KeysTellApart)
  <2> SUFFICES ASSUME Inv, DataAsAuthorized, config.av = Reunion2015, config.salt,
                      NEW p \in players, NEW q \in players,
                      p.shown[1] = "number", q.shown[1] = "number", p.shown = q.shown
               PROVE  p.data.key = q.data.key
    BY DEF KeysTellApart, SameKey, Reunion2015, Reunion2018
  <2>1. ASSUME NEW r \in players, r.shown[1] = "number"
        PROVE  /\ KeyInId(r.data)
               /\ r.shown = <<"number", "", r.data.id, Cut(r.data.key, Len2015)>>
    <3>1. r.shown = Shown(r.kind, r.data) /\ r.data = Authorized(r.kind, r.ticket)
      BY DEF DataAsAuthorized
    <3>2. r.kind \in Numeric /\ ValidId(r.data.id)
      BY <2>1, <3>1, NumberOfValid
    <3>3. r.ticket \in Tickets /\ config \in Configs
      BY DEF Inv, TypeOK
    <3>4. KeyInId(r.data)
      BY <3>1, <3>2, <3>3, AuthorizedKeyInId
    <3>5. r.shown = <<"number", "", r.data.id, Cut(r.data.key, Len2015)>>
      BY <2>1, <3>1, CutNumberShown
    <3> QED
      BY <3>4, <3>5
  <2>2. p.data.id = q.data.id /\ Cut(p.data.key, Len2015) = Cut(q.data.key, Len2015)
    <3>1. <<"number", "", p.data.id, Cut(p.data.key, Len2015)>> =
              <<"number", "", q.data.id, Cut(q.data.key, Len2015)>>
      BY <2>1, Zenon
    <3> QED
      BY <3>1, FourAlike
  <2> QED
    BY <2>1, <2>2, KeyFromId
<1>2. config.av \notin {Reunion2015, Reunion2024} => KeysTellApart
  BY DEF KeysTellApart
<1>3. (config.av = Reunion2024 => KeysTellApart) /\ (config.av = Reunion2015 => KeysTellApart)
        => KeysTellApart
  BY <1>2
<1> QED
  BY <1>1, <1>3, WholeKeysTellApart, DataStaysAuthorized, Invariant, PTL
=============================================================================
