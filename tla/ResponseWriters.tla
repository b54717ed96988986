--------------------------- MODULE ResponseWriters --------------------------
(***************************************************************************)
(* What the four answers of CServerInfo hold: the buffer of Sizebuf.cpp    *)
(* and the functions that write into it.  A buffer that would grow past    *)
(* its capacity drops the field and every field after it.                  *)
(*                                                                         *)
(* A field is its length in bytes and its value; a string is its length    *)
(* (without the terminating zero) and its value.                           *)
(***************************************************************************)
EXTENDS Integers, Sequences, FiniteSets, Sublists

Field(len, val) == [len |-> len, val |-> val]
Byte(val)  == Field(1, val % 256)
Long(val)  == Field(4, val)
Str(s)     == Field(s.len + 1, s.val)
Other(len) == Field(len, "")           \* fields no property tells apart

Empty(capacity) == [size |-> 0, data |-> <<>>, capacity |-> capacity, overflowed |-> FALSE]

(* GetSpace and Write *)
Write(buf, field) ==
    IF buf.overflowed \/ buf.size + field.len > buf.capacity
    THEN [buf EXCEPT !.overflowed = TRUE]
    ELSE [buf EXCEPT !.size = @ + field.len, !.data = Append(@, field.val)]

WriteAll(buf, fields) ==
    LET after[n \in 0 .. Len(fields)] ==
            IF n = 0 THEN buf ELSE Write(after[n - 1], fields[n])
    IN  after[Len(fields)]

-----------------------------------------------------------------------------
(* What the engine shows when an answer is written: clients in slots from 0,
   edicts from 0 with the world first, the cvars in their order. *)

Texts   == [len : Nat, val : STRING]
Clients == [connected : BOOLEAN, fake : BOOLEAN, name : Texts]
Edicts  == [frags : Int, fake : BOOLEAN, spectator : BOOLEAN]
Cvars   == [name : Texts, string : Texts, server : BOOLEAN, protected : BOOLEAN]

Connected(world) == {i \in DOMAIN world.clients : world.clients[i].connected}

PlayingBots(world) ==
    {i \in DOMAIN world.clients :
        world.edicts[i + 1].fake /\ ~world.edicts[i + 1].spectator}

SourceFields(world, flood) ==
    <<Other(4), Byte(73), Byte(48), Str(world.hostname), Str(world.map)>>
    \o (IF flood THEN <<Other(1), Other(1)>> ELSE <<Str(world.gameDir), Str(world.game)>>)
    \o <<Other(2), Byte(Cardinality(Connected(world))), Byte(world.visible),
         Byte(Cardinality(PlayingBots(world))), Other(4), Str(world.version),
         Byte(IF world.tags.len > 0 THEN 160 ELSE 128), Other(2)>>
    \o (IF world.tags.len > 0 THEN <<Str(world.tags)>> ELSE <<>>)

GoldSourceFields(world) ==
    <<Other(4), Byte(109), Str(world.address), Str(world.hostname), Str(world.map),
      Str(world.gameDir), Str(world.game), Byte(Cardinality(Connected(world))),
      Byte(world.visible), Byte(47), Other(5), Byte(Cardinality(PlayingBots(world)))>>

(* one row of the list of players; count is the number of rows before it *)
Row(world, i, count) ==
    <<Byte(count + (IF world.clients[i].fake THEN 128 ELSE 0)), Str(world.clients[i].name),
      Long(world.edicts[i + 1].frags), Other(4)>>

(* A list and the number of rows it has, which is stored in its header last, in
   a field of its own width. *)
Counting(buf) == [buf |-> buf, count |-> 0]
Counted(list, width) == [list.buf EXCEPT !.data[3] = list.count % width]

(* one turn of the loop over the slots *)
AddPlayer(list, world, i) ==
    IF world.clients[i].connected
    THEN [buf |-> WriteAll(list.buf, Row(world, i, list.count)), count |-> list.count + 1]
    ELSE list

PlayersList(world, capacity) ==
    LET header == WriteAll(Empty(capacity), <<Other(4), Byte(68), Byte(0)>>)
        slots == Cardinality(DOMAIN world.clients)
        after[n \in 0 .. slots] ==
            IF n = 0 THEN Counting(header) ELSE AddPlayer(after[n - 1], world, n - 1)
    IN  Counted(after[slots], 256)

(* the value of a protected cvar does not leave the server, only whether it is set *)
Rule(cvar) ==
    <<Str(cvar.name)>> \o
    IF cvar.protected
    THEN <<Field(1, IF cvar.string.val \in {"", "none"} THEN "0" ELSE "1"), Field(1, "")>>
    ELSE <<Str(cvar.string)>>

(* faulty variant: the rule that does not fit is counted *)
AddRuleCut(list, cvar) ==
    IF ~cvar.server \/ list.buf.overflowed THEN list
    ELSE [buf |-> WriteAll(list.buf, Rule(cvar)), count |-> list.count + 1]

(* one turn of the loop over the cvars, which ends with the first that does
   not fit *)
AddRule(list, cvar) ==
    LET buf == WriteAll(list.buf, Rule(cvar)) IN
    IF ~cvar.server \/ list.buf.overflowed THEN list
    ELSE [buf |-> buf, count |-> list.count + (IF buf.overflowed THEN 0 ELSE 1)]

RulesList(world, capacity) ==
    LET header == WriteAll(Empty(capacity), <<Other(4), Byte(69), Field(2, 0)>>)
        after[n \in 0 .. Len(world.cvars)] ==
            IF n = 0 THEN Counting(header) ELSE AddRule(after[n - 1], world.cvars[n])
    IN  Counted(after[Len(world.cvars)], 65536)

(* response.write into a buffer of that capacity *)
WriteResponse(r, world, flood, capacity) ==
    CASE r = "source"     -> WriteAll(Empty(capacity), SourceFields(world, flood))
      [] r = "goldsource" -> WriteAll(Empty(capacity), GoldSourceFields(world))
      [] r = "players"    -> PlayersList(world, capacity)
      [] r = "rules"      -> RulesList(world, capacity)

-----------------------------------------------------------------------------
(* What a client should read, told without a buffer. *)

(* the rules that the server shows *)
Shown(world) == Sublist(world.cvars, {n \in DOMAIN world.cvars : world.cvars[n].server})

(* how many bytes an answer with the first n rules takes *)
Bytes(cvars) ==
    LET bytes[n \in 0 .. Len(cvars)] ==
            IF n = 0 THEN 7
            ELSE bytes[n - 1] + cvars[n].name.len + 1
                 + (IF cvars[n].protected THEN 2 ELSE cvars[n].string.len + 1)
    IN  bytes

(* how many rules there are before the first that would not fit *)
Fitting(world, capacity) ==
    CHOOSE n \in 0 .. Len(Shown(world)) :
        /\ Bytes(Shown(world))[n] <= capacity
        /\ n # Len(Shown(world)) => Bytes(Shown(world))[n + 1] > capacity

(* where the n-th rule begins: a protected one takes three fields, others two *)
Place(cvars, n) == 2 * n + 2 + Cardinality({k \in 1 .. n - 1 : cvars[k].protected})

(* Of a protected rule the answer tells only whether it is set. *)
IsRule(data, at, cvar) ==
    /\ data[at] = cvar.name.val
    /\ IF cvar.protected
       THEN /\ data[at + 1] = IF cvar.string.val \in {"", "none"} THEN "0" ELSE "1"
            /\ data[at + 2] = ""
       ELSE data[at + 1] = cvar.string.val

(* The answer is the first so many rules and their number. *)
AreTheRules(data, cvars, count) ==
    /\ data[3] = count
    /\ \A n \in 1 .. count : IsRule(data, Place(cvars, n), cvars[n])

(* the players a client should see, in the order of their slots, each with
   its own score *)
PlayersInOrder(world) ==
    [n \in 1 .. Cardinality(Connected(world)) |->
        LET i == Nth(Connected(world), n) IN
        [index |-> n - 1, bot |-> world.clients[i].fake, name |-> world.clients[i].name.val,
         frags |-> world.edicts[i + 1].frags]]

PlayersRead(data) ==
    [n \in 1 .. data[3] |->
        LET row == SubSeq(data, 4 * n, 4 * n + 3) IN
        [index |-> row[1] % 128, bot |-> row[1] >= 128, name |-> row[2], frags |-> row[3]]]

=============================================================================
