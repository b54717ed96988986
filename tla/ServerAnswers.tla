---------------------------- MODULE ServerAnswers ---------------------------
(***************************************************************************)
(* The queries of ServerInfo with the answers that ResponseWriters writes: *)
(* the configuration of a run gives Written the value WriteResponse.       *)
(***************************************************************************)
EXTENDS ServerInfo, ResponseWriters

(* Clients have slots from 0, their edicts follow that of the world.  The number
   of a row leaves its upper bit to bots, and the list of players fits into a
   packet however long the names are: 32 players with names of 31 characters
   take 1318 bytes of 1400. *)
ASSUME AnswersAssumption ==
    /\ \A r \in Responses, w \in Worlds, flood \in BOOLEAN :
          Written(r, w, flood, Limit[r]) = WriteResponse(r, w, flood, Limit[r])
    /\ \A w \in Worlds :
          LET slots == Cardinality(DOMAIN w.clients) IN
          /\ slots \in 1 .. 128
          /\ w.clients \in [0 .. slots - 1 -> Clients]
          /\ w.edicts \in [0 .. slots -> Edicts]
          /\ w.cvars \in Seq(Cvars)
          /\ \E longest \in 0 .. MaxPacket :
                /\ \A i \in 0 .. slots - 1 : w.clients[i].name.len <= longest
                /\ 6 + slots * (10 + longest) <= MaxPacket
    /\ MaxPacket < 65536

(* Whatever the players and cvars are when a list is written, what a client
   reads is true of that moment: every connected player once, with its own
   name and score; and, however little room there is for them, every rule the
   server shows from the first to the last that fits, none cut in two and
   counted as whole, and nothing of a protected one but whether it is set. *)
ListsAreWhole ==
    [][/\ resp'["players"] # resp["players"] =>
             PlayersRead(resp'["players"].data) = PlayersInOrder(world)
       /\ resp'["rules"] # resp["rules"] =>
             AreTheRules(resp'["rules"].data, Shown(world), Fitting(world, Limit["rules"]))]_vars

=============================================================================
