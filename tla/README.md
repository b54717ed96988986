# Reunion, specified

Reunion is a metamod plugin for GoldSrc game servers (ReHLDS). It lets clients
without a valid Steam ticket play ("emulators"), gives every client an id the
configuration asks for, answers the server browser's queries in the place of
the engine, and keeps floods of such queries away. This directory holds a
specification of the parts of it that decide something: TLA+ modules translated
from `src/reunion/src`, TLC configurations that check them on small instances,
and theorems proved with TLAPS.

Everything the plugin does happens in one thread: the engine calls hooks, each
hook runs to its end, and the next event is another packet, frame, connect,
disconnect or console command. So the interleavings that matter are those of
*events* (packets of several sources, frames, commands, clients), and one TLA+
action is one hook from entry to return, including hooks that run nested in it.

To repeat a check: `tlc -config MCQueryLimiter.cfg MCQueryLimiter.tla`; to
repeat the proofs: `tlapm QueryLimiterProofs.tla`, and so for each of the eight
modules named `*Proofs`. `PROJECT.json` names, for every definition, the lines it
models, for every property a faulty variant of the code that breaks it, and
every hazard the properties are meant for.

## 1. Inventory

| Component | Source | State | Operations | Module |
|---|---|---|---|---|
| Query limiter | `query_limiter.*` | ring of 64 source rates, counters, global flag | count a packet; allow one source; allow in global mode; check the rates | `QueryLimiter` |
| Ban list | `query_banlist.*` | list of (ip, end) | add, remove the first, expire, look up | `QueryBanlist` |
| Server queries | `server_info.*` | clock, time of the last check, four cached responses, number of split packets | preprocess a packet, handle a query (normal, global), send a response, frame, ban and unban | `ServerQuery`, `ServerInfo`, `ResponseWriters`, `ServerAnswers` |
| Bugged-query fix | `query_bugfix.*` | table of 16 recent askers | ask | `QueryBugfix` |
| Client authentication | `client_auth.*` | the client being connected; the engine's user ids | connect hooks, notify connect and disconnect, id hooks | `PlayerAuth` |
| Players | `reunion_player.*` | per slot: kinds, ids, id string, unauthenticated id | authenticated, clear, in use, remove duplicates, lookups | `PlayerAuth` |
| Authorizers | `reunion_authorizers.*` | none (a static chain) | try one emulator after another on a ticket | `Authorizers` |
| Configuration | `reunion_cfg.*` | values, id options per client kind, whitelist | load, sections, ranges, defaults | `Configuration` |
| API and commands | `reunion_api.*` | result cvars of `dp_clientinfo` | `reu_ban`, `reu_unban`, `dp_clientinfo`, plugin API | `QueryBanlist`; the rest only reads players |
| Message buffer | `Sizebuf.*` | position, size, overflow flag | write, read | `ResponseWriters` (writing) |
| Utilities | `reunion_utils.*` | none | predicates on kinds, ids, keys; parser of addresses | `PlayerAuth`, `Authorizers`, `Configuration` |
| Plugin life cycle | `meta_api`, `dllapi`, `engine_api`, `reunion_rehlds_api`, `h_export`, `sdk_util` | pointers | start-up in sequence, forwarding | not modelled |
| Hashes and ciphers | `sha2`, `murmur3`, `Rijndael*` | none | numeric, third-party | not modelled |
| Engine SDK | `src/dep` | - | vendored headers | external |

How they interact. A connectionless packet reaches `Reunion_PreprocessPacket`:
a source on the **ban list** is dropped. Otherwise `CServerInfo::handleQuery`
counts it (`incomingQuery`), goes to `handleQueryGlobal` if the **limiter** is in
global mode, or else sorts it by kind, asks `allowQuery` and answers from a
cache, perhaps after asking the **bugged-query fix**, or leaves it to the engine.
Every engine frame ends in `startFrame`, which reads the clock, and every
`QUERY_CHECK_INTERVAL` lets bans expire and calls `checkRates`, which adds bans
to the list. Console commands change the list at any time. A `connect` packet
that gets through makes the engine run `SV_ConnectClient`, inside which Steam is
asked, the **authorizers** identify the emulator, **client authentication**
chooses id kind and id from the **configuration**, fills the **player**, looks
for players with the same id, refuses the newcomer or kicks the others - whose
disconnect hooks run nested - and opens an unauthenticated session with Steam.

What is hard, and what makes each component correct:

* *Limiter.* New sources take ring entries in turn while the same ring holds
  the rates of flooders; the counter of new sources, the global flag and the
  budget are updated at different moments (the flag is computed before the
  counters are reduced). Correct when a source is counted in one place, budgets
  per source and for the server hold under any order of packets, nobody is
  banned for a rate he did not send, and global mode ends when the flood ends.
* *Ban list.* Bans of two origins, several per source, ends truncated to
  seconds, expiry only when a check is due. Correct when a ban lasts as long as
  announced, and unbanning touches the named source, and it fully.
* *Limiter and list.* Correct when a flooder has one ban at a time, and is
  neither counted nor served while banned. (That packets of a banned source stop at
  the list is one guard of `Packet`; what depends on it is that a flooder's rate
  stays at zero and earns no second ban.)
* *Answers.* Caches with intervals of their own, refreshed on demand by some
  paths and not by others; fragments that must rebuild. Correct when no answer
  is older than its cache time, no response is built more often than it
  allows, and fragments put together are the response.
* *Bugged-query fix.* A ring whose entries are also updated in place. Correct
  when the table forgets nothing it has a place for.
* *Authentication and players.* Refusals at several depths of the connect hook,
  after Steam has opened a session, after duplicates were kicked; ids of different
  origin that read the same; the id swapped during the disconnect; bots, which are
  connected without having passed the hooks. Correct when every client in a slot
  has an identity and no free slot and no bot shows one, Steam's sessions are
  those of whoever is connected, the limit per id holds, and a legit client
  has its id to itself on arrival.
* *Authorizers.* Eleven recognisers of overlapping layouts, each of which fills
  a structure on the stack that nobody clears; keys of five kinds and many
  lengths that end in one hash. Correct when whoever recognises a client
  leaves nothing of the structure unset, no ticket has two readings, the same
  disk gives the same id whatever the emulator, and different keys give
  different ids.
* *Configuration.* The file is read into a list, and the list is read twice, by
  rules of its own for where a section ends; options that depend on others are
  settled last. Correct when every option has the value the file gives it, or
  its default, and the combinations the rest relies on come out whatever the
  order of the lines.
* *Buffer and writers.* A buffer that overflows drops what follows, while rows
  are counted beside it. Correct when the count is that of the rows a client
  can read, and each row is one player's or one rule's.

## 2. Plan

Order: the limiter first (most state, most interleavings, and nothing else
tests it), then what surrounds it, then authentication, then the pure parts.

| Step | Modules | State |
|---|---|---|
| 1 | `FloodBudget` (abstract), `QueryLimiter` (implements it), `QueryLimiterProofs` | done |
| 2 | `QueryBanlist`; `ServerQuery` = limiter + list + frame; `ServerQueryProofs` | done |
| 3 | `PlayerAuth`: slots, ids, sessions; `PlayerAuthProofs` | done |
| 4 | `ServerInfo`: dispatch, caches, fragments; `QueryBugfix`; `ServerInfoProofs`, `QueryBugfixProofs` | done |
| 5 | `ResponseWriters`: the buffer and what the four answers hold; `ServerAnswers` = `ServerInfo` + the writers | done |
| 6 | `Authorizers`: the chain, the keys, the ids; `AuthorizersProofs` | done |
| 7 | `Configuration`: lines, options, sections, addresses; `ConfigurationProofs` | done |
| - | `Sublists`, `SublistProofs`: the loops over lists that the modules share | done |
| 8 | The limiter and the bugged-query fix instantiated in `ServerAnswers` instead of seen from outside | left |
| 9 | An abstract `Sessions` (a client has a session exactly while it plays) that `PlayerAuth` implements | left |
| 10 | `ListsAreWhole` as a theorem: the loops of `ResponseWriters` as recursive functions; in `ServerInfoProofs` | done |

The hooks that only read ids (`SV_GetIDString`, `SV_CompareUserID`,
`SerializeSteamId`, `Steam_GSBUpdateUserData`) and `dp_clientinfo` were planned as
modules and given up: they keep no state, so that every property of theirs
would restate one assignment.

## 3. Modules and their correspondence to the code

### QueryLimiter

`lastQueries` is `m_lastQueries`, `lastAdded` is `m_lastAdded` under its mask
(the code masks at each use; `Init` is -1 masked), the three counters and the
flag keep their names. One action is a packet: `incomingQuery` and the verdict
of `allowQuery` (`WhitelistedQuery`, `KnownSourceQuery`, `NewSourceQuery`,
`RefusedSourceQuery`, the four ways through it), of `allowGlobalQuery`
(`GlobalQuery`), or no verdict at all (`UnlimitedQuery`: A2S_PLAYER, A2S_RULES
and packets that are cut short are counted but not limited). `CheckRates(delta)`
is `checkRates`; `delta` is the time since the last one. `asked`, `grantedLow`,
`grantedGlobal` and `added` are observers: no guard reads them.

The packet and byte counters, which the log line alone reads, and the log line
itself are left out. The rate of a flooder's ban is in the list's `flood` mark.

### FloodBudget

The promise without the mechanism: two regimes, a budget in each. The second
regime may start without a grant and may end at a check only. `QueryLimiter`
implements it with `SourceBudget = 2 * MaxLP`, `ServerBudget = MaxStored - 1`.

### QueryBanlist

`bans` is `m_bans`, in order, as the code searches and erases in order.
`realTime` and `lastCheck` belong to `CServerInfo`, whose `startFrame` is
`Frame`. Time is in ticks, ends are in seconds modulo 2^32, as the code
truncates. `until` is an observer: the announced end in ticks.

### ServerQuery

The two above under one clock: `Packet` is `Reunion_PreprocessPacket` and
`handleQuery`, `Frame` is `startFrame` with the true time between checks and
the flooders in the order of the ring; the console acts in between.

### Sublists

Several loops of the plugin walk a list in its order and keep, skip or erase
some of it: the bans that are not over, the flooders of the ring, the whitelist's
entries, the bytes of a key that are in the alphabet. `Sublist(s, I)` is what such
a loop makes of `s` when it keeps the indices in `I`, `Nth(I, k)` the index it comes
to as the k-th. Both are written without recursion, so that `SublistProofs` can say of
every list what becomes of its members, their order and their number.

### ServerInfo, ResponseWriters, ServerAnswers

`ServerInfo` has the switches of `handleQuery` and `handleQueryGlobal`, one
operator per kind of query; `SendResponse` with `Updated` (refresh when stale)
and the packets (whole or split); hybrid answers for `ServerInfoAnswerType` =
hybrid. What a response holds is the constant `Written(response, world, flood,
capacity)`, of which it assumes only that the size fits. The limiter and the fix
appear as their answers: `global` and `underFlood` move freely, what the limiter
grants and the fix finds is either. `sent` holds what left in the last step. Packets that the
engine gets, because the plugin does not answer them, are `to_engine`.

`ResponseWriters` gives `Written` its value: `Write` is `GetSpace` and `Write` of
the buffer, with the flag that refuses every later field; the four
`write*Response` functions are sequences of fields, a field being its length and
its value. The world is what they read from the engine: slots of clients from
0, edicts from 0 with the world first, cvars in their order. The loops over slots and
cvars are recursive functions, one value per turn, `AddPlayer` and `AddRule` being
their bodies; that a list of rules ends with the first that does not fit is a body that
does nothing any more. What the lists should hold is told without a buffer: `Shown` and
`PlayersInOrder` are what the engine has, `Fitting` how many rules there is room
for, `Place` where each begins. `ServerAnswers` composes the two, and says of the lists
what a client that reads them relies on.

### QueryBugfix

`isBuggedQuery` in its two cases, and the frame that moves the clock.
The questions are answered within one frame time, hence often 0 apart.

### PlayerAuth

A client is what the hooks see of a connection. `Connect(s, c)` is a pass through
`Steam_NotifyClientConnect_hook` and `Reunion_FinishClientAuth` with everything
they call; each disjunct is one of its exits. `BotConnects(s)` is a bot that the
engine puts into a slot: the plugin sets no hook on it, so the slot is connected
and its player as `clear()` left it, which is what the duplicate checks test with
`CA_UNKNOWN` (`reunion_player.cpp:301`, `:326`); `bots` are those slots. `userid[s]` is the engine's
`network_userid`, which outlives the client; `players[s]` the `CReunionPlayer`;
`sessions` is Steam's side. Ids are accounts with their universe (individual or
game server); id strings are the words and numbers they are printed with, since
duplicates are found by comparing strings. Hashing and salting are functions on
accounts.

Assumed of the engine and of Steam, from how the hooks use them: a bot, too, has an
unauthenticated session, whose id the engine keeps in the slot, and leaves through the
disconnect hook; nobody else is connected without having passed the connect hook; Steam opens a
session when it accepts a ticket, and closes one per `SendUserDisconnect` of
its id, if there is one; `CreateUnauthenticatedUserConnection` returns an id not
in use; a kick takes effect at once and runs the disconnect hook; the engine
calls `SendUserDisconnect` with the `m_SteamID` that the slot has during that
hook; it keeps `network_userid` after a disconnect; `FilterUser` looks for
the id, whatever ids the list has. The protocol checks that come before
(`SV_CheckProtocolVersion` and the like) only reject, and change nothing here.

### Authorizers

A ticket is the record of the views that the authorizers have of its bytes:
its length, its first word, whether signatures and hash agree, the strings in
the open and in the encrypted place, and where what decrypts sits. `Chain` is
the order of `Reunion_Init_Authorizers`, `Recognises(a, t)` the conditions of one
of them, `Authorized(a, t)` what it leaves in `authdata_t`. `Connects` begins with a
client and a stack nobody has cleared (`Unset`), `Authorizes` is one turn of the
loop, `Enters` and `Refuses` its ends, `Leaves` frees the place. `Shown` is the id
that a player carries, `Salted` the account made of the key.

A number that is written into a key is not cut (`Len2015` and `Len2018` are at
least 2); `AuthVersion` 2 hashes the account together with what it cut.

Bytes and words are small, so that masks, cuts and keys that end at NUL
happen; the arithmetic on them is the code's. Hashes are ideal: the id made by
one is represented by what was hashed. So what is shown is that no two keys
reach the hash as the same input, not that the hash has no collisions.
`TicketAssumption` demands of the configuration that versions from 3 on come
with a salt and the common form of serial numbers. The form is what `SettingsFit` of
`Configuration` establishes, and `VersionsFit` proves. So is a salt, unless the
file has one of the words that should disable hashing (0, no, false); the code
hashes with these too (see `config_documented` below), so it never runs such a version
without a salt.

### Configuration

The stage `load` is the loop that reads lines into `m_lines`, one action per kind of
line, with the marks that open and close sections; `options` the first pass over
the list (`ParseOption`) and what is settled after it (`OptionsEnd`): the plugin
does not start if a version from 3 on has a salt that is too short (one of
`Negations`, the words that should disable hashing, never is), or else
`EnableGenPrefix2` and `SC2009_RevCompatMode` become those of the version;
`section` the search for `QueryLimiterExceptIP` and its entries. Comments, trimming
and the split at `=` are in the shape of a line. `set` holds the options that are
numbers, `texts` the salt and the address of HLTV. `Parse` is `ipv4_parse`, symbol by
symbol, with `Progress` the states of its loop; `Address` says what it should accept, as
one reads a text as a whole: where the dots and the colon are, and what number stands
between two of them. `Listed` says of the section what `Address` says of one text: the
entries between our mark and the end that belongs to it. A mark has no name, and the
search for a section compares names: a section of another name that ends
before ours begins makes the code compare with a null pointer, `NullName`.

## 4. Runs

| Run | What it asks | Result |
|---|---|---|
| `limiter` | one entry per source, budgets, earned bans, refinement of `FloodBudget`, end of global mode | holds |
| `server_query` | the limiter with the list: one flood ban per source, quiet while banned; bans last and end as announced; unbanning spares the others | holds |
| `banlist_unban` | is a source that was unbanned admitted? | **no** |
| `banlist_unlimited` | do bans end when the limiter is off? | **no** |
| `auth` | identities in slots, with bots among them, sessions, limit per id, takeover by legit clients, refusals | holds |
| `auth_by_ip` | the same refusals when legit clients get ids of their address | **no** |
| `answers` | cache times, frequency of refreshes, fragments, lists that are whole | holds |
| `bugfix` | does the table remember whom it has a place for, and answer right? | holds |
| `authorizers` | is authdata filled, each ticket read one way, an id one disk's, and a disk's id one? | holds |
| `authorizers_truncated` | do long keys differ for `AuthVersion` 3? | **no** |
| `config` | are options, versions and addresses those of the file? | holds |
| `config_documented` | does a salt of 0 disable hashing, have options without a line the defaults, and has the flood level the range that `reunion.cfg` gives? | **no**, none of the three |

The five that fail show seven disagreements between the code and what its
comments, messages or documents say. The last three are of `config_documented`,
whose files all have no salt but 0, a flood level of 1 and no line for HLTV: any
file that is loaded to its end breaks each conjunct of `ReadAsDocumented`.

* **`reu_unban` may leave the source banned** (`query_banlist.cpp:18`). `addBan`
  does not look for an earlier ban, `removeBan` removes the first. It takes two
  `reu_ban`, or one on top of a ban for flooding.
* **Bans never end with `EnableQueryLimiter = 0`** (`server_info.cpp:510`).
  `startFrame` returns before `removeExpired`, the list is consulted regardless.
* **A banned legit client's session stays open when `cid_Steam` makes ids of
  addresses** (`client_auth.cpp:229`): the id to disconnect has been overwritten
  by then, and Steam is told of an id it has no session for.
* **`AuthVersion` 3 still cuts keys to 31 bytes** (`reunion_authorizers.cpp:61`),
  where the change log says of `AuthVersion >= 3` that the collisions are fixed:
  two serial numbers that differ after the cut make one id.
* **`SteamIdHashSalt = 0` hashes with the salt "0"** (`reunion_cfg.cpp:318`), where
  `reunion.cfg` says that 0 disables hashing: the word is only read when the
  salt is too short for the version.
* **Defaults are not those of `reunion.cfg`** (`reunion_cfg.cpp:153-164`). The kinds
  of id that a client gets when the file has no line for it:

  | Option | `reunion.cfg` | Code |
  |---|---|---|
  | `cid_HLTV` | 5, rejected (line 41) | 7 |
  | `cid_SteamPending` | 5 (38) | 9 |
  | `cid_NoSteam47`, `cid_NoSteam48` | 5 (44, 47) | 8 |
  | `cid_OldRevEmu`, `cid_SteamEmu`, `cid_AVSMP` | 1 (63, 67, 71) | 8 |
  | `cid_Setti` | 3 (75) | 8 |

* **`QueryFloodBanLevel` is taken from 0 to 8192** (`reunion_cfg.cpp:284`), where
  `reunion.cfg:207` gives 320 to 2048.

Where code and documentation differ, the models follow the code: `OptionsAsWritten`
holds with the code's ranges and defaults, `Documented` has the other ones.

Three more that the models show, and that no run is spent on: in global mode
A2S_INFO is answered with an old or empty cache (`server_info.cpp:289`), without
any bound on its age, so that `CacheTimeKept` leaves this answer out; rates live in
the ring, so that a source pushed out of it by `MAX_STORED_QUERIES` others starts
anew and can get twice its limit (once per interval, and 2 * MaxLP is the bound
that `LowPriorityBounded` states and the proofs establish); a deprecated emulator gets in with a common hardware key
(`client_auth.cpp:131`), because the id kind is then set before the configuration
is asked.

### Bounds, and why they are enough

* `limiter`: a ring of 2, three sources (one more than the ring holds, so that
  entries change hands), one whitelisted on one port, MaxLP 1 < MinHP 2 < MaxHP 3
  in the order of the real thresholds, 2 < 9 < 11, at most 7 packets between
  checks: one more than `MaxTotalFilter`, so that both ways into global mode
  occur, and enough for every source to enter, be pushed out and enter again.
  Two lengths of interval, one of which turns a full rate into a flood. The
  counter of new sources is bounded by the code itself (`GlobalWhenSaturated`).
  `QueryBound` bounds the packets of an interval, not the number of intervals.
* `server_query`: a ring of 2 with two sources, a flood at one query a second;
  bans of the console up to `LastBan` and on top of one for flooding, lists of
  two, hence a source banned twice and two sources banned at once; frames up to
  `EndOfTime`, late enough for the longest ban to end. The wrap at 2^32 is out of
  reach. `banlist_unban` and `banlist_unlimited` are instances of the list alone.
* `auth`: three slots and a limit of two clients per id, so that the limit is
  reached by clients of different origin and one more can try; fourteen clients,
  one for each way through the hook, of which six share an account; three
  unauthenticated ids, so that bots and emulated clients may fill all slots and
  ids are recycled; a bot may take any free slot, whoever had it before.
* `answers`: packets of 42 bytes with a header of 9 for a fragment. Two worlds,
  between which the server changes at any time: rules of two fragments, both
  full, or more than the buffer holds, the value of one rule being what does
  not fit; players around a free slot, or a list that fills its packet to the
  last byte. Cache times of 1 and 2 ticks, frames of 2, up to `EndOfTime` 4; sequence
  numbers wrap at 2; the default configuration, the old one without a limiter,
  and hybrid with everything on.
* `bugfix`: three sources for two places, six entries, so every place
  changes hands three times.
* `authorizers`: bytes of 16 values, words of 256 whose upper half is masked
  off; encrypted keys of up to 4 bytes, open ones of up to 6, cut at 2 and at 3; tickets of
  each emulator for the same volumes and serial numbers in each form, those
  with a NUL, with a masked bit, the bad one and one that is too large; those of
  768 bytes that two emulators claim; five configurations, one for each
  version and two more for version 2; two players, as the properties compare two.
* `config`: every file of up to four lines of the seven kinds a section may have,
  every file of up to three options out of nineteen lines - in the range and
  out of it, every salt, every version -, and one file for each of some thousand texts
  around a dotted address. Octets go to 25 and ports have one digit, so
  that two digits meet the limits. Three options are enough for a version, a
  salt and what depends on both, in every order.

### Fairness

One run has a liveness property, `FloodEnds`: when packets stop, global mode is
left for good. It assumes weak fairness of `RatesChecked` and of nothing else.
`SV_Frame_hook` calls `startFrame` after every engine frame whatever the network
does, and `startFrame` calls `checkRates` as soon as the interval has passed,
without any further condition while the limiter is enabled.

`CHECK_DEADLOCK FALSE` appears in the runs of `QueryBanlist` and `ServerQuery`,
whose clock ends at `EndOfTime`: where nothing is left that the console or a
packet may do, the model stops. The code does not. It appears in those of
`Configuration` too, as a file is loaded once.

## 5. Proofs

### The limiter

`QueryLimiterProofs` proves about `QueryLimiter`, for every set of sources and
ports, every whitelist, every ring size and every set of thresholds that meets
the assumptions of the module (`SourcesAssumption`, `LimitsAssumption`,
`RatesAssumption`: positive sizes, MaxLP < MinHP < MaxHP, as the constants of
`query_limiter.h` are):

| Theorem | Says |
|---|---|
| `TypeCorrect` | `Spec => []TypeOK` |
| `OneEntryPerSource` | `Spec => []NoDuplicateSources` |
| `SaturationIsGlobal` | `Spec => []GlobalWhenSaturated` |
| `SourceBudgetHolds` | `Spec => []LowPriorityBounded` |
| `ServerBudgetHolds` | `Spec => []GlobalBudget` |
| `NoEvictionWithinInterval` | `Spec => FreshEntriesStay` |
| `BansAreEarned` | `Spec => BanIsEarned`, if intervals are short |
| `LimiterKeepsBudget` | `Spec => KeepsBudget`: the refinement of `FloodBudget` |

The argument. `LowPriorityBounded` is not inductive: it does not say what a
source may still get. The invariant `IInv` adds

* `NoDuplicateSources`, so that "the rate of a source" means one entry;
* `BudgetFollowsRing`: what a source in the ring has been granted is at most its
  rate (cut at MaxLP), plus MaxLP if its entry was filled in this interval,
  because it may have used a budget in an entry it lost; a source outside the
  ring has used at most MaxLP;
* `OneRevolution`: at most `MaxStored` entries are filled between two checks
  (each costs one of `uniqueQueries`, which is never negative), so the ring does
  not come round to an entry filled in the same interval. That is why a source
  can lose its entry once per interval only, and it gives `FreshEntriesStay`;
* `GlobalCounted`: the grants of global mode are a part of `totalQueries`, which
  `allowGlobalQuery` keeps below `MaxStored`;
* `GlobalWhenSaturated`.

The ring enters as arithmetic on the age of an entry (how many were filled after
it): lemmas of their own say that advancing makes the next slot the youngest and
every other one older by one, and that an entry is fresh exactly when its age is
below the number of entries filled. The preservation proof has one step per
action and one lemma per part of the invariant that the action can disturb.

`BansAreEarned` supposes `IntervalsShort`: the intervals between two checks are of at most
MinHP - 1 seconds. What a check leaves of the rate of a source that it does not ban is
what the division by the interval cuts off, which is less than the seconds of
the interval; so with short intervals a source begins the next one with no more
than MinHP - 1 (`LittleIsLeft`), and is banned for what it sends in it. With longer
intervals TLC finds bans for a rate of the interval before. MinHP is 9, and a check is
due every quarter of a second. The invariant is that unused entries have no rate
(`UnusedAreQuiet`) and that no rate is above what its source asked since the last
check, give or take MinHP - 1 (`RatesWereAsked`).

### The limiter and the list of bans

`ServerQueryProofs`, for every set of sources, every size of the ring, every flood level
and every length of bans, frames and intervals that meet the assumptions of the three
modules:

| Theorem | Says |
|---|---|
| `TypeCorrect` | `Spec => []TypeOK` |
| `QuietWhileBanned` | `Spec => []FloodBannedIsQuiet` |
| `FloodingEarnsOneBan` | `Spec => []OneFloodBan` |
| `UnbanTouchesNoOther` | `Spec => UnbanIsExact` |
| `BansEnd` | `Spec => []BanIsOver`, if the clock fits into 32 bits |
| `BansLast` | `Spec => BanLastsAsAnnounced`, if the ends of bans fit |
| `StoredEnds` | `Spec => []EndsAsAnnounced`, if the ends of bans fit |
| `DrivesTheLimiter` | `Spec => Limiter!Spec` |
| `KeepsTheBudget` | `Spec => LP!KeepsBudget` |

The argument. Every step of the composition is a step of the limiter or none
(`StepOfLimiter`), so that the limiter's invariant holds here too, and with it the
refinement of `FloodBudget`. To it the invariant adds that what is not in use has no
rate (`UnusedAreQuiet`), that a source banned for flooding has none
(`FloodBannedIsQuiet`: its packets are dropped before they are counted), and that
two bans for flooding are of two sources (`FloodBansApart`). The flooders of one check
are apart because entries are (`NoDuplicateSources`), and from those banned before
because they have a rate. What the console adds carries no mark; what it removes,
and what expires, leaves a sublist, and a sublist of bans that are apart is one
too.

`BanIsOver` says that no ban outlives its end by more than the second that the code cuts off
and the interval to the next check. Two hypotheses are about the width of the
stored end. `ClockFits`: the clock in seconds stays below 2^32. `EndsFit`: so does the
clock plus any length of ban that may be given. A console that asks for some 71
million minutes breaks the second one, and the ban ends at once
(`query_banlist.cpp:12`): that is what the theorems need it for.

### Slots, ids and sessions

`PlayerAuthProofs` proves about `PlayerAuth`, for every finite set of slots, every
set of clients and every configuration that meets `AuthAssumption`:

| Theorem | Says |
|---|---|
| `TypeCorrect` | `Spec => []TypeOK` |
| `IdentitiesLive` | `Spec => []IdentitiesAreLive` |
| `LimitHolds` | `Spec => []IdLimitKept` |
| `LegitHasItsId` | `Spec => LegitTakesOver`, if no address hashes to 0 or 1 |
| `SessionsAreBalanced` | `Spec => []SessionsBalanced`, if legit clients keep the id of their ticket |
| `RefusalsLeaveSteam` | `Spec => RefusedLeaveSteam`, under the same condition |

The argument. `IdentitiesAreLive` is inductive together with the types: a bot takes
a slot that is free, hence cleared, and is never evicted, having no identity
(`BotsStay`). `IdLimitKept`
is not: it speaks of the ids that some valid player of a unique kind shows, and
a client whose id is a word is let in without a check. `NumberedLimit` states the
limit for every id with a number behind its prefix, and `NumberedIds` that
these are the ids of the clients that are checked; `NumberedIffChecked` is the
arithmetic behind it (an id is a number from 2 on, so its half is not 0). Each
step then adds at most one client to the slots that show an id. For the sessions
the missing link is `OpenedIsClosed`: the id that the disconnect hook puts into
the slot is the one the session was opened for. It holds while `cid_Steam` leaves
legit clients the id of their ticket (`LegitKeepTicket`); the run `auth_by_ip` shows
that the condition is needed. The three cardinalities of a connect that evicts -
one session opened, those of the evicted closed - are `ClosedForCount` and
`HoldingAfterConnect`.

### The bugged-query fix

`QueryBugfixProofs`, for every set of sources and every size of the table:

| Theorem | Says |
|---|---|
| `TypeCorrect` | `Spec => []TypeOK` |
| `RemembersSources` | `Spec => []TableRemembers` |
| `AnswersAreRight` | `Spec => RowsAreFound` |

The argument. The invariant ties the table to the sources from both sides:
`EntriesKnown` (an entry is of the source whose number of entry falls on its slot),
`SourcesFound` (a source that entered within the last `MaxIPs` is there),
`ObserversAgree`. What makes it inductive is `NoTurn`: numbers less than
`MaxIPs` apart fall on different slots.

### Caches and fragments

`ServerInfoProofs`, for every configuration, every size of packets and headers,
every cache time, and every `Written` whose sizes fit (`ServerInfoAssumption`); the
last one for `Written` = `WriteResponse` and every world that meets `AnswersAssumption`:

| Theorem | Says |
|---|---|
| `TypeCorrect` | `Spec => []TypeOK` |
| `RefreshesAreRare` | `Spec => WritesAreRare` |
| `AnswersAreRecent` | `Spec => []CacheTimeKept` |
| `ResponsesAreRebuilt` | `Spec => []FragmentsRebuild` |
| `ListsAreTrue` | `Spec => ListsAreWhole` |

The argument. `Dated` says that a cache's content is as old as its time says; the
time decides whether it is written anew, the observer how old an answer is.
Every query leaves a cache or brings it up to date (`Refreshed`), and what is sent
is what is then in it. That fragments put together are the response is the
arithmetic of the split: `CountOfFragments` says that the last fragment is
not empty and no larger than the others, however many there are.

For the lists, `LoopExists` (in `SublistProofs`) says that a loop has a value after every
turn, and two invariants of the loops what it is. `HoldsPlayers`: the rows written so
far are those of the connected slots passed, and leave room for the rest.
`HoldsRules`: as many of the rules passed stand in their places as fit, the buffer has
overflowed exactly if one did not, and then the next one is that one. A rule is two or
three fields of which the buffer may take some and not the others; `TryRule` says
that it overflows exactly if the rule as a whole does not fit. Since bytes grow with every
rule (`BytesGrow`), the number of those that fit is one number. Three assumptions about
the engine stand in `AnswersAssumption`: at most 128 slots (there are 32), so that the number
of a row leaves its upper bit to the bots; that the list of players fits its
packet with the longest names (1318 bytes of 1400); and packets below 65536 bytes, so that
the number of rules fits its 16 bits.

### The chain of authorizers

`AuthorizersProofs`, for every set of tickets and every configuration that meet
`TicketAssumption`:

| Theorem | Says |
|---|---|
| `TypeCorrect` | `Spec => []TypeOK`: somebody recognises each client |
| `AuthdataIsFilled` | `Spec => []KeyOrPending` |
| `LayoutsAreApart` | `Spec => []RecognisedOnce` |
| `OneDiskOneId` | `Spec => []SameMachineSameId` |
| `OneIdOneKey` | `Spec => []KeysTellApart` |
| `WholeKeysTellApart` | `Spec => [](config.av = Reunion2024 => KeysTellApart)`: the part where nothing is cut |

The argument. `PassedBy`: while a client is unknown, nobody before `next`
recognises it; so the chain is left at its end only if neither of the last two
does, which take one protocol each. `Identified`: what is in `authdata` is what the
one who recognised it leaves. `Shape`: and that has a key exactly when it has a kind of
key. `DataAsAuthorized` carries it to the players: what each one shows was made of what
an authorizer leaves of some ticket, under the configuration of the run. So the last
three theorems are about two tickets. `OneDiskOneId` goes through the pairs of emulators
that read a volume or a serial number, `OneIdOneKey` through the pairs of kinds of key,
with the arithmetic of what `AuthVersion` 2 cuts and keeps.

### The configuration

`ConfigurationProofs`, for files of any length over any values that meet
`ConfigAssumption`:

| Theorem | Says |
|---|---|
| `TypeCorrect` | `Spec => []TypeOK`: every option is in its range |
| `OptionsAreThoseWritten` | `Spec => []OptionsAsWritten` |
| `VersionsFit` | `Spec => []SettingsFit`: a salt of 16 or more unless hashing is disabled in words, the prefixes and the form of the version |
| `AddressesAreThoseWritten` | `Spec => []ExceptAsWritten` |

The argument. The list of lines links the two passes: `ListFollowsFile` says that
the list gives every option the value that the lines loaded so far give
it, `OptionsFollowList` that the second pass has set what the list says up to its
line. A lemma per way to lengthen a set of lines (`*Grows`, `EntryAppended`) says
what becomes of its last member, which exists by well-foundedness (`HasLast`).

For the addresses there are two arguments of that form, and a third below them.
`SectionAsIn`: the list holds the section that the file has, so far; `SectionFollowsList`:
the third pass has found it and taken the addresses of its entries up to its line;
`NothingAfterTheEnd`: after the mark that ends the section nothing is taken any more.
What one entry gives is `ParseIsAddress`, about texts of every length: the parser
accepts a text exactly if it reads as an address, and with the same octets and port.
`Reached` says where the symbols read so far lead, and each symbol is one case of
what `Progress` does with it (`DigitRead`, `DotRead`, `OtherRead`); where an induction
over the text would stand, the smallest position that contradicts is taken.

### Not proved

Of what the passing runs check, one property is checked by TLC alone: `FloodEnds` of the
limiter, which is liveness and needs ENABLED.

## 6. Not modelled

Most lines of the repository are not the plugin's: the engine's and Steam's
headers under `src/dep`, and the ciphers and hashes next to the sources. They
have no behaviour of this program to model.

* Wording of log lines, formatting of addresses, the value that the engine
  gives a single field of an answer.
* Hashes and ciphers: third-party and numeric. The models take them as ideal:
  equal exactly for equal input. Two accounts that collide appear as such in
  the instances of `PlayerAuth`.
* The plugin's start-up (`meta_api`, `dllapi`, `engine_api`, `reunion_rehlds_api`):
  a straight line that stops at the first failure, and forwarding tables; the
  plugin cannot be unloaded.
* `serverActivate`, which reads the game's directory, app id and version from
  files once per map.
* Hooks that only read ids, `dp_clientinfo`, the queries of the plugin API and
  the lookups of a player: they change nothing.
* The protocol checks before a connect: they reject clients and keep no state.
* The bit operations of the buffer, which are not compiled, and its reader, whose
  verdicts are the kinds of query in `ServerInfo`.
* The cut of a salt longer than its array; the 8-bit index that `ipv4_parse` keeps
  into a text of 256 symbols or more. Numbers of minutes near 2^32 / 60 for
  `reu_ban` are in no run, and outside the hypothesis of `BansLast`.
