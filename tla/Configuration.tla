--------------------------- MODULE Configuration ---------------------------
(***************************************************************************)
(* How reunion.cfg becomes a configuration: Reunion_Cfg_LoadDefault loads  *)
(* the lines of the file one by one, then goes over the list it made of    *)
(* them for the options and once more for the section with the addresses   *)
(* that the query limiter lets through.                                    *)
(*                                                                         *)
(* A line is what it reads as after trimming.  Values are names; Atoi and  *)
(* Length tell what atoi and strlen make of them.  A text is a sequence of *)
(* symbols: the digits 0..9, Dot, Colon and others.                        *)
(*                                                                         *)
(* Left out are the cut of a salt that is longer than its array, and that  *)
(* ipv4_parse keeps its place in 8 bits: texts are shorter than 256.       *)
(***************************************************************************)
EXTENDS Integers, Sequences, FiniteSets, Sublists

CONSTANTS
    Files,          \* the files to load: sequences of Line
    Wanted,         \* "QueryLimiterExceptIP"
    Values, NoValue,
    Atoi, Length,
    Negations,      \* the salts that begin with '0' or read "no" or "false"
    MinSalt,        \* 16
    MaxOctet,       \* UINT8_MAX
    Ports           \* 2^16

Bools    == {"SC2009_RevCompatMode", "EnableSXEIdGeneration", "EnableGenPrefix2",
             "FixBuggedQuery", "EnableQueryLimiter", "AllowSplitPackets"}
Numeric  == {"cid_RevEmu", "cid_RevEmu2013", "cid_SC2009", "cid_SteamEmu", "cid_SXEI",
             "cid_OldRevEmu", "cid_Steam", "cid_AVSMP"}
Words    == {"cid_HLTV", "cid_NoSteam47", "cid_NoSteam48", "cid_Setti",
             "cid_SteamPending"}
Prefixes == {"IPGen_Prefix1", "IPGen_Prefix2", "Native_Prefix1", "RevEmu_Prefix1",
             "SC2009_Prefix1", "RevEmu2013_Prefix1", "SteamEmu_Prefix1",
             "OldRevEmu_Prefix1", "Setti_Prefix1", "AVSMP_Prefix1", "SXEI_Prefix1"}
Others   == {"LoggingMode", "AuthVersion", "ServerInfoAnswerType",
             "QueryFloodBanLevel", "QueryFloodBanTime", "IDClientsLimit"}
Options  == Bools \cup Numeric \cup Words \cup Prefixes \cup Others

Dproto == 1   Reunion2015 == 2   Reunion2018 == 3   Reunion2024 == 4

(* What an option may be set to in the code, of which reunion.cfg documents some
   otherwise.  Id kind 6 is reserved; ids of hardware, 1 and
   2, are for clients that have a number. *)
Allowed(option) ==
    CASE option \in Bools    -> 0 .. 1
      [] option \in Numeric  -> (1 .. 12) \ {6}
      [] option \in Words    -> (3 .. 12) \ {6}
      [] option \in Prefixes -> 0 .. 255
      [] option = "LoggingMode"          -> 0 .. 3
      [] option = "AuthVersion"          -> Dproto .. Reunion2024
      [] option = "ServerInfoAnswerType" -> 0 .. 2
      [] option = "QueryFloodBanLevel"   -> 0 .. 8192
      [] option = "QueryFloodBanTime"    -> 0 .. 60
      [] option = "IDClientsLimit"       -> 0 .. 32

(* Options that are kept as they are written: the salt, and the address that
   inet_addr makes of HLTVExcept_IP. *)
TextOptions == {"SteamIdHashSalt", "HLTVExcept_IP"}
DefaultText(option) == IF option = "SteamIdHashSalt" THEN "" ELSE NoValue

(* createDefault *)
Default(option) ==
    CASE option = "LoggingMode"        -> 3
      [] option = "AuthVersion"        -> Reunion2015
      [] option = "QueryFloodBanLevel" -> 400
      [] option = "QueryFloodBanTime"  -> 10
      [] option = "cid_HLTV"           -> 7
      [] option = "cid_SteamPending"   -> 9
      [] option \in {"cid_NoSteam47", "cid_NoSteam48", "cid_Setti", "cid_SteamEmu",
                     "cid_OldRevEmu", "cid_AVSMP"} -> 8
      [] option \in {"cid_Steam", "cid_RevEmu", "cid_SC2009", "cid_RevEmu2013",
                     "cid_SXEI", "SC2009_RevCompatMode", "FixBuggedQuery",
                     "EnableQueryLimiter", "IDClientsLimit"} -> 1
      [] OTHER -> 0

(* name: the option or section the line reads as; a header without its bracket
   is "broken" *)
Line == [kind : {"comment", "blank", "header", "broken", "text"},
         name : STRING, text : Seq(Nat), value : Values \cup {NoValue}]

ASSUME ConfigAssumption ==
    /\ Files \subseteq Seq(Line)
    /\ Atoi \in [Values -> Int] /\ Length \in [Values -> Nat]
    /\ "" \in Values /\ Length[""] = 0
    /\ NoValue \notin Values
    /\ Negations \subseteq Values
    /\ MinSalt \in Nat \ {0} /\ MaxOctet \in Nat /\ Ports \in Nat \ {0}

VARIABLES
    file,       \* what is to be read
    stage,      \* "load", "options", "section", and "done", "failed", "crashed"
    at,         \* the line of file or of lines that comes next
    inSection,  \* sectionStart, and foundSection afterwards
    lines,      \* m_lines
    set,        \* the options that are numbers
    texts,      \* m_SteamIdHashSalt and m_HLTVExceptIP
    except      \* m_ExceptIPs

vars == <<file, stage, at, inSection, lines, set, texts, except>>

-----------------------------------------------------------------------------
(* ipv4_parse, symbol by symbol. *)

Dot   == 10
Colon == 11
Digits == 0 .. 9

Parser(octets, data, symbol) ==
    [octets |-> octets, data |-> data, symbol |-> symbol, colon |-> 0, bad |-> FALSE]

Start == Parser(<<>>, 0, FALSE)

Reject(p) == [p EXCEPT !.bad = TRUE]

OctetEnds(p) ==
    IF ~p.symbol THEN Reject(p)
    ELSE Parser(Append(p.octets, p.data), 0, FALSE)

(* p is where the parser is, c the symbol at index i *)
Symbol(p, c, i) ==
    IF p.bad \/ p.colon # 0 THEN p
    ELSE CASE c \in Digits ->
                IF p.data * 10 + c > MaxOctet THEN Reject(p)
                ELSE Parser(p.octets, p.data * 10 + c, TRUE)
           [] c = Dot -> IF Len(p.octets) < 3 THEN OctetEnds(p) ELSE Reject(p)
           [] c = Colon -> IF Len(p.octets) = 3 THEN [OctetEnds(p) EXCEPT !.colon = i]
                           ELSE Reject(p)
           [] OTHER -> Reject(p)

(* Q_atoi of what follows the colon, kept in 16 bits *)
PortOf(text, colon) ==
    LET port[i \in colon .. Len(text)] ==
            IF i = colon THEN [n |-> 0, on |-> TRUE]
            ELSE IF port[i - 1].on /\ text[i] \in Digits
                 THEN [n |-> port[i - 1].n * 10 + text[i], on |-> TRUE]
                 ELSE [port[i - 1] EXCEPT !.on = FALSE]
    IN  port[Len(text)].n % Ports

(* where the parser is after each symbol *)
Progress(text) ==
    LET after[i \in 0 .. Len(text)] ==
            IF i = 0 THEN Start ELSE Symbol(after[i - 1], text[i], i)
    IN  after

(* faulty variant: an octet at the end of the text may be missing *)
ParseIncomplete(text) ==
    LET p == Progress(text)[Len(text)] IN
    CASE ~p.bad /\ p.colon # 0 -> Append(p.octets, PortOf(text, p.colon))
      [] ~p.bad /\ p.colon = 0 /\ Len(p.octets) = 3 -> p.octets \o <<p.data, 0>>
      [] OTHER -> <<>>

(* the four octets and the port, or nothing *)
Parse(text) ==
    LET p == Progress(text)[Len(text)] IN
    CASE ~p.bad /\ p.colon # 0 -> Append(p.octets, PortOf(text, p.colon))
      [] ~p.bad /\ p.colon = 0 /\ Len(p.octets) = 3 /\ p.symbol -> p.octets \o <<p.data, 0>>
      [] OTHER -> <<>>

-----------------------------------------------------------------------------
Init ==
    /\ file \in Files
    /\ stage = "load" /\ at = 1 /\ inSection = FALSE /\ lines = <<>>
    /\ set = [o \in Options |-> Default(o)]
    /\ texts = [o \in TextOptions |-> DefaultText(o)]
    /\ except = <<>>

(* load *)

Mark == [type |-> "END_SECTION", name |-> "", text |-> <<>>, value |-> NoValue]
Kept(l, type) == [type |-> type, name |-> l.name, text |-> l.text, value |-> l.value]

Reading(kinds) == stage = "load" /\ at <= Len(file) /\ file[at].kind \in kinds

Loaded(new, section) ==
    /\ lines' = lines \o new
    /\ inSection' = section
    /\ at' = at + 1
    /\ UNCHANGED <<file, stage, set, texts, except>>

IgnoreLine == Reading({"comment", "broken"}) /\ Loaded(<<>>, inSection)

(* faulty variant: an empty line does not end a section *)
BlankLineIgnored == Reading({"blank"}) /\ Loaded(<<>>, inSection)

BlankLine == Reading({"blank"}) /\ Loaded(IF inSection THEN <<Mark>> ELSE <<>>, FALSE)

HeaderLine ==
    /\ Reading({"header"})
    /\ Loaded((IF inSection THEN <<Mark>> ELSE <<>>) \o <<Kept(file[at], "SECTION")>>, TRUE)

(* Outside a section a line needs its '='. *)
TextLine ==
    /\ Reading({"text"})
    /\ Loaded(IF inSection THEN <<Kept(file[at], "SECTION")>>
              ELSE IF file[at].value = NoValue THEN <<>>
              ELSE <<Kept(file[at], "OPTION")>>,
              inSection)

EndOfFile ==
    /\ stage = "load" /\ at > Len(file)
    /\ stage' = "options"
    /\ at' = 1
    /\ UNCHANGED <<file, inSection, lines, set, texts, except>>

(* parseCfgParam *)

(* faulty variant: a value is not checked *)
FitsAny(l) == l.name \in Options

Fits(l) == l.name \in Options /\ Atoi[l.value] \in Allowed(l.name)

ParseOption ==
    /\ stage = "options" /\ at <= Len(lines)
    /\ LET l == lines[at] IN
        /\ set' = IF l.type = "OPTION" /\ Fits(l)
                  THEN [set EXCEPT ![l.name] = Atoi[l.value]] ELSE set
        /\ texts' = IF l.type = "OPTION" /\ l.name \in TextOptions
                    THEN [texts EXCEPT ![l.name] = l.value] ELSE texts
    /\ at' = at + 1
    /\ UNCHANGED <<file, stage, inSection, lines, except>>

Salt == texts["SteamIdHashSalt"]

SaltTooShort ==
    /\ set["AuthVersion"] >= Reunion2018
    /\ Salt \notin Negations /\ Length[Salt] < MinSalt

(* faulty variant: prefixes are settled for the newer versions only *)
SettledNewer ==
    [set EXCEPT !["EnableGenPrefix2"] =
         IF set["AuthVersion"] >= Reunion2018 THEN 1 ELSE @]

(* the options that AuthVersion decides *)
Settled ==
    [set EXCEPT
        !["EnableGenPrefix2"] =
            CASE set["AuthVersion"] = Dproto -> 0
              [] set["AuthVersion"] >= Reunion2018 -> 1
              [] OTHER -> @,
        !["SC2009_RevCompatMode"] =
            IF set["AuthVersion"] >= Reunion2018 THEN 1 ELSE @]

OptionsEnd ==
    /\ stage = "options" /\ at > Len(lines)
    /\ stage' = IF SaltTooShort THEN "failed" ELSE "section"
    /\ set' = IF SaltTooShort THEN set ELSE Settled
    /\ at' = 1
    /\ inSection' = FALSE
    /\ UNCHANGED <<file, lines, texts, except>>

(* parseCfgSection, parseExceptIP *)

InList == stage = "section" /\ at <= Len(lines)

PassLine ==
    /\ InList /\ ~inSection
    /\ lines[at].type # "END_SECTION"
    /\ inSection' = (lines[at].type = "SECTION" /\ lines[at].name = Wanted)
    /\ at' = at + 1
    /\ UNCHANGED <<file, stage, lines, set, texts, except>>

(* A mark has no name to compare with: Q_stricmp reads through a null pointer. *)
NullName ==
    /\ InList /\ ~inSection
    /\ lines[at].type = "END_SECTION"
    /\ stage' = "crashed"
    /\ UNCHANGED <<file, at, inSection, lines, set, texts, except>>

ParseEntry ==
    /\ InList /\ inSection
    /\ lines[at].type # "END_SECTION"
    /\ except' = IF lines[at].type = "SECTION" /\ Parse(lines[at].text) # <<>>
                 THEN Append(except, Parse(lines[at].text)) ELSE except
    /\ at' = at + 1
    /\ UNCHANGED <<file, stage, inSection, lines, set, texts>>

(* flushCfg: the list of lines goes, the configuration stays *)
SectionEnd ==
    /\ stage = "section"
    /\ InList => inSection /\ lines[at].type = "END_SECTION"
    /\ stage' = "done"
    /\ lines' = <<>>
    /\ UNCHANGED <<file, at, inSection, set, texts, except>>

Next ==
    \/ IgnoreLine \/ BlankLine \/ HeaderLine \/ TextLine \/ EndOfFile
    \/ ParseOption \/ OptionsEnd
    \/ PassLine \/ NullName \/ ParseEntry \/ SectionEnd

Spec == Init /\ [][Next]_vars

(* getSteamIdSaltLen, by which Reunion_FinishClientAuth decides to hash ids *)
Hashes == Length[Salt] # 0

-----------------------------------------------------------------------------
(* What the file says, read as a whole. *)

InSectionAt(i) ==
    \E h \in 1 .. i - 1 :
        /\ file[h].kind = "header"
        /\ \A j \in h + 1 .. i - 1 : file[j].kind # "blank"

Says(i, name) ==
    /\ file[i].kind = "text" /\ ~InSectionAt(i)
    /\ file[i].value # NoValue /\ file[i].name = name

Last(S) == CHOOSE i \in S : \A j \in S : j <= i

Written(option) ==
    LET says == {i \in DOMAIN file : Says(i, option) /\ Atoi[file[i].value] \in Allowed(option)}
    IN  IF says = {} THEN Default(option) ELSE Atoi[file[Last(says)].value]

WrittenText(option) ==
    LET says == {i \in DOMAIN file : Says(i, option)}
    IN  IF says = {} THEN DefaultText(option) ELSE file[Last(says)].value

(* A dotted address: four numbers with dots between them and, when a port
   follows, a colon behind. *)

(* the number that the symbols from the one behind a to the one at b write *)
Decimal(text, a, b) ==
    LET value[i \in a .. Len(text)] == IF i = a THEN 0 ELSE 10 * value[i - 1] + text[i]
    IN  value[b]

(* between the edges at a and b *)
IsOctet(text, a, b) ==
    /\ a + 1 < b
    /\ \A i \in a + 1 .. b - 1 : text[i] \in Digits
    /\ Decimal(text, a, b - 1) <= MaxOctet

Dots(text, n) == {i \in 1 .. n : text[i] = Dot}

(* the first colon, or the end of the text *)
Behind(text) == Nth({i \in DOMAIN text : text[i] = Colon} \cup {Len(text) + 1}, 1)

Address(text) ==
    LET end     == Behind(text)
        dots    == Dots(text, end - 1)
        Edge(k) == CASE k = 0 -> 0 [] k = 4 -> end [] OTHER -> Nth(dots, k)
    IN  IF Cardinality(dots) = 3 /\ \A k \in 1 .. 4 : IsOctet(text, Edge(k - 1), Edge(k))
        THEN [k \in 1 .. 4 |-> Decimal(text, Edge(k - 1), Edge(k) - 1)]
                \o <<IF end > Len(text) THEN 0 ELSE PortOf(text, end)>>
        ELSE <<>>

(* the line that opens the wanted section: its header, as a rule *)
Opens(i) ==
    /\ file[i].kind = "header" \/ (file[i].kind = "text" /\ InSectionAt(i))
    /\ file[i].name = Wanted

Ends(i) == file[i].kind \in {"blank", "header"} /\ InSectionAt(i)

(* before line i it was opened; up to line i it has ended *)
Found(i) == \E j \in 1 .. i - 1 : Opens(j)
Over(i) == \E j \in 1 .. i : Ends(j) /\ Found(j)

Listed ==
    LET addresses == [i \in DOMAIN file |-> Address(file[i].text)]
        valid     == {i \in DOMAIN file : /\ file[i].kind = "text"
                                          /\ Found(i) /\ ~Over(i)
                                          /\ addresses[i] # <<>>}
    IN  Sublist(addresses, valid)

(* a section that is none of ours, and ends *)
ForeignEnds == \E i \in DOMAIN file : Ends(i) /\ ~Found(i)

-----------------------------------------------------------------------------
(* PROPERTIES *)

TypeOK ==
    /\ stage \in {"load", "options", "section", "done", "failed", "crashed"}
    /\ at \in Nat \ {0}
    /\ inSection \in BOOLEAN
    /\ \A i \in DOMAIN lines :
        /\ lines[i].type \in {"OPTION", "SECTION", "END_SECTION"}
        /\ lines[i].type = "OPTION" => lines[i].value \in Values
    /\ set \in [Options -> Int] /\ \A o \in Options : set[o] \in Allowed(o)
    /\ texts \in [TextOptions -> Values \cup {NoValue}] /\ Salt \in Values

(* Line by line, past comments, broken headers and sections that an empty line,
   a header or the end of the file closes, every option gets the last value in
   its range that the file gives it outside of sections, or its default; the
   two that AuthVersion decides are those of SettingsFit.  Ranges and defaults
   are those of the code: ReadAsDocumented holds them against the comments of
   reunion.cfg. *)
OptionsAsWritten ==
    stage \in {"section", "done"} =>
        /\ \A o \in TextOptions : texts[o] = WrittenText(o)
        /\ \A o \in Options \ {"EnableGenPrefix2", "SC2009_RevCompatMode"} :
                set[o] = Written(o)

(* The rest of the plugin relies on it, whatever the order of the lines: ids of
   the newer versions are made with both prefixes and the common form of serial
   numbers and, unless the file disables hashing in words, with a salt that is
   long enough; those of the oldest without the second prefix. *)
SettingsFit ==
    stage \in {"section", "done"} =>
        CASE set["AuthVersion"] = Dproto      -> set["EnableGenPrefix2"] = 0
          [] set["AuthVersion"] = Reunion2015 ->
                \A o \in {"EnableGenPrefix2", "SC2009_RevCompatMode"} : set[o] = Written(o)
          [] OTHER ->
                /\ WrittenText("SteamIdHashSalt") \notin Negations =>
                        Hashes /\ Length[Salt] >= MinSalt
                /\ set["EnableGenPrefix2"] = 1 /\ set["SC2009_RevCompatMode"] = 1

(* The limiter lets through the addresses of its section, in their order, and
   no others: what the parser accepts symbol by symbol is a dotted address.
   The file is read to its end unless it has a section of another name that
   ends before ours begins. *)
ExceptAsWritten ==
    /\ stage = "done" => except = Listed /\ ~ForeignEnds
    /\ stage = "crashed" => ForeignEnds

(* "Specify 0 to explicitly disable hashing" (reunion.cfg:98) *)
ZeroDisablesHashing == stage = "done" /\ Salt = "0" => ~Hashes

(* the defaults that the comments of reunion.cfg give, of options that AuthVersion
   does not decide *)
Documented ==
    [option \in Numeric \cup Words \cup
         {"EnableSXEIdGeneration", "FixBuggedQuery", "EnableQueryLimiter", "AllowSplitPackets",
          "ServerInfoAnswerType", "QueryFloodBanLevel", "QueryFloodBanTime", "IDClientsLimit"} |->
     CASE option = "cid_Setti"          -> 3
       [] option \in Words \ {"cid_Setti"} -> 5
       [] option = "QueryFloodBanLevel" -> 400
       [] option = "QueryFloodBanTime"  -> 10
       [] option \in {"EnableSXEIdGeneration", "AllowSplitPackets", "ServerInfoAnswerType"} -> 0
       [] OTHER -> 1]

(* "for HLTV (default is Deprecated [5])" (reunion.cfg:41) and the like: an option
   without a line in the file is what the documentation says. *)
DefaultsAsDocumented ==
    stage = "done" =>
        \A o \in DOMAIN Documented :
            (\A i \in DOMAIN file : ~Says(i, o)) => set[o] = Documented[o]

(* "QueryFloodBanLevel (320 - 2048)." (reunion.cfg:207): nobody is banned at a level
   that legit clients reach, whatever the file says. *)
BanLevelAsDocumented == stage = "done" => set["QueryFloodBanLevel"] \in 320 .. 2048

(* What the comments of reunion.cfg say of the salt, of the options that a file
   leaves out and of the level of a flood is what the plugin makes of the file. *)
ReadAsDocumented == ZeroDisablesHashing /\ DefaultsAsDocumented /\ BanLevelAsDocumented
=============================================================================
