-------------------------- MODULE MCConfiguration --------------------------
(* Octets up to 25 and ports of one digit: the limits are met by texts of two
   digits.  Every file of up to four lines of a section's kinds, of up to three
   options, and of one line in the section for each text. *)
EXTENDS Configuration

MCValues == {"", "0", "1", "2", "4", "7", "no", "long"}
MCAtoi == [v \in MCValues |->
    CASE v = "1" -> 1 [] v = "2" -> 2 [] v = "4" -> 4 [] v = "7" -> 7 [] OTHER -> 0]
MCLength == [v \in MCValues |->
    CASE v = "" -> 0 [] v = "no" -> 2 [] v = "long" -> 16 [] OTHER -> 1]
MCNegations == {"0", "no"}

Of(kind) == [kind |-> kind, name |-> "", text |-> <<>>, value |-> NoValue]
Header(name) == [Of("header") EXCEPT !.name = name]
Option(name, value) == [Of("text") EXCEPT !.name = name, !.value = value, !.text = <<99>>]
Entry(text) == [Of("text") EXCEPT !.text = text]

Home == <<1, Dot, 0, Dot, 0, Dot, 1>>
Upto(n, S) == UNION {[1 .. k -> S] : k \in 0 .. n}

SectionLines == {Of("blank"), Of("comment"), Header("Wanted"), Header("Foreign"), Entry(Home),
                 Option("Wanted", NoValue), Option("FixBuggedQuery", "0")}
OptionLines == {Option("AuthVersion", v) : v \in {"1", "2", "4", "7"}}
        \cup {Option("SteamIdHashSalt", v) : v \in {"", "0", "1", "no", "long"}}
        \cup {Option("EnableGenPrefix2", v) : v \in {"1", "2"}}
        \cup {Option("HLTVExcept_IP", v) : v \in {"", "long"}}
        \cup {Option("SC2009_RevCompatMode", "0"), Option("cid_HLTV", "1"),
              Option("cid_Steam", "2"), Option("QueryFloodBanLevel", "1"), Of("broken"),
              Option("Unknown", "1")}

(* what may stand between and around the dots *)
Parts == {<<>>, <<0>>, <<2, 5>>, <<2, 6>>, <<0, 0, 7>>, <<12>>}
Tails == {<<>>, <<Colon>>, <<Colon, 8>>, <<Colon, 1, 2, 12, 3>>, <<Dot>>, <<Dot, 3>>}
Texts == {a \o <<Dot>> \o b \o <<Dot, 1, Dot>> \o c \o e : a, b, c \in Parts, e \in Tails}
         \cup {<<>>, <<1>>, <<1, Dot, 2>>, <<1, Dot, 2, Dot, 3>>, <<1, Dot, 2, Colon, 3>>,
               <<Colon>>, <<Dot, Dot, Dot>>}

MCFiles ==
    Upto(4, SectionLines) \cup Upto(3, OptionLines)
    \cup {<<Header("Wanted"), Entry(t), Entry(Home)>> : t \in Texts}

(* files on which every comment of ReadAsDocumented is put to the test: with no
   salt but 0 and a level of 1 for a flood, and without a line for HLTV *)
MCDocumentedFiles ==
    {f \in Upto(3, {o \in OptionLines : o.name = "SteamIdHashSalt" => o.value = "0"}
                      \ {Option("cid_HLTV", "1")}) :
        {Option("SteamIdHashSalt", "0"), Option("QueryFloodBanLevel", "1")}
            \subseteq {f[i] : i \in DOMAIN f}}
=============================================================================
