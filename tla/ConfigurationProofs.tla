------------------------ MODULE ConfigurationProofs ------------------------
(***************************************************************************)
(* Proofs about the loading of reunion.cfg, for files of any length: the   *)
(* two passes over the lines give every option the value that the file     *)
(* gives it when it is read as a whole.                                    *)
(*                                                                         *)
(* The link between the passes is the list of lines: what the file says up *)
(* to the line that was loaded last is what the list says as far as it     *)
(* goes, and the second pass has set the options to what the list says up  *)
(* to the line that it has come to.                                        *)
(*                                                                         *)
(* Then the section with the addresses: ipv4_parse accepts a text exactly  *)
(* if it reads as an address (ParseIsAddress), the list holds the section  *)
(* that the file has, and the third pass takes what its entries give.      *)
(***************************************************************************)
EXTENDS Configuration, SublistProofs, SequenceTheorems, TLAPS

-----------------------------------------------------------------------------
(* The options. *)

(* a mark's name is empty *)
Entries == [type : {"OPTION", "SECTION", "END_SECTION"}, name : STRING \cup {""},
            text : Seq(Nat), value : Values \cup {NoValue}]

(* What the first n - 1 lines of the file say of an option ... *)
SaidOf(o, n) ==
    {i \in 1 .. n - 1 : Says(i, o) /\ Atoi[file[i].value] \in Allowed(o)}
FileValue(o, n) ==
    IF SaidOf(o, n) = {} THEN Default(o) ELSE Atoi[file[Last(SaidOf(o, n))].value]

(* ... and the first n - 1 entries of a list. *)
HeldOf(list, o, n) ==
    {k \in 1 .. n - 1 : list[k].type = "OPTION" /\ list[k].name = o
                        /\ Atoi[list[k].value] \in Allowed(o)}
ListValue(list, o, n) ==
    IF HeldOf(list, o, n) = {} THEN Default(o) ELSE Atoi[list[Last(HeldOf(list, o, n))].value]

SaidText(o, n) == {i \in 1 .. n - 1 : Says(i, o)}
FileText(o, n) ==
    IF SaidText(o, n) = {} THEN DefaultText(o) ELSE file[Last(SaidText(o, n))].value

HeldText(list, o, n) ==
    {k \in 1 .. n - 1 : list[k].type = "OPTION" /\ list[k].name = o}
ListText(list, o, n) ==
    IF HeldText(list, o, n) = {} THEN DefaultText(o) ELSE list[Last(HeldText(list, o, n))].value

-----------------------------------------------------------------------------
(* The invariant. *)

Typed ==
    /\ file \in Seq(Line)
    /\ lines \in Seq(Entries)
    /\ \A k \in 1 .. Len(lines) : lines[k].type = "OPTION" => lines[k].value \in Values

ListFollowsFile ==
    stage = "load" =>
        /\ at <= Len(file) + 1
        /\ inSection <=> InSectionAt(at)
        /\ \A o \in Options : ListValue(lines, o, Len(lines) + 1) = FileValue(o, at)
        /\ \A o \in TextOptions : ListText(lines, o, Len(lines) + 1) = FileText(o, at)
        /\ \A o \in Options : set[o] = Default(o)
        /\ \A o \in TextOptions : texts[o] = DefaultText(o)

OptionsFollowList ==
    stage = "options" =>
        /\ at <= Len(lines) + 1
        /\ \A o \in Options : ListValue(lines, o, Len(lines) + 1) = Written(o)
        /\ \A o \in TextOptions : ListText(lines, o, Len(lines) + 1) = WrittenText(o)
        /\ \A o \in Options : set[o] = ListValue(lines, o, at)
        /\ \A o \in TextOptions : texts[o] = ListText(lines, o, at)

Inv == TypeOK /\ Typed /\ ListFollowsFile /\ OptionsFollowList
       /\ OptionsAsWritten /\ SettingsFit

-----------------------------------------------------------------------------
(* Ranges and defaults. *)

LEMMA DefaultsFit == \A o \in Options : Default(o) \in Int /\ Default(o) \in Allowed(o)
<1> SUFFICES ASSUME NEW o \in Options PROVE Default(o) \in Int /\ Default(o) \in Allowed(o)
  OBVIOUS
<1>1. CASE o \in Bools
  <2>1. Default(o) \in {0, 1}
    BY <1>1 DEF Bools, Default
  <2>2. Allowed(o) = 0 .. 1
    BY <1>1 DEF Bools, Numeric, Words, Prefixes, Allowed
  <2> QED
    BY <2>1, <2>2
<1>2. CASE o \in Numeric
  <2>1. Default(o) \in {1, 8}
    BY <1>2 DEF Numeric, Default
  <2>2. Allowed(o) = (1 .. 12) \ {6}
    BY <1>2 DEF Bools, Numeric, Words, Prefixes, Allowed
  <2> QED
    BY <2>1, <2>2
<1>3. CASE o \in Words
  BY <1>3 DEF Bools, Numeric, Words, Default, Allowed
<1>4. CASE o \in Prefixes
  <2>1. Default(o) \in {0}
    BY <1>4 DEF Prefixes, Default
  <2>2. Allowed(o) = 0 .. 255
    BY <1>4 DEF Bools, Numeric, Words, Prefixes, Allowed
  <2> QED
    BY <2>1, <2>2
<1>5. CASE o \in Others
  BY <1>5 DEF Bools, Numeric, Words, Prefixes, Others, Default, Allowed,
              Dproto, Reunion2015, Reunion2024
<1> QED
  BY <1>1, <1>2, <1>3, <1>4, <1>5 DEF Options

LEMMA Versions ==
    /\ "AuthVersion" \in Options
    /\ Allowed("AuthVersion") = 1 .. 4
    /\ "EnableGenPrefix2" \in Options /\ Allowed("EnableGenPrefix2") = 0 .. 1
    /\ "SC2009_RevCompatMode" \in Options /\ Allowed("SC2009_RevCompatMode") = 0 .. 1
    /\ \A o \in TextOptions : o \notin Options
    /\ "SteamIdHashSalt" \in TextOptions
BY DEF TextOptions, Options, Others, Bools, Numeric, Words, Prefixes, Allowed, Dproto, Reunion2024

-----------------------------------------------------------------------------
(* One more line. *)

LEMMA LastGrows ==
    ASSUME NEW n \in Nat, NEW S \in SUBSET (1 .. n - 1)
    PROVE  Last(S \cup {n}) = n
<1>1. \A j \in S \cup {n} : j <= n
  OBVIOUS
<1>2. \A i \in S \cup {n} : (\A j \in S \cup {n} : j <= i) => i = n
  OBVIOUS
<1>3. \E i \in S \cup {n} : \A j \in S \cup {n} : j <= i
  BY <1>1
<1> QED
  BY <1>2, <1>3 DEF Last

(* A header opens a section, a blank line closes it, others leave it as it is. *)
LEMMA SectionGrows ==
    ASSUME NEW n \in Nat \ {0}
    PROVE  InSectionAt(n + 1) <=> \/ file[n].kind = "header"
                                  \/ file[n].kind # "blank" /\ InSectionAt(n)
<1>1. ASSUME file[n].kind = "header" PROVE InSectionAt(n + 1)
  BY <1>1 DEF InSectionAt
<1>2. ASSUME file[n].kind # "blank", InSectionAt(n) PROVE InSectionAt(n + 1)
  <2> PICK h \in 1 .. n - 1 : file[h].kind = "header" /\ \A j \in h + 1 .. n - 1 : file[j].kind # "blank"
    BY <1>2 DEF InSectionAt
  <2>1. \A j \in h + 1 .. (n + 1) - 1 : j \in h + 1 .. n - 1 \/ j = n
    OBVIOUS
  <2> QED
    BY <1>2, <2>1 DEF InSectionAt
<1>3. ASSUME InSectionAt(n + 1), file[n].kind # "header"
      PROVE  file[n].kind # "blank" /\ InSectionAt(n)
  <2> PICK h \in 1 .. (n + 1) - 1 :
        file[h].kind = "header" /\ \A j \in h + 1 .. (n + 1) - 1 : file[j].kind # "blank"
    BY <1>3 DEF InSectionAt
  <2>1. h \in 1 .. n - 1 /\ n \in h + 1 .. (n + 1) - 1
    BY <1>3
  <2>2. \A j \in h + 1 .. n - 1 : j \in h + 1 .. (n + 1) - 1
    BY <2>1
  <2> QED
    BY <2>1, <2>2 DEF InSectionAt
<1> QED
  BY <1>1, <1>2, <1>3

LEMMA FileValueGrows ==
    ASSUME NEW o, NEW n \in Nat \ {0}
    PROVE  FileValue(o, n + 1) =
                IF Says(n, o) /\ Atoi[file[n].value] \in Allowed(o)
                THEN Atoi[file[n].value] ELSE FileValue(o, n)
<1> DEFINE said == Says(n, o) /\ Atoi[file[n].value] \in Allowed(o)
<1>1. SaidOf(o, n + 1) = IF said THEN SaidOf(o, n) \cup {n} ELSE SaidOf(o, n)
  BY DEF SaidOf
<1>2. SaidOf(o, n) \in SUBSET (1 .. n - 1)
  BY DEF SaidOf
<1>3. Last(SaidOf(o, n) \cup {n}) = n
  BY <1>2, LastGrows
<1> QED
  BY <1>1, <1>3 DEF FileValue

LEMMA ListValueGrows ==
    ASSUME NEW list, NEW o, NEW n \in Nat \ {0}
    PROVE  ListValue(list, o, n + 1) =
                IF list[n].type = "OPTION" /\ list[n].name = o
                   /\ Atoi[list[n].value] \in Allowed(o)
                THEN Atoi[list[n].value] ELSE ListValue(list, o, n)
<1> DEFINE held == list[n].type = "OPTION" /\ list[n].name = o
                   /\ Atoi[list[n].value] \in Allowed(o)
<1>1. HeldOf(list, o, n + 1) = IF held THEN HeldOf(list, o, n) \cup {n} ELSE HeldOf(list, o, n)
  BY DEF HeldOf
<1>2. HeldOf(list, o, n) \in SUBSET (1 .. n - 1)
  BY DEF HeldOf
<1>3. Last(HeldOf(list, o, n) \cup {n}) = n
  BY <1>2, LastGrows
<1> QED
  BY <1>1, <1>3 DEF ListValue

LEMMA FileTextGrows ==
    ASSUME NEW o, NEW n \in Nat \ {0}
    PROVE  FileText(o, n + 1) = IF Says(n, o) THEN file[n].value ELSE FileText(o, n)
<1>1. SaidText(o, n + 1) =
        IF Says(n, o) THEN SaidText(o, n) \cup {n} ELSE SaidText(o, n)
  BY DEF SaidText
<1>2. SaidText(o, n) \in SUBSET (1 .. n - 1)
  BY DEF SaidText
<1>3. Last(SaidText(o, n) \cup {n}) = n
  BY <1>2, LastGrows
<1> QED
  BY <1>1, <1>3 DEF FileText

LEMMA ListTextGrows ==
    ASSUME NEW list, NEW o, NEW n \in Nat \ {0}
    PROVE  ListText(list, o, n + 1) =
                IF list[n].type = "OPTION" /\ list[n].name = o
                THEN list[n].value ELSE ListText(list, o, n)
<1> DEFINE held == list[n].type = "OPTION" /\ list[n].name = o
<1>1. HeldText(list, o, n + 1) = IF held THEN HeldText(list, o, n) \cup {n} ELSE HeldText(list, o, n)
  BY DEF HeldText
<1>2. HeldText(list, o, n) \in SUBSET (1 .. n - 1)
  BY DEF HeldText
<1>3. Last(HeldText(list, o, n) \cup {n}) = n
  BY <1>2, LastGrows
<1> QED
  BY <1>1, <1>3 DEF ListText

-----------------------------------------------------------------------------
(* The list grows at its end. *)

LEMMA HasLast ==
    ASSUME NEW n \in Nat, NEW S \in SUBSET (1 .. n), S # {}
    PROVE  Last(S) \in S
<1> DEFINE T == {n - i : i \in S}
<1>1. T \subseteq Nat /\ T # {}
  <2>1. \A i \in S : n - i \in Nat
    OBVIOUS
  <2>2. \E i \in S : n - i \in T
    OBVIOUS
  <2> QED
    BY <2>1, <2>2
<1>2. PICK x \in T : \A y \in T : x <= y
  BY <1>1, SmallestNumber
<1>3. PICK i \in S : x = n - i
  OBVIOUS
<1>4. \A j \in S : j <= i
  BY <1>2, <1>3
<1> QED
  BY <1>4 DEF Last

LEMMA ListValueKept ==
    ASSUME NEW list, NEW longer, NEW o, NEW n \in Nat, \A k \in 1 .. n : longer[k] = list[k]
    PROVE  ListValue(longer, o, n + 1) = ListValue(list, o, n + 1)
<1>1. HeldOf(longer, o, n + 1) = HeldOf(list, o, n + 1)
  BY DEF HeldOf
<1>2. HeldOf(list, o, n + 1) \in SUBSET (1 .. n)
  BY DEF HeldOf
<1>3. HeldOf(list, o, n + 1) # {} => Last(HeldOf(list, o, n + 1)) \in 1 .. n
  BY <1>2, HasLast
<1> QED
  BY <1>1, <1>3 DEF ListValue

LEMMA ListTextKept ==
    ASSUME NEW list, NEW longer, NEW o, NEW n \in Nat, \A k \in 1 .. n : longer[k] = list[k]
    PROVE  ListText(longer, o, n + 1) = ListText(list, o, n + 1)
<1>1. HeldText(longer, o, n + 1) = HeldText(list, o, n + 1)
  BY DEF HeldText
<1>2. HeldText(list, o, n + 1) \in SUBSET (1 .. n)
  BY DEF HeldText
<1>3. HeldText(list, o, n + 1) # {} => Last(HeldText(list, o, n + 1)) \in 1 .. n
  BY <1>2, HasLast
<1> QED
  BY <1>1, <1>3 DEF ListText

LEMMA EntryAppended ==
    ASSUME NEW list \in Seq(Entries), NEW e \in Entries,
           \A k \in 1 .. Len(list) : list[k].type = "OPTION" => list[k].value \in Values,
           e.type = "OPTION" => e.value \in Values
    PROVE  LET longer == list \o <<e>> IN
           /\ longer \in Seq(Entries)
           /\ \A k \in 1 .. Len(longer) : longer[k].type = "OPTION" => longer[k].value \in Values
           /\ \A o : ListValue(longer, o, Len(longer) + 1) =
                        IF e.type = "OPTION" /\ e.name = o /\ Atoi[e.value] \in Allowed(o)
                        THEN Atoi[e.value] ELSE ListValue(list, o, Len(list) + 1)
           /\ \A o : ListText(longer, o, Len(longer) + 1) =
                        IF e.type = "OPTION" /\ e.name = o
                        THEN e.value ELSE ListText(list, o, Len(list) + 1)
<1> DEFINE longer == list \o <<e>>
           n == Len(list)
<1>1. n \in Nat /\ <<e>> \in Seq(Entries) /\ Len(<<e>>) = 1
  BY LenProperties
<1>2. longer \in Seq(Entries) /\ Len(longer) = n + 1
  BY <1>1, ConcatProperties
<1>3. \A k \in 1 .. n : longer[k] = list[k]
  BY <1>1, ConcatProperties
<1>4. longer[n + 1] = e
  <2>1. n + 1 \in 1 .. n + 1 /\ ~(n + 1 <= n) /\ (n + 1) - n = 1
    BY <1>1
  <2> QED
    BY <1>1, <2>1, ConcatProperties
<1> HIDE DEF longer, n
<1>5. \A k \in 1 .. Len(longer) : longer[k].type = "OPTION" => longer[k].value \in Values
  <2>1. \A k \in 1 .. n + 1 : k \in 1 .. n \/ k = n + 1
    BY <1>1
  <2> QED
    BY <1>2, <1>3, <1>4, <2>1 DEF n
<1>6. ASSUME NEW o
      PROVE  ListValue(longer, o, Len(longer) + 1) =
                IF e.type = "OPTION" /\ e.name = o /\ Atoi[e.value] \in Allowed(o)
                THEN Atoi[e.value] ELSE ListValue(list, o, n + 1)
  <2>1. ListValue(longer, o, n + 1) = ListValue(list, o, n + 1)
    BY <1>1, <1>3, ListValueKept
  <2>2. n + 1 \in Nat \ {0}
    BY <1>1
  <2> QED
    BY <1>2, <1>4, <2>1, <2>2, ListValueGrows
<1>7. ASSUME NEW o
      PROVE  ListText(longer, o, Len(longer) + 1) =
                IF e.type = "OPTION" /\ e.name = o
                THEN e.value ELSE ListText(list, o, n + 1)
  <2>1. ListText(longer, o, n + 1) = ListText(list, o, n + 1)
    BY <1>1, <1>3, ListTextKept
  <2>2. n + 1 \in Nat \ {0}
    BY <1>1
  <2> QED
    BY <1>2, <1>4, <2>1, <2>2, ListTextGrows
<1> QED
  BY <1>2, <1>5, <1>6, <1>7 DEF longer, n

-----------------------------------------------------------------------------
(* The file does not change. *)

LEMMA WrittenIsFileValue ==
    ASSUME file \in Seq(Line)
    PROVE  /\ \A o : Written(o) = FileValue(o, Len(file) + 1)
           /\ \A o : WrittenText(o) = FileText(o, Len(file) + 1)
<1>1. DOMAIN file = 1 .. Len(file) /\ Len(file) \in Nat
  BY LenProperties
<1>2. (Len(file) + 1) - 1 = Len(file)
  BY <1>1
<1>3. \A o : SaidOf(o, Len(file) + 1) =
                {i \in DOMAIN file : Says(i, o) /\ Atoi[file[i].value] \in Allowed(o)}
  BY <1>1, <1>2 DEF SaidOf
<1>4. \A o : SaidText(o, Len(file) + 1) = {i \in DOMAIN file : Says(i, o)}
  BY <1>1, <1>2 DEF SaidText
<1>5. ASSUME NEW o PROVE Written(o) = FileValue(o, Len(file) + 1)
  BY <1>3 DEF Written, FileValue
<1>6. ASSUME NEW o PROVE WrittenText(o) = FileText(o, Len(file) + 1)
  BY <1>4 DEF WrittenText, FileText
<1> QED
  BY <1>5, <1>6

LEMMA WrittenStays ==
    ASSUME file' = file
    PROVE  /\ \A o : Written(o)' = Written(o)
           /\ \A o : WrittenText(o)' = WrittenText(o)
<1>1. \A i, o : Says(i, o)' <=> Says(i, o)
  BY DEF Says, InSectionAt
<1>2. ASSUME NEW o PROVE Written(o)' = Written(o)
  BY <1>1 DEF Written
<1>3. ASSUME NEW o PROVE WrittenText(o)' = WrittenText(o)
  BY <1>1 DEF WrittenText
<1> QED
  BY <1>2, <1>3

LEMMA FileValueStays ==
    ASSUME file' = file, at' = at + 1
    PROVE  /\ \A o : FileValue(o, at)' = FileValue(o, at + 1)
           /\ \A o : FileText(o, at)' = FileText(o, at + 1)
           /\ InSectionAt(at)' <=> InSectionAt(at + 1)
<1>1. \A i, o : Says(i, o)' <=> Says(i, o)
  BY DEF Says, InSectionAt
<1>2. ASSUME NEW o PROVE FileValue(o, at)' = FileValue(o, at + 1)
  <2>1. SaidOf(o, at)' = SaidOf(o, at + 1)
    BY <1>1 DEF SaidOf
  <2> QED
    BY <2>1 DEF FileValue
<1>3. ASSUME NEW o PROVE FileText(o, at)' = FileText(o, at + 1)
  <2>1. SaidText(o, at)' = SaidText(o, at + 1)
    BY <1>1 DEF SaidText
  <2> QED
    BY <2>1 DEF FileText
<1>4. InSectionAt(at)' <=> InSectionAt(at + 1)
  BY DEF InSectionAt
<1> QED
  BY <1>2, <1>3, <1>4

-----------------------------------------------------------------------------
(* load *)

(* a list that says what the file says *)
Holds(list, n) ==
    /\ list \in Seq(Entries)
    /\ \A k \in 1 .. Len(list) : list[k].type = "OPTION" => list[k].value \in Values
    /\ \A o \in Options : ListValue(list, o, Len(list) + 1) = FileValue(o, n)
    /\ \A o \in TextOptions : ListText(list, o, Len(list) + 1) = FileText(o, n)

LEMMA LoadedKeepsInv ==
    ASSUME Inv, stage = "load", at <= Len(file), NEW new, NEW section \in BOOLEAN,
           Loaded(new, section), Holds(lines \o new, at + 1),
           section <=> InSectionAt(at + 1)
    PROVE  Inv'
<1> USE DEF Loaded
<1>1. at \in Nat \ {0} /\ Len(file) \in Nat /\ file' = file /\ at' = at + 1 /\ stage' = stage
  BY LenProperties DEF Inv, TypeOK, Typed
<1>2. lines' = lines \o new /\ UNCHANGED <<set, texts>> /\ inSection' = section
  OBVIOUS
<1>3. Typed'
  BY <1>1, <1>2 DEF Inv, Typed, Holds
<1>4. TypeOK'
  <2>1. \A i \in DOMAIN lines' :
            /\ lines'[i].type \in {"OPTION", "SECTION", "END_SECTION"}
            /\ lines'[i].type = "OPTION" => lines'[i].value \in Values
    <3>1. lines' \in Seq(Entries)
      BY <1>3 DEF Typed
    <3>2. DOMAIN lines' = 1 .. Len(lines') /\ \A i \in 1 .. Len(lines') : lines'[i] \in Entries
      BY <3>1, LenProperties, ElementOfSeq
    <3>3. \A i \in 1 .. Len(lines') : lines'[i].type = "OPTION" => lines'[i].value \in Values
      BY <1>3 DEF Typed
    <3> QED
      BY <3>2, <3>3 DEF Entries
  <2> QED
    BY <1>1, <1>2, <2>1 DEF Inv, TypeOK, Salt
<1>5. ListFollowsFile'
  <2>1. \A o \in Options : (ListValue(lines, o, Len(lines) + 1) = FileValue(o, at))'
    BY <1>1, <1>2, FileValueStays DEF Holds
  <2>2. \A o \in TextOptions : (ListText(lines, o, Len(lines) + 1) = FileText(o, at))'
    BY <1>1, <1>2, FileValueStays DEF Holds
  <2>3. (inSection <=> InSectionAt(at))'
    BY <1>1, <1>2, FileValueStays
  <2>4. at' <= Len(file') + 1
    BY <1>1
  <2> QED
    BY <1>1, <1>2, <2>1, <2>2, <2>3, <2>4 DEF Inv, ListFollowsFile
<1>6. OptionsFollowList' /\ OptionsAsWritten' /\ SettingsFit'
  BY <1>1 DEF OptionsFollowList, OptionsAsWritten, SettingsFit
<1> QED
  BY <1>3, <1>4, <1>5, <1>6 DEF Inv

(* Only an option outside of sections adds to what is said and what is held. *)

LEMMA Unsaid ==
    ASSUME Inv, stage = "load", at <= Len(file),
           file[at].kind # "text" \/ inSection \/ file[at].value = NoValue
    PROVE  Holds(lines, at + 1)
<1>1. at \in Nat \ {0}
  BY DEF Inv, TypeOK
<1>2. \A o : ~Says(at, o)
  BY DEF Inv, ListFollowsFile, Says
<1>3. \A o \in Options : FileValue(o, at + 1) = FileValue(o, at)
  BY <1>1, <1>2, FileValueGrows
<1>4. \A o \in TextOptions : FileText(o, at + 1) = FileText(o, at)
  BY <1>1, <1>2, FileTextGrows
<1> QED
  BY <1>3, <1>4 DEF Inv, ListFollowsFile, Typed, Holds

LEMMA SilentEntry ==
    ASSUME NEW list, NEW n, Holds(list, n), NEW e \in Entries, e.type # "OPTION"
    PROVE  Holds(list \o <<e>>, n)
BY EntryAppended DEF Holds

LEMMA MarkIs == Mark \in Entries /\ Mark.type = "END_SECTION"
<1>1. <<>> \in Seq(Nat) /\ "" \in STRING \cup {""}
  BY EmptySeq
<1>2. Mark \in Entries
  BY <1>1, Zenon DEF Entries, Mark
<1> QED
  BY <1>2 DEF Mark

LEMMA LinesAreEntries ==
    ASSUME Inv, at <= Len(file)
    PROVE  /\ file[at] \in Line
           /\ Mark \in Entries /\ Mark.type # "OPTION"
           /\ \A type \in {"OPTION", "SECTION"} :
                Kept(file[at], type) \in Entries /\ Kept(file[at], type).type = type
<1>1. file[at] \in Line
  BY ElementOfSeq DEF Inv, TypeOK, Typed
<1>3. Mark \in Entries /\ Mark.type # "OPTION"
  BY MarkIs
<1>4. ASSUME NEW type \in {"OPTION", "SECTION"}
      PROVE  Kept(file[at], type) \in Entries /\ Kept(file[at], type).type = type
  <2>1. /\ file[at].name \in STRING /\ file[at].text \in Seq(Nat)
        /\ file[at].value \in Values \cup {NoValue}
    BY <1>1 DEF Line
  <2> QED
    BY <2>1 DEF Entries, Kept
<1> QED
  BY <1>1, <1>3, <1>4

LEMMA IgnoreLineKeepsInv == ASSUME Inv, IgnoreLine PROVE Inv'
<1>1. stage = "load" /\ at <= Len(file) /\ file[at].kind \in {"comment", "broken"}
  BY DEF IgnoreLine, Reading
<1>2. Loaded(<<>>, inSection)
  BY DEF IgnoreLine
<1>3. at \in Nat \ {0} /\ inSection \in BOOLEAN /\ lines \in Seq(Entries)
  BY DEF Inv, TypeOK, Typed
<1>4. Holds(lines \o <<>>, at + 1)
  BY <1>1, <1>3, Unsaid, ConcatEmptySeq
<1>5. inSection <=> InSectionAt(at + 1)
  BY <1>1, <1>3, SectionGrows DEF Inv, ListFollowsFile
<1> QED
  BY <1>1, <1>2, <1>3, <1>4, <1>5, LoadedKeepsInv

LEMMA BlankLineKeepsInv == ASSUME Inv, BlankLine PROVE Inv'
<1>1. stage = "load" /\ at <= Len(file) /\ file[at].kind = "blank"
  BY DEF BlankLine, Reading
<1> DEFINE new == IF inSection THEN <<Mark>> ELSE <<>>
<1>2. Loaded(new, FALSE)
  BY DEF BlankLine
<1>3. at \in Nat \ {0} /\ lines \in Seq(Entries)
  BY DEF Inv, TypeOK, Typed
<1>4. Holds(lines \o new, at + 1)
  <2>1. Holds(lines, at + 1)
    BY <1>1, Unsaid
  <2>2. CASE inSection
    BY <1>1, <2>1, <2>2, SilentEntry, LinesAreEntries
  <2>3. CASE ~inSection
    BY <1>3, <2>1, <2>3, ConcatEmptySeq
  <2> QED
    BY <2>2, <2>3
<1>5. FALSE <=> InSectionAt(at + 1)
  BY <1>1, <1>3, SectionGrows
<1> HIDE DEF new
<1> QED
  BY <1>1, <1>2, <1>4, <1>5, LoadedKeepsInv

LEMMA HeaderLineKeepsInv == ASSUME Inv, HeaderLine PROVE Inv'
<1>1. stage = "load" /\ at <= Len(file) /\ file[at].kind = "header"
  BY DEF HeaderLine, Reading
<1> DEFINE mark == IF inSection THEN <<Mark>> ELSE <<>>
           e == Kept(file[at], "SECTION")
<1>2. Loaded(mark \o <<e>>, TRUE)
  BY DEF HeaderLine
<1>3. at \in Nat \ {0} /\ lines \in Seq(Entries)
  BY DEF Inv, TypeOK, Typed
<1>4. e \in Entries /\ e.type # "OPTION" /\ Mark \in Entries /\ Mark.type # "OPTION"
  BY <1>1, LinesAreEntries
<1> HIDE DEF e
<1>5. Holds(lines \o (mark \o <<e>>), at + 1)
  <2>1. Holds(lines, at + 1)
    BY <1>1, Unsaid
  <2>2. Holds(lines \o mark, at + 1)
    <3>1. CASE inSection
      BY <1>4, <2>1, <3>1, SilentEntry
    <3>2. CASE ~inSection
      BY <1>3, <2>1, <3>2, ConcatEmptySeq
    <3> QED
      BY <3>1, <3>2
  <2>3. Holds((lines \o mark) \o <<e>>, at + 1)
    BY <1>4, <2>2, SilentEntry
  <2>4. mark \in Seq(Entries) /\ <<e>> \in Seq(Entries)
    BY <1>4
  <2> HIDE DEF mark
  <2>5. (lines \o mark) \o <<e>> = lines \o (mark \o <<e>>)
    BY <1>3, <2>4, ConcatAssociative
  <2> QED
    BY <2>3, <2>5
<1>6. TRUE <=> InSectionAt(at + 1)
  BY <1>1, <1>3, SectionGrows
<1> HIDE DEF mark
<1> QED
  BY <1>1, <1>2, <1>5, <1>6, LoadedKeepsInv

LEMMA TextLineKeepsInv == ASSUME Inv, TextLine PROVE Inv'
<1>1. stage = "load" /\ at <= Len(file) /\ file[at].kind = "text"
  BY DEF TextLine, Reading
<1>2. at \in Nat \ {0} /\ inSection \in BOOLEAN /\ lines \in Seq(Entries)
  BY DEF Inv, TypeOK, Typed
<1>3. inSection <=> InSectionAt(at + 1)
  BY <1>1, <1>2, SectionGrows DEF Inv, ListFollowsFile
<1> DEFINE e(type) == Kept(file[at], type)
<1>4. \A type \in {"OPTION", "SECTION"} : e(type) \in Entries /\ e(type).type = type
  BY <1>1, LinesAreEntries
<1>5. CASE inSection
  <2>1. Loaded(<<e("SECTION")>>, inSection)
    BY <1>5 DEF TextLine
  <2>2. Holds(lines \o <<e("SECTION")>>, at + 1)
    BY <1>1, <1>4, <1>5, Unsaid, SilentEntry
  <2> QED
    BY <1>1, <1>2, <1>3, <2>1, <2>2, LoadedKeepsInv
<1>6. CASE ~inSection /\ file[at].value = NoValue
  <2>1. Loaded(<<>>, inSection)
    BY <1>6 DEF TextLine
  <2>2. Holds(lines \o <<>>, at + 1)
    BY <1>1, <1>2, <1>6, Unsaid, ConcatEmptySeq
  <2> QED
    BY <1>1, <1>2, <1>3, <2>1, <2>2, LoadedKeepsInv
<1>7. CASE ~inSection /\ file[at].value # NoValue
  <2>1. Loaded(<<e("OPTION")>>, inSection)
    BY <1>7 DEF TextLine
  <2>2. file[at].value \in Values
    BY <1>1, <1>7, LinesAreEntries DEF Line
  <2>3. e("OPTION").name = file[at].name /\ e("OPTION").value = file[at].value
    BY DEF Kept
  <2>4. \A o : Says(at, o) <=> file[at].name = o
    BY <1>1, <1>7 DEF Says, Inv, ListFollowsFile
  <2> HIDE DEF e
  <2>5. Holds(lines \o <<e("OPTION")>>, at + 1)
    <3>1. Holds(lines, at)
      BY <1>1 DEF Holds, Inv, Typed, ListFollowsFile
    <3>2. \A o \in Options : FileValue(o, at + 1) =
                IF e("OPTION").name = o /\ Atoi[e("OPTION").value] \in Allowed(o)
                THEN Atoi[e("OPTION").value] ELSE FileValue(o, at)
      BY <1>2, <2>3, <2>4, FileValueGrows
    <3>3. \A o \in TextOptions : FileText(o, at + 1) =
                IF e("OPTION").name = o THEN e("OPTION").value ELSE FileText(o, at)
      BY <1>2, <2>3, <2>4, FileTextGrows
    <3>4. e("OPTION") \in Entries /\ e("OPTION").type = "OPTION" /\ e("OPTION").value \in Values
      BY <1>4, <2>2, <2>3
    <3> QED
      BY <3>1, <3>2, <3>3, <3>4, EntryAppended DEF Holds
  <2> QED
    BY <1>1, <1>2, <1>3, <2>1, <2>5, LoadedKeepsInv
<1> QED
  BY <1>2, <1>5, <1>6, <1>7

LEMMA EndOfFileKeepsInv == ASSUME Inv, EndOfFile PROVE Inv'
<1> USE DEF EndOfFile
<1>1. /\ file \in Seq(Line) /\ at \in Nat \ {0} /\ Len(file) \in Nat /\ Len(lines) \in Nat
      /\ stage = "load" /\ stage' = "options" /\ at' = 1
      /\ UNCHANGED <<file, inSection, lines, set, texts, except>>
  BY LenProperties DEF Inv, TypeOK, Typed
<1>2. at = Len(file) + 1
  <2>1. at > Len(file)
    OBVIOUS
  <2>2. at <= Len(file) + 1
    BY <1>1 DEF Inv, ListFollowsFile
  <2> QED
    BY <1>1, <2>1, <2>2
<1>3. TypeOK' /\ Typed'
  BY <1>1 DEF Inv, TypeOK, Typed, Salt
<1>4. OptionsFollowList'
  <2>1. \A o \in Options : (ListValue(lines, o, Len(lines) + 1) = Written(o))'
    <3>1. \A o \in Options : ListValue(lines, o, Len(lines) + 1) = Written(o)
      BY <1>1, <1>2, WrittenIsFileValue DEF Inv, ListFollowsFile
    <3> QED
      BY <1>1, <3>1, WrittenStays
  <2>2. \A o \in TextOptions : (ListText(lines, o, Len(lines) + 1) = WrittenText(o))'
    <3>1. \A o \in TextOptions : ListText(lines, o, Len(lines) + 1) = WrittenText(o)
      BY <1>1, <1>2, WrittenIsFileValue DEF Inv, ListFollowsFile
    <3> QED
      BY <1>1, <3>1, WrittenStays
  <2>3. \A o : HeldOf(lines, o, 1) = {}
    BY DEF HeldOf
  <2>4. \A o : HeldText(lines, o, 1) = {}
    BY DEF HeldText
  <2>5. \A o \in Options : (set[o] = ListValue(lines, o, at))'
    BY <1>1, <2>3 DEF Inv, ListFollowsFile, ListValue
  <2>6. \A o \in TextOptions : (texts[o] = ListText(lines, o, at))'
    BY <1>1, <2>4 DEF Inv, ListFollowsFile, ListText
  <2> QED
    BY <1>1, <2>1, <2>2, <2>5, <2>6 DEF OptionsFollowList
<1>5. ListFollowsFile' /\ OptionsAsWritten' /\ SettingsFit'
  BY <1>1 DEF ListFollowsFile, OptionsAsWritten, SettingsFit
<1> QED
  BY <1>3, <1>4, <1>5 DEF Inv

-----------------------------------------------------------------------------
(* parseCfgParam *)

LEMMA ParseOptionKeepsInv == ASSUME Inv, ParseOption PROVE Inv'
<1> DEFINE l == lines[at]
<1>1. /\ stage = "options" /\ stage' = stage /\ at \in Nat \ {0} /\ at <= Len(lines)
      /\ at' = at + 1 /\ UNCHANGED <<file, inSection, lines, except>>
  BY DEF ParseOption, Inv, TypeOK
<1>2. /\ set' = IF l.type = "OPTION" /\ Fits(l)
                THEN [set EXCEPT ![l.name] = Atoi[l.value]] ELSE set
      /\ texts' = IF l.type = "OPTION" /\ l.name \in TextOptions
                  THEN [texts EXCEPT ![l.name] = l.value] ELSE texts
  BY DEF ParseOption
<1>3. Typed'
  BY <1>1 DEF Inv, Typed
<1>4. l.type = "OPTION" => l.value \in Values
  BY <1>1, LenProperties DEF Inv, Typed
<1> HIDE DEF l
<1>5. /\ set' \in [Options -> Int]
      /\ \A o \in Options : set'[o] = IF l.type = "OPTION" /\ l.name = o
                                         /\ Atoi[l.value] \in Allowed(o)
                                      THEN Atoi[l.value] ELSE set[o]
  <2>1. set \in [Options -> Int]
    BY DEF Inv, TypeOK
  <2>2. CASE l.type = "OPTION" /\ Fits(l)
    <3>1. l.name \in Options /\ Atoi[l.value] \in Allowed(l.name) /\ Atoi[l.value] \in Int
      BY <1>4, <2>2, ConfigAssumption DEF Fits
    <3> QED
      BY <1>2, <2>1, <2>2, <3>1
  <2>3. CASE ~(l.type = "OPTION" /\ Fits(l))
    BY <1>2, <2>1, <2>3 DEF Fits
  <2> QED
    BY <2>2, <2>3
<1>6. /\ texts' \in [TextOptions -> Values \cup {NoValue}]
      /\ \A o \in TextOptions :
            texts'[o] = IF l.type = "OPTION" /\ l.name = o THEN l.value ELSE texts[o]
  <2>1. texts \in [TextOptions -> Values \cup {NoValue}]
    BY DEF Inv, TypeOK
  <2>2. CASE l.type = "OPTION" /\ l.name \in TextOptions
    BY <1>2, <1>4, <2>1, <2>2
  <2>3. CASE ~(l.type = "OPTION" /\ l.name \in TextOptions)
    BY <1>2, <2>1, <2>3
  <2> QED
    BY <2>2, <2>3
<1>7. TypeOK'
  <2>1. \A o \in Options : set'[o] \in Allowed(o)
    BY <1>5 DEF Inv, TypeOK
  <2>2. texts' \in [TextOptions -> Values \cup {NoValue}] /\ Salt' \in Values
    <3>1. texts \in [TextOptions -> Values \cup {NoValue}] /\ texts["SteamIdHashSalt"] \in Values
      BY DEF Inv, TypeOK, Salt
    <3>2. texts'["SteamIdHashSalt"] \in Values
      BY <1>4, <1>6, <3>1, Versions
    <3> QED
      BY <1>6, <3>2 DEF Salt
  <2> QED
    BY <1>1, <1>5, <2>1, <2>2 DEF Inv, TypeOK
<1>8. OptionsFollowList'
  <2>1. \A o \in Options : set'[o] = ListValue(lines, o, at + 1)
    BY <1>1, <1>5, ListValueGrows DEF l, Inv, OptionsFollowList
  <2>2. \A o \in TextOptions : texts'[o] = ListText(lines, o, at + 1)
    <3>1. \A o \in TextOptions : texts[o] = ListText(lines, o, at)
      BY <1>1 DEF Inv, OptionsFollowList
    <3>2. \A o : ListText(lines, o, at + 1) =
                IF l.type = "OPTION" /\ l.name = o THEN l.value ELSE ListText(lines, o, at)
      BY <1>1, ListTextGrows DEF l
    <3> QED
      BY <1>6, <3>1, <3>2
  <2>3. \A o \in Options : (ListValue(lines, o, Len(lines) + 1) = Written(o))'
    BY <1>1, WrittenStays DEF Inv, OptionsFollowList
  <2>4. \A o \in TextOptions : (ListText(lines, o, Len(lines) + 1) = WrittenText(o))'
    BY <1>1, WrittenStays DEF Inv, OptionsFollowList
  <2>5. at' <= Len(lines') + 1
    BY <1>1, LenProperties DEF Inv, Typed
  <2> QED
    BY <1>1, <2>1, <2>2, <2>3, <2>4, <2>5 DEF OptionsFollowList
<1>9. ListFollowsFile' /\ OptionsAsWritten' /\ SettingsFit'
  BY <1>1 DEF ListFollowsFile, OptionsAsWritten, SettingsFit
<1> QED
  BY <1>3, <1>7, <1>8, <1>9 DEF Inv

(* AuthVersion decides of two options and wants a salt. *)
LEMMA OptionsEndKeepsInv == ASSUME Inv, OptionsEnd PROVE Inv'
<1>1. /\ stage = "options" /\ at \in Nat \ {0} /\ at > Len(lines) /\ at' = 1
      /\ UNCHANGED <<file, lines, texts, except>> /\ inSection' = FALSE
  BY DEF OptionsEnd, Inv, TypeOK
<1>2. Len(lines) \in Nat /\ at = Len(lines) + 1
  BY <1>1, LenProperties DEF Inv, Typed, OptionsFollowList
<1>3. set \in [Options -> Int] /\ \A o \in Options : set[o] \in Allowed(o)
  BY DEF Inv, TypeOK
<1>4. texts \in [TextOptions -> Values \cup {NoValue}] /\ Salt \in Values
  BY DEF Inv, TypeOK
<1>5. Typed'
  BY <1>1 DEF Inv, Typed
<1>6. /\ \A o \in TextOptions : texts[o] = WrittenText(o)
      /\ \A o \in Options : set[o] = Written(o)
  BY <1>1, <1>2 DEF Inv, OptionsFollowList
<1>7. /\ at' \in Nat \ {0} /\ texts' = texts /\ Salt' = Salt
      /\ \A i \in DOMAIN lines' :
            /\ lines'[i].type \in {"OPTION", "SECTION", "END_SECTION"}
            /\ lines'[i].type = "OPTION" => lines'[i].value \in Values
  BY <1>1 DEF Inv, TypeOK, Salt
<1>8. inSection' \in BOOLEAN
  BY <1>1, Zenon
<1>9. CASE SaltTooShort
  <2>1. stage' = "failed" /\ set' = set
    BY <1>9 DEF OptionsEnd
  <2>2. TypeOK'
    BY <1>3, <1>4, <1>7, <1>8, <2>1 DEF TypeOK
  <2>3. ListFollowsFile' /\ OptionsFollowList' /\ OptionsAsWritten' /\ SettingsFit'
    BY <2>1 DEF ListFollowsFile, OptionsFollowList, OptionsAsWritten, SettingsFit
  <2> QED
    BY <1>5, <2>2, <2>3 DEF Inv
<1>10. CASE ~SaltTooShort
  <2>1. stage' = "section" /\ set' = Settled
    BY <1>10 DEF OptionsEnd
  <2> DEFINE av == set["AuthVersion"]
             prefix == CASE av = Dproto -> 0
                         [] av >= Reunion2018 -> 1
                         [] OTHER -> set["EnableGenPrefix2"]
             compat == IF av >= Reunion2018 THEN 1 ELSE set["SC2009_RevCompatMode"]
  <2>2. av \in 1 .. 4
    BY <1>3, Versions
  <2>3. prefix \in 0 .. 1 /\ compat \in 0 .. 1
    BY <1>3, <2>2, Versions DEF Dproto, Reunion2018
  <2>4. /\ set' \in [Options -> Int]
        /\ set'["EnableGenPrefix2"] = prefix /\ set'["SC2009_RevCompatMode"] = compat
        /\ \A o \in Options \ {"EnableGenPrefix2", "SC2009_RevCompatMode"} : set'[o] = set[o]
    <3>1. Settled = [set EXCEPT !["EnableGenPrefix2"] = prefix,
                                !["SC2009_RevCompatMode"] = compat]
      BY <1>3, Versions DEF Settled
    <3> HIDE DEF prefix, compat
    <3> QED
      BY <1>3, <2>1, <2>3, <3>1, Versions
  <2>5. TypeOK'
    <3>1. \A o \in Options : set'[o] \in Allowed(o)
      BY <1>3, <2>3, <2>4, Versions
    <3> QED
      BY <1>4, <1>7, <1>8, <2>1, <2>4, <3>1 DEF TypeOK
  <2>6. OptionsAsWritten'
    <3>1. \A o \in Options \ {"EnableGenPrefix2", "SC2009_RevCompatMode"} : (set[o] = Written(o))'
      BY <1>1, <1>6, <2>4, WrittenStays
    <3>2. \A o \in TextOptions : (texts[o] = WrittenText(o))'
      BY <1>1, <1>6, WrittenStays
    <3> QED
      BY <3>1, <3>2 DEF OptionsAsWritten
  <2>7. set'["AuthVersion"] = av
    BY <2>4, Versions
  <2>8. SettingsFit'
    <3>1. CASE av = 1
      <4>1. prefix = 0
        BY <3>1 DEF Dproto, Reunion2018
      <4> QED
        BY <2>4, <2>7, <3>1, <4>1 DEF SettingsFit, Dproto, Reunion2015
    <3>2. CASE av = 2
      <4>1. prefix = set["EnableGenPrefix2"] /\ compat = set["SC2009_RevCompatMode"]
        BY <3>2 DEF Dproto, Reunion2018
      <4>2. \A o \in {"EnableGenPrefix2", "SC2009_RevCompatMode"} : (set[o] = Written(o))'
        BY <1>1, <1>6, <2>4, <4>1, WrittenStays, Versions
      <4> QED
        BY <2>7, <3>2, <4>2 DEF SettingsFit, Dproto, Reunion2015
    <3>3. CASE av \in {3, 4}
      <4>1. prefix = 1 /\ compat = 1
        BY <3>3 DEF Dproto, Reunion2018
      <4>2. Salt \in Negations \/ ~(Length[Salt] < MinSalt)
        BY <1>10, <3>3 DEF SaltTooShort, Reunion2018
      <4>3. Salt \notin Negations => Length[Salt] # 0 /\ Length[Salt] >= MinSalt
        <5>1. Length[Salt] \in Nat /\ MinSalt \in Nat \ {0}
          BY <1>4, ConfigAssumption
        <5> QED
          BY <4>2, <5>1
      <4>4. Salt' = Salt /\ WrittenText("SteamIdHashSalt")' = Salt
        BY <1>1, <1>6, <1>7, WrittenStays DEF TextOptions, Salt
      <4>5. (WrittenText("SteamIdHashSalt") \notin Negations =>
                 Hashes /\ Length[Salt] >= MinSalt)'
        BY <4>3, <4>4 DEF Hashes
      <4> QED
        BY <2>4, <2>7, <3>3, <4>1, <4>5 DEF SettingsFit, Dproto, Reunion2015
    <3> QED
      BY <2>2, <3>1, <3>2, <3>3
  <2>9. ListFollowsFile' /\ OptionsFollowList'
    BY <2>1 DEF ListFollowsFile, OptionsFollowList
  <2> QED
    BY <1>5, <2>5, <2>6, <2>8, <2>9 DEF Inv
<1> QED
  BY <1>9, <1>10

-----------------------------------------------------------------------------
(* parseCfgSection leaves the options alone. *)

LEMMA SectionKeepsInv ==
    ASSUME Inv, stage = "section", stage' \in {"section", "done", "crashed"},
           UNCHANGED <<file, set, texts>>, at' \in Nat \ {0}, inSection' \in BOOLEAN,
           lines' \in {lines, <<>>}
    PROVE  Inv'
<1>1. Typed'
  <2>1. <<>> \in Seq(Entries) /\ Len(<<>>) = 0
    BY EmptySeq
  <2>2. CASE lines' = lines
    BY <2>2 DEF Inv, Typed
  <2>3. CASE lines' = <<>>
    BY <2>1, <2>3 DEF Inv, Typed
  <2> QED
    BY <2>2, <2>3
<1>2. TypeOK'
  <2>1. \A i \in DOMAIN lines' :
            /\ lines'[i].type \in {"OPTION", "SECTION", "END_SECTION"}
            /\ lines'[i].type = "OPTION" => lines'[i].value \in Values
    <3>1. CASE lines' = lines
      BY <3>1 DEF Inv, TypeOK
    <3>2. CASE lines' = <<>>
      BY <3>2
    <3> QED
      BY <3>1, <3>2
  <2>2. set' \in [Options -> Int] /\ (\A o \in Options : set'[o] \in Allowed(o)) 
        /\ texts' \in [TextOptions -> Values \cup {NoValue}] /\ Salt' \in Values
    BY DEF Inv, TypeOK, Salt
  <2> QED
    BY <2>1, <2>2 DEF TypeOK
<1>3. OptionsAsWritten'
  BY WrittenStays DEF Inv, OptionsAsWritten
<1>4. SettingsFit'
  <2>1. Salt' = Salt /\ (Hashes' <=> Hashes)
    BY DEF Hashes, Salt
  <2>2. \A o : Written(o)' = Written(o) /\ WrittenText(o)' = WrittenText(o)
    BY WrittenStays
  <2> QED
    BY <2>1, <2>2 DEF Inv, SettingsFit
<1>5. ListFollowsFile' /\ OptionsFollowList'
  BY DEF ListFollowsFile, OptionsFollowList
<1> QED
  BY <1>1, <1>2, <1>3, <1>4, <1>5 DEF Inv

LEMMA Initially == Init => Inv
<1> SUFFICES ASSUME Init PROVE Inv
  OBVIOUS
<1>1. /\ file \in Files /\ stage = "load" /\ at = 1 /\ inSection = FALSE /\ lines = <<>>
      /\ set = [o \in Options |-> Default(o)] 
      /\ texts = [o \in TextOptions |-> DefaultText(o)]
  BY DEF Init
<1>2. at = 1
  BY DEF Init
<1>3. file \in Seq(Line) /\ Len(file) \in Nat /\ lines \in Seq(Entries) /\ Len(lines) = 0
  BY <1>1, ConfigAssumption, EmptySeq, LenProperties
<1>4. set \in [Options -> Int] /\ \A o \in Options : set[o] = Default(o) /\ set[o] \in Allowed(o)
  BY <1>1, DefaultsFit
<1>5. TypeOK
  <2>1. texts \in [TextOptions -> Values \cup {NoValue}] /\ Salt \in Values
    <3>1. "" \in Values
      BY ConfigAssumption
    <3> QED
      BY <1>1, <3>1, Versions DEF DefaultText, Salt
  <2>2. inSection \in BOOLEAN
    BY <1>1, Zenon
  <2>3. \A i \in DOMAIN lines : FALSE
    <3>1. DOMAIN lines = 1 .. 0
      BY <1>3, LenProperties
    <3> QED
      BY <3>1
  <2>4. at \in Nat \ {0}
    BY <1>2
  <2>5. stage = "load"
    BY DEF Init
  <2> QED
    BY <1>4, <2>1, <2>2, <2>3, <2>4, <2>5 DEF TypeOK
<1>6. Typed
  BY <1>3 DEF Typed
<1>7. ListFollowsFile
  <2>1. at <= Len(file) + 1
    BY <1>2, <1>3
  <2>2. ~InSectionAt(1)
    BY DEF InSectionAt
  <2>3. \A o : SaidOf(o, 1) = {} /\ HeldOf(lines, o, 1) = {}
    BY DEF SaidOf, HeldOf
  <2>4. \A o : SaidText(o, 1) = {} /\ HeldText(lines, o, 1) = {}
    BY DEF SaidText, HeldText
  <2>5. Len(lines) + 1 = 1 /\ at = 1
    BY <1>2, <1>3
  <2>6. \A o : ListValue(lines, o, Len(lines) + 1) = FileValue(o, at)
    BY <2>3, <2>5 DEF ListValue, FileValue
  <2>7. \A o : ListText(lines, o, Len(lines) + 1) = FileText(o, at)
    BY <2>4, <2>5 DEF ListText, FileText
  <2> QED
    BY <1>1, <1>4, <2>1, <2>2, <2>5, <2>6, <2>7 DEF ListFollowsFile
<1>8. OptionsFollowList /\ OptionsAsWritten /\ SettingsFit
  BY <1>1 DEF OptionsFollowList, OptionsAsWritten, SettingsFit
<1> QED
  BY <1>5, <1>6, <1>7, <1>8 DEF Inv

LEMMA Preserved == Inv /\ [Next]_vars => Inv'
<1> SUFFICES ASSUME Inv, [Next]_vars PROVE Inv'
  OBVIOUS
<1>t. at \in Nat \ {0} /\ inSection \in BOOLEAN
  BY DEF Inv, TypeOK
<1>1. CASE IgnoreLine
  BY <1>1, IgnoreLineKeepsInv
<1>2. CASE BlankLine
  BY <1>2, BlankLineKeepsInv
<1>3. CASE HeaderLine
  BY <1>3, HeaderLineKeepsInv
<1>4. CASE TextLine
  BY <1>4, TextLineKeepsInv
<1>5. CASE EndOfFile
  BY <1>5, EndOfFileKeepsInv
<1>6. CASE ParseOption
  BY <1>6, ParseOptionKeepsInv
<1>7. CASE OptionsEnd
  BY <1>7, OptionsEndKeepsInv
<1>8. CASE PassLine
  <2>1. inSection' \in BOOLEAN
    BY <1>8, Zenon DEF PassLine
  <2> QED
    BY <1>t, <1>8, <2>1, SectionKeepsInv DEF PassLine, InList
<1>9. CASE NullName
  BY <1>t, <1>9, SectionKeepsInv DEF NullName, InList
<1>10. CASE ParseEntry
  BY <1>t, <1>10, SectionKeepsInv DEF ParseEntry, InList
<1>11. CASE SectionEnd
  BY <1>t, <1>11, SectionKeepsInv DEF SectionEnd
<1>12. CASE UNCHANGED vars
  <2> USE <1>12 DEF vars
  <2>1. TypeOK' /\ Typed'
    BY DEF Inv, TypeOK, Typed, Salt
  <2>2. ListFollowsFile'
    <3>1. \A i, o : Says(i, o)' <=> Says(i, o)
      BY DEF Says, InSectionAt
    <3>2. \A o : SaidOf(o, at)' = SaidOf(o, at)
      BY <3>1 DEF SaidOf
    <3>3. \A o : SaidText(o, at)' = SaidText(o, at)
      BY <3>1 DEF SaidText
    <3>4. \A o : FileValue(o, at)' = FileValue(o, at)
      BY <3>2 DEF FileValue
    <3>5. \A o : FileText(o, at)' = FileText(o, at)
      BY <3>3 DEF FileText
    <3>6. InSectionAt(at)' <=> InSectionAt(at)
      BY DEF InSectionAt
    <3> QED
      BY <3>4, <3>5, <3>6 DEF Inv, ListFollowsFile
  <2>3. OptionsFollowList'
    BY WrittenStays DEF Inv, OptionsFollowList
  <2>4. OptionsAsWritten'
    BY WrittenStays DEF Inv, OptionsAsWritten
  <2>5. SettingsFit'
    BY WrittenStays DEF Inv, SettingsFit, Hashes, Salt
  <2> QED
    BY <2>1, <2>2, <2>3, <2>4, <2>5 DEF Inv
<1> QED
  BY <1>1, <1>2, <1>3, <1>4, <1>5, <1>6, <1>7, <1>8, <1>9, <1>10, <1>11, <1>12 DEF Next

THEOREM Invariant == Spec => []Inv
<1> QED
  BY Initially, Preserved, PTL DEF Spec

(* Every option of reunion.cfg is at every moment within the range that
   createDefault and setParam give it. *)
THEOREM TypeCorrect == Spec => []TypeOK
<1>1. Inv => TypeOK
  BY DEF Inv
<1> QED
  BY <1>1, Invariant, PTL

(* For a file of any length, with any comments and sections in it: when
   Reunion_Cfg_LoadDefault is through with the options, each has the last value
   in its range that the file gives it outside of sections, or its default. *)
THEOREM OptionsAreThoseWritten == Spec => []OptionsAsWritten
<1>1. Inv => OptionsAsWritten
  BY DEF Inv
<1> QED
  BY <1>1, Invariant, PTL

(* Whatever the file says and in whatever order, the plugin never runs with an
   AuthVersion of 3 or more without both prefixes or without the common form of
   serial numbers, nor with a salt that is missing or too short unless the file
   gives one of the words that disable hashing, nor with AuthVersion 1 and the
   second prefix. *)
THEOREM VersionsFit == Spec => []SettingsFit
<1>1. Inv => SettingsFit
  BY DEF Inv
<1> QED
  BY <1>1, Invariant, PTL

-----------------------------------------------------------------------------
(* ipv4_parse.  The parser is a recursive function over the symbols; the     *)
(* reference definition finds the dots and the colon first.                  *)

(* The recursive functions exist. *)

IsProgress(text, n, f) ==
    f = [i \in 0 .. n |-> IF i = 0 THEN Start ELSE Symbol(f[i - 1], text[i], i)]

LEMMA ProgressExists == \A text : \A n \in Nat : \E f : IsProgress(text, n, f)
<1> SUFFICES ASSUME NEW text PROVE \A n \in Nat : \E f : IsProgress(text, n, f)
  OBVIOUS
<1> DEFINE Lacking == {n \in Nat : ~ \E f : IsProgress(text, n, f)}
<1> SUFFICES ASSUME Lacking # {} PROVE FALSE
  OBVIOUS
<1>1. PICK n \in Lacking : \A m \in Lacking : n <= m
  BY SmallestNumber
<1>2. n # 0
  <2>1. IsProgress(text, 0, [i \in 0 .. 0 |-> Start])
    BY DEF IsProgress
  <2> QED
    BY <2>1
<1>3. n - 1 \in Nat /\ n - 1 \notin Lacking
  BY <1>1, <1>2
<1>4. PICK f : IsProgress(text, n - 1, f)
  BY <1>3
<1> DEFINE g == [i \in 0 .. n |-> IF i = n THEN Symbol(f[n - 1], text[n], n) ELSE f[i]]
<1>5. \A i \in 0 .. n : g[i] = IF i = 0 THEN Start ELSE Symbol(g[i - 1], text[i], i)
  <2> SUFFICES ASSUME NEW i \in 0 .. n
               PROVE  g[i] = IF i = 0 THEN Start ELSE Symbol(g[i - 1], text[i], i)
    OBVIOUS
  <2>1. CASE i = n
    <3>1. n - 1 \in 0 .. n /\ n - 1 # n /\ n \in 0 .. n
      BY <1>2, <1>3
    <3>2. g[n - 1] = f[n - 1] /\ g[n] = Symbol(f[n - 1], text[n], n)
      BY <3>1
    <3> QED
      BY <1>2, <2>1, <3>2
  <2>2. CASE i # n
    <3>1. i \in 0 .. n - 1
      BY <2>2
    <3>2. g[i] = f[i]
      BY <2>2
    <3>3. f[i] = IF i = 0 THEN Start ELSE Symbol(f[i - 1], text[i], i)
      BY <1>4, <3>1 DEF IsProgress
    <3>4. i # 0 => g[i - 1] = f[i - 1]
      BY <3>1
    <3> QED
      BY <3>2, <3>3, <3>4
  <2> QED
    BY <2>1, <2>2
<1>6. IsProgress(text, n, g)
  <2> DEFINE h == [i \in 0 .. n |-> IF i = 0 THEN Start ELSE Symbol(g[i - 1], text[i], i)]
  <2>1. \A i \in 0 .. n : g[i] = h[i]
    BY <1>5
  <2>2. g = h
    BY <2>1, Zenon
  <2> QED
    BY <2>2 DEF IsProgress
<1> QED
  BY <1>6

(* where ipv4_parse is after no symbol, and after one more *)
LEMMA ProgressSteps ==
    ASSUME NEW text \in Seq(Nat)
    PROVE  /\ Progress(text)[0] = Start
           /\ \A i \in 1 .. Len(text) :
                 Progress(text)[i] = Symbol(Progress(text)[i - 1], text[i], i)
<1> DEFINE n == Len(text)
           p == Progress(text)
<1>1. n \in Nat
  OBVIOUS
<1>2. p = CHOOSE f : IsProgress(text, n, f)
  BY DEF Progress, IsProgress
<1>3. \E f : IsProgress(text, n, f)
  BY <1>1, ProgressExists
<1>4. IsProgress(text, n, CHOOSE f : IsProgress(text, n, f))
  BY <1>3, Zenon
<1>5. IsProgress(text, n, p)
  BY <1>2, <1>4
<1> HIDE DEF p, n
<1>6. \A i \in 0 .. n : p[i] = IF i = 0 THEN Start ELSE Symbol(p[i - 1], text[i], i)
  BY <1>5 DEF IsProgress
<1>7. p[0] = Start
  BY <1>1, <1>6
<1>8. \A i \in 1 .. n : p[i] = Symbol(p[i - 1], text[i], i)
  BY <1>1, <1>6
<1> QED
  BY <1>7, <1>8 DEF p, n

IsValue(text, a, n, f) ==
    f = [i \in a .. n |-> IF i = a THEN 0 ELSE 10 * f[i - 1] + text[i]]

LEMMA ValueExists == \A text : \A a \in Nat : \A n \in Nat : \E f : IsValue(text, a, a + n, f)
<1> SUFFICES ASSUME NEW text, NEW a \in Nat PROVE \A n \in Nat : \E f : IsValue(text, a, a + n, f)
  OBVIOUS
<1> DEFINE Lacking == {n \in Nat : ~ \E f : IsValue(text, a, a + n, f)}
<1> SUFFICES ASSUME Lacking # {} PROVE FALSE
  OBVIOUS
<1>1. PICK n \in Lacking : \A m \in Lacking : n <= m
  BY SmallestNumber
<1>2. n # 0
  <2>1. IsValue(text, a, a, [i \in a .. a |-> 0])
    BY DEF IsValue
  <2> QED
    BY <2>1
<1>3. n - 1 \in Nat /\ n - 1 \notin Lacking
  BY <1>1, <1>2
<1> DEFINE e == a + n
<1>4. PICK f : IsValue(text, a, e - 1, f)
  <2>1. a + (n - 1) = e - 1
    BY <1>3
  <2> QED
    BY <1>3, <2>1
<1> DEFINE g == [i \in a .. e |-> IF i = e THEN 10 * f[e - 1] + text[e] ELSE f[i]]
<1>5. \A i \in a .. e : g[i] = IF i = a THEN 0 ELSE 10 * g[i - 1] + text[i]
  <2> SUFFICES ASSUME NEW i \in a .. e
               PROVE  g[i] = IF i = a THEN 0 ELSE 10 * g[i - 1] + text[i]
    OBVIOUS
  <2>1. CASE i = e
    <3>1. e - 1 \in a .. e /\ e - 1 # e /\ e \in a .. e /\ e # a
      BY <1>2, <1>3
    <3>2. g[e - 1] = f[e - 1] /\ g[e] = 10 * f[e - 1] + text[e]
      BY <3>1
    <3> QED
      BY <2>1, <3>1, <3>2
  <2>2. CASE i # e
    <3>1. i \in a .. e - 1
      BY <2>2
    <3>2. g[i] = f[i]
      BY <2>2
    <3>3. f[i] = IF i = a THEN 0 ELSE 10 * f[i - 1] + text[i]
      BY <1>4, <3>1 DEF IsValue
    <3>4. i # a => g[i - 1] = f[i - 1]
      BY <3>1
    <3> QED
      BY <3>2, <3>3, <3>4
  <2> QED
    BY <2>1, <2>2
<1>6. IsValue(text, a, e, g)
  <2> DEFINE h == [i \in a .. e |-> IF i = a THEN 0 ELSE 10 * g[i - 1] + text[i]]
  <2>1. \A i \in a .. e : g[i] = h[i]
    BY <1>5
  <2>2. g = h
    BY <2>1, Zenon
  <2> QED
    BY <2>2 DEF IsValue
<1> QED
  BY <1>6

(* a number grows by one symbol *)
LEMMA DecimalSteps ==
    ASSUME NEW text \in Seq(Nat), NEW a \in 0 .. Len(text)
    PROVE  /\ Decimal(text, a, a) = 0
           /\ \A b \in a + 1 .. Len(text) :
                 Decimal(text, a, b) = 10 * Decimal(text, a, b - 1) + text[b]
<1> DEFINE n == Len(text)
           v == CHOOSE f : IsValue(text, a, n, f)
<1>1. n \in Nat /\ a \in Nat /\ n - a \in Nat /\ a + (n - a) = n
  OBVIOUS
<1>2. \A b : Decimal(text, a, b) = v[b]
  BY DEF Decimal, IsValue
<1>3. \E f : IsValue(text, a, n, f)
  BY <1>1, ValueExists
<1>4. IsValue(text, a, n, v)
  BY <1>3, Zenon
<1> HIDE DEF v, n
<1>5. \A i \in a .. n : v[i] = IF i = a THEN 0 ELSE 10 * v[i - 1] + text[i]
  BY <1>4 DEF IsValue
<1>6. v[a] = 0
  BY <1>1, <1>5
<1>7. \A i \in a + 1 .. n : v[i] = 10 * v[i - 1] + text[i]
  BY <1>1, <1>5
<1> QED
  BY <1>2, <1>6, <1>7 DEF n

LEMMA DecimalType ==
    ASSUME NEW text \in Seq(Nat), NEW a \in 0 .. Len(text), NEW b \in a .. Len(text)
    PROVE  Decimal(text, a, b) \in Nat
<1> DEFINE Wrong == {i \in a .. Len(text) : Decimal(text, a, i) \notin Nat}
<1> SUFFICES ASSUME Wrong # {} PROVE FALSE
  OBVIOUS
<1>0. Wrong \in SUBSET Nat
  OBVIOUS
<1>1. PICK i \in Wrong : \A j \in Wrong : i <= j
  BY <1>0, SmallestNumber
<1>2. i # a
  <2>1. Decimal(text, a, a) = 0
    BY DecimalSteps
  <2> QED
    BY <1>1, <2>1
<1>3. i \in a + 1 .. Len(text) /\ i - 1 \in a .. Len(text)
  BY <1>2
<1>4. Decimal(text, a, i - 1) \in Nat
  BY <1>1, <1>3
<1>5. Decimal(text, a, i) = 10 * Decimal(text, a, i - 1) + text[i]
  BY <1>3, DecimalSteps
<1>6. text[i] \in Nat
  BY <1>3
<1>7. \A x, y \in Nat : 10 * x + y \in Nat
  OBVIOUS
<1>8. Decimal(text, a, i) \in Nat
  BY <1>4, <1>5, <1>6, <1>7
<1> QED
  BY <1>8
-----------------------------------------------------------------------------
(* The parser after n symbols, none of them a colon: the octets are those
   between the dots, and data is the number behind the last of them. *)

DotEdge(text, n, k) == IF k = 0 THEN 0 ELSE Nth(Dots(text, n), k)

Good(text, n) ==
    LET m == Cardinality(Dots(text, n)) IN
    /\ m <= 3
    /\ \A k \in 1 .. m : IsOctet(text, DotEdge(text, n, k - 1), DotEdge(text, n, k))
    /\ \A i \in DotEdge(text, n, m) + 1 .. n : text[i] \in Digits
    /\ Decimal(text, DotEdge(text, n, m), n) <= MaxOctet

Reached(text, n) ==
    LET m == Cardinality(Dots(text, n)) IN
    Parser([k \in 1 .. m |-> Decimal(text, DotEdge(text, n, k - 1), DotEdge(text, n, k) - 1)],
           Decimal(text, DotEdge(text, n, m), n),
           DotEdge(text, n, m) < n)

LEMMA DotsAre ==
    ASSUME NEW text, NEW n \in Nat
    PROVE  /\ Dots(text, n) \in SUBSET Int /\ IsFiniteSet(Dots(text, n))
           /\ Cardinality(Dots(text, n)) \in Nat
           /\ \A i \in Dots(text, n) : i < n + 1
           /\ \A k \in 0 .. Cardinality(Dots(text, n)) : DotEdge(text, n, k) \in 0 .. n
<1>1. Dots(text, n) \subseteq 1 .. n
  BY DEF Dots
<1>2. IsFiniteSet(Dots(text, n))
  BY <1>1, FS_Interval, FS_Subset
<1>3. Dots(text, n) \in SUBSET Int /\ Cardinality(Dots(text, n)) \in Nat
  BY <1>1, <1>2, FS_CardinalityType
<1>4. \A k \in 1 .. Cardinality(Dots(text, n)) : Nth(Dots(text, n), k) \in 1 .. n
  BY <1>1, <1>2, <1>3, NthRank
<1>5. \A k \in 0 .. Cardinality(Dots(text, n)) : DotEdge(text, n, k) \in 0 .. n
  BY <1>3, <1>4 DEF DotEdge
<1> QED
  BY <1>1, <1>2, <1>3, <1>5

LEMMA DotsGrow ==
    ASSUME NEW text, NEW n \in Nat
    PROVE  LET m == Cardinality(Dots(text, n)) IN
           /\ text[n + 1] # Dot => Dots(text, n + 1) = Dots(text, n)
           /\ text[n + 1] = Dot =>
                /\ Cardinality(Dots(text, n + 1)) = m + 1
                /\ DotEdge(text, n + 1, m + 1) = n + 1
                /\ \A k \in 0 .. m : DotEdge(text, n + 1, k) = DotEdge(text, n, k)
<1> DEFINE m == Cardinality(Dots(text, n))
<1>1. ASSUME text[n + 1] # Dot PROVE Dots(text, n + 1) = Dots(text, n)
  BY <1>1 DEF Dots
<1>2. ASSUME text[n + 1] = Dot
      PROVE  /\ Cardinality(Dots(text, n + 1)) = m + 1
             /\ DotEdge(text, n + 1, m + 1) = n + 1
             /\ \A k \in 0 .. m : DotEdge(text, n + 1, k) = DotEdge(text, n, k)
  <2>1. Dots(text, n + 1) = Dots(text, n) \cup {n + 1}
    BY <1>2 DEF Dots
  <2>2. /\ Cardinality(Dots(text, n + 1)) = m + 1
        /\ Nth(Dots(text, n + 1), m + 1) = n + 1
        /\ \A k \in 1 .. m : Nth(Dots(text, n + 1), k) = Nth(Dots(text, n), k)
    <3> DEFINE D == Dots(text, n)
    <3>1. D \in SUBSET Int /\ IsFiniteSet(D) /\ n + 1 \in Int /\ \A i \in D : i < n + 1
      BY DotsAre
    <3> HIDE DEF D
    <3>2. /\ Cardinality(D \cup {n + 1}) = Cardinality(D) + 1
          /\ Nth(D \cup {n + 1}, Cardinality(D) + 1) = n + 1
          /\ \A k \in 1 .. Cardinality(D) : Nth(D \cup {n + 1}, k) = Nth(D, k)
      BY <3>1, NthGrows
    <3> QED
      BY <2>1, <3>2 DEF D
  <2>3. m \in Nat
    BY DotsAre
  <2> QED
    BY <2>2, <2>3 DEF DotEdge
<1> QED
  BY <1>1, <1>2

LEMMA Symbols == /\ Dot \notin Digits /\ Colon \notin Digits /\ Dot # Colon
                 /\ Digits \subseteq Nat
BY DEF Dot, Colon, Digits

(* one more digit *)
LEMMA DigitRead ==
    ASSUME NEW text \in Seq(Nat), NEW n \in 0 .. Len(text) - 1, text[n + 1] \in Digits
    PROVE  /\ Good(text, n + 1) => Good(text, n)
           /\ Good(text, n) => LET p == Symbol(Reached(text, n), text[n + 1], n + 1) IN
                IF Good(text, n + 1) THEN p = Reached(text, n + 1) ELSE p.bad
<1> DEFINE c == text[n + 1]
           D == Dots(text, n)
           m == Cardinality(D)
           s == DotEdge(text, n, m)
           d == Decimal(text, s, n)
<1>0. MaxOctet \in Nat
  BY ConfigAssumption
<1>1. c \in Nat /\ c # Dot /\ n \in Nat /\ n + 1 \in 1 .. Len(text)
  BY Symbols
<1>2. Dots(text, n + 1) = D /\ \A k : DotEdge(text, n + 1, k) = DotEdge(text, n, k)
  BY <1>1, DotsGrow DEF DotEdge
<1>3. m \in Nat /\ s \in 0 .. n
  BY <1>1, DotsAre
<1>4. d \in Nat /\ Decimal(text, s, n + 1) = 10 * d + c
  <2>1. s \in 0 .. Len(text) /\ n \in s .. Len(text) /\ n + 1 \in s + 1 .. Len(text)
    BY <1>1, <1>3
  <2>2. Decimal(text, s, n + 1) = 10 * Decimal(text, s, (n + 1) - 1) + text[n + 1]
    BY <2>1, DecimalSteps
  <2>3. (n + 1) - 1 = n
    BY <1>1
  <2>4. d \in Nat
    BY <2>1, DecimalType
  <2> QED
    BY <2>2, <2>3, <2>4
<1> DEFINE octs == [k \in 1 .. m |->
                    Decimal(text, DotEdge(text, n, k - 1), DotEdge(text, n, k) - 1)]
           before == m <= 3 /\ \A k \in 1 .. m :
                        IsOctet(text, DotEdge(text, n, k - 1), DotEdge(text, n, k))
           digits == \A i \in s + 1 .. n : text[i] \in Digits
<1>5. Good(text, n) <=> before /\ digits /\ d <= MaxOctet
  BY DEF Good
<1>6. Good(text, n + 1) <=> before /\ digits /\ 10 * d + c <= MaxOctet
  <2>1. (\A i \in s + 1 .. n + 1 : text[i] \in Digits) <=> digits
    BY <1>1, <1>3
  <2> QED
    BY <1>2, <1>4, <2>1 DEF Good
<1>7. Reached(text, n) = Parser(octs, d, s < n)
  BY DEF Reached
<1>8. Reached(text, n + 1) = Parser(octs, 10 * d + c, TRUE)
  <2>1. Reached(text, n + 1) = Parser(octs, Decimal(text, s, n + 1), s < n + 1)
    BY <1>2 DEF Reached, DotEdge
  <2>2. (s < n + 1) = TRUE
    BY <1>1, <1>3
  <2> HIDE DEF octs, s, d
  <2> QED
    BY <1>4, <2>1, <2>2
<1> HIDE DEF m, s, d, octs, before, digits
<1>9. Good(text, n + 1) => Good(text, n)
  BY <1>0, <1>1, <1>4, <1>5, <1>6
<1>10. ASSUME Good(text, n)
       PROVE  LET p == Symbol(Reached(text, n), c, n + 1) IN
              IF Good(text, n + 1) THEN p = Reached(text, n + 1) ELSE p.bad
  <2> DEFINE r == Reached(text, n)
  <2>1. r.bad = FALSE /\ r.colon = 0 /\ r.data = d /\ r.octets = octs
    BY <1>7 DEF Parser
  <2>2. Symbol(r, c, n + 1) =
            IF d * 10 + c > MaxOctet THEN Reject(r) ELSE Parser(octs, d * 10 + c, TRUE)
    BY <1>1, <2>1, Symbols DEF Symbol
  <2>3. Reject(r).bad
    BY <1>7 DEF Reject, Parser
  <2>4. Parser(octs, d * 10 + c, TRUE) = Reached(text, n + 1)
    <3>1. d * 10 + c = 10 * d + c
      BY <1>1, <1>4
    <3> QED
      BY <1>8, <3>1
  <2>5. (d * 10 + c > MaxOctet) <=> ~(10 * d + c <= MaxOctet)
    BY <1>0, <1>1, <1>4
  <2>6. before /\ digits
    BY <1>5, <1>10
  <2> HIDE DEF r
  <2>7. CASE d * 10 + c > MaxOctet
    BY <1>6, <2>2, <2>3, <2>5, <2>7 DEF r
  <2>8. CASE ~(d * 10 + c > MaxOctet)
    BY <1>6, <2>2, <2>4, <2>5, <2>6, <2>8 DEF r
  <2> QED
    BY <2>7, <2>8
<1> QED
  BY <1>9, <1>10

(* A dot ends an octet, if there is one to end. *)
LEMMA DotRead ==
    ASSUME NEW text \in Seq(Nat), NEW n \in 0 .. Len(text) - 1, text[n + 1] = Dot
    PROVE  /\ Good(text, n + 1) => Good(text, n)
           /\ Good(text, n) => LET p == Symbol(Reached(text, n), text[n + 1], n + 1) IN
                IF Good(text, n + 1) THEN p = Reached(text, n + 1) ELSE p.bad
<1> DEFINE D == Dots(text, n)
           m == Cardinality(D)
           s == DotEdge(text, n, m)
           d == Decimal(text, s, n)
           octet(k) == Decimal(text, DotEdge(text, n, k - 1), DotEdge(text, n, k) - 1)
           octs == [k \in 1 .. m |-> octet(k)]
           more == [k \in 1 .. m + 1 |-> IF k = m + 1 THEN d ELSE octet(k)]
           before == \A k \in 1 .. m :
                        IsOctet(text, DotEdge(text, n, k - 1), DotEdge(text, n, k))
           digits == \A i \in s + 1 .. n : text[i] \in Digits
<1>0. MaxOctet \in Nat
  BY ConfigAssumption
<1>1. n \in Nat /\ n + 1 \in 1 .. Len(text) /\ n + 1 \in 0 .. Len(text) /\ (n + 1) - 1 = n
  OBVIOUS
<1>2. /\ Cardinality(Dots(text, n + 1)) = m + 1
      /\ DotEdge(text, n + 1, m + 1) = n + 1
      /\ \A k \in 0 .. m : DotEdge(text, n + 1, k) = DotEdge(text, n, k)
  BY <1>1, DotsGrow
<1>3. m \in Nat /\ s \in 0 .. n
  BY <1>1, DotsAre
<1>4. \A k \in 1 .. m : DotEdge(text, n + 1, k - 1) = DotEdge(text, n, k - 1)
                          /\ DotEdge(text, n + 1, k) = DotEdge(text, n, k)
  <2>1. \A k \in 1 .. m : k \in 0 .. m /\ k - 1 \in 0 .. m
    BY <1>3
  <2> QED
    BY <1>2, <2>1
<1>5. DotEdge(text, n + 1, (m + 1) - 1) = s
  <2>1. (m + 1) - 1 = m /\ m \in 0 .. m
    BY <1>3
  <2> QED
    BY <1>2, <2>1
<1>6. \A k \in 1 .. m + 1 : k \in 1 .. m \/ k = m + 1
  <2>1. m \in Nat
    BY <1>3
  <2> HIDE DEF m
  <2> QED
    BY <2>1
<1>7. IsOctet(text, s, n + 1) <=> s < n /\ digits /\ d <= MaxOctet
  BY <1>1, <1>3 DEF IsOctet
<1>8. Good(text, n) <=> m <= 3 /\ before /\ digits /\ d <= MaxOctet
  BY DEF Good
<1>9. Good(text, n + 1) <=> m + 1 <= 3 /\ before /\ IsOctet(text, s, n + 1)
  <2>1. (\A k \in 1 .. m + 1 :
            IsOctet(text, DotEdge(text, n + 1, k - 1), DotEdge(text, n + 1, k)))
        <=> before /\ IsOctet(text, s, n + 1)
    <3>1. m + 1 \in 1 .. m + 1 /\ \A k \in 1 .. m : k \in 1 .. m + 1
      BY <1>3
    <3> QED
      BY <1>2, <1>4, <1>5, <1>6, <3>1
  <2>2. \A i \in (n + 1) + 1 .. n + 1 : FALSE
    BY <1>1
  <2>3. Decimal(text, n + 1, n + 1) <= MaxOctet
    BY <1>0, <1>1, DecimalSteps
  <2> QED
    BY <1>2, <2>1, <2>2, <2>3 DEF Good
<1>10. Reached(text, n) = Parser(octs, d, s < n)
  BY DEF Reached
<1>11. Reached(text, n + 1) = Parser(more, 0, FALSE)
  <2> DEFINE after(k) == Decimal(text, DotEdge(text, n + 1, k - 1), DotEdge(text, n + 1, k) - 1)
  <2>1. Reached(text, n + 1) =
            Parser([k \in 1 .. m + 1 |-> after(k)], Decimal(text, n + 1, n + 1), n + 1 < n + 1)
    BY <1>2 DEF Reached
  <2>2. \A k \in 1 .. m + 1 : after(k) = IF k = m + 1 THEN d ELSE octet(k)
    BY <1>1, <1>2, <1>4, <1>5, <1>6
  <2>3. [k \in 1 .. m + 1 |-> after(k)] = more
    BY <2>2
  <2>4. Decimal(text, n + 1, n + 1) = 0 /\ (n + 1 < n + 1) = FALSE
    BY <1>1, DecimalSteps
  <2> HIDE DEF after, more
  <2> QED
    BY <2>1, <2>3, <2>4
<1>12. Append(octs, d) = more /\ Len(octs) = m
  <2>1. DOMAIN octs = 1 .. m
    OBVIOUS
  <2>2. Len(octs) = m
    BY <1>3, <2>1
  <2>3. Append(octs, d) = [k \in 1 .. m + 1 |-> IF k = m + 1 THEN d ELSE octs[k]]
    BY <1>3, <2>2
  <2>4. \A k \in 1 .. m + 1 : (IF k = m + 1 THEN d ELSE octs[k])
                                = IF k = m + 1 THEN d ELSE octet(k)
    BY <1>6
  <2> QED
    BY <2>2, <2>3, <2>4
<1> HIDE DEF m, s, d, octs, before, digits, more
<1>13. Good(text, n + 1) => Good(text, n)
  BY <1>3, <1>7, <1>8, <1>9
<1>14. ASSUME Good(text, n)
       PROVE  LET p == Symbol(Reached(text, n), Dot, n + 1) IN
              IF Good(text, n + 1) THEN p = Reached(text, n + 1) ELSE p.bad
  <2> DEFINE r == Reached(text, n)
  <2>1. r.bad = FALSE /\ r.colon = 0 /\ r.data = d /\ r.octets = octs /\ r.symbol = (s < n)
    <3> DEFINE b == s < n
    <3>1. r = Parser(octs, d, b)
      BY <1>10
    <3> HIDE DEF b, r
    <3>2. r.symbol = b /\ r.bad = FALSE /\ r.colon = 0 /\ r.data = d /\ r.octets = octs
      BY <3>1 DEF Parser
    <3> QED
      BY <3>2 DEF b
  <2>2. Symbol(r, Dot, n + 1) = IF m < 3 THEN OctetEnds(r) ELSE Reject(r)
    BY <1>12, <2>1, Symbols DEF Symbol
  <2>3. Reject(r).bad
    BY <1>10 DEF Reject, Parser
  <2>4. OctetEnds(r) = IF s < n THEN Reached(text, n + 1) ELSE Reject(r)
    BY <1>11, <1>12, <2>1 DEF OctetEnds
  <2> HIDE DEF r
  <2>5. Good(text, n + 1) <=> m < 3 /\ s < n
    BY <1>3, <1>7, <1>8, <1>9, <1>14
  <2> QED
    BY <2>2, <2>3, <2>4, <2>5 DEF r
<1> QED
  BY <1>13, <1>14

(* Nothing else is accepted. *)
LEMMA OtherRead ==
    ASSUME NEW text \in Seq(Nat), NEW n \in 0 .. Len(text) - 1,
           text[n + 1] \notin Digits \cup {Dot, Colon}
    PROVE  /\ ~Good(text, n + 1)
           /\ Good(text, n) => Symbol(Reached(text, n), text[n + 1], n + 1).bad
<1> DEFINE D == Dots(text, n)
           m == Cardinality(D)
           s == DotEdge(text, n, m)
<1>1. n \in Nat
  OBVIOUS
<1>2. Dots(text, n + 1) = D /\ m \in Nat /\ s \in 0 .. n
  BY <1>1, DotsGrow, DotsAre
<1>3. DotEdge(text, n + 1, m) = s /\ n + 1 \in s + 1 .. n + 1
  BY <1>1, <1>2 DEF DotEdge
<1>4. ~Good(text, n + 1)
  BY <1>2, <1>3 DEF Good
<1> DEFINE r == Reached(text, n)
<1>5. r.bad = FALSE /\ r.colon = 0 /\ Reject(r).bad
  BY DEF Reached, Parser, Reject
<1>6. Symbol(r, text[n + 1], n + 1) = Reject(r)
  BY <1>5 DEF Symbol
<1> QED
  BY <1>4, <1>5, <1>6

(* Up to the first colon, the parser is where the symbols so far lead. *)
Follows(text, n) ==
    IF Good(text, n) THEN Progress(text)[n] = Reached(text, n) ELSE Progress(text)[n].bad

LEMMA ProgressFollows ==
    ASSUME NEW text \in Seq(Nat), NEW n \in 0 .. Len(text),
           \A i \in 1 .. n : text[i] # Colon
    PROVE  Follows(text, n)
<1> DEFINE Wrong == {i \in 0 .. n : ~Follows(text, i)}
<1> SUFFICES ASSUME Wrong # {} PROVE FALSE
  OBVIOUS
<1>0. Wrong \in SUBSET Nat
  OBVIOUS
<1>1. PICK i \in Wrong : \A j \in Wrong : i <= j
  BY <1>0, SmallestNumber
<1>2. i # 0
  <2>1. Dots(text, 0) = {}
    BY DEF Dots
  <2>2. Cardinality(Dots(text, 0)) = 0
    BY <2>1, FS_EmptySet
  <2>3. Reached(text, 0) = Start
    <3>1. Decimal(text, 0, 0) = 0 /\ DotEdge(text, 0, 0) = 0 /\ (0 < 0) = FALSE
      BY DecimalSteps DEF DotEdge
    <3>2. [k \in 1 .. 0 |-> Decimal(text, DotEdge(text, 0, k - 1), DotEdge(text, 0, k) - 1)] = <<>>
      OBVIOUS
    <3> QED
      BY <2>2, <3>1, <3>2 DEF Reached, Start
  <2>4. Progress(text)[0] = Start
    BY ProgressSteps
  <2>5. Good(text, 0)
    <3>1. Decimal(text, 0, 0) <= MaxOctet /\ DotEdge(text, 0, 0) = 0
      <4>1. MaxOctet \in Nat
        BY ConfigAssumption
      <4>2. 0 \in 0 .. Len(text)
        OBVIOUS
      <4> QED
        BY <4>1, <4>2, DecimalSteps DEF DotEdge
    <3> QED
      BY <2>2, <3>1 DEF Good
  <2> QED
    BY <1>1, <2>3, <2>4, <2>5 DEF Follows
<1> DEFINE j == i - 1
           c == text[i]
<1>3. /\ i \in 1 .. n /\ i \in 1 .. Len(text) /\ j + 1 = i
      /\ j \in 0 .. Len(text) - 1 /\ j \in 0 .. n /\ ~(i <= j)
  BY <1>2
<1>4. Follows(text, j)
  BY <1>1, <1>3
<1>5. Progress(text)[i] = Symbol(Progress(text)[j], c, i)
  BY <1>3, ProgressSteps
<1>6. c # Colon
  BY <1>3
<1>7. /\ Good(text, i) => Good(text, j)
      /\ Good(text, j) => LET p == Symbol(Reached(text, j), c, i) IN
            IF Good(text, i) THEN p = Reached(text, i) ELSE p.bad
  <2> HIDE DEF j
  <2>1. CASE c \in Digits
    BY <1>3, <2>1, DigitRead
  <2>2. CASE c = Dot
    BY <1>3, <2>2, DotRead
  <2>3. CASE c \notin Digits \cup {Dot, Colon}
    BY <1>3, <2>3, OtherRead
  <2> QED
    BY <1>6, <2>1, <2>2, <2>3
<1> HIDE DEF j, c
<1>8. Follows(text, i)
  <2>1. CASE Good(text, j)
    BY <1>4, <1>5, <1>7, <2>1 DEF Follows
  <2>2. CASE ~Good(text, j)
    <3>1. Progress(text)[j].bad /\ ~Good(text, i)
      BY <1>4, <1>7, <2>2 DEF Follows
    <3>2. Progress(text)[i] = Progress(text)[j]
      BY <1>5, <3>1 DEF Symbol
    <3> QED
      BY <3>1, <3>2 DEF Follows
  <2> QED
    BY <2>1, <2>2
<1> QED
  BY <1>1, <1>8

(* Once it has rejected the text or come to a colon, the parser stays there. *)
LEMMA ProgressStops ==
    ASSUME NEW text \in Seq(Nat), NEW n \in 0 .. Len(text),
           Progress(text)[n].bad \/ Progress(text)[n].colon # 0
    PROVE  Progress(text)[Len(text)] = Progress(text)[n]
<1> DEFINE Moved == {i \in n .. Len(text) : Progress(text)[i] # Progress(text)[n]}
<1>1. SUFFICES ASSUME Moved # {} PROVE FALSE
  <2>1. Len(text) \in n .. Len(text)
    OBVIOUS
  <2> QED
    BY <2>1
<1>2. Moved \in SUBSET Nat
  OBVIOUS
<1>3. PICK i \in Moved : \A j \in Moved : i <= j
  BY <1>1, <1>2, SmallestNumber
<1>4. i # n
  BY <1>3
<1>5. i \in 1 .. Len(text) /\ i - 1 \in n .. Len(text) /\ ~(i <= i - 1)
  BY <1>4
<1>6. Progress(text)[i - 1] = Progress(text)[n]
  BY <1>3, <1>5
<1>7. Progress(text)[i] = Symbol(Progress(text)[i - 1], text[i], i)
  BY <1>5, ProgressSteps
<1>8. Progress(text)[i] = Progress(text)[n]
  BY <1>6, <1>7 DEF Symbol
<1> QED
  BY <1>3, <1>8

LEMMA BehindIs ==
    ASSUME NEW text \in Seq(Nat)
    PROVE  /\ Behind(text) \in 1 .. Len(text) + 1
           /\ \A i \in 1 .. Behind(text) - 1 : text[i] # Colon
           /\ Behind(text) <= Len(text) => text[Behind(text)] = Colon
<1> DEFINE S == {i \in DOMAIN text : text[i] = Colon} \cup {Len(text) + 1}
<1>1. DOMAIN text = 1 .. Len(text) /\ Len(text) \in Nat
  OBVIOUS
<1>2. S \subseteq 1 .. Len(text) + 1 /\ S # {}
  BY <1>1
<1>3. S \in SUBSET Nat /\ S \in SUBSET Int /\ IsFiniteSet(S)
  <2>1. IsFiniteSet(1 .. Len(text) + 1) /\ 1 .. Len(text) + 1 \subseteq Nat
    BY <1>1, FS_Interval
  <2> HIDE DEF S
  <2>2. S \in SUBSET (1 .. Len(text) + 1)
    BY <1>2
  <2>3. IsFiniteSet(S)
    BY <2>1, <2>2, FS_Subset
  <2>4. S \in SUBSET Nat /\ S \in SUBSET Int
    BY <1>1, <2>2
  <2> QED
    BY <2>3, <2>4
<1>4. PICK x \in S : \A y \in S : x <= y
  BY <1>2, <1>3, SmallestNumber
<1>5. Behind(text) = x
  BY <1>3, <1>4, NthFirst DEF Behind
<1>6. x \in 1 .. Len(text) + 1
  BY <1>2
<1>7. ASSUME NEW i \in 1 .. x - 1 PROVE text[i] # Colon
  <2>1. i \in 1 .. Len(text) /\ ~(x <= i)
    BY <1>1, <1>6
  <2> QED
    BY <1>1, <1>4, <2>1
<1>8. x <= Len(text) => text[x] = Colon
  BY <1>1
<1> QED
  BY <1>5, <1>6, <1>7, <1>8

(* Three ways to put four octets and a port together. *)
LEMMA FiveParts ==
    ASSUME NEW T, NEW g \in [1 .. 4 -> T], NEW x \in T
    PROVE  LET three == [k \in 1 .. 3 |-> g[k]]
               whole == [k \in 1 .. 4 |-> g[k]] \o <<x>>
           IN  three \o <<g[4], x>> = whole /\ Append(Append(three, g[4]), x) = whole
<1> DEFINE three == [k \in 1 .. 3 |-> g[k]]
           four  == [k \in 1 .. 4 |-> g[k]]
<1>1. /\ three \in Seq(T) /\ Len(three) = 3 /\ \A k \in 1 .. 3 : three[k] = g[k]
      /\ four \in Seq(T) /\ Len(four) = 4 /\ \A k \in 1 .. 4 : four[k] = g[k]
  OBVIOUS
<1>2. g[4] \in T
  OBVIOUS
<1>3. /\ <<x>> \in Seq(T) /\ <<g[4]>> \in Seq(T) /\ <<g[4], x>> \in Seq(T)
      /\ <<g[4], x>> = Append(<<g[4]>>, x)
  BY <1>2
<1> HIDE DEF three, four
<1>4. four = Append(three, g[4])
  <2>1. PICK e : e = g[4]
    OBVIOUS
  <2>2. e \in T /\ three \in Seq(T)
    BY <1>1, <1>2, <2>1
  <2>3. \A s \in Seq(T) : /\ Append(s, e) \in Seq(T) /\ Len(Append(s, e)) = Len(s) + 1
                          /\ \A k \in 1 .. Len(s) : Append(s, e)[k] = s[k]
                          /\ Append(s, e)[Len(s) + 1] = e
    BY <2>2, AppendProperties
  <2>4. /\ Append(three, e) \in Seq(T) /\ Len(Append(three, e)) = 3 + 1
        /\ \A k \in 1 .. 3 : Append(three, e)[k] = three[k]
        /\ Append(three, e)[3 + 1] = e
    <3>1. /\ Append(three, e) \in Seq(T) /\ Len(Append(three, e)) = Len(three) + 1
          /\ \A k \in 1 .. Len(three) : Append(three, e)[k] = three[k]
          /\ Append(three, e)[Len(three) + 1] = e
      BY <2>2, <2>3, Zenon
    <3> QED
      BY <1>1, <3>1, Zenon
  <2>7. \A k \in 1 .. 4 : k \in 1 .. 3 \/ k = 4
    OBVIOUS
  <2>8. \A k \in 1 .. 4 : four[k] = Append(three, e)[k]
    BY <1>1, <2>1, <2>4, <2>7
  <2> QED
    BY <1>1, <2>1, <2>4, <2>8, SeqEqual
<1>5. four \o <<x>> = Append(Append(three, g[4]), x)
  BY <1>1, <1>4, AppendIsConcat
<1>6. three \o <<g[4], x>> = four \o <<x>>
  <2>1. three \o (<<g[4]>> \o <<x>>) = (three \o <<g[4]>>) \o <<x>>
    BY <1>1, <1>3, ConcatAssociative
  <2>2. <<g[4]>> \o <<x>> = <<g[4], x>>
    BY <1>3, AppendIsConcat
  <2>3. three \o <<g[4]>> = four
    BY <1>1, <1>2, <1>4, AppendIsConcat
  <2> QED
    BY <2>1, <2>2, <2>3
<1> QED
  BY <1>5, <1>6 DEF three, four

(* What a text without a colon before n + 1 must be for it to be an address. *)
Complete(text, n) ==
    /\ Good(text, n) /\ Cardinality(Dots(text, n)) = 3
    /\ DotEdge(text, n, 3) < n

Octet(text, n, k) ==
    IF k = 4 THEN Decimal(text, DotEdge(text, n, 3), n)
    ELSE Decimal(text, DotEdge(text, n, k - 1), DotEdge(text, n, k) - 1)

Port(text, e) == IF e > Len(text) THEN 0 ELSE PortOf(text, e)

LEMMA AddressIs ==
    ASSUME NEW text \in Seq(Nat), NEW n \in 0 .. Len(text), Behind(text) = n + 1
    PROVE  Address(text) = IF Complete(text, n)
                           THEN [k \in 1 .. 4 |-> Octet(text, n, k)] \o <<Port(text, n + 1)>>
                           ELSE <<>>
<1> DEFINE dots == Dots(text, n)
           Edge(k) == CASE k = 0 -> 0 [] k = 4 -> n + 1 [] OTHER -> Nth(dots, k)
           valid == Cardinality(dots) = 3 /\ \A k \in 1 .. 4 : IsOctet(text, Edge(k - 1), Edge(k))
           s == DotEdge(text, n, 3)
<1>1. n \in Nat /\ (n + 1) - 1 = n
  OBVIOUS
<1>2. Edge(4) = n + 1 /\ \A k \in 0 .. 3 : Edge(k) = DotEdge(text, n, k)
  BY DEF DotEdge
<1>3. \A k \in 1 .. 4 : k = 4 \/ (k \in 1 .. 3 /\ k \in 0 .. 3 /\ k - 1 \in 0 .. 3)
  OBVIOUS
<1>4. Address(text) = IF valid
                      THEN [k \in 1 .. 4 |-> Decimal(text, Edge(k - 1), Edge(k) - 1)]
                              \o <<Port(text, n + 1)>>
                      ELSE <<>>
  <2> DEFINE At(f, g) == LET d == Dots(text, g)
                             E(k) == CASE k = 0 -> 0 [] k = 4 -> f [] OTHER -> Nth(d, k)
                         IN  IF Cardinality(d) = 3 /\ \A k \in 1 .. 4 : IsOctet(text, E(k - 1), E(k))
                             THEN [k \in 1 .. 4 |-> Decimal(text, E(k - 1), E(k) - 1)]
                                     \o <<Port(text, f)>>
                             ELSE <<>>
  <2>1. Address(text) = At(Behind(text), Behind(text) - 1)
    BY Zenon DEF Address, Port
  <2>2. At(n + 1, n) = IF valid
                       THEN [k \in 1 .. 4 |-> Decimal(text, Edge(k - 1), Edge(k) - 1)]
                               \o <<Port(text, n + 1)>>
                       ELSE <<>>
    BY Zenon
  <2>3. Behind(text) = n + 1 /\ Behind(text) - 1 = n
    BY <1>1
  <2> HIDE DEF At
  <2>4. Address(text) = At(n + 1, n)
    BY <2>1, <2>3
  <2> QED
    BY <2>2, <2>4
<1> HIDE DEF Edge
<1>5. \A k \in 1 .. 4 : Decimal(text, Edge(k - 1), Edge(k) - 1) = Octet(text, n, k)
  <2>1. 4 - 1 = 3 /\ 3 \in 0 .. 3
    OBVIOUS
  <2> QED
    BY <1>1, <1>2, <1>3, <2>1 DEF Octet
<1>6. [k \in 1 .. 4 |-> Decimal(text, Edge(k - 1), Edge(k) - 1)]
        = [k \in 1 .. 4 |-> Octet(text, n, k)]
  BY <1>5
<1>7. valid <=> Complete(text, n)
  <2> SUFFICES ASSUME Cardinality(dots) = 3 PROVE valid <=> Complete(text, n)
    BY DEF Complete
  <2>1. s \in 0 .. n
    <3>1. 3 \in 0 .. Cardinality(dots)
      OBVIOUS
    <3> QED
      BY <1>1, <3>1, DotsAre
  <2>2. IsOctet(text, s, n + 1) <=> /\ s < n
                                    /\ \A i \in s + 1 .. n : text[i] \in Digits
                                    /\ Decimal(text, s, n) <= MaxOctet
    BY <1>1, <2>1 DEF IsOctet
  <2>3. valid <=> /\ \A k \in 1 .. 3 : IsOctet(text, DotEdge(text, n, k - 1), DotEdge(text, n, k))
                  /\ IsOctet(text, s, n + 1)
    <3>1. 4 - 1 = 3 /\ 3 \in 0 .. 3 /\ 4 \in 1 .. 4
      OBVIOUS
    <3>2. \A k \in 1 .. 3 : k \in 1 .. 4 /\ k \in 0 .. 3 /\ k - 1 \in 0 .. 3
      OBVIOUS
    <3>3. IsOctet(text, Edge(4 - 1), Edge(4)) <=> IsOctet(text, s, n + 1)
      BY <1>2, <3>1
    <3>4. \A k \in 1 .. 3 : IsOctet(text, Edge(k - 1), Edge(k))
                        <=> IsOctet(text, DotEdge(text, n, k - 1), DotEdge(text, n, k))
      BY <1>2, <3>2
    <3> QED
      BY <1>3, <3>1, <3>2, <3>3, <3>4
  <2>4. Good(text, n) <=> /\ \A k \in 1 .. 3 : IsOctet(text, DotEdge(text, n, k - 1), DotEdge(text, n, k))
                          /\ \A i \in s + 1 .. n : text[i] \in Digits
                          /\ Decimal(text, s, n) <= MaxOctet
    BY DEF Good
  <2> HIDE DEF valid, s
  <2> QED
    BY <2>2, <2>3, <2>4 DEF Complete, s
<1> QED
  BY <1>4, <1>6, <1>7

(* ipv4_parse accepts a text symbol by symbol just when, read as a whole, it is
   a dotted address, and makes the same octets and the same port of it. *)
LEMMA ParseIsAddress ==
    ASSUME NEW text \in Seq(Nat)
    PROVE  Parse(text) = Address(text)
<1> DEFINE e == Behind(text)
           n == e - 1
           l == Len(text)
           m == Cardinality(Dots(text, n))
           octs == [k \in 1 .. m |-> Decimal(text, DotEdge(text, n, k - 1), DotEdge(text, n, k) - 1)]
           d == Decimal(text, DotEdge(text, n, m), n)
           b == DotEdge(text, n, m) < n
           p == Progress(text)[n]
           q == Progress(text)[l]
<1>1. n \in 0 .. l /\ n \in Nat /\ l \in Nat /\ e = n + 1 /\ e \in 1 .. l + 1
  BY BehindIs
<1>2. m \in Nat /\ Len(octs) = m
  <2>1. m \in Nat
    BY <1>1, DotsAre
  <2>2. DOMAIN octs = 1 .. m
    OBVIOUS
  <2> QED
    BY <2>1, <2>2
<1>3. IF Good(text, n) THEN p = Parser(octs, d, b) ELSE p.bad
  <2>1. \A i \in 1 .. n : text[i] # Colon
    BY BehindIs
  <2>2. Follows(text, n)
    BY <1>1, <2>1, ProgressFollows
  <2> QED
    BY <2>2 DEF Follows, Reached
<1>4. Parse(text) = CASE ~q.bad /\ q.colon # 0 -> Append(q.octets, PortOf(text, q.colon))
                      [] ~q.bad /\ q.colon = 0 /\ Len(q.octets) = 3 /\ q.symbol
                            -> q.octets \o <<q.data, 0>>
                      [] OTHER -> <<>>
  BY DEF Parse
<1>5. Address(text) = IF Complete(text, n)
                      THEN [k \in 1 .. 4 |-> Octet(text, n, k)] \o <<Port(text, n + 1)>>
                      ELSE <<>>
  BY <1>1, AddressIs
<1>6. Complete(text, n) <=> Good(text, n) /\ m = 3 /\ b
  BY DEF Complete
<1>7. e <= l => Progress(text)[e] = Symbol(p, Colon, e)
  <2> SUFFICES ASSUME e <= l PROVE Progress(text)[e] = Symbol(p, Colon, e)
    OBVIOUS
  <2>1. e \in 1 .. l /\ text[e] = Colon
    BY <1>1, BehindIs
  <2> QED
    BY <2>1, ProgressSteps
<1>8. p.bad \/ p.colon # 0 => q = p
  BY <1>1, ProgressStops
<1>9. e <= l => (Progress(text)[e].bad \/ Progress(text)[e].colon # 0 => q = Progress(text)[e])
  <2>1. e <= l => e \in 0 .. l
    BY <1>1
  <2> QED
    BY <2>1, ProgressStops
<1>10. m = 3 => LET port == Port(text, n + 1)
                    whole == [k \in 1 .. 4 |-> Octet(text, n, k)] \o <<port>>
                IN  octs \o <<d, port>> = whole /\ Append(Append(octs, d), port) = whole
  <2> SUFFICES ASSUME m = 3
               PROVE  LET port == Port(text, n + 1)
                          whole == [k \in 1 .. 4 |-> Octet(text, n, k)] \o <<port>>
                      IN  octs \o <<d, port>> = whole /\ Append(Append(octs, d), port) = whole
    OBVIOUS
  <2> DEFINE port == Port(text, n + 1)
             g == [k \in 1 .. 4 |-> Octet(text, n, k)]
             T == {g[k] : k \in 1 .. 4} \cup {port}
             three == [k \in 1 .. 3 |-> g[k]]
  <2>1. g \in [1 .. 4 -> T] /\ port \in T
    OBVIOUS
  <2>2. g[4] = d
    BY DEF Octet
  <2>3. octs = three
    <3>1. \A k \in 1 .. 3 : g[k] = Decimal(text, DotEdge(text, n, k - 1), DotEdge(text, n, k) - 1)
      BY DEF Octet
    <3> QED
      BY <3>1
  <2> HIDE DEF T, port, octs, d
  <2>4. /\ [k \in 1 .. 3 |-> g[k]] \o <<g[4], port>> = [k \in 1 .. 4 |-> g[k]] \o <<port>>
        /\ Append(Append([k \in 1 .. 3 |-> g[k]], g[4]), port) = [k \in 1 .. 4 |-> g[k]] \o <<port>>
    <3> HIDE DEF g
    <3> QED
      BY <2>1, FiveParts
  <2>5. [k \in 1 .. 4 |-> g[k]] = g
    OBVIOUS
  <2> HIDE DEF g
  <2>6. octs \o <<d, port>> = g \o <<port>> /\ Append(Append(octs, d), port) = g \o <<port>>
    BY <2>2, <2>3, <2>4, <2>5
  <2> QED
    BY <2>6 DEF g, port
<1> HIDE DEF octs, d, b, m, p, q
<1>11. ASSUME Good(text, n) 
       PROVE  p.octets = octs /\ p.data = d /\ p.symbol = b /\ p.colon = 0 /\ p.bad = FALSE
  BY <1>3, <1>11 DEF Parser
<1>12. CASE ~Good(text, n)
  BY <1>3, <1>4, <1>5, <1>6, <1>8, <1>12
<1>13. CASE Good(text, n) /\ e > l
  <2>1. q = p /\ Port(text, n + 1) = 0
    BY <1>1, <1>13 DEF Port, p, q
  <2>2. CASE m = 3 /\ b
    <3>1. Parse(text) = octs \o <<d, 0>>
      BY <1>2, <1>4, <1>11, <1>13, <2>1, <2>2
    <3> QED
      BY <1>5, <1>6, <1>10, <1>13, <2>1, <2>2, <3>1
  <2>3. CASE ~(m = 3 /\ b)
    <3>1. Parse(text) = <<>>
      BY <1>2, <1>4, <1>11, <1>13, <2>1, <2>3
    <3> QED
      BY <1>5, <1>6, <2>3, <3>1
  <2> QED
    BY <2>2, <2>3
<1>14. CASE Good(text, n) /\ e <= l
  <2> DEFINE r == Progress(text)[e]
  <2>1. r = IF m = 3 THEN [OctetEnds(p) EXCEPT !.colon = e] ELSE Reject(p)
    BY <1>2, <1>7, <1>11, <1>14, Symbols DEF Symbol
  <2>2. Port(text, n + 1) = PortOf(text, e)
    BY <1>1, <1>14 DEF Port
  <2> HIDE DEF r
  <2>3. CASE m = 3 /\ b
    <3>1. OctetEnds(p) = Parser(Append(octs, d), 0, FALSE)
      BY <1>11, <1>14, <2>3 DEF OctetEnds
    <3>2. r.octets = Append(octs, d) /\ r.bad = FALSE /\ r.colon = e
      BY <2>1, <2>3, <3>1 DEF Parser
    <3>3. e # 0
      BY <1>1
    <3>4. q = r
      BY <1>9, <1>14, <3>2, <3>3 DEF r
    <3>5. Parse(text) = Append(Append(octs, d), PortOf(text, e))
      BY <1>4, <3>2, <3>3, <3>4
    <3> QED
      BY <1>5, <1>6, <1>10, <1>14, <2>2, <2>3, <3>5
  <2>4. CASE ~(m = 3 /\ b)
    <3>1. Reject(p).bad /\ (m = 3 => OctetEnds(p) = Reject(p))
      <4>1. p = Parser(octs, d, b)
        BY <1>3, <1>14
      <4> QED
        BY <1>11, <1>14, <2>4, <4>1 DEF OctetEnds, Reject, Parser
    <3>2. r.bad
      <4>1. CASE m = 3
        <5>1. r = [Reject(p) EXCEPT !.colon = e]
          BY <2>1, <3>1, <4>1
        <5>2. p = Parser(octs, d, b)
          BY <1>3, <1>14
        <5> QED
          BY <5>1, <5>2 DEF Reject, Parser
      <4>2. CASE m # 3
        BY <2>1, <3>1, <4>2
      <4> QED
        BY <4>1, <4>2
    <3>3. q = r
      BY <1>9, <1>14, <3>2 DEF r
    <3> QED
      BY <1>4, <1>5, <1>6, <2>4, <3>2, <3>3
  <2> QED
    BY <2>3, <2>4
<1> QED
  BY <1>1, <1>12, <1>13, <1>14

-----------------------------------------------------------------------------
(* The section with the addresses, by the same two links: the list says of   *)
(* it what the file says, and the pass over the list has let in what the     *)
(* list says up to its line.                                                 *)

Addresses(list) == [i \in DOMAIN list |-> Address(list[i].text)]

(* What the first n - 1 lines of the file say of the section ... *)
ForeignBefore(n) == \E i \in 1 .. n - 1 : Ends(i) /\ ~Found(i)
FilePlaces(n) ==
    {i \in 1 .. n - 1 : /\ file[i].kind = "text"
                        /\ Found(i) /\ ~Over(i)
                        /\ Addresses(file)[i] # <<>>}
FileList(n) == Sublist(Addresses(file), FilePlaces(n))

(* ... and the first n - 1 entries of a list. *)
Opened(list, n) == \E j \in 1 .. n - 1 : list[j].type = "SECTION" /\ list[j].name = Wanted
Closed(list, n) == \E j \in 1 .. n - 1 : list[j].type = "END_SECTION" /\ Opened(list, j)
Foreign(list, n) == \E j \in 1 .. n - 1 : list[j].type = "END_SECTION" /\ ~Opened(list, j)
HeldPlaces(list, n) ==
    {i \in 1 .. n - 1 : /\ list[i].type = "SECTION"
                        /\ Opened(list, i) /\ ~Closed(list, i)
                        /\ Addresses(list)[i] # <<>>}
HeldList(list, n) == Sublist(Addresses(list), HeldPlaces(list, n))

LEMMA FileListGrows ==
    ASSUME NEW n \in Nat \ {0}, n \in DOMAIN file
    PROVE  /\ Found(n + 1) <=> Found(n) \/ Opens(n)
           /\ Over(n) <=> Over(n - 1) \/ (Ends(n) /\ Found(n))
           /\ ForeignBefore(n + 1) <=> ForeignBefore(n) \/ (Ends(n) /\ ~Found(n))
           /\ FileList(n + 1) =
                IF /\ file[n].kind = "text" /\ Found(n) /\ ~Over(n)
                   /\ Address(file[n].text) # <<>>
                THEN Append(FileList(n), Address(file[n].text)) ELSE FileList(n)
<1>0. /\ \A i \in 1 .. (n + 1) - 1 : i \in 1 .. n - 1 \/ i = n
      /\ \A i \in 1 .. n - 1 : i \in 1 .. (n + 1) - 1
      /\ n \in 1 .. (n + 1) - 1 /\ (n + 1) - 1 = n
  OBVIOUS
<1>1. Found(n + 1) <=> Found(n) \/ Opens(n)
  BY <1>0, Zenon DEF Found
<1>2. Over(n) <=> Over(n - 1) \/ (Ends(n) /\ Found(n))
  BY <1>0, Zenon DEF Over
<1>3. ForeignBefore(n + 1) <=> ForeignBefore(n) \/ (Ends(n) /\ ~Found(n))
  BY <1>0, Zenon DEF ForeignBefore
<1> DEFINE taken == /\ file[n].kind = "text" /\ Found(n) /\ ~Over(n)
                    /\ Address(file[n].text) # <<>>
<1>4. Addresses(file)[n] = Address(file[n].text)
  BY DEF Addresses
<1>5. FilePlaces(n + 1) = IF taken THEN FilePlaces(n) \cup {n} ELSE FilePlaces(n)
  BY <1>0, <1>4 DEF FilePlaces
<1>6. FilePlaces(n) \in SUBSET Int /\ IsFiniteSet(FilePlaces(n)) /\ \A i \in FilePlaces(n) : i < n
  <2>1. FilePlaces(n) \in SUBSET (1 .. n - 1)
    BY DEF FilePlaces
  <2>2. IsFiniteSet(FilePlaces(n))
    BY <2>1, FS_Interval, FS_Subset
  <2> QED
    BY <2>1, <2>2
<1>7. Sublist(Addresses(file), FilePlaces(n) \cup {n})
        = Append(FileList(n), Address(file[n].text))
  <2> DEFINE a == Addresses(file)
             S == FilePlaces(n)
  <2>1. a[n] = Address(file[n].text) /\ S \in SUBSET Int /\ IsFiniteSet(S) /\ n \in Int
        /\ \A i \in S : i < n
    BY <1>4, <1>6
  <2> HIDE DEF a, S
  <2>2. Sublist(a, S \cup {n}) = Append(Sublist(a, S), a[n])
    BY <2>1, SublistGrows
  <2> QED
    BY <2>1, <2>2 DEF FileList, a, S
<1> HIDE DEF taken
<1>8. FileList(n + 1) = IF taken THEN Append(FileList(n), Address(file[n].text)) ELSE FileList(n)
  BY <1>5, <1>7 DEF FileList
<1> QED
  BY <1>1, <1>2, <1>3, <1>8 DEF taken

LEMMA HeldListGrows ==
    ASSUME NEW list, NEW n \in Nat \ {0}, n \in DOMAIN list
    PROVE  /\ Opened(list, n + 1) <=> \/ Opened(list, n)
                                      \/ list[n].type = "SECTION" /\ list[n].name = Wanted
           /\ Closed(list, n + 1) <=> \/ Closed(list, n)
                                      \/ list[n].type = "END_SECTION" /\ Opened(list, n)
           /\ Foreign(list, n + 1) <=> \/ Foreign(list, n)
                                       \/ list[n].type = "END_SECTION" /\ ~Opened(list, n)
           /\ HeldList(list, n + 1) =
                IF /\ list[n].type = "SECTION" /\ Opened(list, n) /\ ~Closed(list, n)
                   /\ Address(list[n].text) # <<>>
                THEN Append(HeldList(list, n), Address(list[n].text)) ELSE HeldList(list, n)
<1>0. /\ \A i \in 1 .. (n + 1) - 1 : i \in 1 .. n - 1 \/ i = n
      /\ \A i \in 1 .. n - 1 : i \in 1 .. (n + 1) - 1
      /\ n \in 1 .. (n + 1) - 1 /\ (n + 1) - 1 = n
  OBVIOUS
<1>1. Opened(list, n + 1) <=> \/ Opened(list, n)
                              \/ list[n].type = "SECTION" /\ list[n].name = Wanted
  BY <1>0, Zenon DEF Opened
<1>2. Closed(list, n + 1) <=> \/ Closed(list, n)
                              \/ list[n].type = "END_SECTION" /\ Opened(list, n)
  BY <1>0, Zenon DEF Closed
<1>3. Foreign(list, n + 1) <=> \/ Foreign(list, n)
                               \/ list[n].type = "END_SECTION" /\ ~Opened(list, n)
  BY <1>0, Zenon DEF Foreign
<1> DEFINE taken == /\ list[n].type = "SECTION" /\ Opened(list, n) /\ ~Closed(list, n)
                    /\ Address(list[n].text) # <<>>
<1>4. Addresses(list)[n] = Address(list[n].text)
  BY DEF Addresses
<1>5. HeldPlaces(list, n + 1) = IF taken THEN HeldPlaces(list, n) \cup {n} ELSE HeldPlaces(list, n)
  BY <1>0, <1>4 DEF HeldPlaces
<1>6. /\ HeldPlaces(list, n) \in SUBSET Int /\ IsFiniteSet(HeldPlaces(list, n))
      /\ \A i \in HeldPlaces(list, n) : i < n
  <2>1. HeldPlaces(list, n) \in SUBSET (1 .. n - 1)
    BY DEF HeldPlaces
  <2>2. IsFiniteSet(HeldPlaces(list, n))
    BY <2>1, FS_Interval, FS_Subset
  <2> QED
    BY <2>1, <2>2
<1>7. Sublist(Addresses(list), HeldPlaces(list, n) \cup {n})
        = Append(HeldList(list, n), Address(list[n].text))
  <2>1. PICK places \in SUBSET Int : places = HeldPlaces(list, n)
    BY <1>6
  <2>2. PICK g : g = Addresses(list)
    OBVIOUS
  <2>3. IsFiniteSet(places) /\ n \in Int /\ \A i \in places : i < n
    BY <1>6, <2>1
  <2>4. Sublist(g, places \cup {n}) = Append(Sublist(g, places), g[n])
    BY <2>3, SublistGrows
  <2>5. HeldList(list, n) = Sublist(g, places)
    BY <2>1, <2>2 DEF HeldList
  <2>6. g[n] = Address(list[n].text)
    BY <1>4, <2>2
  <2> QED
    BY <2>1, <2>2, <2>4, <2>5, <2>6
<1> HIDE DEF taken
<1>8. HeldList(list, n + 1) =
        IF taken THEN Append(HeldList(list, n), Address(list[n].text)) ELSE HeldList(list, n)
  BY <1>5, <1>7 DEF HeldList
<1> QED
  BY <1>1, <1>2, <1>3, <1>8 DEF taken

LEMMA HeldListKept ==
    ASSUME NEW list, NEW longer, NEW n \in Nat, \A k \in 1 .. n : longer[k] = list[k],
           1 .. n \subseteq DOMAIN list, 1 .. n \subseteq DOMAIN longer
    PROVE  /\ Opened(longer, n + 1) <=> Opened(list, n + 1)
           /\ Closed(longer, n + 1) <=> Closed(list, n + 1)
           /\ Foreign(longer, n + 1) <=> Foreign(list, n + 1)
           /\ HeldList(longer, n + 1) = HeldList(list, n + 1)
<1>1. \A m \in 1 .. n + 1 : \A j \in 1 .. m - 1 : j \in 1 .. n
  OBVIOUS
<1>2. \A m \in 1 .. n + 1 : Opened(longer, m) <=> Opened(list, m)
  BY <1>1 DEF Opened
<1>3. \A m \in 1 .. n + 1 : /\ Closed(longer, m) <=> Closed(list, m)
                            /\ Foreign(longer, m) <=> Foreign(list, m)
  <2>1. \A j \in 1 .. n : j \in 1 .. n + 1
    OBVIOUS
  <2> QED
    BY <1>1, <1>2, <2>1 DEF Closed, Foreign
<1>4. \A k \in 1 .. n : Addresses(longer)[k] = Addresses(list)[k]
  BY DEF Addresses
<1>5. HeldPlaces(longer, n + 1) = HeldPlaces(list, n + 1) /\ HeldPlaces(list, n + 1) \in SUBSET (1 .. n)
  <2>1. (n + 1) - 1 = n /\ \A j \in 1 .. n : j \in 1 .. n + 1
    OBVIOUS
  <2> QED
    BY <1>2, <1>3, <1>4, <2>1 DEF HeldPlaces
<1>6. HeldList(longer, n + 1) = HeldList(list, n + 1)
  <2> DEFINE S == HeldPlaces(list, n + 1)
  <2>1. S \in SUBSET Int /\ IsFiniteSet(S)
    <3>1. IsFiniteSet(S)
      BY <1>5, FS_Interval, FS_Subset
    <3> QED
      BY <1>5, <3>1
  <2>2. \A i \in S : Addresses(longer)[i] = Addresses(list)[i]
    BY <1>4, <1>5
  <2> HIDE DEF S
  <2>3. Sublist(Addresses(longer), S) = Sublist(Addresses(list), S)
    BY <2>1, <2>2, SublistSame
  <2> QED
    BY <1>5, <2>3 DEF HeldList, S
<1>7. n + 1 \in 1 .. n + 1
  OBVIOUS
<1> QED
  BY <1>2, <1>3, <1>6, <1>7

LEMMA SectionAppended ==
    ASSUME NEW list \in Seq(Entries), NEW e \in Entries
    PROVE  LET longer == list \o <<e>>
               m == Len(list) + 1
               n == Len(longer) + 1
           IN
           /\ longer \in Seq(Entries)
           /\ Opened(longer, n) <=> \/ Opened(list, m)
                                    \/ e.type = "SECTION" /\ e.name = Wanted
           /\ Closed(longer, n) <=> Closed(list, m) \/ (e.type = "END_SECTION" /\ Opened(list, m))
           /\ Foreign(longer, n) <=> Foreign(list, m) \/ (e.type = "END_SECTION" /\ ~Opened(list, m))
           /\ HeldList(longer, n) =
                IF /\ e.type = "SECTION" /\ Opened(list, m) /\ ~Closed(list, m)
                   /\ Address(e.text) # <<>>
                THEN Append(HeldList(list, m), Address(e.text)) ELSE HeldList(list, m)
<1> DEFINE longer == list \o <<e>>
           l == Len(list)
<1>1. l \in Nat /\ <<e>> \in Seq(Entries) /\ Len(<<e>>) = 1 /\ <<e>>[1] = e
  BY LenProperties
<1>2. longer \in Seq(Entries) /\ Len(longer) = l + 1
  BY <1>1, ConcatProperties
<1>3. \A k \in 1 .. l : longer[k] = list[k]
  BY <1>1, ConcatProperties
<1>4. longer[l + 1] = e
  <2>1. l + 1 \in 1 .. l + 1 /\ ~(l + 1 <= l) /\ (l + 1) - l = 1
    BY <1>1
  <2> QED
    BY <1>1, <2>1, ConcatProperties
<1>5. DOMAIN list = 1 .. l /\ DOMAIN longer = 1 .. l + 1
  BY <1>2, LenProperties
<1> HIDE DEF longer, l
<1>6. 1 .. l \subseteq DOMAIN list /\ 1 .. l \subseteq DOMAIN longer
      /\ l + 1 \in DOMAIN longer /\ l + 1 \in Nat \ {0}
  BY <1>1, <1>5
<1>7. /\ Opened(longer, l + 1) <=> Opened(list, l + 1)
      /\ Closed(longer, l + 1) <=> Closed(list, l + 1)
      /\ Foreign(longer, l + 1) <=> Foreign(list, l + 1)
      /\ HeldList(longer, l + 1) = HeldList(list, l + 1)
  BY <1>1, <1>3, <1>6, HeldListKept
<1> DEFINE m == l + 1
<1>8. /\ Opened(longer, m + 1) <=> \/ Opened(longer, m)
                                   \/ longer[m].type = "SECTION" /\ longer[m].name = Wanted
      /\ Closed(longer, m + 1) <=> \/ Closed(longer, m)
                                   \/ longer[m].type = "END_SECTION" /\ Opened(longer, m)
      /\ Foreign(longer, m + 1) <=> \/ Foreign(longer, m)
                                    \/ longer[m].type = "END_SECTION" /\ ~Opened(longer, m)
      /\ HeldList(longer, m + 1) =
                IF /\ longer[m].type = "SECTION" /\ Opened(longer, m) /\ ~Closed(longer, m)
                   /\ Address(longer[m].text) # <<>>
                THEN Append(HeldList(longer, m), Address(longer[m].text)) ELSE HeldList(longer, m)
  <2>1. m \in Nat \ {0} /\ m \in DOMAIN longer
    BY <1>6
  <2> HIDE DEF m
  <2> QED
    BY <2>1, HeldListGrows, Zenon
<1>9. Len(longer) + 1 = m + 1
  BY <1>2 DEF l
<1> HIDE DEF m
<1>10. m = Len(list) + 1
  BY DEF m, l
<1> QED
  BY <1>2, <1>4, <1>7, <1>8, <1>9, <1>10 DEF longer, l, m

-----------------------------------------------------------------------------
(* The list says of the section what the first n - 1 lines of the file say. *)
SectionAsIn(list, n) ==
    LET m == Len(list) + 1 IN
    /\ list \in Seq(Entries)
    /\ Opened(list, m) <=> Found(n)
    /\ Closed(list, m) <=> Over(n - 1)
    /\ Foreign(list, m) <=> ForeignBefore(n)
    /\ HeldList(list, m) = FileList(n)

SectionLoaded ==
    /\ stage = "load" =>
        /\ SectionAsIn(lines, at)
        /\ Found(at) /\ ~Over(at - 1) => InSectionAt(at)
    /\ stage \in {"options", "section"} => SectionAsIn(lines, Len(file) + 1)
    /\ stage \in {"load", "options"} => except = <<>>

SectionFollowsList ==
    stage = "section" =>
        /\ at <= Len(lines) + 1
        /\ inSection <=> Opened(lines, at)
        /\ ~Closed(lines, at) /\ ~Foreign(lines, at)
        /\ except = HeldList(lines, at)

SectionInv == SectionLoaded /\ SectionFollowsList /\ ExceptAsWritten

LEMMA FileSectionStays ==
    ASSUME file' = file
    PROVE  /\ \A i : Opens(i)' <=> Opens(i)
           /\ \A i : Ends(i)' <=> Ends(i)
           /\ \A i : Found(i)' <=> Found(i)
           /\ \A i : Over(i)' <=> Over(i)
           /\ \A i : InSectionAt(i)' <=> InSectionAt(i)
           /\ \A n : ForeignBefore(n)' <=> ForeignBefore(n)
           /\ \A n : FileList(n)' = FileList(n)
           /\ ForeignEnds' <=> ForeignEnds
           /\ Listed' = Listed
<1>1. \A i : InSectionAt(i)' <=> InSectionAt(i)
  BY DEF InSectionAt
<1>2. \A i : (Opens(i)' <=> Opens(i)) /\ (Ends(i)' <=> Ends(i))
  BY <1>1 DEF Opens, Ends
<1>3. \A i : Found(i)' <=> Found(i)
  BY <1>2 DEF Found
<1>4. \A i : Over(i)' <=> Over(i)
  BY <1>2, <1>3 DEF Over
<1>5. \A n : ForeignBefore(n)' <=> ForeignBefore(n)
  BY <1>2, <1>3 DEF ForeignBefore
<1>6. ForeignEnds' <=> ForeignEnds
  BY <1>2, <1>3 DEF ForeignEnds
<1>7. ASSUME NEW n PROVE FileList(n)' = FileList(n)
  <2>1. FilePlaces(n)' = FilePlaces(n)
    BY <1>3, <1>4 DEF FilePlaces
  <2> QED
    BY <2>1 DEF FileList
<1>8. Listed' = Listed
  <2> DEFINE a == [i \in DOMAIN file |-> Address(file[i].text)]
             S == {i \in DOMAIN file : /\ file[i].kind = "text"
                                       /\ Found(i) /\ ~Over(i) /\ a[i] # <<>>}
  <2>1. Listed = Sublist(a, S) /\ Listed' = Sublist(a', S')
    BY DEF Listed
  <2>2. a' = a
    OBVIOUS
  <2> HIDE DEF a
  <2>3. S' = S
    BY <1>3, <1>4, <2>2
  <2> QED
    BY <2>1, <2>2, <2>3
<1> QED
  BY <1>1, <1>2, <1>3, <1>4, <1>5, <1>6, <1>7, <1>8

LEMMA SectionAsInStays ==
    ASSUME file' = file, NEW n, NEW list, SectionAsIn(list, n)
    PROVE  SectionAsIn(list, n)'
<1>1. SectionAsIn(list, n)' <=>
        LET m == Len(list) + 1 IN
        /\ list \in Seq(Entries)
        /\ Opened(list, m) <=> Found(n)'
        /\ Closed(list, m) <=> Over(n - 1)'
        /\ Foreign(list, m) <=> ForeignBefore(n)'
        /\ HeldList(list, m) = FileList(n)'
  BY DEF SectionAsIn
<1> QED
  BY <1>1, FileSectionStays DEF SectionAsIn

LEMMA SectionLoads ==
    ASSUME file' = file, at \in Nat \ {0}, at' = at + 1, SectionAsIn(lines', at + 1),
           Found(at + 1) /\ ~Over(at) => InSectionAt(at + 1)
    PROVE  SectionAsIn(lines, at)' /\ (Found(at) /\ ~Over(at - 1) => InSectionAt(at))'
<1>1. /\ \A i : Opens(i)' <=> Opens(i)
      /\ \A i : Ends(i)' <=> Ends(i)
      /\ \A i : Found(i)' <=> Found(i)
      /\ \A i : Over(i)' <=> Over(i)
  BY FileSectionStays
<1>2. at' - 1 = at
  OBVIOUS
<1>3. Found(at)' <=> Found(at + 1)
  BY <1>1 DEF Found
<1>4. Over(at - 1)' <=> Over(at)
  BY <1>1, <1>2 DEF Over
<1>5. InSectionAt(at)' <=> InSectionAt(at + 1)
  BY DEF InSectionAt
<1>6. ForeignBefore(at)' <=> ForeignBefore(at + 1)
  BY <1>1 DEF ForeignBefore
<1>7. FileList(at)' = FileList(at + 1)
  <2>1. FilePlaces(at)' = FilePlaces(at + 1)
    BY <1>1 DEF FilePlaces
  <2> QED
    BY <2>1 DEF FileList
<1>8. (at + 1) - 1 = at
  OBVIOUS
<1> QED
  BY <1>3, <1>4, <1>5, <1>6, <1>7, <1>8 DEF SectionAsIn

(* A section that was found and is not over is the one that is being read. *)
LEMMA WantedIsOpen ==
    ASSUME at \in Nat \ {0}, at <= Len(file), file \in Seq(Line),
           Found(at) /\ ~Over(at - 1) => InSectionAt(at)
    PROVE  Found(at + 1) /\ ~Over(at) => InSectionAt(at + 1)
<1>1. at \in DOMAIN file
  BY LenProperties
<1>2. /\ Found(at + 1) <=> Found(at) \/ Opens(at)
      /\ Over(at) <=> Over(at - 1) \/ (Ends(at) /\ Found(at))
  BY <1>1, FileListGrows
<1>3. InSectionAt(at + 1) <=> \/ file[at].kind = "header"
                              \/ file[at].kind # "blank" /\ InSectionAt(at)
  BY SectionGrows
<1> QED
  BY <1>2, <1>3 DEF Opens, Ends

(* what a line of each kind adds to the list *)
LEMMA LoadedKeepsSection ==
    ASSUME Inv, SectionInv, stage = "load", at <= Len(file), NEW new, NEW section,
           Loaded(new, section), SectionAsIn(lines \o new, at + 1)
    PROVE  SectionInv'
<1> USE DEF Loaded
<1>1. at \in Nat \ {0} /\ file' = file /\ at' = at + 1 /\ stage' = stage /\ except' = except
      /\ file \in Seq(Line) /\ lines' = lines \o new
  BY DEF Inv, TypeOK, Typed
<1>2. Found(at + 1) /\ ~Over(at) => InSectionAt(at + 1)
  BY <1>1, WantedIsOpen DEF SectionInv, SectionLoaded
<1>3. SectionAsIn(lines, at)' /\ (Found(at) /\ ~Over(at - 1) => InSectionAt(at))'
  BY <1>1, <1>2, SectionLoads
<1>4. SectionLoaded'
  BY <1>1, <1>3 DEF SectionInv, SectionLoaded
<1>5. SectionFollowsList' /\ ExceptAsWritten'
  BY <1>1 DEF SectionFollowsList, ExceptAsWritten
<1> QED
  BY <1>4, <1>5 DEF SectionInv

LEMMA LoadingIs ==
    ASSUME Inv, SectionInv, stage = "load", at <= Len(file)
    PROVE  /\ at \in Nat \ {0} /\ at \in DOMAIN file /\ (at + 1) - 1 = at
           /\ lines \in Seq(Entries)
           /\ SectionAsIn(lines, at) /\ (inSection <=> InSectionAt(at))
           /\ Found(at) /\ ~Over(at - 1) => inSection
           /\ Found(at + 1) <=> Found(at) \/ Opens(at)
           /\ Over(at) <=> Over(at - 1) \/ (Ends(at) /\ Found(at))
           /\ ForeignBefore(at + 1) <=> ForeignBefore(at) \/ (Ends(at) /\ ~Found(at))
           /\ FileList(at + 1) =
                IF /\ file[at].kind = "text" /\ Found(at) /\ ~Over(at)
                   /\ Address(file[at].text) # <<>>
                THEN Append(FileList(at), Address(file[at].text)) ELSE FileList(at)
<1>1. at \in Nat \ {0} /\ at \in DOMAIN file /\ (at + 1) - 1 = at /\ lines \in Seq(Entries)
  BY LenProperties DEF Inv, TypeOK, Typed
<1>2. SectionAsIn(lines, at) /\ (inSection <=> InSectionAt(at))
      /\ (Found(at) /\ ~Over(at - 1) => inSection)
  BY DEF Inv, ListFollowsFile, SectionInv, SectionLoaded
<1> QED
  BY <1>1, <1>2, FileListGrows

LEMMA IgnoreLineKeepsSection == ASSUME Inv, SectionInv, IgnoreLine PROVE SectionInv'
<1>1. stage = "load" /\ at <= Len(file) /\ file[at].kind \in {"comment", "broken"}
  BY DEF IgnoreLine, Reading
<1>2. Loaded(<<>>, inSection)
  BY DEF IgnoreLine
<1>3. ~Opens(at) /\ ~Ends(at) /\ file[at].kind # "text"
  BY <1>1 DEF Opens, Ends
<1>4. SectionAsIn(lines, at + 1)
  BY <1>1, <1>3, LoadingIs DEF SectionAsIn
<1>5. lines \o <<>> = lines
  BY <1>1, LoadingIs, ConcatEmptySeq
<1> QED
  BY <1>1, <1>2, <1>4, <1>5, LoadedKeepsSection

LEMMA BlankLineKeepsSection == ASSUME Inv, SectionInv, BlankLine PROVE SectionInv'
<1>1. stage = "load" /\ at <= Len(file) /\ file[at].kind = "blank"
  BY DEF BlankLine, Reading
<1> DEFINE new == IF inSection THEN <<Mark>> ELSE <<>>
<1>2. Loaded(new, FALSE)
  BY DEF BlankLine
<1>3. ~Opens(at) /\ file[at].kind # "text" /\ (Ends(at) <=> inSection)
  BY <1>1, LoadingIs DEF Opens, Ends
<1>4. SectionAsIn(lines \o new, at + 1)
  <2>1. CASE inSection
    BY <1>1, <1>3, <2>1, LoadingIs, SectionAppended, MarkIs DEF SectionAsIn
  <2>2. CASE ~inSection
    <3>1. lines \o new = lines
      BY <1>1, <2>2, LoadingIs, ConcatEmptySeq
    <3> HIDE DEF new
    <3> QED
      BY <1>1, <1>3, <2>2, <3>1, LoadingIs DEF SectionAsIn
  <2> QED
    BY <2>1, <2>2
<1> HIDE DEF new
<1> QED
  BY <1>1, <1>2, <1>4, LoadedKeepsSection

LEMMA HeaderLineKeepsSection == ASSUME Inv, SectionInv, HeaderLine PROVE SectionInv'
<1>1. stage = "load" /\ at <= Len(file) /\ file[at].kind = "header"
  BY DEF HeaderLine, Reading
<1> DEFINE mark == IF inSection THEN <<Mark>> ELSE <<>>
           e == Kept(file[at], "SECTION")
           marked == lines \o mark
           m == Len(lines) + 1
           n == Len(marked) + 1
<1>2. Loaded(mark \o <<e>>, TRUE)
  BY DEF HeaderLine
<1>3. (Opens(at) <=> file[at].name = Wanted) /\ file[at].kind # "text" /\ (Ends(at) <=> inSection)
  BY <1>1, LoadingIs DEF Opens, Ends
<1>4. e \in Entries /\ e.type = "SECTION" /\ e.name = file[at].name
  <2>1. e \in Entries /\ e.type = "SECTION"
    BY <1>1, LinesAreEntries
  <2> QED
    BY <2>1 DEF Kept
<1>5. lines \in Seq(Entries) /\ mark \in Seq(Entries) /\ <<e>> \in Seq(Entries)
  BY <1>1, <1>4, LoadingIs, MarkIs
<1> HIDE DEF e
<1>6. /\ marked \in Seq(Entries)
      /\ Opened(marked, n) <=> Opened(lines, m)
      /\ Closed(marked, n) <=> Closed(lines, m) \/ (inSection /\ Opened(lines, m))
      /\ Foreign(marked, n) <=> Foreign(lines, m) \/ (inSection /\ ~Opened(lines, m))
      /\ HeldList(marked, n) = HeldList(lines, m)
  <2>1. CASE inSection
    BY <1>5, <2>1, SectionAppended, MarkIs
  <2>2. CASE ~inSection
    <3>1. marked = lines
      BY <1>5, <2>2, ConcatEmptySeq
    <3> HIDE DEF marked
    <3> QED
      BY <1>5, <2>2, <3>1
  <2> QED
    BY <2>1, <2>2
<1> HIDE DEF mark
<1>7. lines \o (mark \o <<e>>) = marked \o <<e>>
  BY <1>5, ConcatAssociative
<1> HIDE DEF marked
<1>8. SectionAsIn(marked \o <<e>>, at + 1)
  <2> DEFINE all == marked \o <<e>>
             k == Len(all) + 1
  <2>1. /\ all \in Seq(Entries)
        /\ Opened(all, k) <=> Opened(marked, n) \/ e.name = Wanted
        /\ Closed(all, k) <=> Closed(marked, n)
        /\ Foreign(all, k) <=> Foreign(marked, n)
        /\ HeldList(all, k) =
             IF Opened(marked, n) /\ ~Closed(marked, n) /\ Address(e.text) # <<>>
             THEN Append(HeldList(marked, n), Address(e.text)) ELSE HeldList(marked, n)
    BY <1>4, <1>6, SectionAppended
  <2> HIDE DEF all, n, k
  <2>2. /\ Opened(lines, m) <=> Found(at)
        /\ Closed(lines, m) <=> Over(at - 1)
        /\ Foreign(lines, m) <=> ForeignBefore(at)
        /\ HeldList(lines, m) = FileList(at)
    BY <1>1, LoadingIs DEF SectionAsIn
  <2>3. Found(at) /\ ~Over(at - 1) => inSection
    BY <1>1, LoadingIs
  <2>4. ~(Opened(marked, n) /\ ~Closed(marked, n))
    BY <1>6, <2>2, <2>3
  <2>5. HeldList(all, k) = FileList(at + 1)
    BY <1>1, <1>3, <1>6, <2>1, <2>2, <2>4, LoadingIs
  <2>6. (Opened(all, k) <=> Found(at + 1)) /\ (Closed(all, k) <=> Over(at))
        /\ (Foreign(all, k) <=> ForeignBefore(at + 1))
    BY <1>1, <1>3, <1>4, <1>6, <2>1, <2>2, LoadingIs
  <2>7. (at + 1) - 1 = at
    BY <1>1, LoadingIs
  <2> QED
    BY <2>1, <2>5, <2>6, <2>7 DEF SectionAsIn, k, all
<1> QED
  BY <1>1, <1>2, <1>7, <1>8, LoadedKeepsSection

LEMMA TextLineKeepsSection == ASSUME Inv, SectionInv, TextLine PROVE SectionInv'
<1>1. stage = "load" /\ at <= Len(file) /\ file[at].kind = "text"
  BY DEF TextLine, Reading
<1>2. ~Ends(at) /\ (Opens(at) <=> inSection /\ file[at].name = Wanted)
  BY <1>1, LoadingIs DEF Opens, Ends
<1> DEFINE e(type) == Kept(file[at], type)
<1>3. \A type \in {"OPTION", "SECTION"} :
        /\ e(type) \in Entries /\ e(type).type = type
        /\ e(type).name = file[at].name /\ e(type).text = file[at].text
  <2>1. \A type \in {"OPTION", "SECTION"} : e(type) \in Entries /\ e(type).type = type
    BY <1>1, LinesAreEntries
  <2> QED
    BY <2>1 DEF Kept
<1>4. CASE inSection
  <2>1. Loaded(<<e("SECTION")>>, inSection)
    BY <1>4 DEF TextLine
  <2> HIDE DEF e
  <2>2. SectionAsIn(lines \o <<e("SECTION")>>, at + 1)
    BY <1>1, <1>2, <1>3, <1>4, LoadingIs, SectionAppended DEF SectionAsIn
  <2> QED
    BY <1>1, <2>1, <2>2, LoadedKeepsSection
<1>5. CASE ~inSection /\ file[at].value = NoValue
  <2>1. Loaded(<<>>, inSection)
    BY <1>5 DEF TextLine
  <2>2. lines \o <<>> = lines
    BY <1>1, LoadingIs, ConcatEmptySeq
  <2>3. SectionAsIn(lines, at + 1)
    BY <1>1, <1>2, <1>5, LoadingIs DEF SectionAsIn
  <2> QED
    BY <1>1, <2>1, <2>2, <2>3, LoadedKeepsSection
<1>6. CASE ~inSection /\ file[at].value # NoValue
  <2>1. Loaded(<<e("OPTION")>>, inSection)
    BY <1>6 DEF TextLine
  <2> HIDE DEF e
  <2>2. SectionAsIn(lines \o <<e("OPTION")>>, at + 1)
    BY <1>1, <1>2, <1>3, <1>6, LoadingIs, SectionAppended DEF SectionAsIn
  <2> QED
    BY <1>1, <2>1, <2>2, LoadedKeepsSection
<1> QED
  BY <1>4, <1>5, <1>6

-----------------------------------------------------------------------------
(* The list is complete. *)

LEMMA ListedIsFileList ==
    ASSUME file \in Seq(Line)
    PROVE  /\ Listed = FileList(Len(file) + 1)
           /\ ForeignEnds <=> ForeignBefore(Len(file) + 1)
<1>1. DOMAIN file = 1 .. Len(file) /\ (Len(file) + 1) - 1 = Len(file)
  BY LenProperties
<1>2. ForeignEnds <=> ForeignBefore(Len(file) + 1)
  BY <1>1 DEF ForeignEnds, ForeignBefore
<1>3. FilePlaces(Len(file) + 1) =
        {i \in DOMAIN file : /\ file[i].kind = "text" /\ Found(i) /\ ~Over(i)
                             /\ [k \in DOMAIN file |-> Address(file[k].text)][i] # <<>>}
  BY <1>1 DEF FilePlaces, Addresses
<1> QED
  BY <1>2, <1>3 DEF Listed, FileList, Addresses

LEMMA EndOfFileKeepsSection == ASSUME Inv, SectionInv, EndOfFile PROVE SectionInv'
<1>1. /\ stage = "load" /\ stage' = "options" /\ at > Len(file)
      /\ UNCHANGED <<file, lines, except>>
  BY DEF EndOfFile
<1>2. at = Len(file) + 1
  BY <1>1, LenProperties DEF Inv, TypeOK, Typed, ListFollowsFile
<1>3. SectionAsIn(lines, Len(file) + 1) /\ except = <<>>
  BY <1>1, <1>2 DEF SectionInv, SectionLoaded
<1>4. SectionAsIn(lines, Len(file) + 1)'
  BY <1>1, <1>3, SectionAsInStays
<1> QED
  BY <1>1, <1>3, <1>4 DEF SectionInv, SectionLoaded, SectionFollowsList, ExceptAsWritten

LEMMA ParseOptionKeepsSection == ASSUME Inv, SectionInv, ParseOption PROVE SectionInv'
<1>1. /\ stage = "options" /\ stage' = "options"
      /\ UNCHANGED <<file, lines, except>>
  BY DEF ParseOption
<1>2. SectionAsIn(lines, Len(file) + 1)'
  BY <1>1, SectionAsInStays DEF SectionInv, SectionLoaded
<1> QED
  BY <1>1, <1>2 DEF SectionInv, SectionLoaded, SectionFollowsList, ExceptAsWritten

LEMMA OptionsEndKeepsSection == ASSUME Inv, SectionInv, OptionsEnd PROVE SectionInv'
<1>1. /\ stage = "options" /\ stage' \in {"failed", "section"} /\ at' = 1 /\ inSection' = FALSE
      /\ UNCHANGED <<file, lines, except>>
  BY DEF OptionsEnd
<1>2. SectionAsIn(lines, Len(file) + 1)' /\ except = <<>>
  BY <1>1, SectionAsInStays DEF SectionInv, SectionLoaded
<1>3. /\ ~Opened(lines, 1) /\ ~Closed(lines, 1) /\ ~Foreign(lines, 1)
      /\ HeldList(lines, 1) = <<>>
  <2>1. HeldPlaces(lines, 1) = {}
    BY DEF HeldPlaces
  <2>2. HeldList(lines, 1) = <<>>
    BY <2>1, FS_EmptySet DEF HeldList, Sublist
  <2> QED
    BY <2>2 DEF Opened, Closed, Foreign
<1>4. Len(lines) \in Nat
  BY LenProperties DEF Inv, Typed
<1>5. SectionFollowsList'
  BY <1>1, <1>2, <1>3, <1>4 DEF SectionFollowsList
<1> QED
  BY <1>1, <1>2, <1>5 DEF SectionInv, SectionLoaded, ExceptAsWritten

-----------------------------------------------------------------------------
(* parseCfgSection *)

LEMMA ReadingIs ==
    ASSUME Inv, SectionInv, InList
    PROVE  /\ stage = "section" /\ at \in DOMAIN lines /\ at \in Nat \ {0} /\ at <= Len(lines)
           /\ Len(lines) \in Nat /\ lines[at] \in Entries /\ file \in Seq(Line)
           /\ SectionAsIn(lines, Len(file) + 1)
           /\ inSection <=> Opened(lines, at)
           /\ ~Closed(lines, at) /\ ~Foreign(lines, at)
           /\ except = HeldList(lines, at)
<1>1. stage = "section" /\ at \in Nat \ {0} /\ at <= Len(lines) /\ lines \in Seq(Entries)
      /\ file \in Seq(Line)
  BY DEF InList, Inv, TypeOK, Typed
<1>2. at \in DOMAIN lines /\ Len(lines) \in Nat /\ lines[at] \in Entries
  BY <1>1, LenProperties, ElementOfSeq
<1> QED
  BY <1>1, <1>2 DEF SectionInv, SectionLoaded, SectionFollowsList

LEMMA PassLineKeepsSection == ASSUME Inv, SectionInv, PassLine PROVE SectionInv'
<1>1. /\ InList /\ ~inSection /\ lines[at].type # "END_SECTION" /\ at' = at + 1
      /\ inSection' = (lines[at].type = "SECTION" /\ lines[at].name = Wanted)
      /\ UNCHANGED <<file, stage, lines, except>>
  BY DEF PassLine
<1>2. SectionAsIn(lines, Len(file) + 1)'
  BY <1>1, ReadingIs, SectionAsInStays
<1>3. SectionFollowsList'
  <2>1. /\ inSection' <=> Opened(lines, at + 1)
        /\ ~Closed(lines, at + 1) /\ ~Foreign(lines, at + 1)
        /\ except = HeldList(lines, at + 1)
    BY <1>1, ReadingIs, HeldListGrows
  <2>2. at + 1 <= Len(lines) + 1
    BY <1>1, ReadingIs
  <2> QED
    BY <1>1, <2>1, <2>2 DEF SectionFollowsList
<1>4. stage' = "section"
  BY <1>1, ReadingIs
<1> QED
  BY <1>2, <1>3, <1>4 DEF SectionInv, SectionLoaded, ExceptAsWritten

LEMMA ParseEntryKeepsSection == ASSUME Inv, SectionInv, ParseEntry PROVE SectionInv'
<1> DEFINE text == lines[at].text
<1>1. /\ InList /\ inSection /\ lines[at].type # "END_SECTION" /\ at' = at + 1
      /\ except' = IF lines[at].type = "SECTION" /\ Parse(text) # <<>>
                   THEN Append(except, Parse(text)) ELSE except
      /\ UNCHANGED <<file, stage, lines, inSection>>
  BY DEF ParseEntry
<1>2. SectionAsIn(lines, Len(file) + 1)'
  BY <1>1, ReadingIs, SectionAsInStays
<1>3. Parse(text) = Address(text)
  <2>1. text \in Seq(Nat)
    BY <1>1, ReadingIs DEF Entries
  <2> QED
    BY <2>1, ParseIsAddress
<1>4. SectionFollowsList'
  <2>1. /\ inSection <=> Opened(lines, at + 1)
        /\ ~Closed(lines, at + 1) /\ ~Foreign(lines, at + 1)
        /\ except' = HeldList(lines, at + 1)
    BY <1>1, <1>3, ReadingIs, HeldListGrows
  <2>2. at + 1 <= Len(lines) + 1
    BY <1>1, ReadingIs
  <2> QED
    BY <1>1, <2>1, <2>2 DEF SectionFollowsList
<1>5. stage' = "section"
  BY <1>1, ReadingIs
<1> QED
  BY <1>2, <1>4, <1>5 DEF SectionInv, SectionLoaded, ExceptAsWritten

(* A section of another name that ends is not survived. *)
LEMMA NullNameKeepsSection == ASSUME Inv, SectionInv, NullName PROVE SectionInv'
<1>1. /\ InList /\ ~inSection /\ lines[at].type = "END_SECTION"
      /\ file' = file /\ stage' = "crashed"
  BY DEF NullName
<1>2. Foreign(lines, Len(lines) + 1)
  <2>1. at \in 1 .. (Len(lines) + 1) - 1 /\ ~Opened(lines, at)
    BY <1>1, ReadingIs
  <2> QED
    BY <1>1, <2>1 DEF Foreign
<1>3. ForeignEnds
  BY <1>1, <1>2, ReadingIs, ListedIsFileList DEF SectionAsIn
<1>4. ForeignEnds'
  BY <1>1, <1>3, FileSectionStays
<1> QED
  BY <1>1, <1>4 DEF SectionInv, SectionLoaded, SectionFollowsList, ExceptAsWritten

(* What comes after the end of the section counts for nothing. *)
LEMMA NothingAfterTheEnd ==
    ASSUME NEW list \in Seq(Entries), NEW n \in 1 .. Len(list),
           list[n].type = "END_SECTION", Opened(list, n), ~Foreign(list, n)
    PROVE  /\ ~Foreign(list, Len(list) + 1)
           /\ HeldList(list, Len(list) + 1) = HeldList(list, n)
<1>1. Len(list) \in Nat /\ (Len(list) + 1) - 1 = Len(list)
  BY LenProperties
<1>2. \A j \in 1 .. Len(list) : j >= n => Opened(list, j)
  BY <1>1 DEF Opened
<1>3. \A j \in 1 .. Len(list) : j > n => Closed(list, j)
  BY <1>1 DEF Closed
<1>4. \A j \in 1 .. Len(list) : ~(j >= n) => j \in 1 .. n - 1
  BY <1>1
<1>5. ~Foreign(list, Len(list) + 1)
  BY <1>1, <1>2, <1>4 DEF Foreign
<1>6. HeldPlaces(list, Len(list) + 1) = HeldPlaces(list, n)
  <2>1. \A j \in 1 .. n - 1 : j \in 1 .. Len(list)
    BY <1>1
  <2>2. \A j \in 1 .. Len(list) : j \in 1 .. n - 1 \/ j = n \/ j > n
    BY <1>1
  <2> QED
    BY <1>1, <1>3, <2>1, <2>2 DEF HeldPlaces
<1> QED
  BY <1>5, <1>6 DEF HeldList

LEMMA SectionEndKeepsSection == ASSUME Inv, SectionInv, SectionEnd PROVE SectionInv'
<1>1. /\ stage = "section" /\ stage' = "done" /\ UNCHANGED <<file, except>>
      /\ InList => inSection /\ lines[at].type = "END_SECTION"
  BY DEF SectionEnd
<1>2. /\ file \in Seq(Line) /\ lines \in Seq(Entries) /\ Len(lines) \in Nat /\ at \in Nat \ {0}
      /\ SectionAsIn(lines, Len(file) + 1)
      /\ at <= Len(lines) + 1 /\ (inSection <=> Opened(lines, at))
      /\ ~Closed(lines, at) /\ ~Foreign(lines, at) /\ except = HeldList(lines, at)
  BY <1>1, LenProperties DEF Inv, TypeOK, Typed, SectionInv, SectionLoaded, SectionFollowsList
<1>3. ~Foreign(lines, Len(lines) + 1) /\ except = HeldList(lines, Len(lines) + 1)
  <2>1. CASE InList
    <3>1. at \in 1 .. Len(lines)
      BY <1>2, <2>1 DEF InList
    <3> QED
      BY <1>1, <1>2, <2>1, <3>1, NothingAfterTheEnd
  <2>2. CASE ~InList
    <3>1. at = Len(lines) + 1
      BY <1>1, <1>2, <2>2 DEF InList
    <3> QED
      BY <1>2, <3>1
  <2> QED
    BY <2>1, <2>2
<1>4. except = Listed /\ ~ForeignEnds
  BY <1>2, <1>3, ListedIsFileList DEF SectionAsIn
<1>5. (except = Listed /\ ~ForeignEnds)'
  BY <1>1, <1>4, FileSectionStays
<1> QED
  BY <1>1, <1>5 DEF SectionInv, SectionLoaded, SectionFollowsList, ExceptAsWritten

-----------------------------------------------------------------------------
LEMMA SectionInitially == Init => SectionInv
<1> SUFFICES ASSUME Init PROVE SectionInv
  OBVIOUS
<1>1. stage = "load" /\ at = 1 /\ lines = <<>> /\ except = <<>>
  BY DEF Init
<1>2. lines \in Seq(Entries) /\ Len(lines) + 1 = 1 /\ at - 1 = 0
  BY <1>1, EmptySeq
<1>3. /\ ~Opened(lines, 1) /\ ~Closed(lines, 1) /\ ~Foreign(lines, 1)
      /\ ~Found(1) /\ ~Over(0) /\ ~ForeignBefore(1)
  BY DEF Opened, Closed, Foreign, Found, Over, ForeignBefore
<1>4. HeldList(lines, 1) = FileList(1)
  <2>1. HeldPlaces(lines, 1) = {} /\ FilePlaces(1) = {}
    BY DEF HeldPlaces, FilePlaces
  <2>2. HeldList(lines, 1) = <<>>
    BY <2>1, FS_EmptySet DEF HeldList, Sublist
  <2>3. FileList(1) = <<>>
    BY <2>1, FS_EmptySet DEF FileList, Sublist
  <2> QED
    BY <2>2, <2>3
<1>5. SectionAsIn(lines, at)
  BY <1>1, <1>2, <1>3, <1>4 DEF SectionAsIn
<1> QED
  BY <1>1, <1>3, <1>5 DEF SectionInv, SectionLoaded, SectionFollowsList, ExceptAsWritten

LEMMA SectionPreserved == Inv /\ SectionInv /\ [Next]_vars => SectionInv'
<1> SUFFICES ASSUME Inv, SectionInv, [Next]_vars PROVE SectionInv'
  OBVIOUS
<1>1. CASE IgnoreLine
  BY <1>1, IgnoreLineKeepsSection
<1>2. CASE BlankLine
  BY <1>2, BlankLineKeepsSection
<1>3. CASE HeaderLine
  BY <1>3, HeaderLineKeepsSection
<1>4. CASE TextLine
  BY <1>4, TextLineKeepsSection
<1>5. CASE EndOfFile
  BY <1>5, EndOfFileKeepsSection
<1>6. CASE ParseOption
  BY <1>6, ParseOptionKeepsSection
<1>7. CASE OptionsEnd
  BY <1>7, OptionsEndKeepsSection
<1>8. CASE PassLine
  BY <1>8, PassLineKeepsSection
<1>9. CASE NullName
  BY <1>9, NullNameKeepsSection
<1>10. CASE ParseEntry
  BY <1>10, ParseEntryKeepsSection
<1>11. CASE SectionEnd
  BY <1>11, SectionEndKeepsSection
<1>12. CASE UNCHANGED vars
  <2>1. file' = file /\ stage' = stage /\ at' = at /\ inSection' = inSection /\ lines' = lines
        /\ except' = except
    BY <1>12 DEF vars
  <2> USE <2>1
  <2>2. /\ \A i : Found(i)' <=> Found(i)
        /\ \A i : Over(i)' <=> Over(i)
        /\ \A i : Opens(i)' <=> Opens(i)
        /\ \A i : Ends(i)' <=> Ends(i)
    BY FileSectionStays
  <2>3. (Found(at)' <=> Found(at)) /\ (Over(at - 1)' <=> Over(at - 1))
    BY <2>2 DEF Found, Over
  <2>4. InSectionAt(at)' <=> InSectionAt(at)
    BY DEF InSectionAt
  <2>5. (ForeignBefore(at)' <=> ForeignBefore(at)) /\ FileList(at)' = FileList(at)
    <3>1. ForeignBefore(at)' <=> ForeignBefore(at)
      BY <2>2 DEF ForeignBefore
    <3>2. FilePlaces(at)' = FilePlaces(at)
      BY <2>2 DEF FilePlaces
    <3> QED
      BY <3>1, <3>2 DEF FileList
  <2>6. SectionAsIn(lines, at)' <=> SectionAsIn(lines, at)
    BY <2>3, <2>5 DEF SectionAsIn
  <2>7. SectionAsIn(lines, Len(file) + 1) => SectionAsIn(lines, Len(file) + 1)'
    BY SectionAsInStays
  <2>8. SectionLoaded'
    BY <2>3, <2>4, <2>6, <2>7 DEF SectionInv, SectionLoaded
  <2>9. SectionFollowsList'
    BY DEF SectionInv, SectionFollowsList
  <2>10. ExceptAsWritten'
    BY FileSectionStays DEF SectionInv, ExceptAsWritten
  <2> QED
    BY <2>8, <2>9, <2>10 DEF SectionInv
<1> QED
  BY <1>1, <1>2, <1>3, <1>4, <1>5, <1>6, <1>7, <1>8, <1>9, <1>10, <1>11, <1>12 DEF Next

(* For a file of any length, whatever addresses are in it: when
   Reunion_Cfg_LoadDefault is through, the limiter lets through exactly the
   dotted addresses of its section, in their order; it gets through unless a
   section of another name ends before that one begins, and then it does not. *)
THEOREM AddressesAreThoseWritten == Spec => []ExceptAsWritten
<1>1. Init => Inv /\ SectionInv
  BY Initially, SectionInitially
<1>2. (Inv /\ SectionInv) /\ [Next]_vars => (Inv /\ SectionInv)'
  BY Preserved, SectionPreserved
<1>3. SectionInv => ExceptAsWritten
  BY DEF SectionInv
<1> QED
  BY <1>1, <1>2, <1>3, PTL DEF Spec
=============================================================================
