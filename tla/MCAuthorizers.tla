---------------------------- MODULE MCAuthorizers ----------------------------
(* Bytes of sixteen values: NUL, ten digits, three letters (14 is an
   underscore) and a space; words of 256, whose upper half is masked off. *)
EXTENDS Authorizers, Bitwise

MCStripped == {13}
MCKeyed == [w \in 0 .. 255 |-> w ^^ 102]

(* "00_0" *)
MCBadHddsn == <<1, 1, 14, 1>>

Any == [len |-> 0, version |-> "other", rev |-> FALSE, hashed |-> <<>>, open |-> <<>>,
        sealed |-> <<>>, sealedAt |-> 0, setti |-> FALSE, zeros |-> FALSE,
        ones |-> FALSE, word |-> 0, hltv |-> FALSE, hid |-> -1, protocol |-> 48]

(* volumes 0, 7 (twice), 7 with the masked bit, and one with a NUL in it;
   serial numbers with and without spaces, long ones that end differently, one
   too large for a volume and the bad one *)
Volumes == {<<1>>, <<8>>, <<1, 8>>, <<2, 4, 6>>, <<2, 7>>}
Serials == {<<11, 8>>, <<11, 13, 8>>, <<13>>, <<11, 8, 8, 8>>, <<11, 8, 8, 9>>,
            <<10, 10, 10>>, <<1, 1, 14, 1>>}

Sealed(text, place, len) ==
    [Any EXCEPT !.len = len, !.version = "0x53", !.rev = TRUE, !.hashed = text,
                !.sealed = text, !.sealedAt = place]
Open(text) ==
    [Any EXCEPT !.len = 152, !.version = "0x4A", !.rev = TRUE, !.hashed = text,
                !.open = text]

MCTickets ==
    {Sealed(text, place, 136) : text \in Volumes \cup Serials, place \in {24, 40}}
    \cup {Sealed(<<11, 8>>, 24, 120), Sealed(<<11, 8>>, 40, 120)}
    \cup {Open(text) : text \in Volumes \cup Serials \cup {<<11, 8, 8, 8, 8, 9>>}}
    \cup {[Open(<<11, 8>>) EXCEPT !.hashed = <<12>>],
          [Open(<<11, 8>>) EXCEPT !.len = 768, !.ones = TRUE, !.word = 97]}
    \cup {[Any EXCEPT !.len = 10, !.version = "0xFFFF", !.zeros = TRUE, !.word = w] :
              w \in {0, 7, 16, 102, 135}}
    \cup {[Any EXCEPT !.len = 768, !.ones = TRUE, !.setti = x, !.word = w] :
              w \in {8, 11, 97, 225, 118, 102}, x \in BOOLEAN}
    \cup {[Any EXCEPT !.len = 28, !.version = v, !.word = w] :
              w \in {0, 7, 12, 135}, v \in {"0x14", "other"}}
    \cup {[Any EXCEPT !.hid = h] : h \in {0, 7}}
    \cup {[Any EXCEPT !.hltv = TRUE], [Any EXCEPT !.protocol = 47], Any}

Set(av, compat, salt) == [av |-> av, compat |-> compat, salt |-> salt, sxei |-> TRUE]

MCConfigs == {Set(1, FALSE, TRUE), Set(2, TRUE, FALSE), Set(2, FALSE, TRUE),
              Set(3, TRUE, TRUE), Set(4, TRUE, TRUE)}
=============================================================================
