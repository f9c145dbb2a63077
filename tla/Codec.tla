------------------------------- MODULE Codec -------------------------------
(***************************************************************************)
(* How a value of an argument is written on the wire and read back by the  *)
(* server (utils.py) and by two clients (miniirc_idc.py, haxcurses.py).    *)
(* A value is a sequence of symbols; "x" stands for every other character. *)
(***************************************************************************)
EXTENDS Naturals, Sequences, SequencesExt

BS == "\\"

Separators == {"\r", "\n", "\t"}

(* The separator that a letter after a backslash stands for, and back.     *)
Separator == [r |-> "\r", n |-> "\n", t |-> "\t"]
Letter == Inverse(Separator, DOMAIN Separator, Separators)

Mapped(Code(_), v) == FlattenSeq([i \in DOMAIN v |-> Code(v[i])])

(* The replacement of each pair of a backslash and a character, from left  *)
(* to right; a backslash at the end stays (re.sub of \\(.)).               *)
PairsReplaced(Pair(_), w) ==
    LET from[i \in 1 .. Len(w) + 1] ==
          CASE i = Len(w) + 1           -> <<>>
            [] w[i] = BS /\ i < Len(w)  -> Pair(w[i + 1]) \o from[i + 2]
            [] OTHER                    -> <<w[i]>> \o from[i + 1]
    IN  from[1]

(* The separator a letter stands for, or `other`.                          *)
Unlettered(c, other) ==
    IF c \in DOMAIN Separator THEN <<Separator[c]>> ELSE other

-----------------------------------------------------------------------------
(* miniirc_idc.py: the backslash is escaped like the separators.           *)

ClientEscape(v) ==
    Mapped(LAMBDA c : CASE c = BS          -> <<BS, BS>>
                        [] c \in Separators -> <<BS, Letter[c]>>
                        [] OTHER            -> <<c>>, v)

Unknown == "U+FFFD"

ClientUnescape(w) ==
    PairsReplaced(LAMBDA c : IF c = BS THEN <<BS>> ELSE Unlettered(c, <<Unknown>>), w)

(* haxcurses.py doubles the backslashes of a typed text, which holds no    *)
(* separator.                                                              *)
HaxEscape(v) == Mapped(LAMBDA c : IF c = BS THEN <<BS, BS>> ELSE <<c>>, v)

(* haxcurses.py cuts at double backslashes and replaces \t, \r and \n in   *)
(* the pieces; any other backslash stays.                                  *)
HaxUnescape(w) ==
    PairsReplaced(LAMBDA c : IF c = BS THEN <<BS>> ELSE Unlettered(c, <<BS, c>>), w)

-----------------------------------------------------------------------------
(* utils.py: the table has two backslashes for an escaped backslash, so    *)
(* reading keeps both and the first replace() of writing changes nothing.  *)

Bad == "bad escape"

UnescapeToOne(w) ==
    PairsReplaced(LAMBDA c : IF c = BS THEN <<BS>> ELSE Unlettered(c, <<Bad>>), w)
ServerUnescape(w) ==
    PairsReplaced(LAMBDA c : IF c = BS THEN <<BS, BS>> ELSE Unlettered(c, <<Bad>>), w)

(* EscapeSequenceError.                                                    *)
NotRefused(w) == FALSE
Refused(w) == Bad \in ToSet(ServerUnescape(w))

EscapeBackslashToo(v) == ClientEscape(v)
EscapeButTab(v) ==
    Mapped(LAMBDA c : IF c \in {"\r", "\n"} THEN <<BS, Letter[c]>> ELSE <<c>>, v)
ServerEscape(v) ==
    Mapped(LAMBDA c : IF c \in Separators THEN <<BS, Letter[c]>> ELSE <<c>>, v)
=============================================================================
