------------------------------ MODULE Framing ------------------------------
(***************************************************************************)
(* How connection_loop cuts the chunks that a stream delivers into lines.  *)
(***************************************************************************)
EXTENDS Naturals, Sequences, SequencesExt

CR == "\r"
LF == "\n"

(* bytes.split: a separator starts a new piece, any other byte goes to the *)
(* last one.                                                               *)
Split(s, sep) ==
    LET upto[i \in 0 .. Len(s)] ==
          IF i = 0 THEN << <<>> >>
          ELSE LET pieces == upto[i - 1]
               IN  IF s[i] = sep
                   THEN Append(pieces, <<>>)
                   ELSE [pieces EXCEPT ![Len(pieces)] = Append(@, s[i])]
    IN  upto[Len(s)]

(* A last piece that is a lone CR is thrown away, and the piece before it  *)
(* is kept as if it were not complete.                                     *)
Pieces(s) ==
    LET pieces == Split(s, LF)
    IN  IF Last(pieces) = <<CR>> THEN Front(pieces) ELSE pieces

(* One turn of the reading loop: the new value of msg and the lines to     *)
(* dispatch.  The chunk is appended to msg before the early `continue`.    *)
ReadChunkUnbuffered(msg, chunk) ==
    LET pieces == Pieces(chunk)
    IN  IF Len(pieces) < 2
        THEN [msg |-> chunk, lines |-> <<>>]
        ELSE [msg |-> Last(pieces), lines |-> Front(pieces)]
ReadChunk(msg, chunk) ==
    LET pieces == Pieces(msg \o chunk)
    IN  IF Len(pieces) < 2
        THEN [msg |-> msg \o chunk, lines |-> <<>>]
        ELSE [msg |-> Last(pieces), lines |-> Front(pieces)]

(* bytesToStd drops one CR at the end.                                     *)
WithoutCR(line) ==
    IF line # <<>> /\ Last(line) = CR THEN Front(line) ELSE line
=============================================================================
