----------------------------- MODULE LoginForm -----------------------------
(***************************************************************************)
(* The form with which the curses clients haxcurses and hyay3 start: four  *)
(* fields, a cursor, and a connection attempt when Enter is pressed.  The  *)
(* two programs have the same form but for one exception that only         *)
(* haxcurses catches.  Typed text is a sequence of tokens, each of some    *)
(* width on the screen; the cursor moves and erases by tokens.             *)
(***************************************************************************)
EXTENDS Integers, Sequences, SequencesExt

CONSTANTS
    Programs,   \* which of "haxcurses" and "hyay3" to run
    Cols,       \* curses.COLS
    Width,      \* Width[tok]: the columns that a token takes
    FormTokens, \* what is typed into the form
    MaxForm     \* how many tokens the form holds, a bound for TLC

ASSUME FormAssumption ==
    /\ Programs \subseteq {"haxcurses", "hyay3"}
    /\ FormTokens \subseteq DOMAIN Width

VARIABLES
    program, \* the program that runs
    phase,   \* "form", then "chat", or "ended"
    config,  \* config[line][1]: the text of each field
    line,    \* the field that the cursor is in
    index    \* where in the field the cursor is

(* Server address, port, username and password, with their labels' widths. *)
Fields == 0 .. 3
PortField == 1
LabelWidth == <<16, 13, 10, 10>>
Port == <<"6667">>

FormTypeOK ==
    /\ program \in Programs
    /\ phase \in {"form", "chat", "ended"}
    /\ config \in [Fields -> Seq(FormTokens)]
    /\ line \in Fields
    /\ index \in Nat

FormInit ==
    /\ program \in Programs
    /\ phase = "form"
    /\ config = [f \in Fields |-> <<>>]
    /\ line = 0
    /\ index = 0

TextWidth(text) == FoldLeft(LAMBDA sum, tok : sum + Width[tok], 0, text)

(* One row of a window takes less than its width: addstr fails when it     *)
(* fills the last column of the last row.                                  *)
Fits(label, text) == label + TextWidth(text) < Cols

(* Where the cursor of a text of length n is after KEY_LEFT or KEY_RIGHT.  *)
(* (OneLeft, like every definition just before one of the same parameters, *)
(* is a variant of it with a mistake in it, for mutation runs.)            *)
OneLeft(i) == i - 1
LeftOf(i) == Max({0, i - 1})
RightOf(i, n) == Min({n, i + 1})
Erased(text, i) == RemoveAt(text, i)
Typed(text, i, tok) == InsertAt(text, i + 1, tok)

(* KEY_DOWN and KEY_UP.                                                    *)
GoTo(f) ==
    /\ line' = f
    /\ index' = Min({index, Len(config[f])})
    /\ UNCHANGED config

FormArrow ==
    /\ \/ GoTo(Min({line + 1, 3}))
       \/ GoTo(Max({line - 1, 0}))
       \/ index' = LeftOf(index) /\ UNCHANGED <<config, line>>
       \/ index' = RightOf(index, Len(config[line])) /\ UNCHANGED <<config, line>>
    /\ UNCHANGED <<program, phase>>

FormBackspace ==
    /\ index > 0
    /\ config' = [config EXCEPT ![line] = Erased(@, index)]
    /\ index' = index - 1
    /\ UNCHANGED <<program, phase, line>>

(* A field that would fill its row makes addstr fail and the program end.  *)
FormType(tok) ==
    /\ Len(FlattenSeq([f \in 1 .. 4 |-> config[f - 1]])) < MaxForm
    /\ config' = [config EXCEPT ![line] = Typed(@, index, tok)]
    /\ index' = index + 1
    /\ phase' = IF Fits(LabelWidth[line + 1], config'[line]) THEN phase ELSE "ended"
    /\ UNCHANGED <<program, line>>

(* Enter on a form that is not filled, or a port that is no number, and    *)
(* attempts refused by the other end or by the name lookup of haxcurses,   *)
(* only show a message.  A port above 65535 (OverflowError), the failed    *)
(* lookup in hyay3 and any other OSError end the program.                  *)
Filled == \A f \in Fields : config[f] # <<>>
PortIsNumber == \A i \in DOMAIN config[PortField] : config[PortField][i] = "6667"

(* The message is shown in a window that is wide enough for it.            *)
FormRefused ==
    /\ ~Filled \/ ~PortIsNumber \/ config[PortField] = Port
    /\ UNCHANGED <<program, phase, config, line, index>>

FormCrash ==
    /\ Filled /\ PortIsNumber
    /\ phase' = "ended"
    /\ UNCHANGED <<program, config, line, index>>

(* connect succeeds; the form is not looked at again.                      *)
Connected ==
    /\ phase = "form"
    /\ Filled /\ config[PortField] = Port
    /\ phase' = "chat"
    /\ config' = [f \in Fields |-> <<>>] /\ line' = 0 /\ index' = 0
    /\ UNCHANGED program

FormKey ==
    /\ phase = "form"
    /\ FormArrow \/ FormBackspace \/ FormRefused \/ FormCrash
       \/ \E tok \in FormTokens : FormType(tok)

-----------------------------------------------------------------------------
(* The cursor stays inside the field it is in, also after moving from a    *)
(* long field to a short one.                                              *)
CursorInField == index \in 0 .. Len(config[line])
=============================================================================
