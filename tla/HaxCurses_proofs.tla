-------------------------- MODULE HaxCurses_proofs --------------------------
(***************************************************************************)
(* Proofs about HaxCurses, for both programs, any screen, any tokens, any  *)
(* messages and any capacity of the connection: its types, that the two    *)
(* threads leave each other's indices inside their lists and texts, that   *)
(* the prompt is right whenever both threads wait, that a text goes where  *)
(* the prompt said, and that no message is lost, doubled or misplaced.     *)
(***************************************************************************)
EXTENDS HaxCurses, SequenceLemmas, TLAPS

(* The values of the two threads are records of these fields, so that      *)
(* EXCEPT changes the field that it names.                                 *)
Records ==
    /\ DOMAIN ui = {"at", "seen", "text"}
    /\ DOMAIN net = {"at", "data"}
    /\ IsSeq(message_list)
    /\ \A i \in DOMAIN message_list : DOMAIN message_list[i] = {"username", "messages"}

(* What is on the connection fits in it, with room for the text that is    *)
(* being sent.                                                             *)
WithinCapacity ==
    /\ IsSeq(toServer) /\ Len(toServer) \in 0 .. Capacity
    /\ IsSeq(toClient) /\ Len(toClient) \in 0 .. 2 * Capacity
    /\ ui.at = "sending" => IsSeq(ui.text) /\ Len(ui.text) = 1

(* The index of the conversation that is shown.                            *)
ShownExists ==
    /\ message_index \in Nat
    /\ message_index < Len(message_list) \/ message_index = 0

(* PromptTruthful with the receiving thread at any place: while that one   *)
(* handles lines, the prompt is right after each of them.                  *)
PromptRight ==
    ui.at \in {"getkey", "enter"} /\ phase # "ended" =>
        prompt = PromptOf(message_list, message_index)

(* What the prompt said when Enter was pressed is still shown: messages    *)
(* may come before the thread gets the lock, and may open conversations,   *)
(* but never move the one that is shown.                                   *)
SeenIsShown ==
    ui.at = "enter" /\ phase # "ended" /\ ui.seen # NoBuffer =>
        message_list # <<>> /\ ui.seen = message_list[message_index + 1].username

IInv ==
    /\ FormTypeOK /\ CursorInField
    /\ input_str \in Seq(ChatTokens) /\ input_index \in 0 .. Len(input_str)
    /\ prompt = NoBuffer \/ prompt \in Names(message_list)
    /\ ui.at \in {"getkey", "enter", "sending", "dead"}
    /\ net.at \in {"recv", "chunk", "handling", "closing"}
    /\ Records /\ WithinCapacity /\ ShownExists /\ PromptRight /\ SeenIsShown

-----------------------------------------------------------------------------
(* Facts about the operators of the form.                                  *)

LEMMA MaxOfTwo ==
    ASSUME NEW a \in Int, NEW b \in Int
    PROVE  Max({a, b}) = IF a >= b THEN a ELSE b
<1> DEFINE m == IF a >= b THEN a ELSE b
<1>1. m \in {a, b} /\ \A y \in {a, b} : m >= y
  OBVIOUS
<1>2. \A x \in {a, b} : (\A y \in {a, b} : x >= y) => x = m
  OBVIOUS
<1> QED
  BY <1>1, <1>2 DEF Max

LEMMA MinOfTwo ==
    ASSUME NEW a \in Int, NEW b \in Int
    PROVE  Min({a, b}) = IF a <= b THEN a ELSE b
<1> DEFINE m == IF a <= b THEN a ELSE b
<1>1. m \in {a, b} /\ \A y \in {a, b} : m <= y
  OBVIOUS
<1>2. \A x \in {a, b} : (\A y \in {a, b} : x <= y) => x = m
  OBVIOUS
<1> QED
  BY <1>1, <1>2 DEF Min

LEMMA CursorMoves ==
    ASSUME NEW n \in Nat, NEW i \in 0 .. n
    PROVE  LeftOf(i) \in 0 .. n /\ RightOf(i, n) \in 0 .. n
<1>1. LeftOf(i) = IF 0 >= i - 1 THEN 0 ELSE i - 1
  BY MaxOfTwo DEF LeftOf
<1>2. RightOf(i, n) = IF n <= i + 1 THEN n ELSE i + 1
  BY MinOfTwo DEF RightOf
<1> QED
  BY <1>1, <1>2

(* Backspace takes the token before the cursor, and a typed token comes at *)
(* the cursor.                                                             *)
LEMMA ErasedShorter ==
    ASSUME NEW S, NEW s \in Seq(S), NEW i \in 1 .. Len(s)
    PROVE  Erased(s, i) \in Seq(S) /\ Len(Erased(s, i)) = Len(s) - 1
<1> DEFINE a == SubSeq(s, 1, i - 1)
           b == SubSeq(s, i + 1, Len(s))
<1>1. a \in Seq(S) /\ Len(a) = i - 1
  OBVIOUS
<1>2. b \in Seq(S) /\ Len(b) = Len(s) - i
  OBVIOUS
<1> HIDE DEF a, b
<1>3. a \o b \in Seq(S) /\ Len(a \o b) = Len(s) - 1
  BY <1>1, <1>2
<1>4. Erased(s, i) = a \o b
  BY DEF Erased, RemoveAt, a, b
<1> QED
  BY <1>3, <1>4

LEMMA TypedLonger ==
    ASSUME NEW S, NEW s \in Seq(S), NEW i \in 0 .. Len(s), NEW tok \in S
    PROVE  Typed(s, i, tok) \in Seq(S) /\ Len(Typed(s, i, tok)) = Len(s) + 1
<1> DEFINE a == SubSeq(s, 1, (i + 1) - 1)
           b == SubSeq(s, i + 1, Len(s))
<1>1. a \in Seq(S) /\ Len(a) = i
  OBVIOUS
<1>2. b \in Seq(S) /\ Len(b) = Len(s) - i
  OBVIOUS
<1>3. Typed(s, i, tok) = a \o <<tok>> \o b
  BY DEF Typed, InsertAt
<1> HIDE DEF a, b
<1>4. a \o <<tok>> \in Seq(S) /\ Len(a \o <<tok>>) = i + 1
  BY <1>1
<1> DEFINE c == a \o <<tok>>
<1>5. c \in Seq(S) /\ Len(c) = i + 1
  BY <1>4
<1> HIDE DEF c
<1>6. c \o b \in Seq(S) /\ Len(c \o b) = Len(s) + 1
  BY <1>2, <1>5
<1> QED
  BY <1>3, <1>6 DEF c

-----------------------------------------------------------------------------
(* The form.                                                               *)

LEMMA GoToKeeps ==
    ASSUME FormTypeOK, CursorInField, NEW f \in Fields, GoTo(f)
    PROVE  /\ config' \in [Fields -> Seq(FormTokens)] /\ line' \in Fields
           /\ index' \in 0 .. Len(config[line'])
<1>1. Len(config[f]) \in Nat /\ index \in Nat
  BY DEF FormTypeOK
<1>2. index' = IF index <= Len(config[f]) THEN index ELSE Len(config[f])
  BY <1>1, MinOfTwo DEF GoTo
<1> QED
  BY <1>1, <1>2 DEF GoTo, FormTypeOK

LEMMA FormArrowKeeps ==
    ASSUME FormTypeOK, CursorInField, FormArrow
    PROVE  FormTypeOK' /\ CursorInField' /\ phase' = phase
<1>1. CASE GoTo(Min({line + 1, 3})) \/ GoTo(Max({line - 1, 0}))
  <2>1. line \in 0 .. 3
    BY DEF FormTypeOK, Fields
  <2>2. Min({line + 1, 3}) \in Fields /\ Max({line - 1, 0}) \in Fields
    BY <2>1, MinOfTwo, MaxOfTwo DEF Fields
  <2>3. PICK f \in Fields : GoTo(f)
    BY <1>1, <2>2
  <2>4. /\ config' \in [Fields -> Seq(FormTokens)] /\ line' \in Fields
        /\ index' \in 0 .. Len(config[line'])
    BY <2>3, GoToKeeps
  <2>5. config' = config
    BY <2>3 DEF GoTo
  <2> QED
    BY <2>4, <2>5 DEF FormArrow, FormTypeOK, CursorInField
<1>2. CASE /\ index' = LeftOf(index) \/ index' = RightOf(index, Len(config[line]))
           /\ UNCHANGED <<config, line>>
  <2>1. Len(config[line]) \in Nat /\ index \in 0 .. Len(config[line])
    BY DEF FormTypeOK, CursorInField
  <2>2. index' \in 0 .. Len(config[line])
    BY <1>2, <2>1, CursorMoves
  <2> QED
    BY <1>2, <2>1, <2>2 DEF FormArrow, FormTypeOK, CursorInField
<1> QED
  BY <1>1, <1>2 DEF FormArrow

LEMMA FormKeyKeeps ==
    ASSUME FormTypeOK, CursorInField, FormKey
    PROVE  FormTypeOK' /\ CursorInField' /\ phase' \in {"form", "ended"}
<1>0. phase = "form" /\ config[line] \in Seq(FormTokens) /\ line \in Fields
  BY DEF FormKey, FormTypeOK
<1>1. CASE FormArrow
  BY <1>0, <1>1, FormArrowKeeps
<1>2. CASE FormBackspace
  <2>1. index \in 1 .. Len(config[line])
    BY <1>0, <1>2 DEF FormBackspace, FormTypeOK, CursorInField
  <2>2. Erased(config[line], index) \in Seq(FormTokens)
        /\ Len(Erased(config[line], index)) = Len(config[line]) - 1
    BY <1>0, <2>1, ErasedShorter
  <2>3. config' = [config EXCEPT ![line] = Erased(config[line], index)]
    BY <1>2 DEF FormBackspace
  <2>4. config' \in [Fields -> Seq(FormTokens)] /\ Len(config'[line]) = Len(config[line]) - 1
    BY <1>0, <2>2, <2>3 DEF FormTypeOK
  <2> QED
    BY <1>0, <1>2, <2>1, <2>4 DEF FormBackspace, FormTypeOK, CursorInField
<1>3. CASE FormRefused
  BY <1>0, <1>3 DEF FormRefused, FormTypeOK, CursorInField
<1>4. CASE FormCrash
  BY <1>0, <1>4 DEF FormCrash, FormTypeOK, CursorInField
<1>5. ASSUME NEW tok \in FormTokens, FormType(tok)
      PROVE  FormTypeOK' /\ CursorInField' /\ phase' \in {"form", "ended"}
  <2>1. index \in 0 .. Len(config[line])
    BY DEF CursorInField
  <2>2. Typed(config[line], index, tok) \in Seq(FormTokens)
        /\ Len(Typed(config[line], index, tok)) = Len(config[line]) + 1
    BY <1>0, <2>1, TypedLonger
  <2>3. config' = [config EXCEPT ![line] = Typed(config[line], index, tok)]
    BY <1>5 DEF FormType
  <2>4. config' \in [Fields -> Seq(FormTokens)] /\ Len(config'[line]) = Len(config[line]) + 1
    BY <1>0, <2>2, <2>3 DEF FormTypeOK
  <2>5. phase' \in {"form", "ended"} /\ UNCHANGED <<program, line>> /\ index' = index + 1
    BY <1>0, <1>5 DEF FormType
  <2> QED
    BY <1>0, <2>1, <2>4, <2>5 DEF FormTypeOK, CursorInField
<1> QED
  BY <1>1, <1>2, <1>3, <1>4, <1>5 DEF FormKey

LEMMA ConnectedKeeps ==
    ASSUME FormTypeOK, Connected
    PROVE  FormTypeOK' /\ CursorInField' /\ phase = "form"
<1>1. <<>> \in Seq(FormTokens) /\ Len(<<>>) = 0
  OBVIOUS
<1>2. config' = [f \in Fields |-> <<>>] /\ line' = 0 /\ index' = 0
  BY DEF Connected
<1>3. 0 \in Fields
  BY DEF Fields
<1> QED
  BY <1>1, <1>2, <1>3 DEF Connected, FormTypeOK, CursorInField

LEMMA FormKeeps == ASSUME IInv, Form PROVE IInv'
<1>1. FormTypeOK' /\ CursorInField' /\ phase = "form"
  <2>1. FormTypeOK /\ CursorInField
    BY DEF IInv
  <2>2. CASE FormKey
    BY <2>1, <2>2, FormKeyKeeps DEF FormKey
  <2>3. CASE Connected
    BY <2>1, <2>3, ConnectedKeeps
  <2> QED
    BY <2>2, <2>3 DEF Form
<1>2. UNCHANGED chatVars
  BY DEF Form
<1> QED
  BY <1>1, <1>2 DEF IInv, chatVars, Records, WithinCapacity, ShownExists, PromptRight,
                    SeenIsShown, Names, PromptOf, IsSeq

(* After the form nothing changes its variables but the end of the         *)
(* program.                                                                *)
LEMMA FormLeftAlone ==
    ASSUME FormTypeOK, CursorInField, UNCHANGED <<program, config, line, index>>,
           phase' \in {phase, "ended"}
    PROVE  FormTypeOK' /\ CursorInField'
  BY DEF FormTypeOK, CursorInField

-----------------------------------------------------------------------------
(* What a step of either thread does to the screen.                        *)

LEMMA ShownNamed ==
    ASSUME NEW list, IsSeq(list), list # <<>>,
           NEW i \in Nat, i < Len(list) \/ i = 0
    PROVE  /\ i + 1 \in DOMAIN list
           /\ PromptOf(list, i) = list[i + 1].username
           /\ list[i + 1].username \in Names(list)
<1>1. Len(list) \in Nat \ {0} /\ DOMAIN list = 1 .. Len(list)
  BY DEF IsSeq
<1> QED
  BY <1>1 DEF PromptOf, Names

(* A screen that is redrawn names the conversation shown; one that is not, *)
(* or not completely, keeps a prompt that still names one.                 *)
LEMMA RedrawnPrompt ==
    ASSUME prompt = NoBuffer \/ prompt \in Names(message_list),
           IsSeq(message_list'), Names(message_list) \subseteq Names(message_list'),
           ShownExists', UpdateScreen
    PROVE  /\ prompt' = NoBuffer \/ prompt' \in Names(message_list')
           /\ ScreenOK => prompt' = PromptOf(message_list, message_index)'
<1>1. PromptOf(message_list, message_index)' = NoBuffer
      \/ PromptOf(message_list, message_index)' \in Names(message_list')
  <2>1. PromptOf(message_list, message_index)' = PromptOf(message_list', message_index')
    OBVIOUS
  <2>2. CASE message_list' = <<>>
    BY <2>1, <2>2 DEF PromptOf
  <2>3. CASE message_list' # <<>>
    BY <2>1, <2>3, ShownNamed DEF ShownExists
  <2> QED
    BY <2>2, <2>3
<1> QED
  BY <1>1 DEF UpdateScreen, ScreenOK

LEMMA UiValues ==
    /\ Waiting.at = "getkey" /\ Dead.at = "dead"
    /\ DOMAIN Waiting = {"at", "seen", "text"} /\ DOMAIN Dead = {"at", "seen", "text"}
  BY DEF Waiting, Dead

(* What the user's thread leaves behind when it is done with a key or a    *)
(* text: it waits again in front of a right prompt, or it is dead.         *)
Conversations ==
    /\ IsSeq(message_list)
    /\ \A i \in DOMAIN message_list : DOMAIN message_list[i] = {"username", "messages"}

LEMMA KeyKeeps ==
    ASSUME IInv, phase = "chat", UNCHANGED <<program, phase, config, line, index, net>>,
           IsSeq(toServer'), Len(toServer') \in 0 .. Capacity, UNCHANGED toClient,
           input_str' \in Seq(ChatTokens), input_index' \in 0 .. Len(input_str'),
           Conversations', Names(message_list) \subseteq Names(message_list'), ShownExists',
           \/ UpdateScreen /\ UiGoesOn(ScreenOK)
           \/ /\ ui.at \in {"getkey", "enter"} /\ ui' \in {Waiting, Dead}
              /\ UNCHANGED <<prompt, message_list, message_index>>
    PROVE  IInv'
<1>1. FormTypeOK' /\ CursorInField'
  BY FormLeftAlone DEF IInv
<1>2. ui' \in {Waiting, Dead}
  BY DEF UiGoesOn
<1>3. ui'.at \in {"getkey", "dead"} /\ DOMAIN ui' = {"at", "seen", "text"}
  BY <1>2, UiValues
<1>4. /\ prompt' = NoBuffer \/ prompt' \in Names(message_list')
      /\ ui'.at = "getkey" => prompt' = PromptOf(message_list, message_index)'
  <2>1. CASE UpdateScreen /\ UiGoesOn(ScreenOK)
    <3>1. ui'.at = "getkey" => ScreenOK
      BY <2>1, UiValues DEF UiGoesOn
    <3>2. prompt = NoBuffer \/ prompt \in Names(message_list)
      BY DEF IInv
    <3>3. IsSeq(message_list')
      BY DEF Conversations
    <3>4. /\ prompt' = NoBuffer \/ prompt' \in Names(message_list')
          /\ ScreenOK => prompt' = PromptOf(message_list, message_index)'
      BY <2>1, <3>2, <3>3, RedrawnPrompt
    <3> QED
      BY <3>1, <3>4
  <2>2. CASE /\ ui.at \in {"getkey", "enter"}
             /\ UNCHANGED <<prompt, message_list, message_index>>
    <3>1. prompt = PromptOf(message_list, message_index)
          /\ (prompt = NoBuffer \/ prompt \in Names(message_list))
      BY <2>2 DEF IInv, PromptRight
    <3> QED
      BY <2>2, <3>1
  <2> QED
    BY <2>1, <2>2
<1>5. Records' /\ WithinCapacity' /\ net'.at \in {"recv", "chunk", "handling", "closing"}
  BY <1>3 DEF IInv, Records, Conversations, WithinCapacity
<1>6. PromptRight' /\ SeenIsShown'
  BY <1>3, <1>4 DEF PromptRight, SeenIsShown
<1>7. (prompt = NoBuffer \/ prompt \in Names(message_list))'
  BY <1>4
<1> QED
  BY <1>1, <1>3, <1>5, <1>6, <1>7 DEF IInv

LEMMA PressEnterKeeps == ASSUME IInv, PressEnter PROVE IInv'
<1>1. FormTypeOK' /\ CursorInField'
  BY FormLeftAlone DEF IInv, PressEnter
<1>2. ui'.at = "enter" /\ ui'.seen = prompt /\ DOMAIN ui' = {"at", "seen", "text"}
  BY DEF PressEnter, IInv, Records
<1>3. phase = "chat" /\ prompt = PromptOf(message_list, message_index)
  BY DEF PressEnter, IInv, PromptRight
<1>4. UNCHANGED <<screen, net, wires, phase>>
  BY DEF PressEnter
<1>5. SeenIsShown' /\ PromptRight'
  BY <1>2, <1>3, <1>4 DEF SeenIsShown, PromptRight, PromptOf, screen
<1>6. Records' /\ WithinCapacity' /\ ShownExists'
  BY <1>2, <1>4 DEF IInv, Records, WithinCapacity, ShownExists, screen, wires, IsSeq
<1> QED
  BY <1>1, <1>2, <1>4, <1>5, <1>6 DEF IInv, screen, Names

-----------------------------------------------------------------------------
(* The keys.                                                               *)

KeyFrame ==
    /\ phase = "chat" /\ ui.at \in {"getkey", "enter"}
    /\ UNCHANGED <<program, phase, config, line, index, net, msg, wires>>

(* KeyKeeps for a key, which sends nothing by itself.                      *)
LEMMA QuietKeyKeeps ==
    ASSUME IInv, KeyFrame,
           input_str' \in Seq(ChatTokens), input_index' \in 0 .. Len(input_str'),
           Conversations', Names(message_list) \subseteq Names(message_list'), ShownExists',
           \/ UpdateScreen /\ UiGoesOn(ScreenOK)
           \/ ui' \in {Waiting, Dead} /\ UNCHANGED <<prompt, message_list, message_index>>
    PROVE  IInv'
<1>1. UNCHANGED <<toServer, toClient>>
  BY DEF KeyFrame, wires
<1>2. IsSeq(toServer') /\ Len(toServer') \in 0 .. Capacity
  BY <1>1 DEF IInv, WithinCapacity
<1> QED
  BY <1>1, <1>2, KeyKeeps DEF KeyFrame

LEMMA SwitchBufferKeeps == ASSUME IInv, KeyFrame, SwitchBuffer PROVE IInv'
<1>1. UNCHANGED <<input_str, input_index, message_list>> /\ UpdateScreen /\ UiGoesOn(ScreenOK)
  BY DEF SwitchBuffer
<1>2. IsSeq(message_list) /\ Len(message_list) \in Nat /\ ShownExists
  BY DEF IInv, Records, IsSeq
<1>3. ShownExists'
  <2>1. CASE message_index' = WrapDown(message_index + 1)
    BY <1>1, <1>2, <2>1 DEF ShownExists, WrapDown
  <2>2. CASE message_index' = WrapUp(message_index - 1)
    <3>1. WrapUp(message_index - 1) =
            IF message_index - 1 < 0
            THEN IF 0 >= Len(message_list) - 1 THEN 0 ELSE Len(message_list) - 1
            ELSE message_index - 1
      BY <1>2, MaxOfTwo DEF WrapUp
    <3> QED
      BY <1>1, <1>2, <2>2, <3>1 DEF ShownExists
  <2> QED
    BY <2>1, <2>2 DEF SwitchBuffer
<1>4. input_str' \in Seq(ChatTokens) /\ input_index' \in 0 .. Len(input_str')
  BY <1>1 DEF IInv
<1>5. Conversations' /\ Names(message_list) \subseteq Names(message_list')
  BY <1>1 DEF IInv, Records, Conversations
<1> QED
  BY <1>1, <1>3, <1>4, <1>5, QuietKeyKeeps

(* A key that leaves the conversations alone.                              *)
LEMMA InputKeyKeeps ==
    ASSUME IInv, KeyFrame, ui' \in {Waiting, Dead},
           UNCHANGED <<prompt, message_list, message_index>>,
           input_str' \in Seq(ChatTokens), input_index' \in 0 .. Len(input_str')
    PROVE  IInv'
<1>1. Conversations' /\ Names(message_list) \subseteq Names(message_list') /\ ShownExists'
  BY DEF IInv, Records, Conversations, ShownExists
<1> QED
  BY <1>1, QuietKeyKeeps

LEMMA MoveCursorKeeps == ASSUME IInv, KeyFrame, MoveCursor PROVE IInv'
<1>1. input_str \in Seq(ChatTokens) /\ Len(input_str) \in Nat
      /\ input_index \in 0 .. Len(input_str)
  BY DEF IInv
<1>2. input_index' \in 0 .. Len(input_str)
  BY <1>1, CursorMoves DEF MoveCursor
<1>3. ui' \in {Waiting, Dead}
  BY DEF MoveCursor, UiGoesOn
<1>4. UNCHANGED <<input_str, message_list, message_index, prompt>>
  BY DEF MoveCursor
<1> QED
  BY <1>1, <1>2, <1>3, <1>4, InputKeyKeeps

LEMMA EditInputKeeps == ASSUME IInv, KeyFrame, EditInput PROVE IInv'
<1>1. input_str \in Seq(ChatTokens) /\ Len(input_str) \in Nat
      /\ input_index \in 0 .. Len(input_str)
  BY DEF IInv
<1>2. input_str' \in Seq(ChatTokens) /\ input_index' \in 0 .. Len(input_str')
  <2>1. CASE /\ input_index > 0
             /\ input_str' = Erased(input_str, input_index)
             /\ input_index' = input_index - 1
    <3>1. Erased(input_str, input_index) \in Seq(ChatTokens)
          /\ Len(Erased(input_str, input_index)) = Len(input_str) - 1
      BY <1>1, <2>1, ErasedShorter
    <3> QED
      BY <1>1, <2>1, <3>1
  <2>2. ASSUME NEW tok \in ChatTokens, input_str' = Typed(input_str, input_index, tok),
               input_index' = input_index + 1
        PROVE  input_str' \in Seq(ChatTokens) /\ input_index' \in 0 .. Len(input_str')
    <3>1. Typed(input_str, input_index, tok) \in Seq(ChatTokens)
          /\ Len(Typed(input_str, input_index, tok)) = Len(input_str) + 1
      BY <1>1, TypedLonger
    <3> QED
      BY <1>1, <2>2, <3>1
  <2> QED
    BY <2>1, <2>2 DEF EditInput
<1>3. ui' \in {Waiting, Dead}
  BY DEF EditInput, UiGoesOn
<1>4. UNCHANGED <<message_list, message_index, prompt>>
  BY DEF EditInput
<1> QED
  BY <1>2, <1>3, <1>4, InputKeyKeeps

LEMMA OtherKeyKeeps == ASSUME IInv, OtherKey PROVE IInv'
<1>1. KeyFrame /\ (SwitchBuffer \/ MoveCursor \/ EditInput)
  BY DEF OtherKey, HandleKey, KeyFrame
<1> QED
  BY <1>1, SwitchBufferKeeps, MoveCursorKeeps, EditInputKeeps

-----------------------------------------------------------------------------
(* Enter.                                                                  *)

(* A new conversation keeps the others at their places.                    *)
LEMMA OneMore ==
    ASSUME Conversations, NEW name, NEW messages
    PROVE  LET longer == Append(message_list, Conversation(name, messages))
           IN  /\ IsSeq(longer) /\ Len(longer) = Len(message_list) + 1
               /\ Len(message_list) \in Nat
               /\ \A i \in DOMAIN longer : DOMAIN longer[i] = {"username", "messages"}
               /\ Names(message_list) \subseteq Names(longer)
               /\ DOMAIN message_list = 1 .. Len(message_list)
               /\ DOMAIN longer = 1 .. Len(message_list) + 1
               /\ \A i \in DOMAIN message_list : longer[i] = message_list[i]
<1> DEFINE c == Conversation(name, messages)
           longer == Append(message_list, c)
<1>1. DOMAIN c = {"username", "messages"}
  BY DEF Conversation
<1>2. /\ IsSeq(longer) /\ Len(longer) = Len(message_list) + 1 /\ Len(message_list) \in Nat
      /\ DOMAIN message_list = 1 .. Len(message_list)
      /\ DOMAIN longer = 1 .. Len(message_list) + 1
      /\ \A i \in DOMAIN message_list : longer[i] = message_list[i]
      /\ longer[Len(message_list) + 1] = c
  BY AppendIsSeq DEF Conversations
<1> HIDE DEF c, longer
<1>3. \A i \in DOMAIN message_list : DOMAIN message_list[i] = {"username", "messages"}
  BY DEF Conversations
<1>4. \A i \in DOMAIN longer : i \in DOMAIN message_list \/ i = Len(message_list) + 1
  BY <1>2
<1>5. \A i \in DOMAIN longer : DOMAIN longer[i] = {"username", "messages"}
  BY <1>1, <1>2, <1>3, <1>4
<1>6. DOMAIN message_list \subseteq DOMAIN longer
  BY <1>2
<1>7. Names(message_list) \subseteq Names(longer)
  BY <1>2, <1>6 DEF Names
<1> QED
  BY <1>2, <1>5, <1>7 DEF longer, c

LEMMA QueryKeeps ==
    ASSUME IInv, KeyFrame, NEW text, Query(text), input_str' = <<>>, input_index' = 0
    PROVE  IInv'
<1>1. input_str' \in Seq(ChatTokens) /\ input_index' \in 0 .. Len(input_str')
  OBVIOUS
<1>2. Conversations /\ ShownExists
  BY DEF IInv, Records, Conversations
<1>3. CASE ~HasArgument(text)
  <2>1. ui' \in {Waiting, Dead} /\ UNCHANGED <<prompt, message_list, message_index>>
    BY <1>3 DEF Query, UiGoesOn
  <2> QED
    BY <1>1, <2>1, InputKeyKeeps
<1>4. CASE HasArgument(text)
  <2>1. UpdateScreen /\ UiGoesOn(ScreenOK)
    BY <1>4 DEF Query
  <2>2. CASE UNCHANGED <<message_list, message_index>>
    <3>1. Conversations' /\ Names(message_list) \subseteq Names(message_list') /\ ShownExists'
      BY <1>2, <2>2 DEF Conversations, ShownExists
    <3> QED
      BY <1>1, <2>1, <3>1, QuietKeyKeeps
  <2>3. CASE /\ message_list' = Append(message_list, Conversation(Argument(text), <<>>))
             /\ message_index' = Len(message_list)
    <3>1. Conversations' /\ Names(message_list) \subseteq Names(message_list')
          /\ Len(message_list') = Len(message_list) + 1 /\ Len(message_list) \in Nat
      BY <1>2, <2>3, OneMore DEF Conversations
    <3>2. ShownExists'
      BY <2>3, <3>1 DEF ShownExists
    <3> QED
      BY <1>1, <2>1, <3>1, <3>2, QuietKeyKeeps
  <2> QED
    BY <1>4, <2>2, <2>3 DEF Query
<1> QED
  BY <1>3, <1>4

(* The fourth case of Enter: the text is on its way to the conversation    *)
(* shown, and the thread keeps the lock while sendall waits.               *)
StartSending ==
    /\ ui' = [ui EXCEPT !.at = "sending", !.text =
                <<Privmsg(Me, message_list[message_index + 1].username, input_str)>>]
    /\ UNCHANGED <<message_list, message_index, prompt>>

LEMMA StartSendingKeeps ==
    ASSUME IInv, KeyFrame, StartSending, input_str' = <<>>, input_index' = 0
    PROVE  IInv'
<1>1. FormTypeOK' /\ CursorInField'
  BY FormLeftAlone DEF IInv, KeyFrame
<1>2. DOMAIN ui = {"at", "seen", "text"}
  BY DEF IInv, Records
<1>3. ui'.at = "sending" /\ DOMAIN ui' = {"at", "seen", "text"}
      /\ ui'.text = <<Privmsg(Me, message_list[message_index + 1].username, input_str)>>
  BY <1>2 DEF StartSending
<1>4. IsSeq(ui'.text) /\ Len(ui'.text) = 1
  BY <1>3, SingleIsSeq
<1>5. UNCHANGED <<net, toServer, toClient, message_list, message_index, prompt>>
  BY DEF StartSending, KeyFrame, wires
<1>6. Records' /\ ShownExists' /\ net'.at \in {"recv", "chunk", "handling", "closing"}
      /\ (prompt = NoBuffer \/ prompt \in Names(message_list))'
  BY <1>3, <1>5 DEF IInv, Records, ShownExists, Names, IsSeq
<1>7. WithinCapacity'
  BY <1>4, <1>5 DEF IInv, WithinCapacity, IsSeq
<1>8. PromptRight' /\ SeenIsShown'
  BY <1>3 DEF PromptRight, SeenIsShown
<1>9. input_str' \in Seq(ChatTokens) /\ input_index' \in 0 .. Len(input_str')
  OBVIOUS
<1> QED
  BY <1>1, <1>3, <1>6, <1>7, <1>8, <1>9 DEF IInv

LEMMA EnterKeyKeeps == ASSUME IInv, EnterKey PROVE IInv'
<1>1. KeyFrame /\ Enter /\ input_str' = <<>> /\ input_index' = 0
  BY DEF EnterKey, HandleKey, KeyFrame, Enter
<1>2. input_str' \in Seq(ChatTokens) /\ input_index' \in 0 .. Len(input_str')
  BY <1>1
<1>3. CASE UiGoesOn(TRUE) /\ UNCHANGED <<message_list, message_index, prompt>>
  <2>1. ui' \in {Waiting, Dead}
    BY <1>3 DEF UiGoesOn
  <2> QED
    BY <1>1, <1>2, <1>3, <2>1, InputKeyKeeps
<1>4. CASE Query(input_str)
  BY <1>1, <1>4, QueryKeeps
<1>5. CASE UNCHANGED <<message_list, message_index>> /\ UpdateScreen /\ UiGoesOn(ScreenOK)
  <2>1. Conversations' /\ Names(message_list) \subseteq Names(message_list') /\ ShownExists'
    BY <1>5 DEF IInv, Records, Conversations, ShownExists
  <2> QED
    BY <1>1, <1>2, <1>5, <2>1, QuietKeyKeeps
<1>6. CASE StartSending
  BY <1>1, <1>6, StartSendingKeeps
<1> QED
  BY <1>1, <1>3, <1>4, <1>5, <1>6 DEF Enter, StartSending

LEMMA SendReturnsKeeps == ASSUME IInv, SendReturns PROVE IInv'
<1>1. /\ phase = "chat" /\ UNCHANGED <<program, phase, config, line, index, net, toClient>>
      /\ UNCHANGED <<input_str, input_index, message_list, message_index>>
      /\ UpdateScreen /\ UiGoesOn(ScreenOK) /\ ui.at = "sending"
  BY DEF SendReturns
<1>2. IsSeq(toServer') /\ Len(toServer') \in 0 .. Capacity
  <2>1. /\ IsSeq(toServer) /\ Len(toServer) \in 0 .. Capacity
        /\ IsSeq(ui.text) /\ Len(ui.text) = 1
    BY <1>1 DEF IInv, WithinCapacity
  <2>2. CASE toServer' = toServer
    BY <2>1, <2>2
  <2>3. CASE Len(toServer) < Capacity /\ toServer' = toServer \o ui.text
    <3>1. IsSeq(toServer') /\ Len(toServer') = Len(toServer) + 1
      BY <2>1, <2>3, JoinIsSeq
    <3> QED
      BY <2>1, <2>3, <3>1, ChatAssumption
  <2> QED
    BY <2>2, <2>3 DEF SendReturns
<1>3. Conversations' /\ Names(message_list) \subseteq Names(message_list') /\ ShownExists'
  BY <1>1 DEF IInv, Records, Conversations, ShownExists
<1>4. input_str' \in Seq(ChatTokens) /\ input_index' \in 0 .. Len(input_str')
  BY <1>1 DEF IInv
<1> QED
  BY <1>1, <1>2, <1>3, <1>4, KeyKeeps

LEMMA SendFailsKeeps == ASSUME IInv, SendFails PROVE IInv'
<1>1. FormTypeOK' /\ CursorInField'
  BY FormLeftAlone DEF IInv, SendFails
<1>2. ui'.at = "dead" /\ DOMAIN ui' = {"at", "seen", "text"}
  BY UiValues DEF SendFails
<1>3. PromptRight' /\ SeenIsShown' /\ (ui'.at = "sending" => FALSE)
  BY <1>2 DEF PromptRight, SeenIsShown
<1> QED
  BY <1>1, <1>2, <1>3 DEF SendFails, IInv, Records, WithinCapacity, ShownExists, Names,
                          IsSeq, screen, wires

-----------------------------------------------------------------------------
(* The main thread.                                                        *)

RecvRecord == [at |-> "recv", data |-> <<>>]

LEMMA RecvKeeps == ASSUME IInv, Recv PROVE IInv'
<1>1. FormTypeOK' /\ CursorInField'
  BY FormLeftAlone DEF IInv, Recv
<1>2. UNCHANGED <<phase, screen, ui, toServer>>
  BY DEF Recv
<1>3. /\ net'.at \in {"chunk", "closing"} /\ DOMAIN net' = {"at", "data"}
      /\ IsSeq(toClient') /\ Len(toClient') \in 0 .. 2 * Capacity
  <2>1. IsSeq(toClient) /\ Len(toClient) \in 0 .. 2 * Capacity /\ Capacity \in Nat
    BY ChatAssumption DEF IInv, WithinCapacity
  <2>2. ASSUME NEW n \in 1 .. Len(toClient),
               net' = [at |-> "chunk", data |-> SubSeq(toClient, 1, n)],
               toClient' = SubSeq(toClient, n + 1, Len(toClient))
        PROVE  /\ net'.at \in {"chunk", "closing"} /\ DOMAIN net' = {"at", "data"}
               /\ IsSeq(toClient') /\ Len(toClient') \in 0 .. 2 * Capacity
    <3>1. IsSeq(toClient') /\ Len(toClient') = Len(toClient) - n
      BY <2>1, <2>2, DropIsSeq
    <3>2. Len(toClient') \in 0 .. 2 * Capacity
      BY <2>1, <3>1
    <3>3. net'.at = "chunk" /\ DOMAIN net' = {"at", "data"}
      BY <2>2
    <3> QED
      BY <3>1, <3>2, <3>3
  <2>3. CASE net' = [at |-> "closing", data |-> <<>>] /\ toClient' = toClient
    BY <2>1, <2>3
  <2> QED
    BY <2>2, <2>3 DEF Recv
<1>4. Records' /\ ShownExists' /\ PromptRight' /\ SeenIsShown'
  BY <1>2, <1>3 DEF IInv, Records, ShownExists, PromptRight, SeenIsShown, PromptOf, IsSeq,
                    screen
<1>5. WithinCapacity'
  BY <1>2, <1>3 DEF IInv, WithinCapacity, IsSeq
<1> QED
  BY <1>1, <1>2, <1>3, <1>4, <1>5 DEF IInv, screen, Names

LEMMA SplitChunkKeeps == ASSUME IInv, SplitChunk PROVE IInv'
<1>1. FormTypeOK' /\ CursorInField'
  BY FormLeftAlone DEF IInv, SplitChunk
<1>2. UNCHANGED <<phase, screen, ui, wires>>
  BY DEF SplitChunk
<1>3. net'.at \in {"recv", "handling"} /\ DOMAIN net' = {"at", "data"}
  BY DEF SplitChunk
<1>4. Records' /\ ShownExists' /\ PromptRight' /\ SeenIsShown'
  BY <1>2, <1>3 DEF IInv, Records, ShownExists, PromptRight, SeenIsShown, PromptOf, IsSeq,
                    screen
<1>5. WithinCapacity'
  BY <1>2 DEF IInv, WithinCapacity, IsSeq, wires
<1> QED
  BY <1>1, <1>2, <1>3, <1>4, <1>5 DEF IInv, screen, Names

(* Filing a message renames and removes no conversation and moves none; it *)
(* may add one at the end.                                                 *)
LEMMA FiledKeepsNames ==
    ASSUME Conversations, NEW m
    PROVE  LET new == Filed(message_list, m)
           IN  /\ IsSeq(new) /\ Len(new) \in Nat
               /\ Len(message_list) \in Nat /\ Len(new) >= Len(message_list)
               /\ \A i \in DOMAIN new : DOMAIN new[i] = {"username", "messages"}
               /\ \A i \in DOMAIN message_list :
                     i \in DOMAIN new /\ new[i].username = message_list[i].username
<1> DEFINE new == Filed(message_list, m)
<1>1. /\ \A i \in DOMAIN message_list : DOMAIN message_list[i] = {"username", "messages"}
      /\ IsSeq(message_list) /\ Len(message_list) \in Nat
      /\ DOMAIN message_list = 1 .. Len(message_list)
  BY DEF Conversations, IsSeq
<1>2. CASE BufferOf(m) \in Names(message_list)
  <2> DEFINE renewed(i) == IF message_list[i].username = BufferOf(m)
                           THEN [message_list[i] EXCEPT !.messages = Append(@, m)]
                           ELSE message_list[i]
  <2>1. new = [i \in DOMAIN message_list |-> renewed(i)]
    BY <1>2 DEF Filed
  <2>2. \A i \in DOMAIN message_list : /\ renewed(i).username = message_list[i].username
                                       /\ DOMAIN renewed(i) = {"username", "messages"}
    BY <1>1
  <2> HIDE DEF renewed, new
  <2>3. new \in [1 .. Len(message_list) -> {renewed(i) : i \in DOMAIN message_list}]
    BY <1>1, <2>1
  <2> DEFINE S == {renewed(i) : i \in DOMAIN message_list}
  <2> HIDE DEF S
  <2>4. new \in [1 .. Len(message_list) -> S]
    BY <2>3 DEF S
  <2>5. new \in Seq(S) /\ Len(new) = Len(message_list)
    BY <1>1, <2>4
  <2>6. IsSeq(new)
    BY <2>5, SeqIsSeq
  <2>7. \A i \in DOMAIN message_list : i \in DOMAIN new /\ new[i] = renewed(i)
    BY <2>1
  <2>8. DOMAIN new = DOMAIN message_list
    BY <2>1
  <2> QED
    BY <1>1, <2>2, <2>5, <2>6, <2>7, <2>8 DEF new
<1>3. CASE BufferOf(m) \notin Names(message_list)
  <2>1. new = Append(message_list, Conversation(BufferOf(m), <<m>>))
    BY <1>3 DEF Filed
  <2>2. /\ IsSeq(new) /\ Len(new) = Len(message_list) + 1
        /\ \A i \in DOMAIN new : DOMAIN new[i] = {"username", "messages"}
        /\ DOMAIN new = 1 .. Len(message_list) + 1
        /\ \A i \in DOMAIN message_list : new[i] = message_list[i]
    BY <2>1, OneMore
  <2> HIDE DEF new
  <2>3. \A i \in DOMAIN message_list :
           i \in DOMAIN new /\ new[i].username = message_list[i].username
    BY <1>1, <2>2
  <2>4. Len(new) \in Nat /\ Len(new) >= Len(message_list)
    BY <1>1, <2>2
  <2> QED
    BY <1>1, <2>2, <2>3, <2>4 DEF new
<1> QED
  BY <1>2, <1>3

LEMMA HandleLineKeeps == ASSUME IInv, HandleLine PROVE IInv'
<1>1. /\ UNCHANGED <<program, config, line, index, ui, wires>>
      /\ phase = "chat" /\ phase' \in {phase, "ended"}
  BY DEF HandleLine
<1>2. FormTypeOK' /\ CursorInField'
  BY <1>1, FormLeftAlone DEF IInv
<1>3. net'.at \in {"recv", "handling"} /\ DOMAIN net' = {"at", "data"}
  <2>1. DOMAIN net = {"at", "data"} /\ net.at = "handling"
    BY DEF IInv, Records, HandleLine
  <2>2. CASE net' = [at |-> "recv", data |-> <<>>]
    BY <2>2
  <2>3. CASE net' = [net EXCEPT !.data = Tail(@)]
    BY <2>1, <2>3
  <2> QED
    BY <2>2, <2>3 DEF HandleLine
<1>4. WithinCapacity'
  BY <1>1 DEF IInv, WithinCapacity, IsSeq, wires
<1>5. CASE UNCHANGED <<phase, screen>>
  <2>1. Records' /\ ShownExists' /\ PromptRight' /\ SeenIsShown'
    BY <1>1, <1>3, <1>5 DEF IInv, Records, ShownExists, PromptRight, SeenIsShown, PromptOf,
                            IsSeq, screen
  <2> QED
    BY <1>1, <1>2, <1>3, <1>4, <1>5, <2>1 DEF IInv, screen, Names
<1>6. CASE /\ message_list' = Filed(message_list, Head(net.data))
           /\ UNCHANGED <<input_str, input_index, message_index>>
           /\ UpdateScreen
           /\ phase' = IF ScreenOK THEN phase ELSE "ended"
  <2>1. Conversations /\ ShownExists
    BY DEF IInv, Records, Conversations
  <2>2. /\ IsSeq(message_list') /\ Len(message_list') \in Nat
        /\ Len(message_list) \in Nat /\ Len(message_list') >= Len(message_list)
        /\ \A i \in DOMAIN message_list' :
              DOMAIN message_list'[i] = {"username", "messages"}
        /\ \A i \in DOMAIN message_list :
              /\ i \in DOMAIN message_list'
              /\ message_list'[i].username = message_list[i].username
    BY <1>6, <2>1, FiledKeepsNames
  <2>3. Records' /\ ShownExists'
    BY <1>1, <1>3, <1>6, <2>1, <2>2 DEF IInv, Records, ShownExists
  <2>4. Names(message_list) \subseteq Names(message_list')
    BY <2>2 DEF Names
  <2>5. prompt = NoBuffer \/ prompt \in Names(message_list)
    BY DEF IInv
  <2>6. /\ prompt' = NoBuffer \/ prompt' \in Names(message_list')
        /\ ScreenOK => prompt' = PromptOf(message_list, message_index)'
    BY <1>6, <2>2, <2>3, <2>4, <2>5, RedrawnPrompt
  <2>7. PromptRight'
    BY <1>1, <1>6, <2>6 DEF PromptRight
  <2>8. SeenIsShown'
    <3> SUFFICES ASSUME ui.at = "enter", ui.seen # NoBuffer
                 PROVE  /\ message_list' # <<>>
                        /\ ui.seen = message_list'[message_index' + 1].username
      BY <1>1 DEF SeenIsShown
    <3>1. message_list # <<>> /\ ui.seen = message_list[message_index + 1].username
      BY <1>1 DEF IInv, SeenIsShown
    <3>2. message_index + 1 \in DOMAIN message_list
      BY <2>1, <3>1, ShownNamed DEF Conversations, ShownExists
    <3>3. message_index + 1 \in DOMAIN message_list'
          /\ message_list'[message_index + 1].username = message_list[message_index + 1].username
      BY <2>2, <3>2
    <3>4. message_list' # <<>>
      BY <3>3, EmptyIsSeq
    <3> QED
      BY <1>6, <3>1, <3>3, <3>4
  <2>9. (prompt = NoBuffer \/ prompt \in Names(message_list))'
    BY <2>6
  <2>10. input_str' \in Seq(ChatTokens) /\ input_index' \in 0 .. Len(input_str')
    BY <1>6 DEF IInv
  <2>11. ui'.at \in {"getkey", "enter", "sending", "dead"}
    BY <1>1 DEF IInv
  <2> QED
    BY <1>2, <1>3, <1>4, <2>3, <2>7, <2>8, <2>9, <2>10, <2>11 DEF IInv
<1> QED
  BY <1>5, <1>6 DEF HandleLine, KeepShown

LEMMA CloseKeeps == ASSUME IInv, Close PROVE IInv'
<1>1. FormTypeOK' /\ CursorInField'
  BY FormLeftAlone DEF IInv, Close
<1> QED
  BY <1>1 DEF Close, chatVars, IInv, Records, WithinCapacity, ShownExists, PromptRight,
              SeenIsShown, Names, IsSeq

-----------------------------------------------------------------------------
(* The server and the other programs, which touch nothing but the          *)
(* connection.                                                             *)

LEMMA SentFits ==
    ASSUME IsSeq(toClient), Len(toClient) \in 0 .. 2 * Capacity, Room, NEW m, Sent(m)
    PROVE  IsSeq(toClient') /\ Len(toClient') \in 0 .. 2 * Capacity
<1>1. IsSeq(toClient') /\ Len(toClient') = Len(toClient) + 2
  BY PairIsSeq, JoinIsSeq DEF Sent
<1> QED
  BY <1>1, ChatAssumption DEF Room

LEMMA OutsideKeeps == ASSUME IInv, ServerStep \/ Elsewhere PROVE IInv'
<1>1. UNCHANGED <<program, phase, config, line, index, screen, ui, net>>
  BY DEF ServerStep, Elsewhere
<1>2. FormTypeOK' /\ CursorInField'
  BY <1>1, FormLeftAlone DEF IInv
<1>3. /\ IsSeq(toServer) /\ Len(toServer) \in 0 .. Capacity
      /\ IsSeq(toClient) /\ Len(toClient) \in 0 .. 2 * Capacity
  BY DEF IInv, WithinCapacity
<1>4. /\ IsSeq(toServer') /\ Len(toServer') \in 0 .. Capacity
      /\ IsSeq(toClient') /\ Len(toClient') \in 0 .. 2 * Capacity
  <2>1. CASE ServerReads
    <3>1. IsSeq(toServer') /\ Len(toServer') = Len(toServer) - 1
      BY <1>3, <2>1, TailIsSeq DEF ServerReads
    <3>2. Len(toServer) # 0
      BY <1>3, <2>1 DEF ServerReads, IsSeq
    <3> QED
      BY <1>3, <2>1, <3>1, <3>2, ChatAssumption DEF ServerReads
  <2>2. CASE ServerAnswers
    BY <1>3, <2>2, SentFits DEF ServerAnswers
  <2>3. CASE OthersPost
    BY <1>3, <2>3, SentFits DEF OthersPost
  <2>4. CASE LinkCloses
    BY <1>3, <2>4 DEF LinkCloses
  <2> QED
    BY <2>1, <2>2, <2>3, <2>4 DEF ServerStep, Elsewhere
<1>5. WithinCapacity'
  BY <1>1, <1>4 DEF IInv, WithinCapacity, IsSeq
<1>6. Records' /\ ShownExists' /\ PromptRight' /\ SeenIsShown'
  BY <1>1 DEF IInv, Records, ShownExists, PromptRight, SeenIsShown, PromptOf, IsSeq, screen
<1> QED
  BY <1>1, <1>2, <1>5, <1>6 DEF IInv, screen, Names

-----------------------------------------------------------------------------
(* The invariant and the theorems.                                         *)

LEMMA InitIInv == Init => IInv
<1> SUFFICES ASSUME Init PROVE IInv
  OBVIOUS
<1>1. FormTypeOK /\ CursorInField
  <2>1. <<>> \in Seq(FormTokens) /\ Len(<<>>) = 0
    OBVIOUS
  <2> QED
    BY <2>1 DEF Init, FormInit, FormTypeOK, CursorInField, Fields
<1>2. Records /\ WithinCapacity /\ ShownExists
  BY EmptyIsSeq, UiValues, ChatAssumption DEF Init, Records, WithinCapacity, ShownExists
<1>3. PromptRight /\ SeenIsShown
  BY UiValues DEF Init, PromptRight, SeenIsShown, PromptOf
<1>4. input_str \in Seq(ChatTokens) /\ input_index \in 0 .. Len(input_str)
  BY DEF Init
<1> QED
  BY <1>1, <1>2, <1>3, <1>4, UiValues DEF Init, IInv

LEMMA StepIInv == IInv /\ [Next]_vars => IInv'
<1> SUFFICES ASSUME IInv, [Next]_vars PROVE IInv'
  OBVIOUS
<1>1. CASE Form
  BY <1>1, FormKeeps
<1>2. CASE PressEnter
  BY <1>2, PressEnterKeeps
<1>3. CASE OtherKey
  BY <1>3, OtherKeyKeeps
<1>4. CASE UiStep
  BY <1>4, EnterKeyKeeps, SendReturnsKeeps, SendFailsKeeps DEF UiStep
<1>5. CASE NetStep
  BY <1>5, RecvKeeps, SplitChunkKeeps, HandleLineKeeps, CloseKeeps DEF NetStep
<1>6. CASE ServerStep \/ Elsewhere
  BY <1>6, OutsideKeeps
<1>7. CASE UNCHANGED vars
  BY <1>7 DEF vars, chatVars, IInv, FormTypeOK, CursorInField, Records, WithinCapacity,
              ShownExists, PromptRight, SeenIsShown, Names, PromptOf, IsSeq
<1> QED
  BY <1>1, <1>2, <1>3, <1>4, <1>5, <1>6, <1>7 DEF Next

THEOREM ChatInvariant == Spec => []IInv
  BY InitIInv, StepIInv, PTL DEF Spec

LEMMA IInvTypes == IInv => TypeOK
<1> SUFFICES ASSUME IInv PROVE TypeOK
  OBVIOUS
<1>1. Len(input_str) \in Nat /\ input_index \in Nat /\ message_index \in Nat
  BY DEF IInv, ShownExists
<1>2. Len(toServer) \in 0 .. Capacity /\ Len(toClient) \in 0 .. 2 * Capacity
      /\ Capacity \in Nat
  BY ChatAssumption DEF IInv, WithinCapacity
<1>3. Len(toClient) \div 2 \in 0 .. Capacity
  BY <1>2
<1> QED
  BY <1>1, <1>2, <1>3 DEF IInv, TypeOK

(* Every variable keeps its type, for both programs: the prompt names a    *)
(* conversation that exists, and the connection never holds more than it   *)
(* can carry.                                                              *)
THEOREM CursesTypeCorrect == Spec => []TypeOK
  BY ChatInvariant, IInvTypes, PTL

LEMMA IInvIndices == IInv => IndicesInBounds
<1> SUFFICES ASSUME IInv PROVE IndicesInBounds
  OBVIOUS
<1>1. CursorInField /\ Len(input_str) \in Nat /\ input_index \in 0 .. Len(input_str)
  BY DEF IInv
<1>2. ShownExists /\ Len(message_list) \in Nat
  BY DEF IInv, Records, IsSeq
<1>3. Max({1, Len(message_list)}) = IF 1 >= Len(message_list) THEN 1 ELSE Len(message_list)
  BY <1>2, MaxOfTwo
<1> QED
  BY <1>1, <1>2, <1>3 DEF IndicesInBounds, ShownExists

(* No key and no message, in whatever order the threads take the lock,     *)
(* leaves a cursor outside its text or the shown conversation outside the  *)
(* list, so no access of either thread is an IndexError.                   *)
THEOREM IndicesStayInBounds == Spec => []IndicesInBounds
  BY ChatInvariant, IInvIndices, PTL

(* Whenever both threads wait, the prompt names the conversation to which  *)
(* Enter sends: a message that opens or fills another one, a failed /query *)
(* and a drawing that fails half-way all leave it right or end the thread. *)
THEOREM PromptStaysTruthful == Spec => []PromptTruthful
<1>1. IInv => PromptTruthful
  BY DEF IInv, PromptRight, PromptTruthful, LockFree
<1> QED
  BY <1>1, ChatInvariant, PTL

LEMMA SendingStep ==
    ASSUME IInv, Next, ui.at = "enter", ui'.at = "sending"
    PROVE  ui.seen \in {NoBuffer, ui'.text[1].target}
<1>1. CASE EnterKey
  <2>1. KeyFrame /\ Enter
    BY <1>1 DEF EnterKey, HandleKey, KeyFrame
  <2>2. ui' \notin {Waiting, Dead}
    BY UiValues
  <2>3. StartSending
    BY <2>1, <2>2 DEF Enter, Query, UiGoesOn, StartSending
  <2>4. DOMAIN ui = {"at", "seen", "text"}
    BY DEF IInv, Records
  <2>5. ui'.text = <<Privmsg(Me, message_list[message_index + 1].username, input_str)>>
    BY <2>3, <2>4 DEF StartSending
  <2>6. ui'.text[1].target = message_list[message_index + 1].username
    BY <2>5 DEF Privmsg
  <2>7. ui.seen = NoBuffer \/ ui.seen = message_list[message_index + 1].username
    BY <2>1 DEF KeyFrame, IInv, SeenIsShown
  <2> QED
    BY <2>6, <2>7
<1>2. CASE PressEnter \/ OtherKey \/ SendReturns \/ SendFails
  BY <1>2 DEF PressEnter, OtherKey, HandleKey, SendReturns, SendFails
<1>3. CASE Form \/ NetStep \/ ServerStep \/ Elsewhere
  <2>1. ui' = ui
    BY <1>3 DEF Form, NetStep, Recv, SplitChunk, HandleLine, Close, ServerStep, Elsewhere,
                chatVars
  <2> QED
    BY <2>1
<1> QED
  BY <1>1, <1>2, <1>3 DEF Next, UiStep

(* A text is sent to the conversation that the prompt named when Enter was *)
(* pressed, however many messages the main thread files before the user's  *)
(* thread gets the lock.                                                   *)
THEOREM SentWherePromptSaidHolds == Spec => SentWherePromptSaid
<1>1. IInv /\ [Next]_vars =>
         [ui.at = "enter" /\ ui'.at = "sending" =>
             ui.seen \in {NoBuffer, ui'.text[1].target}]_vars
  BY SendingStep
<1> QED
  BY <1>1, ChatInvariant, PTL DEF Spec, SentWherePromptSaid

-----------------------------------------------------------------------------
(* What Messages, MessagesOf and WithoutLF make of longer sequences.       *)

ElementsOf(s) == {s[i] : i \in DOMAIN s}
KeepMessage(T) == [x \in T |-> IF x.kind = "PRIVMSG" THEN <<x>> ELSE <<>>]
KeepOf(name, T) == [x \in T |-> IF BufferOf(x) = name THEN <<x>> ELSE <<>>]
DropLF(T) == [x \in T |-> IF x = LF THEN <<>> ELSE <<x>>]

LEMMA KeepersAreMaps ==
    ASSUME NEW T, NEW name
    PROVE  Maps(KeepMessage(T), T, T) /\ Maps(KeepOf(name, T), T, T) /\ Maps(DropLF(T), T, T)
<1>1. KeepMessage(T) \in [T -> Seq(T)]
  BY DEF KeepMessage
<1>2. KeepOf(name, T) \in [T -> Seq(T)]
  BY DEF KeepOf
<1>3. DropLF(T) \in [T -> Seq(T)]
  BY DEF DropLF
<1> QED
  BY <1>1, <1>2, <1>3 DEF Maps

LEMMA AsMaps ==
    ASSUME NEW T, NEW name, NEW s \in Seq(T)
    PROVE  /\ Messages(s) = FlatMap(KeepMessage(T), s)
           /\ MessagesOf(name, s) = FlatMap(KeepOf(name, T), s)
           /\ WithoutLF(s) = FlatMap(DropLF(T), s)
<1>1. \A i \in DOMAIN s : s[i] \in T
  OBVIOUS
<1>2. [i \in DOMAIN s |-> IF s[i].kind = "PRIVMSG" THEN <<s[i]>> ELSE <<>>] =
          [i \in DOMAIN s |-> KeepMessage(T)[s[i]]]
  BY <1>1 DEF KeepMessage
<1>3. [i \in DOMAIN s |-> IF BufferOf(s[i]) = name THEN <<s[i]>> ELSE <<>>] =
          [i \in DOMAIN s |-> KeepOf(name, T)[s[i]]]
  BY <1>1 DEF KeepOf
<1>4. [i \in DOMAIN s |-> IF s[i] = LF THEN <<>> ELSE <<s[i]>>] =
          [i \in DOMAIN s |-> DropLF(T)[s[i]]]
  BY <1>1 DEF DropLF
<1>5. Messages(s) = FlatMap(KeepMessage(T), s)
  BY <1>2, Zenon DEF Messages, FlatMap
<1>6. MessagesOf(name, s) = FlatMap(KeepOf(name, T), s)
  BY <1>3, Zenon DEF MessagesOf, FlatMap
<1>7. WithoutLF(s) = FlatMap(DropLF(T), s)
  BY <1>4, Zenon DEF WithoutLF, FlatMap
<1> QED
  BY <1>5, <1>6, <1>7

LEMMA CommonElements ==
    ASSUME NEW s, NEW t, IsSeq(s), IsSeq(t)
    PROVE  /\ s \in Seq(ElementsOf(s) \cup ElementsOf(t))
           /\ t \in Seq(ElementsOf(s) \cup ElementsOf(t))
           /\ s \o t \in Seq(ElementsOf(s) \cup ElementsOf(t))
<1> DEFINE T == ElementsOf(s) \cup ElementsOf(t)
<1>1. s \in Seq(T) /\ t \in Seq(T)
  BY DEF IsSeq, ElementsOf
<1> HIDE DEF T
<1>2. s \o t \in Seq(T)
  BY <1>1
<1> QED
  BY <1>1, <1>2 DEF T

LEMMA MessagesJoin ==
    ASSUME NEW s, NEW t, IsSeq(s), IsSeq(t)
    PROVE  Messages(s \o t) = Messages(s) \o Messages(t) /\ IsSeq(Messages(s))
<1> DEFINE T == ElementsOf(s) \cup ElementsOf(t)
           f == KeepMessage(T)
<1>1. s \in Seq(T) /\ t \in Seq(T) /\ s \o t \in Seq(T)
  BY CommonElements
<1> HIDE DEF T
<1>2. Maps(f, T, T)
  BY KeepersAreMaps
<1>3. /\ Messages(s) = FlatMap(f, s) /\ Messages(t) = FlatMap(f, t)
      /\ Messages(s \o t) = FlatMap(f, s \o t)
  BY <1>1, AsMaps
<1> HIDE DEF f
<1>4. FlatMap(f, s \o t) = FlatMap(f, s) \o FlatMap(f, t) /\ FlatMap(f, s) \in Seq(T)
  BY <1>1, <1>2, FlatMapJoin
<1> QED
  BY <1>3, <1>4, SeqIsSeq

LEMMA OfJoin ==
    ASSUME NEW name, NEW s, NEW t, IsSeq(s), IsSeq(t)
    PROVE  MessagesOf(name, s \o t) = MessagesOf(name, s) \o MessagesOf(name, t)
           /\ IsSeq(MessagesOf(name, s))
<1> DEFINE T == ElementsOf(s) \cup ElementsOf(t)
           f == KeepOf(name, T)
<1>1. s \in Seq(T) /\ t \in Seq(T) /\ s \o t \in Seq(T)
  BY CommonElements
<1> HIDE DEF T
<1>2. Maps(f, T, T)
  BY KeepersAreMaps
<1>3. /\ MessagesOf(name, s) = FlatMap(f, s) /\ MessagesOf(name, t) = FlatMap(f, t)
      /\ MessagesOf(name, s \o t) = FlatMap(f, s \o t)
  BY <1>1, AsMaps
<1> HIDE DEF f
<1>4. FlatMap(f, s \o t) = FlatMap(f, s) \o FlatMap(f, t) /\ FlatMap(f, s) \in Seq(T)
  BY <1>1, <1>2, FlatMapJoin
<1> QED
  BY <1>3, <1>4, SeqIsSeq

LEMMA LinesJoin ==
    ASSUME NEW s, NEW t, IsSeq(s), IsSeq(t)
    PROVE  WithoutLF(s \o t) = WithoutLF(s) \o WithoutLF(t) /\ IsSeq(WithoutLF(s))
<1> DEFINE T == ElementsOf(s) \cup ElementsOf(t)
           f == DropLF(T)
<1>1. s \in Seq(T) /\ t \in Seq(T) /\ s \o t \in Seq(T)
  BY CommonElements
<1> HIDE DEF T
<1>2. Maps(f, T, T)
  BY KeepersAreMaps
<1>3. /\ WithoutLF(s) = FlatMap(f, s) /\ WithoutLF(t) = FlatMap(f, t)
      /\ WithoutLF(s \o t) = FlatMap(f, s \o t)
  BY <1>1, AsMaps
<1> HIDE DEF f
<1>4. FlatMap(f, s \o t) = FlatMap(f, s) \o FlatMap(f, t) /\ FlatMap(f, s) \in Seq(T)
  BY <1>1, <1>2, FlatMapJoin
<1> QED
  BY <1>3, <1>4, SeqIsSeq

(* Of one element, and of none.                                            *)
LEMMA MessagesSingle ==
    ASSUME NEW m
    PROVE  /\ Messages(<<m>>) = IF m.kind = "PRIVMSG" THEN <<m>> ELSE <<>>
           /\ Messages(<<>>) = <<>>
<1> DEFINE e == IF m.kind = "PRIVMSG" THEN <<m>> ELSE <<>>
<1>1. [i \in DOMAIN <<m>> |-> IF <<m>>[i].kind = "PRIVMSG" THEN <<(<<m>>[i])>> ELSE <<>>] = <<e>>
  OBVIOUS
<1>2. [i \in DOMAIN <<>> |-> IF <<>>[i].kind = "PRIVMSG" THEN <<(<<>>[i])>> ELSE <<>>] = <<>>
  OBVIOUS
<1>3. Messages(<<m>>) = FlattenSeq(<<e>>) /\ Messages(<<>>) = FlattenSeq(<<>>)
  BY <1>1, <1>2, Zenon DEF Messages
<1> QED
  BY <1>3, FlattenSingle, FlattenEmpty, Zenon

LEMMA OfSingle ==
    ASSUME NEW name, NEW m
    PROVE  /\ MessagesOf(name, <<m>>) = IF BufferOf(m) = name THEN <<m>> ELSE <<>>
           /\ MessagesOf(name, <<>>) = <<>>
<1> DEFINE e == IF BufferOf(m) = name THEN <<m>> ELSE <<>>
<1>1. [i \in DOMAIN <<m>> |-> IF BufferOf(<<m>>[i]) = name THEN <<(<<m>>[i])>> ELSE <<>>] = <<e>>
  OBVIOUS
<1>2. [i \in DOMAIN <<>> |-> IF BufferOf(<<>>[i]) = name THEN <<(<<>>[i])>> ELSE <<>>] = <<>>
  OBVIOUS
<1>3. MessagesOf(name, <<m>>) = FlattenSeq(<<e>>) /\ MessagesOf(name, <<>>) = FlattenSeq(<<>>)
  BY <1>1, <1>2, Zenon DEF MessagesOf
<1> QED
  BY <1>3, FlattenSingle, FlattenEmpty, Zenon

LEMMA LinesSingle ==
    ASSUME NEW m, m # LF
    PROVE  WithoutLF(<<m>>) = <<m>>
<1>1. [i \in DOMAIN <<m>> |-> IF <<m>>[i] = LF THEN <<>> ELSE <<(<<m>>[i])>>] = <<(<<m>>)>>
  OBVIOUS
<1> QED
  BY <1>1, FlattenSingle DEF WithoutLF

(* A conversation that no message is for has none.                         *)
LEMMA OfNobody ==
    ASSUME NEW name, NEW s, IsSeq(s), \A i \in DOMAIN s : BufferOf(s[i]) # name
    PROVE  MessagesOf(name, s) = <<>>
<1> DEFINE T == ElementsOf(s)
           f == KeepOf(name, T)
<1>1. s \in Seq(T)
  BY DEF IsSeq, ElementsOf
<1>2. \A i \in DOMAIN s : f[s[i]] = <<>>
  BY DEF KeepOf, ElementsOf
<1> HIDE DEF T
<1>3. Maps(f, T, T) /\ MessagesOf(name, s) = FlatMap(f, s)
  BY <1>1, KeepersAreMaps, AsMaps
<1> HIDE DEF f
<1>4. FlatMap(f, s) = <<>>
  BY <1>1, <1>2, <1>3, FlatMapNone
<1> QED
  BY <1>3, <1>4

(* No message is lost where the lines are separated.                       *)
LEMMA LinesKeepMessages ==
    ASSUME NEW s, IsSeq(s)
    PROVE  Messages(WithoutLF(s)) = Messages(s)
<1> DEFINE T == ElementsOf(s)
           f == DropLF(T)
           g == KeepMessage(T)
<1>1. s \in Seq(T)
  BY DEF IsSeq, ElementsOf
<1> HIDE DEF T
<1>2. Maps(f, T, T) /\ Maps(g, T, T)
  BY KeepersAreMaps
<1>3. \A x \in T : FlatMap(g, f[x]) = g[x]
  <2> TAKE x \in T
  <2>1. CASE x = LF
    <3>1. f[x] = <<>> /\ g[x] = <<>>
      BY <2>1 DEF DropLF, KeepMessage, LF
    <3> QED
      BY <3>1, FlatMapEmpty, Zenon
  <2>2. CASE x # LF
    <3>1. f[x] = <<x>>
      BY <2>2 DEF DropLF
    <3> QED
      BY <3>1, FlatMapSingle, Zenon
  <2> QED
    BY <2>1, <2>2
<1>4. WithoutLF(s) = FlatMap(f, s) /\ Messages(s) = FlatMap(g, s)
  BY <1>1, AsMaps
<1>5. FlatMap(f, s) \in Seq(T)
  BY <1>1, <1>2, FlatMapJoin
<1>6. Messages(FlatMap(f, s)) = FlatMap(g, FlatMap(f, s))
  BY <1>5, AsMaps
<1> HIDE DEF f, g
<1>7. FlatMap(g, FlatMap(f, s)) = FlatMap(g, s)
  BY <1>1, <1>2, <1>3, FlatMapThrough
<1> QED
  BY <1>4, <1>6, <1>7, Zenon

-----------------------------------------------------------------------------
(* The text on its way is made of lines that are not empty, so that a      *)
(* thread that handles lines has one.                                      *)

NoLF(s) == \A i \in DOMAIN s : s[i] # LF
NoEmptyLine(w) == \A i \in DOMAIN w : w[i] = LF => i - 1 \in DOMAIN w /\ w[i - 1] # LF

(* What the user's thread sends and the server repeats are lines.          *)
Repeated ==
    /\ IsSeq(server) /\ NoLF(server) /\ NoLF(toServer)
    /\ ui.at = "sending" => NoLF(ui.text)

(* What is not cut into lines yet.                                         *)
Uncut == (IF net.at = "handling" THEN msg ELSE msg \o net.data) \o toClient

Flowing ==
    /\ IsSeq(msg) /\ IsSeq(net.data)
    /\ net.at \in {"recv", "closing"} => net.data = <<>>
    /\ net.at = "handling" => net.data # <<>>
    /\ NoEmptyLine(Uncut)

LEMMA LinesAreNotLF ==
    /\ Other # LF
    /\ \A source, target, text : Privmsg(source, target, text) # LF
    /\ \A m \in Posts : m # LF
<1>1. LF.kind = "LF" /\ Other.kind = "OTHER"
  BY DEF LF, Other
<1>2. \A source, target, text : Privmsg(source, target, text).kind = "PRIVMSG"
  BY DEF Privmsg
<1>3. \A m \in Posts : m.kind = "PRIVMSG"
  BY ChatAssumption
<1> QED
  BY <1>1, <1>2, <1>3

LEMMA NoLFJoin ==
    ASSUME NEW s, NEW t, IsSeq(s), IsSeq(t), NoLF(s), NoLF(t)
    PROVE  NoLF(s \o t)
<1> DEFINE T == ElementsOf(s) \cup ElementsOf(t)
           c == s \o t
<1>1. s \in Seq(T) /\ t \in Seq(T)
  BY CommonElements
<1>2. LF \notin T
  BY DEF NoLF, ElementsOf
<1> HIDE DEF T
<1>3. c \in Seq(T)
  BY <1>1
<1> HIDE DEF c
<1>4. \A i \in DOMAIN c : c[i] # LF
  BY <1>2, <1>3, ElementType
<1> QED
  BY <1>4 DEF NoLF, c

LEMMA NoLFTail ==
    ASSUME NEW s, IsSeq(s), s # <<>>, NoLF(s)
    PROVE  NoLF(Tail(s)) /\ Head(s) # LF
<1> DEFINE T == ElementsOf(s)
           c == Tail(s)
<1>1. s \in Seq(T)
  BY DEF IsSeq, ElementsOf
<1>2. LF \notin T
  BY DEF NoLF, ElementsOf
<1> HIDE DEF T
<1>3. c \in Seq(T) /\ Head(s) \in T
  BY <1>1
<1> HIDE DEF c
<1>4. \A i \in DOMAIN c : c[i] # LF
  BY <1>2, <1>3, ElementType
<1> QED
  BY <1>2, <1>3, <1>4 DEF NoLF, c

LEMMA NoLFSingle == ASSUME NEW m, m # LF PROVE IsSeq(<<m>>) /\ NoLF(<<m>>)
  BY SingleIsSeq DEF NoLF

LEMMA RepeatedKept == ASSUME IInv, Repeated, [Next]_vars PROVE Repeated'
<1>0. IsSeq(toServer) /\ (ui.at = "sending" => IsSeq(ui.text))
  BY DEF IInv, WithinCapacity
<1>1. CASE Form \/ UNCHANGED vars
  BY <1>1 DEF Form, vars, chatVars, Repeated, NoLF, IsSeq
<1>2. CASE PressEnter
  <2>1. ui'.at = "enter" /\ UNCHANGED <<server, toServer>>
    BY <1>2 DEF PressEnter, IInv, Records, wires
  <2> QED
    BY <2>1 DEF Repeated, NoLF, IsSeq
<1>3. CASE OtherKey \/ SendFails
  <2>1. ui' \in {Waiting, Dead} /\ UNCHANGED <<server, toServer>>
    BY <1>3 DEF OtherKey, HandleKey, SwitchBuffer, MoveCursor, EditInput, UiGoesOn, SendFails,
                wires
  <2> QED
    BY <2>1, UiValues DEF Repeated, NoLF, IsSeq
<1>4. CASE EnterKey
  <2>0. KeyFrame /\ Enter /\ UNCHANGED <<server, toServer>>
    BY <1>4 DEF EnterKey, HandleKey, KeyFrame, wires
  <2>1. CASE StartSending
    <3>1. DOMAIN ui = {"at", "seen", "text"}
      BY DEF IInv, Records
    <3>2. ui'.text = <<Privmsg(Me, message_list[message_index + 1].username, input_str)>>
      BY <2>1, <3>1 DEF StartSending
    <3>3. NoLF(ui'.text)
      BY <3>2, LinesAreNotLF, NoLFSingle
    <3> QED
      BY <2>0, <3>3 DEF Repeated, NoLF, IsSeq
  <2>2. CASE ui' \in {Waiting, Dead}
    BY <2>0, <2>2, UiValues DEF Repeated, NoLF, IsSeq
  <2> QED
    BY <2>0, <2>1, <2>2 DEF Enter, Query, UiGoesOn, StartSending
<1>5. CASE SendReturns
  <2>1. ui' \in {Waiting, Dead} /\ ui.at = "sending" /\ server' = server
    BY <1>5 DEF SendReturns, UiGoesOn
  <2>2. NoLF(toServer')
    <3>1. NoLF(toServer \o ui.text)
      BY <1>0, <2>1, NoLFJoin DEF Repeated
    <3> QED
      BY <1>5, <3>1 DEF SendReturns, Repeated, NoLF
  <2> QED
    BY <2>1, <2>2, UiValues DEF Repeated, NoLF, IsSeq
<1>6. CASE NetStep
  <2>1. UNCHANGED <<ui, server, toServer>>
    BY <1>6 DEF NetStep, Recv, SplitChunk, HandleLine, Close, wires, chatVars
  <2> QED
    BY <2>1 DEF Repeated, NoLF, IsSeq
<1>7. CASE ServerStep \/ Elsewhere
  <2>0. ui' = ui
    BY <1>7 DEF ServerStep, Elsewhere
  <2>1. CASE ServerReads
    <3> DEFINE m == IF Head(toServer).target \in Known THEN Head(toServer) ELSE Other
    <3>1. NoLF(Tail(toServer)) /\ Head(toServer) # LF
      BY <1>0, <2>1, NoLFTail DEF ServerReads, Repeated
    <3>2. m # LF
      BY <3>1, LinesAreNotLF
    <3>3. server' = <<m>> /\ toServer' = Tail(toServer)
      BY <2>1 DEF ServerReads
    <3> HIDE DEF m
    <3>4. IsSeq(server') /\ NoLF(server')
      BY <3>2, <3>3, NoLFSingle
    <3> QED
      BY <2>0, <3>1, <3>3, <3>4 DEF Repeated, NoLF
  <2>2. CASE ServerAnswers
    <3>1. server # <<>> /\ server' = Tail(server) /\ toServer' = toServer
      BY <2>2 DEF ServerAnswers
    <3>2. IsSeq(server') /\ NoLF(server')
      BY <3>1, NoLFTail, TailIsSeq DEF Repeated
    <3> QED
      BY <2>0, <3>1, <3>2 DEF Repeated, NoLF
  <2>3. CASE OthersPost \/ LinkCloses
    <3>1. UNCHANGED <<server, toServer>>
      BY <2>3 DEF OthersPost, LinkCloses
    <3> QED
      BY <2>0, <3>1 DEF Repeated, NoLF, IsSeq
  <2> QED
    BY <1>7, <2>1, <2>2, <2>3 DEF ServerStep, Elsewhere
<1> QED
  BY <1>1, <1>2, <1>3, <1>4, <1>5, <1>6, <1>7 DEF Next, UiStep

-----------------------------------------------------------------------------
(* Cutting text into lines.                                                *)

(* Ended is what comes up to the last LF, Rest what follows it.            *)
LEMMA EndedAndRest ==
    ASSUME NEW w, IsSeq(w)
    PROVE  /\ IsSeq(Ended(w)) /\ IsSeq(Rest(w)) /\ Ended(w) \o Rest(w) = w
           /\ Ended(w) # <<>> => Len(Ended(w)) \in DOMAIN Ended(w) /\ Ended(w)[Len(Ended(w))] = LF
<1> DEFINE S == {0} \cup {i \in DOMAIN w : w[i] = LF}
           k == Max(S)
<1>1. Len(w) \in Nat /\ DOMAIN w = 1 .. Len(w)
  BY DEF IsSeq
<1>2. S \subseteq 0 .. Len(w) /\ S # {}
  BY <1>1
<1>3. \E m \in S : \A j \in S : m >= j
  BY <1>1, <1>2, Largest
<1>4. k \in S
  BY <1>3 DEF Max
<1>5. Ended(w) = SubSeq(w, 1, k)
  BY DEF Ended
<1>6. k \in 0 .. Len(w) /\ (k = 0 \/ (k \in DOMAIN w /\ w[k] = LF))
  BY <1>2, <1>4
<1> HIDE DEF k, S
<1>7. /\ IsSeq(SubSeq(w, 1, k)) /\ IsSeq(SubSeq(w, k + 1, Len(w)))
      /\ SubSeq(w, 1, k) \o SubSeq(w, k + 1, Len(w)) = w
      /\ Len(SubSeq(w, 1, k)) = k
      /\ \A i \in 1 .. k : SubSeq(w, 1, k)[i] = w[i]
  BY <1>6, CutAt
<1>8. Rest(w) = SubSeq(w, k + 1, Len(w))
  BY <1>5, <1>7 DEF Rest
<1>9. k # 0 => k \in DOMAIN Ended(w) /\ Ended(w)[k] = LF
  <2> DEFINE e == SubSeq(w, 1, k)
  <2>1. k # 0 => k \in 1 .. k
    BY <1>6
  <2>2. DOMAIN e = 1 .. Len(e)
    <3> HIDE DEF e
    <3>1. IsSeq(e)
      BY <1>7 DEF e
    <3> QED
      BY <3>1 DEF IsSeq
  <2>3. DOMAIN e = 1 .. k
    BY <1>7, <2>2
  <2> QED
    BY <1>5, <1>6, <1>7, <2>1, <2>3
<1>10. Ended(w) # <<>> => k # 0
  <2> DEFINE e == SubSeq(w, 1, k)
  <2>1. IsSeq(e) /\ Len(e) = k
    BY <1>7
  <2> HIDE DEF e
  <2>2. k = 0 => e = <<>>
    BY <2>1 DEF IsSeq
  <2> QED
    BY <1>5, <2>2 DEF e
<1> QED
  BY <1>5, <1>7, <1>8, <1>9, <1>10

(* What follows an LF has no empty line, if the whole has none; and it     *)
(* still has none when a line comes.                                       *)
LEMMA NoEmptyLineAfter ==
    ASSUME NEW a, NEW b, IsSeq(a), IsSeq(b), NoEmptyLine(a \o b),
           a # <<>> => Len(a) \in DOMAIN a /\ a[Len(a)] = LF
    PROVE  NoEmptyLine(b)
<1> DEFINE T == ElementsOf(a) \cup ElementsOf(b)
           c == a \o b
<1>1. a \in Seq(T) /\ b \in Seq(T)
  BY CommonElements
<1> HIDE DEF T
<1>2. c \in Seq(T) /\ IsJoin(c, a, b)
  BY <1>1, JoinFacts
<1>3. NoEmptyLine(c)
  OBVIOUS
<1> HIDE DEF c
<1> SUFFICES ASSUME NEW i \in DOMAIN b, b[i] = LF
             PROVE  i - 1 \in DOMAIN b /\ b[i - 1] # LF
  BY DEF NoEmptyLine
<1> DEFINE n == Len(a)
<1>4. n \in Nat /\ Len(b) \in Nat /\ i \in 1 .. Len(b) /\ DOMAIN b = 1 .. Len(b)
      /\ DOMAIN c = 1 .. n + Len(b)
  BY <1>1, <1>2 DEF IsJoin
<1>5. n + i \in DOMAIN c /\ c[n + i] = LF
  BY <1>2, <1>4 DEF IsJoin
<1>6. (n + i) - 1 \in DOMAIN c /\ c[(n + i) - 1] # LF
  BY <1>3, <1>5 DEF NoEmptyLine
<1>7. i # 1
  <2> SUFFICES ASSUME i = 1 PROVE FALSE
    OBVIOUS
  <2>1. n \in DOMAIN c /\ c[n] # LF
    <3>1. (n + i) - 1 = n
      BY <1>4
    <3> QED
      BY <1>6, <3>1
  <2>2. n # 0 /\ n \in 1 .. n
    BY <1>4, <2>1
  <2>3. a # <<>>
    BY <2>2, EmptyIsSeq
  <2>4. c[n] = a[n]
    BY <1>2, <2>2 DEF IsJoin
  <2> QED
    BY <2>1, <2>3, <2>4
<1>8. i - 1 \in DOMAIN b /\ (n + i) - 1 = n + (i - 1)
  BY <1>4, <1>7
<1>9. c[n + (i - 1)] = b[i - 1]
  BY <1>2, <1>4, <1>8 DEF IsJoin
<1> QED
  BY <1>6, <1>8, <1>9

LEMMA NoEmptyLineMore ==
    ASSUME NEW a, IsSeq(a), NoEmptyLine(a), NEW m, m # LF
    PROVE  NoEmptyLine(a \o <<m, LF>>)
<1> DEFINE b == <<m, LF>>
           T == ElementsOf(a) \cup {m, LF}
           c == a \o b
           n == Len(a)
<1>1. a \in Seq(T)
  BY DEF IsSeq, ElementsOf
<1>2. m \in T /\ LF \in T
  OBVIOUS
<1> HIDE DEF T
<1>3. b \in Seq(T) /\ Len(b) = 2 /\ b[1] = m /\ b[2] = LF
  BY <1>2
<1> HIDE DEF b
<1>4. c \in Seq(T) /\ IsJoin(c, a, b)
  BY <1>1, <1>3, JoinFacts
<1> HIDE DEF c
<1>5. n \in Nat /\ Len(c) = n + 2 /\ DOMAIN c = 1 .. n + 2 /\ DOMAIN a = 1 .. n
  BY <1>1, <1>3, <1>4 DEF IsJoin
<1>6. c[n + 1] = m /\ \A i \in 1 .. n : c[i] = a[i]
  BY <1>3, <1>4 DEF IsJoin
<1> HIDE DEF n
<1>7. ASSUME NEW i \in DOMAIN c, c[i] = LF PROVE i - 1 \in DOMAIN c /\ c[i - 1] # LF
  <2>1. CASE i \in 1 .. n
    <3>1. a[i] = LF
      BY <1>6, <1>7, <2>1
    <3>2. i - 1 \in 1 .. n /\ a[i - 1] # LF
      BY <1>5, <2>1, <3>1 DEF NoEmptyLine
    <3>3. c[i - 1] = a[i - 1]
      BY <1>6, <3>2
    <3> QED
      BY <1>5, <3>2, <3>3
  <2>2. CASE i = n + 1
    BY <1>6, <1>7, <2>2
  <2>3. CASE i = n + 2
    <3>1. i - 1 = n + 1 /\ n + 1 \in DOMAIN c
      BY <1>5, <2>3
    <3> QED
      BY <1>6, <3>1
  <2> QED
    BY <1>5, <2>1, <2>2, <2>3
<1> QED
  BY <1>7 DEF NoEmptyLine, b, c

(* Lines that end in text without empty ones are some.                     *)
LEMMA SomeLine ==
    ASSUME NEW e, NEW r, IsSeq(e), IsSeq(r), e # <<>>, NoEmptyLine(e \o r)
    PROVE  WithoutLF(e) # <<>> /\ IsSeq(WithoutLF(e))
<1> DEFINE x == Head(e)
           t == Tail(e)
<1>1. <<x>> \o t = e /\ x = e[1] /\ 1 \in DOMAIN e /\ IsSeq(t)
  BY HeadAndTail
<1>2. 1 \in DOMAIN (e \o r) /\ (e \o r)[1] = x
  BY <1>1, JoinIsSeq
<1>3. x # LF
  <2> DEFINE c == e \o r
  <2>1. IsSeq(c)
    BY JoinIsSeq
  <2>2. 1 \in DOMAIN c /\ c[1] = x /\ NoEmptyLine(c)
    BY <1>2
  <2> HIDE DEF c, x
  <2>3. DOMAIN c = 1 .. Len(c)
    BY <2>1 DEF IsSeq
  <2> QED
    BY <2>2, <2>3 DEF NoEmptyLine
<1> HIDE DEF x, t
<1>4. WithoutLF(<<x>> \o t) = WithoutLF(<<x>>) \o WithoutLF(t)
  BY <1>1, SingleIsSeq, LinesJoin
<1>5. WithoutLF(<<x>>) = <<x>>
  BY <1>3, LinesSingle
<1>6. IsSeq(WithoutLF(t))
  BY <1>1, EmptyIsSeq, LinesJoin
<1> DEFINE u == WithoutLF(t)
           v == <<x>> \o u
<1>7. IsSeq(v) /\ Len(v) = 1 + Len(u) /\ Len(u) \in Nat
  <2>1. IsSeq(<<x>>) /\ Len(<<x>>) = 1
    BY SingleIsSeq
  <2>2. Len(u) \in Nat
    BY <1>6 DEF IsSeq
  <2> QED
    BY <1>6, <2>1, <2>2, JoinIsSeq
<1>8. WithoutLF(e) = v
  BY <1>1, <1>4, <1>5, Zenon
<1> HIDE DEF v, u
<1>9. v # <<>>
  BY <1>7, EmptyIsSeq
<1> QED
  BY <1>7, <1>8, <1>9

(* What Recv and SplitChunk do to the text on its way.                     *)
LEMMA RecvMoves ==
    ASSUME IInv, Flowing, Recv
    PROVE  /\ net.at = "recv" /\ net'.at \in {"chunk", "closing"} /\ msg' = msg
           /\ IsSeq(net'.data) /\ IsSeq(toClient') /\ IsSeq(toClient)
           /\ net.data = <<>> /\ net'.data \o toClient' = toClient
           /\ net'.at = "closing" => net'.data = <<>>
<1>1. net.at = "recv" /\ msg' = msg /\ net.data = <<>>
  BY DEF Recv, Flowing
<1>2. IsSeq(toClient) /\ Len(toClient) \in Nat
  BY DEF IInv, WithinCapacity, IsSeq
<1>3. ASSUME NEW n \in 1 .. Len(toClient),
             net' = [at |-> "chunk", data |-> SubSeq(toClient, 1, n)],
             toClient' = SubSeq(toClient, n + 1, Len(toClient))
      PROVE  /\ net'.at = "chunk" /\ IsSeq(net'.data) /\ IsSeq(toClient')
             /\ net'.data \o toClient' = toClient
  <2>1. n \in 0 .. Len(toClient)
    BY <1>2
  <2>2. /\ IsSeq(SubSeq(toClient, 1, n)) /\ IsSeq(SubSeq(toClient, n + 1, Len(toClient)))
        /\ SubSeq(toClient, 1, n) \o SubSeq(toClient, n + 1, Len(toClient)) = toClient
    BY <1>2, <2>1, CutAt
  <2>3. net'.at = "chunk" /\ net'.data = SubSeq(toClient, 1, n)
    BY <1>3
  <2> QED
    BY <1>3, <2>2, <2>3
<1>4. CASE net' = [at |-> "closing", data |-> <<>>] /\ toClient' = toClient
  <2>1. net'.at = "closing" /\ net'.data = <<>>
    BY <1>4
  <2>2. <<>> \o toClient = toClient /\ IsSeq(<<>>)
    BY <1>2, ConcatEmpty, EmptyIsSeq
  <2>3. net'.data \o toClient' = toClient
    BY <1>4, <2>1, <2>2, Zenon
  <2>4. net'.at = "closing" /\ IsSeq(net'.data) /\ IsSeq(toClient')
    BY <1>2, <1>4, <2>1, <2>2, Zenon
  <2> QED
    BY <1>1, <1>2, <2>1, <2>3, <2>4
<1>5. (\E n \in 1 .. Len(toClient) :
          /\ net' = [at |-> "chunk", data |-> SubSeq(toClient, 1, n)]
          /\ toClient' = SubSeq(toClient, n + 1, Len(toClient)))
      \/ (net' = [at |-> "closing", data |-> <<>>] /\ toClient' = toClient)
  BY DEF Recv
<1> QED
  BY <1>1, <1>2, <1>3, <1>4, <1>5

LEMMA SplitMoves ==
    ASSUME IInv, Flowing, SplitChunk
    PROVE  LET w == msg \o net.data
           IN  /\ net.at = "chunk" /\ toClient' = toClient
               /\ IsSeq(w) /\ IsSeq(Ended(w)) /\ IsSeq(msg') /\ IsSeq(toClient)
               /\ Ended(w) \o msg' = w
               /\ Ended(w) # <<>> => Len(Ended(w)) \in DOMAIN Ended(w)
                                     /\ Ended(w)[Len(Ended(w))] = LF
               /\ Ended(w) = <<>> => net'.at = "recv" /\ net'.data = <<>>
               /\ Ended(w) # <<>> => net'.at = "handling" /\ net'.data = WithoutLF(Ended(w))
<1> DEFINE w == msg \o net.data
<1>1. net.at = "chunk" /\ toClient' = toClient /\ msg' = Rest(w)
      /\ net' = IF Ended(w) = <<>> THEN [at |-> "recv", data |-> <<>>]
                ELSE [at |-> "handling", data |-> LinesOf(w)]
  BY DEF SplitChunk, wires
<1>2. IsSeq(w)
  BY JoinIsSeq DEF Flowing
<1>3. IsSeq(toClient)
  BY DEF IInv, WithinCapacity
<1> HIDE DEF w
<1>4. /\ IsSeq(Ended(w)) /\ IsSeq(Rest(w)) /\ Ended(w) \o Rest(w) = w
      /\ Ended(w) # <<>> => Len(Ended(w)) \in DOMAIN Ended(w) /\ Ended(w)[Len(Ended(w))] = LF
  BY <1>2, EndedAndRest
<1>5. Ended(w) = <<>> => net'.at = "recv" /\ net'.data = <<>>
  BY <1>1
<1>6. Ended(w) # <<>> => net'.at = "handling" /\ net'.data = LinesOf(w)
  BY <1>1
<1>7. LinesOf(w) = WithoutLF(Ended(w))
  BY DEF LinesOf
<1> QED
  BY <1>1, <1>2, <1>3, <1>4, <1>5, <1>6, <1>7, Zenon DEF w

LEMMA HandleMoves ==
    ASSUME IInv, Flowing, HandleLine
    PROVE  /\ net.at = "handling" /\ UNCHANGED <<msg, toClient>>
           /\ IsSeq(net.data) /\ IsSeq(msg) /\ IsSeq(toClient)
           /\ net.data = <<Head(net.data)>> \o net'.data /\ IsSeq(net'.data)
           /\ \/ net'.at = "recv" /\ net'.data = <<>>
              \/ net'.at = "handling" /\ net'.data # <<>>
<1>1. /\ net.at = "handling" /\ UNCHANGED <<msg, toClient>>
      /\ net' = IF Len(net.data) = 1 THEN [at |-> "recv", data |-> <<>>]
                ELSE [net EXCEPT !.data = Tail(@)]
  BY DEF HandleLine, wires
<1>2. IsSeq(net.data) /\ net.data # <<>> /\ IsSeq(msg)
  BY <1>1 DEF Flowing
<1>3. IsSeq(toClient) /\ DOMAIN net = {"at", "data"}
  BY DEF IInv, WithinCapacity, Records
<1>4. /\ <<Head(net.data)>> \o Tail(net.data) = net.data /\ IsSeq(Tail(net.data))
      /\ Len(net.data) = 1 => Tail(net.data) = <<>>
      /\ Len(net.data) # 1 => Tail(net.data) # <<>>
  BY <1>2, HeadAndTail
<1>5. Len(net.data) = 1 => net'.at = "recv" /\ net'.data = <<>>
  BY <1>1
<1>6. Len(net.data) # 1 => net'.at = "handling" /\ net'.data = Tail(net.data)
  BY <1>1, <1>3
<1>7. net'.data = Tail(net.data)
  BY <1>4, <1>5, <1>6
<1> QED
  BY <1>1, <1>2, <1>3, <1>4, <1>5, <1>6, <1>7

(* Steps that leave the connection to this client and the main thread      *)
(* alone.                                                                  *)
LEMMA FlowingFrame ==
    ASSUME Flowing, UNCHANGED <<net, msg, toClient>>
    PROVE  Flowing' /\ Received' = Received
  BY DEF Flowing, Uncut, Received, IsSeq, NoEmptyLine

LEMMA FlowingRecv == ASSUME IInv, Flowing, Recv PROVE Flowing'
<1>1. /\ net.at = "recv" /\ net'.at \in {"chunk", "closing"} /\ msg' = msg
      /\ IsSeq(net'.data) /\ IsSeq(toClient') /\ IsSeq(toClient)
      /\ net.data = <<>> /\ net'.data \o toClient' = toClient
      /\ net'.at = "closing" => net'.data = <<>>
  BY RecvMoves
<1>2. IsSeq(msg) /\ NoEmptyLine(Uncut)
  BY DEF Flowing
<1>3. Uncut = msg \o toClient
  <2>1. msg \o <<>> = msg
    BY <1>2, ConcatEmpty
  <2> QED
    BY <1>1, <2>1, Zenon DEF Uncut
<1>4. Uncut' = (msg \o net'.data) \o toClient'
  BY <1>1 DEF Uncut
<1>5. Uncut' = Uncut
  <2> DEFINE d == net'.data
             t == toClient'
  <2>0. IsSeq(msg) /\ IsSeq(d) /\ IsSeq(t)
    BY <1>1, <1>2
  <2> HIDE DEF d, t
  <2>1. (msg \o d) \o t = msg \o (d \o t)
    BY <2>0, ConcatIsSeq
  <2> QED
    BY <1>1, <1>3, <1>4, <2>1, Zenon DEF d, t
<1>6. NoEmptyLine(Uncut)'
  BY <1>2, <1>5 DEF NoEmptyLine
<1>7. IsSeq(msg)' /\ IsSeq(net.data)'
  BY <1>1, <1>2 DEF IsSeq
<1> QED
  BY <1>1, <1>6, <1>7 DEF Flowing

LEMMA FlowingSplit == ASSUME IInv, Flowing, SplitChunk PROVE Flowing'
<1> DEFINE w == msg \o net.data
           e == Ended(w)
<1>1. /\ net.at = "chunk" /\ toClient' = toClient
      /\ IsSeq(w) /\ IsSeq(e) /\ IsSeq(msg') /\ IsSeq(toClient) /\ e \o msg' = w
      /\ e # <<>> => Len(e) \in DOMAIN e /\ e[Len(e)] = LF
      /\ e = <<>> => net'.at = "recv" /\ net'.data = <<>>
      /\ e # <<>> => net'.at = "handling" /\ net'.data = WithoutLF(e)
  BY SplitMoves
<1>2. Uncut = w \o toClient /\ NoEmptyLine(Uncut)
  BY <1>1 DEF Flowing, Uncut
<1> HIDE DEF w, e
<1> DEFINE r == msg' \o toClient
<1>3. Uncut = e \o r
  <2>0. IsSeq(e) /\ IsSeq(msg') /\ IsSeq(toClient)
    BY <1>1
  <2>1. (e \o msg') \o toClient = e \o (msg' \o toClient)
    BY <2>0, ConcatIsSeq
  <2> QED
    BY <1>1, <1>2, <2>1, Zenon
<1>4. IsSeq(r)
  BY <1>1, JoinIsSeq
<1>5. Uncut' = r
  <2>1. CASE e = <<>>
    <3>1. Uncut' = (msg' \o <<>>) \o toClient
      BY <1>1, <2>1 DEF Uncut
    <3>2. msg' \o <<>> = msg'
      BY <1>1, ConcatEmpty
    <3> QED
      BY <3>1, <3>2
  <2>2. CASE e # <<>>
    BY <1>1, <2>2 DEF Uncut
  <2> QED
    BY <2>1, <2>2
<1> HIDE DEF r
<1>6. NoEmptyLine(e \o r)
  BY <1>2, <1>3, Zenon
<1>7. NoEmptyLine(r)
  BY <1>1, <1>4, <1>6, NoEmptyLineAfter
<1>8. NoEmptyLine(Uncut)'
  BY <1>5, <1>7 DEF NoEmptyLine
<1>9. e # <<>> => net'.data # <<>> /\ IsSeq(net'.data)
  BY <1>1, <1>4, <1>6, SomeLine
<1>10. IsSeq(msg)' /\ IsSeq(net.data)'
  BY <1>1, <1>9, EmptyIsSeq DEF IsSeq
<1> QED
  BY <1>1, <1>8, <1>9, <1>10 DEF Flowing

LEMMA FlowingHandle == ASSUME IInv, Flowing, HandleLine PROVE Flowing'
<1>1. /\ net.at = "handling" /\ UNCHANGED <<msg, toClient>>
      /\ IsSeq(msg) /\ IsSeq(net'.data)
      /\ \/ net'.at = "recv" /\ net'.data = <<>>
         \/ net'.at = "handling" /\ net'.data # <<>>
  BY HandleMoves
<1>2. Uncut = msg \o toClient /\ NoEmptyLine(Uncut)
  BY <1>1 DEF Flowing, Uncut
<1>3. msg \o <<>> = msg
  BY <1>1, ConcatEmpty
<1>4. Uncut' = Uncut
  BY <1>1, <1>2, <1>3 DEF Uncut
<1>5. NoEmptyLine(Uncut)'
  BY <1>2, <1>4 DEF NoEmptyLine
<1>6. IsSeq(msg)' /\ IsSeq(net.data)'
  BY <1>1 DEF IsSeq
<1> QED
  BY <1>1, <1>5, <1>6 DEF Flowing

LEMMA FlowingSent ==
    ASSUME IInv, Flowing, UNCHANGED <<net, msg>>, NEW m, m # LF, Sent(m)
    PROVE  Flowing'
<1> DEFINE a == IF net.at = "handling" THEN msg ELSE msg \o net.data
<1>1. IsSeq(msg) /\ IsSeq(net.data) /\ NoEmptyLine(a \o toClient) /\ IsSeq(toClient)
  BY DEF Flowing, Uncut, IInv, WithinCapacity
<1>2. IsSeq(a)
  BY <1>1, JoinIsSeq
<1>3. Uncut' = a \o (toClient \o <<m, LF>>)
  BY DEF Uncut, Sent
<1> HIDE DEF a
<1>4. (a \o toClient) \o <<m, LF>> = a \o (toClient \o <<m, LF>>)
  <2>1. IsSeq(a) /\ IsSeq(toClient) /\ IsSeq(<<m, LF>>)
    BY <1>1, <1>2, PairIsSeq
  <2> QED
    BY <2>1, ConcatIsSeq, SMTT(30)
<1>5. IsSeq(a \o toClient)
  BY <1>1, <1>2, JoinIsSeq
<1>6. NoEmptyLine((a \o toClient) \o <<m, LF>>)
  BY <1>1, <1>5, NoEmptyLineMore
<1>7. NoEmptyLine(Uncut)'
  BY <1>3, <1>4, <1>6 DEF NoEmptyLine
<1>8. IsSeq(msg)' /\ IsSeq(net.data)'
  BY <1>1 DEF IsSeq
<1> QED
  BY <1>7, <1>8 DEF Flowing

-----------------------------------------------------------------------------
(* Filing.                                                                 *)

(* A message more in its conversation, and a conversation more.            *)
LEMMA OfMore ==
    ASSUME NEW filed, IsSeq(filed), NEW m, NEW name
    PROVE  MessagesOf(name, filed \o <<m>>) =
               IF BufferOf(m) = name THEN MessagesOf(name, filed) \o <<m>>
               ELSE MessagesOf(name, filed)
<1> DEFINE a == MessagesOf(name, filed)
<1>1. MessagesOf(name, filed \o <<m>>) = a \o MessagesOf(name, <<m>>) /\ IsSeq(a)
  BY SingleIsSeq, OfJoin
<1>2. MessagesOf(name, <<m>>) = IF BufferOf(m) = name THEN <<m>> ELSE <<>>
  BY OfSingle
<1> HIDE DEF a
<1>3. a \o <<>> = a
  BY <1>1, ConcatEmpty
<1>4. CASE BufferOf(m) = name
  BY <1>1, <1>2, <1>4, Zenon DEF a
<1>5. CASE BufferOf(m) # name
  BY <1>1, <1>2, <1>3, <1>5, Zenon DEF a
<1> QED
  BY <1>4, <1>5

LEMMA BuffersOfMore ==
    ASSUME NEW filed, IsSeq(filed), NEW m, NEW N,
           {BufferOf(filed[i]) : i \in DOMAIN filed} \subseteq N, BufferOf(m) \in N
    PROVE  LET more == filed \o <<m>>
           IN  IsSeq(more) /\ {BufferOf(more[i]) : i \in DOMAIN more} \subseteq N
<1> DEFINE T == ElementsOf(filed) \cup {m}
           more == filed \o <<m>>
<1>1. filed \in Seq(T) /\ m \in T
  BY DEF IsSeq, ElementsOf
<1>2. \A x \in T : BufferOf(x) \in N
  BY DEF ElementsOf
<1> HIDE DEF T
<1>3. more \in Seq(T)
  BY <1>1
<1> HIDE DEF more
<1>4. \A i \in DOMAIN more : more[i] \in T
  BY <1>3, ElementType
<1>5. {BufferOf(more[i]) : i \in DOMAIN more} \subseteq N
  BY <1>2, <1>4
<1> QED
  BY <1>3, <1>5, SeqIsSeq DEF more

LEMMA OpenedKeepsFiled ==
    ASSUME Conversations, NEW filed, IsSeq(filed), FiledIn(message_list, filed),
           NEW name, name \notin Names(message_list)
    PROVE  FiledIn(Append(message_list, Conversation(name, <<>>)), filed)
<1> DEFINE c == Conversation(name, <<>>)
           new == Append(message_list, c)
           n == Len(message_list)
<1>1. /\ Names(message_list) \subseteq Names(new) /\ n \in Nat
      /\ DOMAIN message_list = 1 .. n /\ DOMAIN new = 1 .. n + 1
      /\ \A i \in DOMAIN message_list : new[i] = message_list[i]
  BY OneMore
<1>2. new[n + 1] = c
  BY AppendIsSeq DEF Conversations
<1>3. c.username = name /\ c.messages = <<>>
  BY DEF Conversation
<1> HIDE DEF c, new, n
<1>4. \A i \in DOMAIN message_list : message_list[i].username # name
  BY DEF Names
<1>5. /\ \A i, j \in DOMAIN message_list :
             message_list[i].username = message_list[j].username => i = j
      /\ {BufferOf(filed[i]) : i \in DOMAIN filed} \subseteq Names(message_list)
      /\ \A i \in DOMAIN message_list :
             message_list[i].messages = MessagesOf(message_list[i].username, filed)
  BY DEF FiledIn
<1>6. \A i \in DOMAIN new : i \in DOMAIN message_list \/ i = n + 1
  BY <1>1
<1>7. \A i, j \in DOMAIN new : new[i].username = new[j].username => i = j
  BY <1>1, <1>2, <1>3, <1>4, <1>5, <1>6
<1>8. MessagesOf(name, filed) = <<>>
  <2>1. \A i \in DOMAIN filed : BufferOf(filed[i]) # name
    BY <1>5
  <2> QED
    BY <2>1, OfNobody
<1>9. \A i \in DOMAIN new : new[i].messages = MessagesOf(new[i].username, filed)
  <2> TAKE i \in DOMAIN new
  <2>1. CASE i \in DOMAIN message_list
    BY <1>1, <1>5, <2>1, Zenon
  <2>2. CASE i = n + 1
    BY <1>2, <1>3, <1>8, <2>2, Zenon
  <2> QED
    BY <1>6, <2>1, <2>2
<1>10. {BufferOf(filed[i]) : i \in DOMAIN filed} \subseteq Names(new)
  BY <1>1, <1>5
<1> QED
  BY <1>7, <1>9, <1>10 DEF FiledIn, new, c

LEMMA MessageFiled ==
    ASSUME Conversations, NEW filed, IsSeq(filed), FiledIn(message_list, filed), NEW m
    PROVE  FiledIn(Filed(message_list, m), filed \o <<m>>) /\ IsSeq(filed \o <<m>>)
<1> DEFINE b == BufferOf(m)
           more == filed \o <<m>>
           new == Filed(message_list, m)
           n == Len(message_list)
<1>1. /\ \A i, j \in DOMAIN message_list :
             message_list[i].username = message_list[j].username => i = j
      /\ {BufferOf(filed[i]) : i \in DOMAIN filed} \subseteq Names(message_list)
      /\ \A i \in DOMAIN message_list :
             message_list[i].messages = MessagesOf(message_list[i].username, filed)
  BY DEF FiledIn
<1>2. \A name : MessagesOf(name, more) =
          IF b = name THEN MessagesOf(name, filed) \o <<m>> ELSE MessagesOf(name, filed)
  BY OfMore
<1>3. IsSeq(more)
  BY SingleIsSeq, JoinIsSeq
<1>4. CASE b \in Names(message_list)
  <2> DEFINE renewed(i) == IF message_list[i].username = b
                           THEN [message_list[i] EXCEPT !.messages = Append(@, m)]
                           ELSE message_list[i]
  <2>1. new = [i \in DOMAIN message_list |-> renewed(i)]
    BY <1>4 DEF Filed
  <2>2. ASSUME NEW i \in DOMAIN message_list
        PROVE  /\ renewed(i).username = message_list[i].username
               /\ renewed(i).messages = MessagesOf(message_list[i].username, more)
    <3> DEFINE l == message_list[i]
               a == l.messages
    <3>1. DOMAIN l = {"username", "messages"}
      BY DEF Conversations
    <3>2. a = MessagesOf(l.username, filed)
      BY <1>1
    <3>3. IsSeq(a)
      BY <3>2, OfJoin, EmptyIsSeq, ZenonT(30)
    <3>4. Append(a, m) = a \o <<m>>
      <4> HIDE DEF a
      <4> QED
        BY <3>3 DEF IsSeq
    <3>5. CASE l.username = b
      <4>1. renewed(i) = [l EXCEPT !.messages = Append(a, m)]
        BY <3>5
      <4> HIDE DEF l, renewed
      <4>2. renewed(i).username = l.username /\ renewed(i).messages = Append(a, m)
        BY <3>1, <4>1
      <4>3. MessagesOf(l.username, more) = a \o <<m>>
        BY <1>2, <3>2, <3>5, Zenon
      <4> QED
        BY <3>4, <4>2, <4>3, Zenon DEF l
    <3>6. CASE l.username # b
      <4>1. renewed(i) = l
        BY <3>6
      <4>2. MessagesOf(l.username, more) = a
        BY <1>2, <3>2, <3>6, Zenon
      <4> QED
        BY <4>1, <4>2, Zenon
    <3> QED
      BY <3>5, <3>6
  <2> HIDE DEF renewed, new
  <2>3. DOMAIN new = DOMAIN message_list /\ \A i \in DOMAIN message_list : new[i] = renewed(i)
    BY <2>1
  <2>4. \A i, j \in DOMAIN new : new[i].username = new[j].username => i = j
    BY <1>1, <2>2, <2>3
  <2>5. \A i \in DOMAIN new : new[i].messages = MessagesOf(new[i].username, more)
    BY <2>2, <2>3
  <2>6. Names(new) = Names(message_list)
    BY <2>2, <2>3 DEF Names
  <2>7. {BufferOf(more[i]) : i \in DOMAIN more} \subseteq Names(new)
    BY <1>1, <1>4, <2>6, BuffersOfMore
  <2> QED
    BY <1>3, <2>4, <2>5, <2>7 DEF FiledIn, new
<1>5. CASE b \notin Names(message_list)
  <2> DEFINE c == Conversation(b, <<m>>)
  <2>1. new = Append(message_list, c)
    BY <1>5 DEF Filed
  <2>2. /\ Names(message_list) \subseteq Names(Append(message_list, c)) /\ n \in Nat
        /\ DOMAIN message_list = 1 .. n /\ DOMAIN Append(message_list, c) = 1 .. n + 1
        /\ \A i \in DOMAIN message_list : Append(message_list, c)[i] = message_list[i]
    BY OneMore
  <2>3. Append(message_list, c)[n + 1] = c
    BY AppendIsSeq DEF Conversations
  <2>4. c.username = b /\ c.messages = <<m>>
    BY DEF Conversation
  <2> HIDE DEF c, new, n
  <2>5. /\ Names(message_list) \subseteq Names(new) /\ DOMAIN new = 1 .. n + 1
        /\ \A i \in DOMAIN message_list : new[i] = message_list[i]
        /\ new[n + 1] = c /\ n \in Nat /\ DOMAIN message_list = 1 .. n
    BY <2>1, <2>2, <2>3
  <2>6. \A i \in DOMAIN message_list : message_list[i].username # b
    BY <1>5 DEF Names
  <2>7. \A i \in DOMAIN new : i \in DOMAIN message_list \/ i = n + 1
    BY <2>5
  <2>8. \A i, j \in DOMAIN new : new[i].username = new[j].username => i = j
    BY <1>1, <2>4, <2>5, <2>6, <2>7
  <2>9. MessagesOf(b, more) = <<m>>
    <3>1. \A i \in DOMAIN filed : BufferOf(filed[i]) # b
      BY <1>1, <1>5
    <3>2. MessagesOf(b, filed) = <<>>
      BY <3>1, OfNobody
    <3>3. <<>> \o <<m>> = <<m>>
      OBVIOUS
    <3> QED
      BY <1>2, <3>2, <3>3
  <2>10. \A i \in DOMAIN new : new[i].messages = MessagesOf(new[i].username, more)
    <3> TAKE i \in DOMAIN new
    <3>1. CASE i \in DOMAIN message_list
      <4>1. new[i] = message_list[i] /\ message_list[i].username # b
        BY <2>5, <2>6, <3>1
      <4>2. MessagesOf(message_list[i].username, more) =
                MessagesOf(message_list[i].username, filed)
        BY <1>2, <4>1, Zenon
      <4> QED
        BY <1>1, <3>1, <4>1, <4>2, Zenon
    <3>2. CASE i = n + 1
      BY <2>4, <2>5, <2>9, <3>2, Zenon
    <3> QED
      BY <2>7, <3>1, <3>2
  <2>11. b \in Names(new) /\ {BufferOf(filed[i]) : i \in DOMAIN filed} \subseteq Names(new)
    <3>1. n + 1 \in DOMAIN new
      BY <2>5
    <3>2. b \in Names(new)
      BY <2>4, <2>5, <3>1 DEF Names
    <3> QED
      BY <1>1, <2>5, <3>2
  <2>12. {BufferOf(more[i]) : i \in DOMAIN more} \subseteq Names(new)
    BY <2>11, BuffersOfMore
  <2> QED
    BY <1>3, <2>8, <2>10, <2>12 DEF FiledIn, new
<1> QED
  BY <1>4, <1>5

(* What was filed is what was sent before what is still on its way.        *)
AllFiled ==
    \E filed : /\ IsSeq(filed) /\ posted = filed \o OnItsWay
               /\ FiledIn(message_list, filed)

ChatInv == IInv /\ Repeated /\ Flowing /\ AllFiled

LEMMA Streams ==
    ASSUME IInv, Flowing
    PROVE  /\ IsSeq(msg) /\ IsSeq(net.data) /\ IsSeq(toClient) /\ IsSeq(Received)
           /\ OnItsWay = Messages(Received) \o Messages(toClient)
           /\ IsSeq(OnItsWay) /\ IsSeq(Messages(Received)) /\ IsSeq(Messages(toClient))
<1>1. IsSeq(msg) /\ IsSeq(net.data) /\ IsSeq(toClient)
  BY DEF Flowing, IInv, WithinCapacity
<1>2. IsSeq(Received)
  BY <1>1, JoinIsSeq DEF Received
<1>3. OnItsWay = Messages(Received) \o Messages(toClient)
  BY <1>1, <1>2, MessagesJoin DEF OnItsWay
<1>4. IsSeq(Messages(Received)) /\ IsSeq(Messages(toClient))
  BY <1>1, <1>2, MessagesJoin, EmptyIsSeq
<1>5. IsSeq(OnItsWay)
  BY <1>3, <1>4, JoinIsSeq
<1> QED
  BY <1>1, <1>2, <1>3, <1>4, <1>5

(* Recv and SplitChunk change where the messages are and not which.        *)
LEMMA RecvSameMessages == ASSUME IInv, Flowing, Recv PROVE OnItsWay' = OnItsWay
<1> DEFINE d == net'.data
           t == toClient'
<1>1. /\ net.at = "recv" /\ net'.at \in {"chunk", "closing"} /\ msg' = msg
      /\ IsSeq(d) /\ IsSeq(t) /\ net.data = <<>> /\ d \o t = toClient
  BY RecvMoves
<1>2. IsSeq(msg)
  BY DEF Flowing
<1>3. Received = msg
  <2>1. msg \o <<>> = msg
    BY <1>2, ConcatEmpty
  <2> QED
    BY <1>1, <2>1 DEF Received
<1>4. Received' = msg \o d
  BY <1>1 DEF Received
<1> HIDE DEF d, t
<1>5. (msg \o d) \o t = msg \o (d \o t)
  <2>1. IsSeq(msg) /\ IsSeq(d) /\ IsSeq(t)
    BY <1>1, <1>2
  <2> QED
    BY <2>1, ConcatIsSeq
<1>6. OnItsWay' = Messages((msg \o d) \o t)
  BY <1>4, Zenon DEF OnItsWay, t
<1>7. OnItsWay = Messages(msg \o (d \o t))
  BY <1>1, <1>3, Zenon DEF OnItsWay
<1> QED
  BY <1>5, <1>6, <1>7, Zenon

LEMMA SplitSameMessages == ASSUME IInv, Flowing, SplitChunk PROVE OnItsWay' = OnItsWay
<1> DEFINE w == msg \o net.data
           e == Ended(w)
           r == msg'
<1>1. /\ net.at = "chunk" /\ toClient' = toClient
      /\ IsSeq(w) /\ IsSeq(e) /\ IsSeq(r) /\ IsSeq(toClient) /\ e \o r = w
      /\ e = <<>> => net'.at = "recv" /\ net'.data = <<>>
      /\ e # <<>> => net'.at = "handling" /\ net'.data = WithoutLF(e)
  BY SplitMoves
<1>2. Received = w
  BY <1>1 DEF Received
<1> HIDE DEF w, e
<1>3. Messages(w) = Messages(e) \o Messages(r)
  BY <1>1, MessagesJoin
<1>4. Messages(Received') = Messages(w) /\ IsSeq(Received')
  <2>1. CASE e = <<>>
    <3>1. Received' = r \o <<>>
      BY <1>1, <2>1 DEF Received
    <3> HIDE DEF r
    <3>2. r \o <<>> = r /\ <<>> \o r = r
      BY <1>1, ConcatEmpty
    <3>3. r = w
      BY <1>1, <2>1, <3>2
    <3> QED
      BY <1>1, <3>1, <3>2, <3>3
  <2>2. CASE e # <<>>
    <3>1. Received' = WithoutLF(e) \o r
      BY <1>1, <2>2 DEF Received
    <3> HIDE DEF r
    <3>2. IsSeq(WithoutLF(e)) /\ Messages(WithoutLF(e)) = Messages(e)
      BY <1>1, LinesKeepMessages, LinesJoin
    <3>3. Messages(WithoutLF(e) \o r) = Messages(WithoutLF(e)) \o Messages(r)
      BY <1>1, <3>2, MessagesJoin
    <3>4. IsSeq(WithoutLF(e) \o r)
      BY <1>1, <3>2, JoinIsSeq
    <3> QED
      BY <1>3, <3>1, <3>2, <3>3, <3>4, Zenon
  <2> QED
    BY <2>1, <2>2
<1> DEFINE v == Received'
<1>5. OnItsWay' = Messages(v \o toClient) /\ OnItsWay = Messages(w \o toClient)
  BY <1>1, <1>2, Zenon DEF OnItsWay
<1>6. IsSeq(v) /\ Messages(v) = Messages(w)
  BY <1>4
<1> HIDE DEF v
<1>7. Messages(v \o toClient) = Messages(v) \o Messages(toClient)
      /\ Messages(w \o toClient) = Messages(w) \o Messages(toClient)
  BY <1>1, <1>6, MessagesJoin
<1> QED
  BY <1>5, <1>6, <1>7, Zenon

LEMMA HandleTakesOne ==
    ASSUME IInv, Flowing, HandleLine, Flowing', IInv'
    PROVE  OnItsWay = Messages(<<Head(net.data)>>) \o OnItsWay' /\ IsSeq(OnItsWay')
<1> DEFINE x == <<Head(net.data)>>
           d == net'.data
           b == Messages(Received')
           c == Messages(toClient)
<1>1. /\ net.at = "handling" /\ UNCHANGED <<msg, toClient>>
      /\ IsSeq(msg) /\ IsSeq(toClient)
      /\ net.data = x \o d /\ IsSeq(d)
      /\ \/ net'.at = "recv" /\ d = <<>>
         \/ net'.at = "handling" /\ d # <<>>
  BY HandleMoves
<1>2. IsSeq(x)
  BY SingleIsSeq
<1>3. Received = (x \o d) \o msg
  BY <1>1 DEF Received
<1>4. Received' = d \o msg
  <2>1. CASE net'.at = "recv" /\ d = <<>>
    <3>1. Received' = msg \o <<>>
      BY <1>1, <2>1 DEF Received
    <3>2. msg \o <<>> = msg /\ <<>> \o msg = msg
      BY <1>1, ConcatEmpty
    <3> QED
      BY <2>1, <3>1, <3>2, Zenon
  <2>2. CASE net'.at = "handling"
    BY <1>1, <2>2 DEF Received
  <2> QED
    BY <1>1, <2>1, <2>2
<1> HIDE DEF x, d
<1>5. (x \o d) \o msg = x \o (d \o msg) /\ IsSeq(d \o msg)
  BY <1>1, <1>2, ConcatIsSeq, JoinIsSeq, SMTT(30)
<1>6. Messages(x \o (d \o msg)) = Messages(x) \o Messages(d \o msg)
      /\ IsSeq(Messages(x)) /\ IsSeq(Messages(d \o msg)) /\ IsSeq(c)
  BY <1>1, <1>2, <1>5, MessagesJoin, EmptyIsSeq
<1>7. Messages(Received) = Messages(x) \o b
  BY <1>3, <1>4, <1>5, <1>6, Zenon
<1>8. IsSeq(b)
  BY <1>4, <1>6
<1>9. OnItsWay = Messages(Received) \o c
  BY Streams
<1>10. OnItsWay' = b \o c
  <2>1. OnItsWay' = Messages(Received' \o toClient)
    BY <1>1, Zenon DEF OnItsWay
  <2>2. Messages((d \o msg) \o toClient) = Messages(d \o msg) \o Messages(toClient)
    BY <1>1, <1>5, MessagesJoin
  <2> QED
    BY <1>4, <2>1, <2>2, Zenon
<1> DEFINE a == Messages(x)
<1>11. IsSeq(a) /\ IsSeq(c)
  BY <1>6
<1>12. OnItsWay = (a \o b) \o c
  BY <1>7, <1>9, Zenon
<1> HIDE DEF a, b, c
<1>13. (a \o b) \o c = a \o (b \o c) /\ IsSeq(b \o c)
  BY <1>8, <1>11, ConcatIsSeq, JoinIsSeq
<1>14. OnItsWay = a \o OnItsWay' /\ IsSeq(OnItsWay')
  BY <1>10, <1>12, <1>13
<1> QED
  BY <1>14 DEF a, x

LEMMA SentAddsOne ==
    ASSUME IInv, Flowing, UNCHANGED <<net, msg>>, NEW m, Sent(m)
    PROVE  /\ OnItsWay' = OnItsWay \o Messages(<<m>>) /\ IsSeq(Messages(<<m>>))
           /\ \A filed : IsSeq(filed) /\ posted = filed \o OnItsWay =>
                  posted' = filed \o OnItsWay'
<1> DEFINE v == Received
           p == <<m, LF>>
           e == Messages(<<m>>)
           o == OnItsWay
<1>1. IsSeq(v) /\ IsSeq(toClient) /\ IsSeq(o)
  BY Streams
<1>2. Received' = v /\ toClient' = toClient \o p
  BY DEF Received, Sent
<1>3. IsSeq(p) /\ p = <<m>> \o <<LF>> /\ IsSeq(<<m>>) /\ IsSeq(<<LF>>)
  BY PairIsSeq, SingleIsSeq
<1>4. Messages(p) = e
  <2>1. Messages(<<m>> \o <<LF>>) = e \o Messages(<<LF>>) /\ IsSeq(e)
    BY <1>3, MessagesJoin
  <2>2. Messages(<<LF>>) = <<>>
    <3>1. LF.kind # "PRIVMSG"
      BY DEF LF
    <3> QED
      BY <3>1, MessagesSingle
  <2> HIDE DEF e
  <2>3. e \o <<>> = e
    BY <2>1, ConcatEmpty
  <2> QED
    BY <1>3, <2>1, <2>2, <2>3, Zenon
<1>5. e = IF m.kind = "PRIVMSG" THEN <<m>> ELSE <<>>
  BY MessagesSingle
<1>6. IsSeq(e)
  BY <1>5, SingleIsSeq, EmptyIsSeq
<1>7. o = Messages(v \o toClient) /\ OnItsWay' = Messages(v \o (toClient \o p))
  BY <1>2, Zenon DEF OnItsWay
<1>8. posted' = IF m.kind = "PRIVMSG" THEN Append(posted, m) ELSE posted
  BY DEF Sent
<1> HIDE DEF v, p, e, o
<1>9. (v \o toClient) \o p = v \o (toClient \o p) /\ IsSeq(v \o toClient)
  BY <1>1, <1>3, ConcatIsSeq, JoinIsSeq, SMTT(30)
<1>10. Messages((v \o toClient) \o p) = Messages(v \o toClient) \o Messages(p)
  BY <1>3, <1>9, MessagesJoin
<1>11. OnItsWay' = o \o e
  BY <1>4, <1>7, <1>9, <1>10, Zenon
<1>12. ASSUME NEW filed, IsSeq(filed), posted = filed \o o
       PROVE  posted' = filed \o (o \o e)
  <2>1. (filed \o o) \o e = filed \o (o \o e) /\ IsSeq(filed \o o)
    BY <1>1, <1>6, <1>12, ConcatIsSeq, JoinIsSeq
  <2>2. posted' = posted \o e
    <3> DEFINE q == posted
    <3>1. IsSeq(q)
      BY <1>12, <2>1
    <3>2. CASE m.kind = "PRIVMSG"
      <4>1. posted' = Append(q, m) /\ e = <<m>>
        BY <1>5, <1>8, <3>2
      <4> HIDE DEF q
      <4>2. Append(q, m) = q \o <<m>>
        BY <3>1 DEF IsSeq
      <4> QED
        BY <4>1, <4>2, Zenon DEF q
    <3>3. CASE m.kind # "PRIVMSG"
      <4>1. posted' = q /\ e = <<>>
        BY <1>5, <1>8, <3>3
      <4> HIDE DEF q
      <4>2. q \o <<>> = q
        BY <3>1, ConcatEmpty
      <4> QED
        BY <4>1, <4>2, Zenon DEF q
    <3> QED
      BY <3>2, <3>3
  <2> QED
    BY <1>12, <2>1, <2>2, Zenon
<1>13. \A filed : IsSeq(filed) /\ posted = filed \o o => posted' = filed \o OnItsWay'
  BY <1>11, <1>12, Zenon
<1> QED
  BY <1>6, <1>11, <1>13, Zenon DEF e, o

(* One action after the other.                                             *)
LEMMA AllFiledFrame ==
    ASSUME AllFiled, OnItsWay' = OnItsWay, UNCHANGED <<posted, message_list>>
    PROVE  AllFiled'
<1>1. PICK filed : /\ IsSeq(filed) /\ posted = filed \o OnItsWay
                   /\ FiledIn(message_list, filed)
  BY DEF AllFiled
<1>2. posted' = filed \o OnItsWay' /\ FiledIn(message_list', filed)
  BY <1>1
<1> QED
  BY <1>1, <1>2 DEF AllFiled

LEMMA EnterFiles ==
    ASSUME IInv, Flowing, AllFiled, EnterKey
    PROVE  AllFiled'
<1>1. Enter /\ UNCHANGED <<net, msg, toClient, posted>>
  BY DEF EnterKey, HandleKey, wires
<1>2. OnItsWay' = OnItsWay
  BY <1>1 DEF OnItsWay, Received
<1>3. CASE UNCHANGED message_list
  BY <1>1, <1>2, <1>3, AllFiledFrame
<1>4. ASSUME NEW name, name \notin Names(message_list),
             message_list' = Append(message_list, Conversation(name, <<>>))
      PROVE  AllFiled'
  <2>1. PICK filed : /\ IsSeq(filed) /\ posted = filed \o OnItsWay
                     /\ FiledIn(message_list, filed)
    BY DEF AllFiled
  <2>2. Conversations
    BY DEF IInv, Records, Conversations
  <2>3. FiledIn(message_list', filed)
    BY <1>4, <2>1, <2>2, OpenedKeepsFiled
  <2>4. posted' = filed \o OnItsWay'
    BY <1>1, <1>2, <2>1
  <2> QED
    BY <2>1, <2>3, <2>4 DEF AllFiled
<1>5. \/ UNCHANGED message_list
      \/ /\ Argument(input_str) \notin Names(message_list)
         /\ message_list' = Append(message_list, Conversation(Argument(input_str), <<>>))
  BY <1>1 DEF Enter, Query
<1> QED
  BY <1>3, <1>4, <1>5

LEMMA HandleFiles ==
    ASSUME IInv, Flowing, AllFiled, HandleLine, IInv', Flowing'
    PROVE  AllFiled'
<1> DEFINE m == Head(net.data)
           x == Messages(<<m>>)
           o == OnItsWay'
<1>1. OnItsWay = x \o o /\ IsSeq(o)
  BY HandleTakesOne
<1>2. PICK filed : /\ IsSeq(filed) /\ posted = filed \o OnItsWay
                   /\ FiledIn(message_list, filed)
  BY DEF AllFiled
<1>3. x = IF m.kind = "PRIVMSG" THEN <<m>> ELSE <<>>
  BY MessagesSingle
<1>4. IsSeq(x)
  BY <1>3, SingleIsSeq, EmptyIsSeq
<1>5. posted' = posted
  BY DEF HandleLine, wires
<1>6. message_list' = IF m.kind = "PRIVMSG" THEN Filed(message_list, m) ELSE message_list
  BY DEF HandleLine, screen
<1>7. Conversations
  BY DEF IInv, Records, Conversations
<1> HIDE DEF m, x, o
<1>8. posted' = (filed \o x) \o o
  <2>1. (filed \o x) \o o = filed \o (x \o o)
    BY <1>1, <1>2, <1>4, ConcatIsSeq
  <2> QED
    BY <1>1, <1>2, <1>5, <2>1, Zenon
<1>9. FiledIn(message_list', filed \o x) /\ IsSeq(filed \o x)
  <2>1. CASE m.kind = "PRIVMSG"
    <3>1. FiledIn(Filed(message_list, m), filed \o <<m>>) /\ IsSeq(filed \o <<m>>)
      BY <1>2, <1>7, MessageFiled
    <3> QED
      BY <1>3, <1>6, <2>1, <3>1
  <2>2. CASE m.kind # "PRIVMSG"
    <3>1. filed \o <<>> = filed
      BY <1>2, ConcatEmpty
    <3>2. x = <<>> /\ message_list' = message_list
      BY <1>3, <1>6, <2>2
    <3> QED
      BY <1>2, <3>1, <3>2
  <2> QED
    BY <2>1, <2>2
<1> DEFINE f == filed \o x
<1>10. IsSeq(f) /\ posted' = f \o OnItsWay' /\ FiledIn(message_list', f)
  BY <1>8, <1>9 DEF o
<1> HIDE DEF f
<1> QED
  BY <1>10 DEF AllFiled

LEMMA SentFiles ==
    ASSUME IInv, Flowing, AllFiled, UNCHANGED <<net, msg, message_list>>, NEW m, Sent(m)
    PROVE  AllFiled'
<1>1. PICK filed : /\ IsSeq(filed) /\ posted = filed \o OnItsWay
                   /\ FiledIn(message_list, filed)
  BY DEF AllFiled
<1>2. posted' = filed \o OnItsWay'
  BY <1>1, SentAddsOne
<1>3. FiledIn(message_list', filed)
  BY <1>1
<1> QED
  BY <1>1, <1>2, <1>3 DEF AllFiled

LEMMA InitChatInv == Init => ChatInv
<1> SUFFICES ASSUME Init PROVE ChatInv
  OBVIOUS
<1>1. /\ msg = <<>> /\ net = [at |-> "recv", data |-> <<>>] /\ toClient = <<>>
      /\ toServer = <<>> /\ server = <<Other, Other>> /\ ui = Waiting
      /\ posted = <<>> /\ message_list = <<>>
  BY DEF Init
<1>2. Repeated
  <2>1. IsSeq(server)
    BY <1>1, PairIsSeq
  <2>2. NoLF(server)
    BY <1>1, LinesAreNotLF DEF NoLF
  <2> QED
    BY <1>1, <2>1, <2>2, UiValues DEF Repeated, NoLF
<1>3. <<>> \o <<>> = <<>>
  OBVIOUS
<1>4. Uncut = <<>> /\ Received = <<>>
  BY <1>1, <1>3 DEF Uncut, Received
<1>5. Flowing
  BY <1>1, <1>4, EmptyIsSeq DEF Flowing, NoEmptyLine
<1>6. OnItsWay = <<>>
  <2>1. Messages(<<>>) = <<>>
    BY MessagesSingle
  <2> QED
    BY <1>1, <1>3, <1>4, <2>1 DEF OnItsWay
<1>7. FiledIn(message_list, <<>>)
  BY <1>1 DEF FiledIn
<1>8. posted = <<>> \o OnItsWay
  BY <1>1, <1>3, <1>6
<1>9. AllFiled
  BY <1>7, <1>8, EmptyIsSeq DEF AllFiled
<1> QED
  BY <1>2, <1>5, <1>9, InitIInv DEF ChatInv

LEMMA StepChatInv == ChatInv /\ [Next]_vars => ChatInv'
<1> SUFFICES ASSUME ChatInv, [Next]_vars PROVE ChatInv'
  OBVIOUS
<1>1. IInv /\ Repeated /\ Flowing /\ AllFiled /\ IInv'
  BY StepIInv DEF ChatInv
<1>2. Repeated'
  BY <1>1, RepeatedKept
<1>3. CASE UNCHANGED <<net, msg, toClient, posted, message_list>>
  <2>1. Flowing' /\ OnItsWay' = OnItsWay
    BY <1>1, <1>3, FlowingFrame DEF OnItsWay
  <2>2. AllFiled'
    BY <1>1, <1>3, <2>1, AllFiledFrame
  <2> QED
    BY <1>1, <1>2, <2>1, <2>2 DEF ChatInv
<1>4. CASE \/ Form \/ PressEnter \/ OtherKey \/ SendReturns \/ SendFails \/ Close
           \/ (ServerStep /\ ServerReads) \/ (Elsewhere /\ LinkCloses) \/ UNCHANGED vars
  <2>1. UNCHANGED <<net, msg, toClient, posted, message_list>>
    BY <1>4 DEF Form, PressEnter, OtherKey, HandleKey, SwitchBuffer, MoveCursor, EditInput,
                SendReturns, SendFails, Close, ServerStep, ServerReads, Elsewhere, LinkCloses,
                vars, chatVars, wires, screen
  <2> QED
    BY <1>3, <2>1
<1>5. CASE EnterKey
  <2>1. UNCHANGED <<net, msg, toClient>>
    BY <1>5 DEF EnterKey, HandleKey, wires
  <2> QED
    BY <1>1, <1>2, <1>5, <2>1, FlowingFrame, EnterFiles DEF ChatInv
<1>6. CASE Recv
  <2>1. Flowing' /\ OnItsWay' = OnItsWay
    BY <1>1, <1>6, FlowingRecv, RecvSameMessages
  <2>2. UNCHANGED <<posted, message_list>>
    BY <1>6 DEF Recv, screen
  <2> QED
    BY <1>1, <1>2, <2>1, <2>2, AllFiledFrame DEF ChatInv
<1>7. CASE SplitChunk
  <2>1. Flowing' /\ OnItsWay' = OnItsWay
    BY <1>1, <1>7, FlowingSplit, SplitSameMessages
  <2>2. UNCHANGED <<posted, message_list>>
    BY <1>7 DEF SplitChunk, screen, wires
  <2> QED
    BY <1>1, <1>2, <2>1, <2>2, AllFiledFrame DEF ChatInv
<1>8. CASE HandleLine
  <2>1. Flowing'
    BY <1>1, <1>8, FlowingHandle
  <2>2. AllFiled'
    BY <1>1, <1>8, <2>1, HandleFiles
  <2> QED
    BY <1>1, <1>2, <2>1, <2>2 DEF ChatInv
<1>9. CASE (ServerStep /\ ServerAnswers) \/ (Elsewhere /\ OthersPost)
  <2>1. UNCHANGED <<net, msg, message_list>>
    BY <1>9 DEF ServerStep, Elsewhere, screen
  <2>2. \E m : m # LF /\ Sent(m)
    <3>1. CASE ServerAnswers
      <4>1. Sent(Head(server)) /\ server # <<>>
        BY <3>1 DEF ServerAnswers
      <4>2. Head(server) # LF
        BY <1>1, <4>1, NoLFTail DEF Repeated
      <4> QED
        BY <4>1, <4>2
    <3>2. CASE OthersPost
      BY <3>2, LinesAreNotLF DEF OthersPost
    <3> QED
      BY <1>9, <3>1, <3>2
  <2>3. PICK m : m # LF /\ Sent(m)
    BY <2>2
  <2>4. Flowing' /\ AllFiled'
    BY <1>1, <2>1, <2>3, FlowingSent, SentFiles
  <2> QED
    BY <1>1, <1>2, <2>4 DEF ChatInv
<1> QED
  BY <1>4, <1>5, <1>6, <1>7, <1>8, <1>9 DEF Next, UiStep, NetStep, ServerStep, Elsewhere

LEMMA ChatInvComplete == ChatInv => ConversationsComplete
<1> SUFFICES ASSUME ChatInv PROVE ConversationsComplete
  OBVIOUS
<1>1. PICK filed : /\ IsSeq(filed) /\ posted = filed \o OnItsWay
                   /\ FiledIn(message_list, filed)
  BY DEF ChatInv, AllFiled
<1> DEFINE o == OnItsWay
           p == posted
           T == ElementsOf(filed) \cup ElementsOf(o)
<1>2. IsSeq(o)
  BY Streams DEF ChatInv
<1>3. p = filed \o o
  BY <1>1
<1> HIDE DEF o, p
<1>4. filed \in Seq(T) /\ o \in Seq(T)
  BY <1>1, <1>2, CommonElements
<1> HIDE DEF T
<1>5. p \in Seq(T) /\ IsJoin(p, filed, o)
  BY <1>3, <1>4, JoinFacts
<1>6. Len(p) - Len(o) = Len(filed) /\ Len(filed) \in 0 .. Len(p) /\ Len(p) \in Nat
  BY <1>4, <1>5 DEF IsJoin
<1> DEFINE q == SubSeq(p, 1, Len(filed))
<1>7. q \in Seq(T) /\ Len(q) = Len(filed) /\ \A i \in 1 .. Len(filed) : q[i] = p[i]
  BY <1>5, <1>6
<1> HIDE DEF q
<1>8. q = filed
  BY <1>4, <1>5, <1>7, SMTT(30) DEF IsJoin
<1>9. SubSeq(posted, 1, Len(posted) - Len(OnItsWay)) = filed
  BY <1>6, <1>8, Zenon DEF q, o, p
<1> QED
  BY <1>1, <1>9, Zenon DEF ConversationsComplete

(* Every message that the server sent to this client is in exactly the     *)
(* conversation that it belongs to, in the order in which it was sent, or  *)
(* still on its way: for any messages, however recv cuts the text, and     *)
(* whatever conversations the user's thread opens meanwhile.               *)
THEOREM ConversationsStayComplete == Spec => []ConversationsComplete
  BY InitChatInv, StepChatInv, ChatInvComplete, PTL DEF Spec
=============================================================================
