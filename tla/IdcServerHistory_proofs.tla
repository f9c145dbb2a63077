---------------------- MODULE IdcServerHistory_proofs -----------------------
(***************************************************************************)
(* What the clients of IdcServer receive: in which order, and that nothing *)
(* is lost.                                                                *)
(***************************************************************************)
EXTENDS IdcServer_proofs

-----------------------------------------------------------------------------
(***************************************************************************)
(* The order in which clients of IdcServer receive messages: on one stream *)
(* the messages of one sender come in the order it sent them, each once;   *)
(* and what was kept for a user comes first, between END_BURST and         *)
(* END_OFFLINE_MESSAGES.                                                   *)
(***************************************************************************)

(* Every message of t in s is older than its message number n.             *)
Below(s, t, n) == \A i \in DOMAIN s : IsMsg(s[i]) /\ s[i].from = t => s[i].n < n

InOrder(s) ==
    \A i, j \in DOMAIN s :
        i < j /\ IsMsg(s[i]) /\ IsMsg(s[j]) /\ s[i].from = s[j].from => s[i].n < s[j].n

(* What was received was due to the user, as is what is being fanned out.  *)
ReceivedIsDue ==
    \A c \in Clients : \A i \in DOMAIN received[c] : IsMsg(received[c][i]) =>
        user[c] # None /\ \E cs : <<received[c][i], user[c], cs>> \in due

FanoutIsDue ==
    \A t \in Clients : task[t].stage = "fanout" =>
        \E cs : <<task[t].line, Head(task[t].rest), cs>> \in due

NoMessageBeforeDrain ==
    \A c \in Clients : task[c].stage \in {"burst", "endburst"} =>
        \A i \in DOMAIN received[c] : ~IsMsg(received[c][i])

(* The clients of the user being iterated that a fan-out is at or comes to.*)
Iterated(t) == connected_clients[Head(task[t].rest)]
Ahead(t, c) == c = task[t].on \/ \E i \in DOMAIN Iterated(t) : task[t].pos <= i /\ Iterated(t)[i] = c

(* They do not have the message yet, although the list shrinks and grows   *)
(* under the iterator; the client it is at is behind the iterator.         *)
AheadHasNot ==
    \A t, c \in Clients : task[t].stage = "fanout" /\ Ahead(t, c) =>
        Below(received[c], t, lines[t])

IteratorPassed ==
    \A t \in Clients : task[t].stage = "fanout" =>
        \A i \in DOMAIN Iterated(t) : Iterated(t)[i] = task[t].on => i < task[t].pos

QueuesInOrder == \A u \in Users : InOrder(queue[u])

(* What a login received, what it is sending and what still waits.         *)
DrainInOrder ==
    \A c \in Clients : task[c].stage = "drain" =>
        /\ Below(received[c], task[c].line.from, task[c].line.n)
        /\ \A m \in ToSet(queue[user[c]]) :
              /\ m.from = task[c].line.from => task[c].line.n < m.n
              /\ Below(received[c], m.from, m.n)

OrderInv ==
    /\ ReceivedIsDue /\ FanoutIsDue /\ NoMessageBeforeDrain /\ AheadHasNot /\ IteratorPassed
    /\ QueuesInOrder /\ DrainInOrder /\ FifoPerSender

Inv == IInv /\ StreamInv

-----------------------------------------------------------------------------
(* Sequences of lines.                                                     *)

LEMMA AppendElements ==
    ASSUME NEW S, NEW s \in Seq(S), NEW x \in S
    PROVE  /\ Append(s, x) \in Seq(S) /\ Len(Append(s, x)) = Len(s) + 1
           /\ DOMAIN s = 1 .. Len(s) /\ Len(s) \in Nat
           /\ \A k \in DOMAIN s : k \in DOMAIN Append(s, x) /\ Append(s, x)[k] = s[k]
           /\ \A k \in DOMAIN Append(s, x) :
                 \/ k \in DOMAIN s /\ Append(s, x)[k] = s[k]
                 \/ k = Len(s) + 1 /\ Append(s, x)[k] = x
<1> DEFINE r == Append(s, x)
<1>1. /\ r \in Seq(S) /\ Len(r) = Len(s) + 1 /\ DOMAIN r = 1 .. Len(s) + 1
      /\ DOMAIN s = 1 .. Len(s) /\ Len(s) \in Nat
      /\ \A k \in 1 .. Len(s) : r[k] = s[k]
      /\ r[Len(s) + 1] = x
  OBVIOUS
<1> HIDE DEF r
<1>2. \A k \in 1 .. Len(s) + 1 : k \in 1 .. Len(s) \/ k = Len(s) + 1
  BY <1>1
<1>3. \A k \in 1 .. Len(s) : k \in 1 .. Len(s) + 1
  BY <1>1
<1>4. \A k \in DOMAIN s : k \in DOMAIN r /\ r[k] = s[k]
  BY <1>1, <1>3
<1>5. \A k \in DOMAIN r : \/ k \in DOMAIN s /\ r[k] = s[k]
                          \/ k = Len(s) + 1 /\ r[k] = x
  BY <1>1, <1>2
<1> QED  BY <1>1, <1>4, <1>5 DEF r

LEMMA BelowAppend ==
    ASSUME NEW S, NEW s \in Seq(S), NEW x \in S, NEW t, NEW n, Below(s, t, n),
           IsMsg(x) /\ x.from = t => x.n < n
    PROVE  Below(Append(s, x), t, n)
<1> DEFINE r == Append(s, x)
<1>1. \A k \in DOMAIN r : (k \in DOMAIN s /\ r[k] = s[k]) \/ r[k] = x
  BY AppendElements
<1> HIDE DEF r
<1>2. Below(r, t, n)
  BY <1>1 DEF Below
<1> QED  BY <1>2 DEF r

LEMMA InOrderAppend ==
    ASSUME NEW S, NEW s \in Seq(S), NEW x \in S, InOrder(s), IsMsg(x) => Below(s, x.from, x.n)
    PROVE  InOrder(Append(s, x))
<1> DEFINE r == Append(s, x)
<1>1. /\ DOMAIN s = 1 .. Len(s) /\ Len(s) \in Nat
      /\ \A k \in DOMAIN r : \/ k \in DOMAIN s /\ r[k] = s[k]
                             \/ k = Len(s) + 1 /\ r[k] = x
  BY AppendElements
<1> HIDE DEF r
<1>2. ASSUME NEW i \in DOMAIN r, NEW j \in DOMAIN r, i < j,
             IsMsg(r[i]), IsMsg(r[j]), r[i].from = r[j].from
      PROVE  r[i].n < r[j].n
  <2>1. i \in DOMAIN s /\ r[i] = s[i]
    BY <1>1, <1>2
  <2>2. CASE j \in DOMAIN s /\ r[j] = s[j]
    BY <1>2, <2>1, <2>2 DEF InOrder
  <2>3. CASE r[j] = x
    BY <1>2, <2>1, <2>3 DEF Below
  <2> QED  BY <1>1, <2>2, <2>3
<1> QED  BY <1>2 DEF InOrder, r

LEMMA TailInOrder ==
    ASSUME NEW q \in Seq(Messages), q # <<>>, InOrder(q)
    PROVE  /\ InOrder(Tail(q))
           /\ \A m \in ToSet(Tail(q)) : m.from = Head(q).from => Head(q).n < m.n
<1> DEFINE r == Tail(q)
<1>1. /\ Len(q) \in Nat \ {0} /\ DOMAIN q = 1 .. Len(q)
      /\ Head(q) = q[1] /\ DOMAIN r = 1 .. Len(q) - 1
      /\ \A i \in 1 .. Len(q) - 1 : r[i] = q[i + 1]
  OBVIOUS
<1> HIDE DEF r
<1>2. \A i \in DOMAIN r : i + 1 \in DOMAIN q /\ i \in Nat /\ 1 < i + 1 /\ r[i] = q[i + 1]
  BY <1>1
<1>3. \A i \in DOMAIN q : IsMsg(q[i])
  <2>1. \A i \in DOMAIN q : q[i] \in Messages
    OBVIOUS
  <2> QED  BY <2>1 DEF Messages, IsMsg
<1>4. 1 \in DOMAIN q
  BY <1>1
<1>5. InOrder(r)
  BY <1>1, <1>2 DEF InOrder
<1>6. \A i \in DOMAIN r : r[i].from = q[1].from => q[1].n < r[i].n
  BY <1>1, <1>2, <1>3, <1>4 DEF InOrder
<1> QED  BY <1>1, <1>5, <1>6 DEF ToSet, r

-----------------------------------------------------------------------------
(* What is sent.                                                           *)

(* Only a drain and a fan-out send messages.                               *)
LEMMA MessageSent ==
    ASSUME Inv, NEW t \in Clients, task[t].stage \in Sending, IsMsg(task[t].line)
    PROVE  /\ task[t].stage \in {"drain", "fanout"} /\ task[t].line \in Messages
           /\ task[t].stage = "drain" => task[t].on = t
           /\ user[t] # None /\ task[t].on \in Clients
<1>1. task[t].stage \in {"drain", "fanout"}
  BY DEF Inv, StreamInv, FrameFits, PlainFrame, Sending, IsMsg
<1> QED  BY <1>1 DEF Inv, StreamInv, FrameFits, IInv, TypeOK, FrameOK, Sending

LEMMA LineSent ==
    ASSUME Inv, NEW t \in Clients, task[t].stage \in Sending
    PROVE  task[t].line \in Lines
BY DEF Inv, IInv, TypeOK, FrameOK

(* The new line is no message, or it is one that the client lacks.         *)
LEMMA ReceivedInOrder ==
    ASSUME Inv, OrderInv, NEW t \in Clients, Kinds(t)
    PROVE  FifoPerSender'
<1> SUFFICES ASSUME NEW c \in Clients  PROVE InOrder(received'[c])
  BY DEF FifoPerSender, InOrder
<1>1. InOrder(received[c]) /\ received[c] \in Seq(Lines)
  BY DEF OrderInv, FifoPerSender, InOrder, Inv, IInv, TypeOK
<1>2. CASE Hears(t, c)
  <2>1. /\ task[t].stage \in Sending /\ c = task[t].on /\ task[t].line \in Lines
        /\ received'[c] = Append(received[c], task[t].line)
    BY <1>2, LineSent DEF Hears
  <2>2. ASSUME IsMsg(task[t].line)
        PROVE  Below(received[c], task[t].line.from, task[t].line.n)
    <3>1. /\ task[t].stage \in {"drain", "fanout"}
          /\ task[t].stage = "drain" => c = t
      BY <2>1, <2>2, MessageSent
    <3>2. CASE task[t].stage = "drain"
      BY <3>1, <3>2 DEF OrderInv, DrainInOrder
    <3>3. CASE task[t].stage = "fanout"
      BY <2>1, <3>3 DEF OrderInv, AheadHasNot, Ahead, Inv, StreamInv, FrameFits
    <3> QED  BY <3>1, <3>2, <3>3
  <2> QED  BY <1>1, <2>1, <2>2, InOrderAppend
<1> QED  BY <1>1, <1>2, ReceivedChanges DEF Inv

-----------------------------------------------------------------------------
(* What was received was due.                                              *)

LEMMA ReceivedLines ==
    ASSUME Inv, NEW t \in Clients, Kinds(t), NEW c \in Clients, NEW i \in DOMAIN received'[c]
    PROVE  \/ i \in DOMAIN received[c] /\ received'[c][i] = received[c][i]
           \/ Hears(t, c) /\ received'[c][i] = task[t].line
<1>1. CASE Hears(t, c)
  <2>1. received[c] \in Seq(Lines) /\ task[t].line \in Lines
    BY <1>1, LineSent DEF Hears, Inv, IInv, TypeOK
  <2>2. received'[c] = Append(received[c], task[t].line)
    BY <1>1 DEF Hears
  <2> QED  BY <1>1, <2>1, <2>2, AppendElements
<1> QED  BY <1>1, ReceivedChanges DEF Inv

LEMMA BelowKept ==
    ASSUME Inv, NEW t \in Clients, Kinds(t), NEW c \in Clients, NEW x, NEW n,
           Below(received[c], x, n),
           Hears(t, c) /\ IsMsg(task[t].line) /\ task[t].line.from = x => task[t].line.n < n
    PROVE  Below(received'[c], x, n)
BY ReceivedLines DEF Below

LEMMA SentIsDue ==
    ASSUME Inv, FanoutIsDue, NEW t \in Clients, task[t].stage \in Sending, IsMsg(task[t].line)
    PROVE  user[task[t].on] # None /\ \E cs : <<task[t].line, user[task[t].on], cs>> \in due
<1>1. /\ task[t].stage \in {"drain", "fanout"} /\ user[t] # None
      /\ task[t].stage = "drain" => task[t].on = t
  BY MessageSent
<1>2. CASE task[t].stage = "drain"
  BY <1>1, <1>2 DEF Inv, StreamInv, FrameFits
<1>3. CASE task[t].stage = "fanout"
  <2>1. task[t].rest \in Seq(Users) /\ task[t].rest # <<>> /\ user[task[t].on] = Head(task[t].rest)
    BY <1>3 DEF Inv, IInv, TypeOK, FrameOK, Frames, StreamInv, FrameFits
  <2>2. Head(task[t].rest) # None
    BY <2>1, TailUsers, ConfigAssumption
  <2> QED  BY <1>3, <2>1, <2>2 DEF FanoutIsDue
<1> QED  BY <1>1, <1>2, <1>3

LEMMA ReceivedStaysDue ==
    ASSUME Inv, ReceivedIsDue, FanoutIsDue, NEW t \in Clients, Kinds(t)
    PROVE  ReceivedIsDue'
<1> SUFFICES ASSUME NEW c \in Clients, NEW i \in DOMAIN received'[c], IsMsg(received'[c][i])
             PROVE  user'[c] # None /\ \E cs : <<received'[c][i], user'[c], cs>> \in due'
  BY DEF ReceivedIsDue
<1>1. user[c] # None /\ \E cs : <<received'[c][i], user[c], cs>> \in due
  <2>1. CASE i \in DOMAIN received[c] /\ received'[c][i] = received[c][i]
    BY <2>1 DEF ReceivedIsDue
  <2>2. CASE Hears(t, c) /\ received'[c][i] = task[t].line
    BY <2>2, SentIsDue DEF Hears
  <2> QED  BY <2>1, <2>2, ReceivedLines
<1>2. user'[c] = user[c] /\ due \subseteq due'
  BY <1>1, KindsGrow DEF Inv
<1> QED  BY <1>1, <1>2

(* After send() turned to users, the task is in a fan-out again or not     *)
(* sending any more.                                                       *)
LEMMA TurnStage ==
    ASSUME NEW t \in Clients, NEW m, NEW rest, TurnStep(t, m, rest)
    PROVE  task'[t].stage \in {"reading", "closed", "fanout"}
<1>1. PICK k \in 0 .. Len(rest) : Turns(t, m, rest, k)
  BY DEF TurnStep
<1>2. task'[t] \in {Reading, Closed} \/ \E s : task'[t] = FanoutFrame(m, s, 1)
  BY <1>1, Zenon DEF Turns, Ended
<1>3. \A s : FanoutFrame(m, s, 1).stage = "fanout"
  BY DEF FanoutFrame
<1>4. Reading.stage = "reading" /\ Closed.stage = "closed"
  BY DEF Closed, Frame, Reading
<1> QED  BY <1>2, <1>3, <1>4

(* A message in fan-out is due to the user being iterated.                 *)
LEMMA FanoutFrom ==
    ASSUME Inv, NEW t \in Clients, Kinds(t), task'[t].stage = "fanout"
    PROVE  \/ /\ task'[t].line = task[t].line /\ task'[t].rest = task[t].rest
              /\ task[t].stage = "fanout" /\ task'[t].on = task[t].on
              /\ task'[t].pos = task[t].pos
              /\ PeerLeaves(t)
           \/ NextClientStep(t)
           \/ \E m \in Messages, rest \in Seq(Users) : TurnStep(t, m, rest)
<1>1. ~OwnStep(t) /\ ~EndStep(t) /\ ~PopStep(t)
  BY DEF OwnStep, OwnMoves, EndStep, Ended, Closed, Frame, PopStep
<1>2. \A u \in Users : ~LoginStep(t, u)
  BY DEF LoginStep
<1>3. PeerLeaves(t) => task'[t] = task[t]
  BY DEF PeerLeaves
<1> QED  BY <1>1, <1>2, <1>3 DEF Kinds

(* The frame of a fan-out after send() turned to a user, and what is due.  *)
LEMMA TurnedTo ==
    ASSUME Inv, NEW t \in Clients, NEW m \in Messages, NEW rest \in Seq(Users),
           TurnStep(t, m, rest), task'[t].stage = "fanout"
    PROVE  LET f == task'[t]  u == Head(task'[t].rest)
           IN  /\ f.line = m /\ f.pos = 2 /\ u \in ToSet(rest) /\ u \in Users
               /\ <<m, u, ToSet(connected_clients[u])>> \in due'
               /\ f.on = connected_clients[u][1]
               /\ connected_clients' = connected_clients
               /\ ~Offline(u)
<1>1. PICK k \in 0 .. Len(rest) : Turns(t, m, rest, k)
  BY DEF TurnStep
<1>2. task'[t] # Reading /\ task'[t] # Closed
  BY DEF Reading, Closed, Frame
<1>3. /\ k < Len(rest) /\ ~Offline(rest[k + 1])
      /\ due' = due \cup KeptFor(m, Firsts(rest, k)) \cup
                  {<<m, rest[k + 1], ToSet(connected_clients[rest[k + 1]])>>}
      /\ task'[t] = FanoutFrame(m, SubSeq(rest, k + 1, Len(rest)), 1)
      /\ UNCHANGED connected_clients
  BY <1>1, <1>2 DEF Turns, Ended
<1>4. Distinct(rest)
  BY DEF TurnStep
<1>5. /\ task'[t].line = m /\ task'[t].pos = 2
      /\ Head(task'[t].rest) = rest[k + 1] /\ rest[k + 1] \in ToSet(rest)
      /\ rest[k + 1] \in Users
      /\ task'[t].on = connected_clients[rest[k + 1]][1]
  BY <1>3, <1>4, NextUser DEF Inv
<1> QED  BY <1>3, <1>5

LEMMA FanoutStaysDue ==
    ASSUME Inv, FanoutIsDue, NEW t \in Clients, Kinds(t)
    PROVE  FanoutIsDue'
<1> SUFFICES ASSUME NEW x \in Clients, task'[x].stage = "fanout"
             PROVE  \E cs : <<task'[x].line, Head(task'[x].rest), cs>> \in due'
  BY DEF FanoutIsDue
<1>1. Moves(t) /\ due \subseteq due'
  BY KindsGrow DEF Inv
<1>2. CASE x # t
  BY <1>1, <1>2 DEF Moves, FanoutIsDue
<1>3. CASE x = t
  <2>1. CASE \E m \in Messages, rest \in Seq(Users) : TurnStep(t, m, rest)
    BY <1>3, <2>1, TurnedTo
  <2>2. CASE /\ task[t].stage = "fanout"
             /\ task'[t].line = task[t].line /\ task'[t].rest = task[t].rest
    BY <1>1, <1>3, <2>2 DEF FanoutIsDue
  <2>3. NextClientStep(t) => /\ task[t].stage = "fanout"
                             /\ task'[t].line = task[t].line /\ task'[t].rest = task[t].rest
    BY DEF NextClientStep, FanoutFrame
  <2> QED  BY <1>3, <2>1, <2>2, <2>3, FanoutFrom
<1> QED  BY <1>2, <1>3

(* A login hears no message before END_BURST.                              *)
LEMMA BurstHearsNone ==
    ASSUME Inv, ReceivedIsDue, NoMessageBeforeDrain, NEW t \in Clients, Kinds(t)
    PROVE  NoMessageBeforeDrain'
<1> SUFFICES ASSUME NEW c \in Clients, task'[c].stage \in {"burst", "endburst"},
                    NEW i \in DOMAIN received'[c]
             PROVE  ~IsMsg(received'[c][i])
  BY DEF NoMessageBeforeDrain
<1>1. Moves(t)
  BY KindsGrow DEF Inv
<1>2. CASE c # t
  <2>1. task[c].stage \in {"burst", "endburst"} /\ c # t
    BY <1>1, <1>2 DEF Moves
  <2>2. received'[c] = received[c]
    BY <2>1, OwnStream DEF Inv, Sending
  <2> QED  BY <2>1, <2>2 DEF NoMessageBeforeDrain
<1>3. CASE c = t
  <2>1. ~EndStep(t) /\ ~PopStep(t) /\ ~NextClientStep(t)
    BY <1>3 DEF EndStep, Ended, Closed, Frame, PopStep, NextClientStep, FanoutFrame
  <2>2. \A m \in Messages, rest \in Seq(Users) : ~TurnStep(t, m, rest)
    BY <1>3, TurnStage
  <2>3. CASE OwnStep(t)
    <3>1. task[t].stage = "burst"
      BY <1>3, <2>3 DEF OwnStep, OwnMoves
    <3>2. ~IsMsg(task[t].line)
      BY <3>1 DEF Inv, StreamInv, FrameFits, PlainFrame, IsMsg
    <3> QED  BY <1>3, <3>1, <3>2, ReceivedLines DEF NoMessageBeforeDrain
  <2>4. ASSUME NEW u \in Users, LoginStep(t, u)  PROVE ~IsMsg(received'[c][i])
    BY <1>3, <2>4 DEF LoginStep, ReceivedIsDue
  <2>5. CASE PeerLeaves(t)
    BY <1>3, <2>5 DEF PeerLeaves, NoMessageBeforeDrain
  <2> QED  BY <2>1, <2>2, <2>3, <2>4, <2>5 DEF Kinds
<1> QED  BY <1>2, <1>3

-----------------------------------------------------------------------------
(* The iterator of a fan-out.                                              *)

(* The list that task t iterates, and its iterator, have their types.      *)
LEMMA IteratedList ==
    ASSUME Inv, NEW t \in Clients, task[t].stage = "fanout"
    PROVE  /\ Head(task[t].rest) \in Users /\ task[t].rest \in Seq(Users) /\ task[t].rest # <<>>
           /\ task[t].pos \in Nat /\ task[t].on \in Clients
           /\ Iterated(t) \in Seq(Clients) /\ Distinct(Iterated(t))
           /\ DOMAIN Iterated(t) \subseteq Nat
           /\ \A i \in DOMAIN Iterated(t) :
                 Iterated(t)[i] \in Clients /\ user[Iterated(t)[i]] = Head(task[t].rest)
<1>1. /\ task[t].rest \in Seq(Users) /\ task[t].rest # <<>> /\ task[t].pos \in Nat
      /\ task[t].on \in Clients
  BY DEF Inv, IInv, TypeOK, FrameOK, Frames, Sending
<1>2. Head(task[t].rest) \in Users
  BY <1>1, TailUsers
<1>3. Iterated(t) \in Seq(Clients) /\ Distinct(Iterated(t))
  BY <1>2 DEF Inv, IInv, TypeOK, RegistryConsistent, Iterated, Distinct
<1>4. DOMAIN Iterated(t) \subseteq Nat /\ \A i \in DOMAIN Iterated(t) : Iterated(t)[i] \in Clients
  BY <1>3
<1>5. \A i \in DOMAIN Iterated(t) : user[Iterated(t)[i]] = Head(task[t].rest)
  BY <1>2, <1>4 DEF Inv, IInv, RegistryConsistent, Iterated, ToSet
<1> QED  BY <1>1, <1>2, <1>3, <1>4, <1>5

LEMMA IteratedNext ==
    ASSUME Inv', NEW t \in Clients, task'[t].stage = "fanout"
    PROVE  Iterated(t)' \in Seq(Clients) /\ Distinct(Iterated(t)')
<1>1. task'[t].rest \in Seq(Users) /\ task'[t].rest # <<>>
  BY DEF Inv, IInv, TypeOK, FrameOK, Frames
<1>2. Head(task'[t].rest) \in Users
  BY <1>1, TailUsers
<1> QED  BY <1>2 DEF Inv, IInv, TypeOK, RegistryConsistent, Iterated, Distinct

(* Where an entry of the list under an iterator of another task was.       *)
LEMMA OthersList ==
    ASSUME Inv, NEW t \in Clients, Kinds(t), NEW x \in Clients, x # t,
           task[x].stage = "fanout", Inv', NEW i \in DOMAIN Iterated(x)'
    PROVE  /\ task'[x] = task[x] /\ lines'[x] = lines[x] /\ i \in Nat
           /\ \/ /\ i \in DOMAIN Iterated(x) /\ Iterated(x)'[i] = Iterated(x)[i]
              \/ /\ i + 1 \in DOMAIN Iterated(x) /\ Iterated(x)'[i] = Iterated(x)[i + 1]
              \/ Iterated(x)'[i] = t /\ user[t] = None
<1>1. task'[x] = task[x] /\ lines'[x] = lines[x]
  BY KindsGrow DEF Inv, Moves
<1>2. Head(task[x].rest) \in Users
  BY IteratedList
<1>3. Iterated(x)' = connected_clients'[Head(task[x].rest)]
  BY <1>1 DEF Iterated
<1>4. /\ i \in DOMAIN connected_clients'[Head(task[x].rest)]
      /\ connected_clients'[Head(task[x].rest)] \in Seq(Clients)
  BY <1>2, <1>3 DEF Inv, IInv, TypeOK
<1>5. i \in Nat
  BY <1>4
<1> QED  BY <1>1, <1>2, <1>3, <1>4, <1>5, EntryChanges DEF Inv, Iterated

(* The entry that the iterator is at stays behind it.                      *)
LEMMA IteratorStaysPassed ==
    ASSUME Inv, Inv', IteratorPassed, NEW t \in Clients, Kinds(t)
    PROVE  IteratorPassed'
<1> SUFFICES ASSUME NEW x \in Clients, task'[x].stage = "fanout",
                    NEW i \in DOMAIN Iterated(x)', Iterated(x)'[i] = task'[x].on
             PROVE  i < task'[x].pos
  BY DEF IteratorPassed
<1>1. CASE x # t
  <2>1. task[x].stage = "fanout" /\ task'[x] = task[x]
    BY <1>1, KindsGrow DEF Inv, Moves
  <2>2. Iterated(x)'[i] # t \/ user[t] # None
    BY <1>1, <2>1 DEF Inv, StreamInv, OthersSendAfterLogin
  <2>3. CASE i \in DOMAIN Iterated(x) /\ Iterated(x)'[i] = Iterated(x)[i]
    BY <2>1, <2>3 DEF IteratorPassed
  <2>4. CASE i + 1 \in DOMAIN Iterated(x) /\ Iterated(x)'[i] = Iterated(x)[i + 1]
    <3>1. i + 1 < task[x].pos
      BY <2>1, <2>4 DEF IteratorPassed
    <3>2. i \in Nat /\ task[x].pos \in Nat
      BY <1>1, <2>1, OthersList, IteratedList
    <3> QED  BY <2>1, <3>1, <3>2
  <2> QED  BY <1>1, <2>1, <2>2, <2>3, <2>4, OthersList
<1>2. CASE x = t
  <2>1. CASE PeerLeaves(t)
    BY <1>2, <2>1 DEF PeerLeaves, IteratorPassed, Iterated
  <2>2. CASE NextClientStep(t)
    <3>1. /\ task[t].stage = "fanout" /\ task'[t].rest = task[t].rest
          /\ task'[t].pos = task[t].pos + 1 /\ task'[t].on = Iterated(t)[task[t].pos]
          /\ connected_clients' = connected_clients
          /\ task[t].pos <= Len(Iterated(t))
      BY <2>2 DEF NextClientStep, FanoutFrame, Iterated
    <3>2. Iterated(t)' = Iterated(t)
      BY <3>1 DEF Iterated
    <3>3. task[t].pos \in Nat \ {0} /\ Iterated(t) \in Seq(Clients) /\ Distinct(Iterated(t))
      BY <3>1, IteratedList DEF Inv, IInv, TypeOK, Frames
    <3>4. task[t].pos \in DOMAIN Iterated(t)
      BY <3>1, <3>3
    <3>5. i = task[t].pos
      BY <1>2, <3>1, <3>2, <3>3, <3>4 DEF Distinct
    <3> QED  BY <1>2, <3>1, <3>3, <3>5
  <2>3. ASSUME NEW m \in Messages, NEW rest \in Seq(Users), TurnStep(t, m, rest)
        PROVE  i < task'[x].pos
    <3>1. /\ task'[t].pos = 2 /\ task'[t].on = Iterated(t)'[1]
          /\ Iterated(t)' # <<>>
      BY <1>2, <2>3, TurnedTo DEF Iterated, Offline
    <3>2. Iterated(t)' \in Seq(Clients) /\ Distinct(Iterated(t)')
      BY <1>2, IteratedNext
    <3>3. 1 \in DOMAIN Iterated(t)'
      BY <3>1, <3>2
    <3>4. i = 1
      BY <1>2, <3>1, <3>2, <3>3 DEF Distinct
    <3> QED  BY <1>2, <3>1, <3>4
  <2> QED  BY <1>2, <2>1, <2>2, <2>3, FanoutFrom
<1> QED  BY <1>1, <1>2

(* Who is ahead of another task's iterator was so before, or has just      *)
(* logged in.                                                              *)
LEMMA OthersAhead ==
    ASSUME Inv, Inv', NEW t \in Clients, Kinds(t), NEW x \in Clients, x # t,
           task'[x].stage = "fanout", NEW c \in Clients, Ahead(x, c)'
    PROVE  /\ task[x].stage = "fanout" /\ lines'[x] = lines[x]
           /\ Ahead(x, c) \/ (c = t /\ user[t] = None)
<1>1. task[x].stage = "fanout" /\ task'[x] = task[x] /\ lines'[x] = lines[x]
  BY KindsGrow DEF Inv, Moves
<1>2. CASE c = task'[x].on
  BY <1>1, <1>2 DEF Ahead
<1>3. CASE \E i \in DOMAIN Iterated(x)' : task'[x].pos <= i /\ Iterated(x)'[i] = c
  <2>1. PICK i \in DOMAIN Iterated(x)' : task[x].pos <= i /\ Iterated(x)'[i] = c
    BY <1>1, <1>3
  <2>2. i \in Nat /\ task[x].pos \in Nat
    BY <1>1, OthersList, IteratedList
  <2>3. task[x].pos <= i + 1
    BY <2>1, <2>2
  <2>4. \/ i \in DOMAIN Iterated(x) /\ Iterated(x)[i] = c
        \/ i + 1 \in DOMAIN Iterated(x) /\ Iterated(x)[i + 1] = c
        \/ c = t /\ user[t] = None
    BY <1>1, <2>1, OthersList
  <2> QED  BY <1>1, <2>1, <2>3, <2>4 DEF Ahead
<1> QED  BY <1>1, <1>2, <1>3 DEF Ahead

(* A client ahead of the iterator is one of the user being iterated.       *)
LEMMA AheadUser ==
    ASSUME Inv, NEW t \in Clients, task[t].stage = "fanout", NEW c \in Clients, Ahead(t, c)
    PROVE  user[c] = Head(task[t].rest) /\ user[c] \in Users
<1>1. user[task[t].on] = Head(task[t].rest)
  BY DEF Inv, StreamInv, FrameFits
<1> QED  BY <1>1, IteratedList DEF Ahead

LEMMA AheadUserNext ==
    ASSUME Inv', NEW t \in Clients, task'[t].stage = "fanout", NEW c \in Clients, Ahead(t, c)'
    PROVE  user'[c] = Head(task'[t].rest)
<1>1. task'[t].rest \in Seq(Users) /\ task'[t].rest # <<>>
  BY DEF Inv, IInv, TypeOK, FrameOK, Frames
<1>2. Head(task'[t].rest) \in Users
  BY <1>1, TailUsers
<1>3. user'[task'[t].on] = Head(task'[t].rest)
  BY DEF Inv, StreamInv, FrameFits
<1>4. \A i \in DOMAIN Iterated(t)' : Iterated(t)'[i] \in Clients =>
          user'[Iterated(t)'[i]] = Head(task'[t].rest)
  BY <1>2 DEF Inv, IInv, RegistryConsistent, Iterated, ToSet
<1> QED  BY <1>3, <1>4 DEF Ahead

(* What a drain sends to somebody ahead of a fan-out is older.             *)
LEMMA DrainedIsOlder ==
    ASSUME Inv, NEW t \in Clients, NEW x \in Clients, x # t, NEW c \in Clients,
           Hears(t, c), IsMsg(task[t].line), task[t].line.from = x,
           task[x].stage = "fanout", Ahead(x, c)
    PROVE  task[t].line.n < lines[x]
<1>1. /\ task[t].stage \in {"drain", "fanout"}
      /\ task[t].stage = "drain" => c = t
  BY MessageSent DEF Hears
<1>2. task[t].stage = "drain"
  BY <1>1 DEF Inv, StreamInv, FrameFits
<1>3. <<task[t].line, user[t], {}>> \in due
  BY <1>2 DEF Inv, StreamInv, FrameFits
<1>4. user[t] = Head(task[x].rest)
  BY <1>1, <1>2, AheadUser
<1>5. \A m, u, s : <<m, u, s>>[1] = m /\ <<m, u, s>>[2] = u /\ <<m, u, s>>[3] = s
  OBVIOUS
<1> QED  BY <1>3, <1>4, <1>5 DEF Inv, StreamInv, NotYetDue

LEMMA AheadStaysWithout ==
    ASSUME Inv, Inv', ReceivedIsDue, AheadHasNot, IteratorPassed, NEW t \in Clients, Kinds(t)
    PROVE  AheadHasNot'
<1> SUFFICES ASSUME NEW x \in Clients, NEW c \in Clients, task'[x].stage = "fanout", Ahead(x, c)'
             PROVE  Below(received'[c], x, lines'[x])
  BY DEF AheadHasNot
<1>1. CASE x # t
  <2>1. /\ task[x].stage = "fanout" /\ lines'[x] = lines[x]
        /\ Ahead(x, c) \/ (c = t /\ user[t] = None)
    BY <1>1, OthersAhead
  <2>2. Below(received[c], x, lines[x])
    BY <2>1 DEF AheadHasNot, ReceivedIsDue, Below
  <2>3. ASSUME Hears(t, c), IsMsg(task[t].line), task[t].line.from = x
        PROVE  task[t].line.n < lines[x]
    <3>1. user[t] # None
      BY <2>3, MessageSent DEF Hears
    <3> QED  BY <1>1, <2>1, <2>3, <3>1, DrainedIsOlder
  <2> QED  BY <2>1, <2>2, <2>3, BelowKept
<1>2. CASE x = t
  <2>1. CASE PeerLeaves(t)
    BY <1>2, <2>1 DEF PeerLeaves, AheadHasNot, Ahead, Iterated
  <2>2. CASE NextClientStep(t)
    <3>1. /\ task[t].stage = "fanout" /\ task'[t].rest = task[t].rest /\ lines'[t] = lines[t]
          /\ task'[t].pos = task[t].pos + 1 /\ task'[t].on = Iterated(t)[task[t].pos]
          /\ connected_clients' = connected_clients
          /\ task[t].pos <= Len(Iterated(t))
      BY <2>2 DEF NextClientStep, FanoutFrame, Iterated
    <3>2. Iterated(t)' = Iterated(t)
      BY <3>1 DEF Iterated
    <3>3. task[t].pos \in Nat \ {0} /\ Iterated(t) \in Seq(Clients)
      BY <3>1, IteratedList DEF Inv, IInv, TypeOK, Frames
    <3>4. task[t].pos \in DOMAIN Iterated(t)
      BY <3>1, <3>3
    <3>5. \A i \in DOMAIN Iterated(t) : task[t].pos + 1 <= i => task[t].pos <= i
      BY <3>3
    <3>6. PICK i \in DOMAIN Iterated(t) : task[t].pos <= i /\ Iterated(t)[i] = c
      BY <1>2, <3>1, <3>2, <3>3, <3>4, <3>5 DEF Ahead
    <3>7. Below(received[c], t, lines[t])
      BY <3>1, <3>6 DEF AheadHasNot, Ahead
    <3>8. c # task[t].on
      BY <3>1, <3>3, <3>6 DEF IteratorPassed
    <3> QED  BY <1>2, <3>1, <3>7, <3>8, BelowKept DEF Hears
  <2>3. ASSUME NEW m \in Messages, NEW rest \in Seq(Users), TurnStep(t, m, rest)
        PROVE  Below(received'[c], x, lines'[x])
    <3>1. /\ Head(task'[t].rest) \in ToSet(rest) /\ UNCHANGED user
          /\ m.n = lines'[t] /\ Distinct(rest)
      BY <1>2, <2>3, TurnedTo DEF TurnStep
    <3>2. user[c] \in ToSet(rest)
      <4>1. user'[c] = Head(task'[t].rest)
        BY <1>2, AheadUserNext
      <4> QED  BY <3>1, <4>1
    <3>3. received'[c] = received[c]
      <4>1. CASE received' = received
        BY <4>1
      <4>2. CASE task[t].stage = "fanout" /\ rest = Tail(task[t].rest)
        <5>1. /\ task[t].rest \in Seq(Users) /\ task[t].rest # <<>> /\ Distinct(task[t].rest)
              /\ user[task[t].on] = Head(task[t].rest)
          BY <4>2, IteratedList DEF Inv, StreamInv, FrameFits
        <5>2. user[c] # user[task[t].on]
          BY <3>2, <4>2, <5>1, TailUsers
        <5> QED  BY <5>2, ReceivedChanges DEF Inv, Hears
      <4> QED  BY <2>3, <4>1, <4>2 DEF TurnStep
    <3>4. ASSUME NEW i \in DOMAIN received[c], IsMsg(received[c][i]), received[c][i].from = t
          PROVE  received[c][i].n < m.n
      <4>1. PICK cs : <<received[c][i], user[c], cs>> \in due
        BY <3>4 DEF ReceivedIsDue
      <4>2. \A a, b, s : <<a, b, s>>[1] = a /\ <<a, b, s>>[2] = b
        OBVIOUS
      <4> QED  BY <2>3, <3>2, <3>4, <4>1, <4>2, NotYetDueFor DEF Inv
    <3> QED  BY <1>2, <3>1, <3>3, <3>4 DEF Below
  <2> QED  BY <1>2, <2>1, <2>2, <2>3, FanoutFrom
<1> QED  BY <1>1, <1>2

-----------------------------------------------------------------------------
(* The queues and the drain.                                               *)

LEMMA QueueChanges ==
    ASSUME Inv, NEW t \in Clients, Kinds(t), NEW u \in Users
    PROVE  \/ queue'[u] = queue[u]
           \/ /\ PopStep(t) /\ u = user[t] /\ queue[u] # <<>> /\ queue'[u] = Tail(queue[u])
           \/ \E m \in Messages, rest \in Seq(Users) :
                 /\ TurnStep(t, m, rest) /\ u \in ToSet(rest) /\ Offline(u)
                 /\ queue'[u] = Append(queue[u], m)
<1>1. \A v \in Users : LoginStep(t, v) => queue' = queue
  BY DEF LoginStep
<1>2. OwnStep(t) \/ EndStep(t) \/ NextClientStep(t) \/ PeerLeaves(t) => queue' = queue
  BY DEF OwnStep, EndStep, NextClientStep, PeerLeaves
<1>3. ASSUME PopStep(t)
      PROVE  \/ queue'[u] = queue[u]
             \/ u = user[t] /\ queue[u] # <<>> /\ queue'[u] = Tail(queue[u])
  BY <1>3 DEF PopStep, Inv, IInv, TypeOK
<1>4. ASSUME NEW m \in Messages, NEW rest \in Seq(Users), TurnStep(t, m, rest)
      PROVE  \/ queue'[u] = queue[u]
             \/ u \in ToSet(rest) /\ Offline(u) /\ queue'[u] = Append(queue[u], m)
  <2>1. PICK k \in 0 .. Len(rest) : Turns(t, m, rest, k)
    BY <1>4 DEF TurnStep
  <2>2. Firsts(rest, k) \subseteq ToSet(rest)
    BY DEF Firsts, ToSet
  <2> QED  BY <2>1, <2>2 DEF Turns
<1> QED  BY <1>1, <1>2, <1>3, <1>4 DEF Kinds

LEMMA QueuesStayInOrder ==
    ASSUME Inv, QueuesInOrder, NEW t \in Clients, Kinds(t)
    PROVE  QueuesInOrder'
<1> SUFFICES ASSUME NEW u \in Users  PROVE InOrder(queue'[u])
  BY DEF QueuesInOrder
<1>1. queue[u] \in Seq(Messages) /\ InOrder(queue[u])
  BY DEF QueuesInOrder, Inv, IInv, TypeOK
<1>2. ASSUME NEW m \in Messages, NEW rest \in Seq(Users), TurnStep(t, m, rest),
             u \in ToSet(rest), queue'[u] = Append(queue[u], m)
      PROVE  InOrder(queue'[u])
  <2>1. \A i \in DOMAIN queue[u] : <<queue[u][i], u, {}>> \in due
    BY DEF Inv, StreamInv, QueuedIsDue, ToSet
  <2>2. m.from = t
    BY <1>2 DEF TurnStep
  <2>3. \A a, b, s : <<a, b, s>>[1] = a /\ <<a, b, s>>[2] = b
    OBVIOUS
  <2>4. Below(queue[u], m.from, m.n)
    BY <1>2, <2>1, <2>2, <2>3, NotYetDueFor DEF Below, Inv
  <2> QED  BY <1>1, <1>2, <2>4, InOrderAppend
<1> QED  BY <1>1, <1>2, TailInOrder, QueueChanges

(* A user whose client drains the queue is online.                         *)
LEMMA DrainerIsListed ==
    ASSUME Inv, NEW c \in Clients, task[c].stage = "drain"
    PROVE  user[c] \in Users /\ ~Offline(user[c])
<1>1. user[c] \in Users /\ Open(c)
  BY DEF Inv, IInv, TypeOK, FrameOK, Open
<1>2. c \in ToSet(connected_clients[user[c]])
  BY <1>1 DEF Inv, IInv, RegistryConsistent
<1>3. ToSet(<<>>) = {}
  BY DEF ToSet
<1> QED  BY <1>1, <1>2, <1>3 DEF Offline

(* Only a pop puts a task into a drain.                                    *)
LEMMA DrainFrom ==
    ASSUME Inv, NEW t \in Clients, Kinds(t), task'[t].stage = "drain"
    PROVE  PopStep(t) \/ PeerLeaves(t)
<1>1. ~OwnStep(t) /\ ~EndStep(t) /\ ~NextClientStep(t)
  BY DEF OwnStep, OwnMoves, EndStep, Ended, Closed, Frame, NextClientStep, FanoutFrame
<1>2. \A u \in Users : ~LoginStep(t, u)
  BY DEF LoginStep
<1>3. \A m \in Messages, rest \in Seq(Users) : ~TurnStep(t, m, rest)
  BY TurnStage
<1> QED  BY <1>1, <1>2, <1>3 DEF Kinds

LEMMA DrainStaysInOrder ==
    ASSUME Inv, QueuesInOrder, DrainInOrder, NoMessageBeforeDrain, NEW t \in Clients, Kinds(t)
    PROVE  DrainInOrder'
<1> SUFFICES ASSUME NEW c \in Clients, task'[c].stage = "drain"
             PROVE  /\ Below(received'[c], task'[c].line.from, task'[c].line.n)
                    /\ \A m \in ToSet(queue'[user'[c]]) :
                          /\ m.from = task'[c].line.from => task'[c].line.n < m.n
                          /\ Below(received'[c], m.from, m.n)
  BY DEF DrainInOrder
<1>1. Moves(t)
  BY KindsGrow DEF Inv
<1>2. CASE c # t
  <2>1. task'[c] = task[c] /\ task[c].stage = "drain"
    BY <1>1, <1>2 DEF Moves
  <2>2. user[c] \in Users /\ ~Offline(user[c])
    BY <2>1, DrainerIsListed
  <2>3. received'[c] = received[c]
    BY <1>2, <2>1, OwnStream DEF Inv, Sending
  <2>4. user'[c] = user[c]
    BY <2>2, KindsGrow, ConfigAssumption DEF Inv
  <2>5. queue[user[c]] \in Seq(Messages)
    BY <2>2 DEF Inv, IInv, TypeOK
  <2>6. ToSet(queue'[user[c]]) \subseteq ToSet(queue[user[c]])
    BY <2>2, <2>5, QueueChanges, HeadAndTail
  <2> QED  BY <2>1, <2>3, <2>4, <2>6 DEF DrainInOrder
<1>3. CASE c = t /\ PeerLeaves(t)
  BY <1>3 DEF PeerLeaves, DrainInOrder
<1>4. CASE c = t /\ PopStep(t)
  <2> DEFINE q == queue[user[t]]
  <2>1. /\ task[t].stage \in {"endburst", "drain"} /\ q # <<>>
        /\ task'[t].line = Head(q) /\ user' = user
        /\ queue' = [queue EXCEPT ![user[t]] = Tail(@)]
    BY <1>4 DEF PopStep
  <2>2. user[t] \in Users
    BY <2>1 DEF Inv, IInv, TypeOK, FrameOK
  <2>3. queue'[user[t]] = Tail(q) /\ q \in Seq(Messages) /\ InOrder(q)
    BY <2>1, <2>2 DEF Inv, IInv, TypeOK, QueuesInOrder
  <2> HIDE DEF q
  <2>4. /\ \A m \in ToSet(Tail(q)) : m.from = Head(q).from => Head(q).n < m.n
        /\ Head(q) \in ToSet(q) /\ ToSet(Tail(q)) \subseteq ToSet(q)
    BY <2>1, <2>3, TailInOrder, HeadAndTail
  <2>5. ASSUME NEW m \in ToSet(q)
        PROVE  Below(received'[t], m.from, m.n)
    <3>1. CASE task[t].stage = "endburst"
      <4>1. ~IsMsg(task[t].line)
        BY <3>1 DEF Inv, StreamInv, FrameFits, PlainFrame, IsMsg
      <4>2. Below(received[t], m.from, m.n)
        BY <3>1 DEF NoMessageBeforeDrain, Below
      <4> QED  BY <4>1, <4>2, BelowKept
    <3>2. CASE task[t].stage = "drain"
      <4>1. /\ m.from = task[t].line.from => task[t].line.n < m.n
            /\ Below(received[t], m.from, m.n)
        BY <3>2 DEF DrainInOrder, q
      <4> QED  BY <4>1, BelowKept
    <3> QED  BY <2>1, <3>1, <3>2
  <2> QED  BY <1>4, <2>1, <2>3, <2>4, <2>5
<1> QED  BY <1>2, <1>3, <1>4, DrainFrom

-----------------------------------------------------------------------------
(* The theorem.                                                            *)

LEMMA InitOrderInv == Init => OrderInv
<1> SUFFICES ASSUME Init PROVE OrderInv
  OBVIOUS
<1>1. \A c \in Clients : task[c].stage = "absent" /\ received[c] = <<>>
  BY DEF Init, Absent, Frame
<1>2. \A u \in Users : queue[u] = <<>>
  BY DEF Init
<1>3. InOrder(<<>>)
  BY DEF InOrder
<1>4. FifoPerSender
  BY <1>1 DEF FifoPerSender
<1> QED  BY <1>1, <1>2, <1>3, <1>4
         DEF OrderInv, ReceivedIsDue, FanoutIsDue, NoMessageBeforeDrain, AheadHasNot,
             IteratorPassed, QueuesInOrder, DrainInOrder

LEMMA OrderInvStutters == OrderInv /\ UNCHANGED vars => OrderInv'
BY DEF OrderInv, ReceivedIsDue, FanoutIsDue, NoMessageBeforeDrain, AheadHasNot, Ahead, Iterated,
       IteratorPassed, QueuesInOrder, DrainInOrder, FifoPerSender, Below, vars

LEMMA NextOrderInv == Inv /\ Inv' /\ OrderInv /\ [Next]_vars => OrderInv'
<1> SUFFICES ASSUME Inv, Inv', OrderInv, [Next]_vars PROVE OrderInv'
  OBVIOUS
<1>1. ASSUME NEW t \in Clients, Kinds(t)  PROVE OrderInv'
  <2>1. ReceivedIsDue' /\ FanoutIsDue' /\ NoMessageBeforeDrain'
    BY <1>1, ReceivedStaysDue, FanoutStaysDue, BurstHearsNone DEF OrderInv
  <2>2. AheadHasNot' /\ IteratorPassed'
    BY <1>1, AheadStaysWithout, IteratorStaysPassed DEF OrderInv
  <2>3. QueuesInOrder' /\ DrainInOrder' /\ FifoPerSender'
    BY <1>1, QueuesStayInOrder, DrainStaysInOrder, ReceivedInOrder DEF OrderInv
  <2> QED  BY <2>1, <2>2, <2>3 DEF OrderInv
<1> QED  BY <1>1, NextKinds, OrderInvStutters DEF Inv

(* What a client receives from one sender comes in the order it was sent,  *)
(* each message once, for any number of users, channels and connections.   *)
THEOREM FifoHolds == Spec => []FifoPerSender
<1>1. Init => OrderInv
  BY InitOrderInv
<1>2. IInv /\ StreamInv => Inv
  BY DEF Inv
<1>3. Inv /\ Inv' /\ OrderInv /\ [Next]_vars => OrderInv'
  BY NextOrderInv
<1>4. OrderInv => FifoPerSender
  BY DEF OrderInv
<1> QED  BY <1>1, <1>2, <1>3, <1>4, StreamsAreShared, PTL DEF Spec

-----------------------------------------------------------------------------
(* The lines that frame the kept messages.                                 *)

Total(c, kind) == Before(received[c], Len(received[c]), kind)

(* Each is sent once, after the client's login.                            *)
NotBegun(c) == Total(c, "END_BURST") = 0 /\ Total(c, "END_OFFLINE_MESSAGES") = 0
InDrain(c) == Total(c, "END_BURST") = 1 /\ Total(c, "END_OFFLINE_MESSAGES") = 0
Drained(c) == Total(c, "END_BURST") = 1 /\ Total(c, "END_OFFLINE_MESSAGES") # 0

LoginLinesOf(c) ==
    /\ user[c] = None \/ task[c].stage \in {"burst", "endburst"} => NotBegun(c)
    /\ task[c].stage \in {"drain", "last"} /\ peer[c] = "up" => InDrain(c)
    /\ user[c] # None /\ task[c].stage \in {"reading", "reply", "fanout"} /\ peer[c] = "up"
          => Drained(c)
LoginLines == \A c \in Clients : LoginLinesOf(c)

LEMMA BeforeAppend ==
    ASSUME NEW S, NEW s \in Seq(S), NEW x \in S, NEW kind
    PROVE  /\ \A j \in DOMAIN s : Before(Append(s, x), j, kind) = Before(s, j, kind)
           /\ Before(s, Len(s), kind) \in Nat
           /\ x.kind # kind => Before(Append(s, x), Len(s) + 1, kind) = Before(s, Len(s), kind)
           /\ x.kind = kind => Before(Append(s, x), Len(s) + 1, kind) = Before(s, Len(s), kind) + 1
<1> DEFINE r == Append(s, x)  n == Len(s)
<1>1. /\ n \in Nat /\ DOMAIN s = 1 .. n
      /\ \A k \in 1 .. n : r[k] = s[k]
      /\ r[n + 1] = x
  OBVIOUS
<1> HIDE DEF r, n
<1> DEFINE B == {i \in 1 .. n : s[i].kind = kind}
<1>2. \A j \in 1 .. n : Before(r, j, kind) = Before(s, j, kind)
  <2> TAKE j \in 1 .. n
  <2>1. \A i \in 1 .. j : r[i] = s[i]
    BY <1>1
  <2>2. {i \in 1 .. j : r[i].kind = kind} = {i \in 1 .. j : s[i].kind = kind}
    BY <2>1
  <2> QED  BY <2>2 DEF Before
<1>3. IsFiniteSet(B) /\ Cardinality(B) \in Nat
  <2>1. IsFiniteSet(1 .. n)
    BY <1>1, FS_Interval
  <2>2. B \in SUBSET (1 .. n)
    OBVIOUS
  <2>3. IsFiniteSet(B)
    BY <2>1, <2>2, FS_Subset
  <2> QED  BY <2>3, FS_CardinalityType
<1>4. Before(s, n, kind) = Cardinality(B)
  BY DEF Before
<1>5. ASSUME x.kind # kind  PROVE {i \in 1 .. n + 1 : r[i].kind = kind} = B
  <2>1. \A i : i \in 1 .. n + 1 <=> i \in 1 .. n \/ i = n + 1
    BY <1>1
  <2> QED  BY <1>1, <1>5, <2>1
<1>6. ASSUME x.kind = kind  PROVE {i \in 1 .. n + 1 : r[i].kind = kind} = B \cup {n + 1}
  <2>1. \A i : i \in 1 .. n + 1 <=> i \in 1 .. n \/ i = n + 1
    BY <1>1
  <2> QED  BY <1>1, <1>6, <2>1
<1>7. n + 1 \notin B
  BY <1>1
<1>8. x.kind # kind => Before(r, n + 1, kind) = Before(s, n, kind)
  BY <1>4, <1>5 DEF Before
<1>9. x.kind = kind => Before(r, n + 1, kind) = Before(s, n, kind) + 1
  <2> HAVE x.kind = kind
  <2> HIDE DEF B
  <2>1. Cardinality(B \cup {n + 1}) = Cardinality(B) + 1
    BY <1>3, <1>7, FS_AddElement
  <2> QED  BY <1>4, <1>6, <2>1 DEF Before
<1> QED  BY <1>1, <1>2, <1>3, <1>4, <1>8, <1>9 DEF r, n

(* A step counts a line where one is heard.                                *)
LEMMA TotalChanges ==
    ASSUME Inv, NEW t \in Clients, Kinds(t), NEW c \in Clients, NEW kind
    PROVE  /\ Total(c, kind) \in Nat
           /\ Hears(t, c) /\ task[t].line.kind = kind => Total(c, kind)' = Total(c, kind) + 1
           /\ ~Hears(t, c) \/ task[t].line.kind # kind => Total(c, kind)' = Total(c, kind)
<1>1. received[c] \in Seq(Lines)
  BY DEF Inv, IInv, TypeOK
<1>2. Lines # {} /\ Total(c, kind) \in Nat
  <2>1. Line("ANSWER") \in Lines
    BY DEF Line, Lines, Replies
  <2> QED  BY <1>1, <2>1, BeforeAppend DEF Total
<1>3. CASE Hears(t, c)
  <2>1. task[t].line \in Lines /\ received'[c] = Append(received[c], task[t].line)
    BY <1>3, LineSent DEF Hears
  <2>2. Len(received'[c]) = Len(received[c]) + 1
    BY <1>1, <2>1
  <2> QED  BY <1>1, <1>2, <1>3, <2>1, <2>2, BeforeAppend DEF Total
<1>4. CASE ~Hears(t, c)
  BY <1>2, <1>4, ReceivedChanges DEF Inv, Total
<1> QED  BY <1>3, <1>4

Framing == {"END_BURST", "END_OFFLINE_MESSAGES"}

(* Somebody else's task sends a client messages only, and its own sends    *)
(* END_BURST and END_OFFLINE_MESSAGES at one stage each.                   *)
LEMMA FramingSent ==
    ASSUME Inv, NEW t \in Clients, task[t].stage \in Sending
    PROVE  /\ task[t].line.kind = "END_BURST" => task[t].stage = "endburst" /\ task[t].on = t
           /\ task[t].line.kind = "END_OFFLINE_MESSAGES" => task[t].stage = "last" /\ task[t].on = t
           /\ task[t].stage = "endburst" => task[t].line.kind = "END_BURST"
           /\ task[t].stage = "last" => task[t].line.kind = "END_OFFLINE_MESSAGES"
<1>1. PlainFrame(task[t])
  BY DEF Inv, StreamInv, FrameFits
<1>2. task[t].stage \in {"drain", "fanout"} => task[t].line.kind = "MSG"
  BY DEF Inv, StreamInv, FrameFits, IInv, TypeOK, FrameOK, Messages
<1>3. task[t].stage # "fanout" => task[t].on = t
  BY DEF Inv, IInv, TypeOK, FrameOK
<1> QED  BY <1>1, <1>2, <1>3 DEF PlainFrame, Sending

(* A step during which a client hears neither of them.                     *)
LEMMA NoFraming ==
    ASSUME Inv, NEW t \in Clients, Kinds(t), NEW c \in Clients,
           c # t \/ task[t].stage \notin {"endburst", "last"}
    PROVE  /\ NotBegun(c)' <=> NotBegun(c)
           /\ InDrain(c)' <=> InDrain(c)
           /\ Drained(c)' <=> Drained(c)
<1>1. ~Hears(t, c) \/ task[t].line.kind \notin Framing
  BY FramingSent DEF Hears, Framing
<1>2. \A kind \in Framing : Total(c, kind)' = Total(c, kind)
  BY <1>1, TotalChanges
<1> QED  BY <1>2 DEF NotBegun, InDrain, Drained, Framing

LEMMA OthersStay ==
    ASSUME Inv, NEW t \in Clients, Kinds(t), NEW c \in Clients, c # t
    PROVE  user'[c] = user[c] /\ peer'[c] = peer[c]
<1>1. \A u \in Users : LoginStep(t, u) => user'[c] = user[c] /\ peer' = peer
  BY DEF LoginStep, Inv, IInv, TypeOK
<1>2. PeerLeaves(t) => user' = user /\ peer'[c] = peer[c]
  BY DEF PeerLeaves, Inv, IInv, TypeOK
<1>3. OwnStep(t) \/ EndStep(t) \/ PopStep(t) \/ NextClientStep(t) => UNCHANGED <<user, peer>>
  BY DEF OwnStep, EndStep, PopStep, NextClientStep
<1>4. \A m \in Messages, rest \in Seq(Users) : TurnStep(t, m, rest) => UNCHANGED <<user, peer>>
  BY DEF TurnStep
<1> QED  BY <1>1, <1>2, <1>3, <1>4 DEF Kinds

LEMMA OthersLoginLines ==
    ASSUME Inv, LoginLines, NEW t \in Clients, Kinds(t), NEW c \in Clients, c # t
    PROVE  LoginLinesOf(c)'
<1>1. task'[c] = task[c]
  BY KindsGrow DEF Inv, Moves
<1>2. user'[c] = user[c] /\ (peer'[c] = "up" => peer[c] = "up")
  BY OthersStay
<1> QED  BY <1>1, <1>2, NoFraming DEF LoginLines, LoginLinesOf

LEMMA EndBurstLines ==
    ASSUME Inv, LoginLines, NEW t \in Clients, Kinds(t), Returned(t), peer' = peer,
           task[t].stage = "endburst"
    PROVE  peer'[t] = "up" => InDrain(t)'
<1> HAVE peer'[t] = "up"
<1>1. NotBegun(t)
  BY DEF LoginLines, LoginLinesOf
<1>2. task[t].on = t /\ task[t].line.kind = "END_BURST" /\ Open(t)
  BY FramingSent DEF Inv, IInv, TypeOK, FrameOK, Sending, Open
<1>3. Hears(t, t)
  BY <1>2, ReturnedHeard DEF Inv
<1>4. Total(t, "END_BURST")' = Total(t, "END_BURST") + 1
  BY <1>2, <1>3, TotalChanges
<1>5. Total(t, "END_OFFLINE_MESSAGES")' = Total(t, "END_OFFLINE_MESSAGES")
  BY <1>2, TotalChanges
<1> QED  BY <1>1, <1>4, <1>5 DEF NotBegun, InDrain

LEMMA LastLines ==
    ASSUME Inv, LoginLines, NEW t \in Clients, Kinds(t), Returned(t), peer' = peer,
           task[t].stage = "last"
    PROVE  peer'[t] = "up" => Drained(t)'
<1> HAVE peer'[t] = "up"
<1>1. InDrain(t)
  BY DEF LoginLines, LoginLinesOf
<1>2. task[t].on = t /\ task[t].line.kind = "END_OFFLINE_MESSAGES" /\ Open(t)
  BY FramingSent DEF Inv, IInv, TypeOK, FrameOK, Sending, Open
<1>3. Hears(t, t)
  BY <1>2, ReturnedHeard DEF Inv
<1>4. Total(t, "END_BURST")' = Total(t, "END_BURST")
  BY <1>2, TotalChanges
<1>5. Total(t, "END_OFFLINE_MESSAGES")' = Total(t, "END_OFFLINE_MESSAGES") + 1
  BY <1>2, <1>3, TotalChanges
<1> QED  BY <1>1, <1>4, <1>5 DEF InDrain, Drained

(* The task that moves, by kind of step.                                   *)
LEMMA OwnLoginLines ==
    ASSUME Inv, LoginLines, NEW t \in Clients, Kinds(t)
    PROVE  LoginLinesOf(t)'
<1>0. LoginLinesOf(t) /\ FrameOK(t)
  BY DEF LoginLines, Inv, IInv, TypeOK
<1>1. CASE OwnStep(t)
  <2>1. /\ <<task[t].stage, task'[t].stage>> \in OwnMoves
        /\ UNCHANGED <<user, peer>>
        /\ Returned(t) \/ task[t].stage \in {"absent", "reading"}
    BY <1>1 DEF OwnStep
  <2>2. CASE task[t].stage = "endburst"
    <3>1. task'[t].stage = "last" /\ user[t] # None /\ Returned(t)
      BY <1>0, <2>1, <2>2 DEF OwnMoves, FrameOK
    <3> QED  BY <2>1, <2>2, <3>1, EndBurstLines DEF LoginLinesOf
  <2>3. CASE task[t].stage = "last"
    <3>1. task'[t].stage = "reading" /\ user[t] # None /\ Returned(t)
      BY <1>0, <2>1, <2>3 DEF OwnMoves, FrameOK
    <3> QED  BY <2>1, <2>3, <3>1, LastLines DEF LoginLinesOf
  <2>4. CASE task[t].stage \notin {"endburst", "last"}
    BY <1>0, <2>1, <2>4, NoFraming DEF LoginLinesOf, OwnMoves, FrameOK
  <2> QED  BY <2>2, <2>3, <2>4
<1>2. CASE PopStep(t)
  <2>1. /\ task[t].stage \in {"endburst", "drain"} /\ task'[t].stage = "drain"
        /\ UNCHANGED <<user, peer>> /\ Returned(t) /\ user[t] # None
    BY <1>0, <1>2 DEF PopStep, FrameOK
  <2> QED  BY <1>0, <2>1, EndBurstLines, NoFraming DEF LoginLinesOf
<1>3. CASE NextClientStep(t)
  <2>1. task[t].stage = "fanout" /\ task'[t].stage = "fanout" /\ UNCHANGED <<user, peer>>
    BY <1>3 DEF NextClientStep, FanoutFrame
  <2> QED  BY <1>0, <2>1, NoFraming DEF LoginLinesOf, FrameOK
<1>4. CASE PeerLeaves(t)
  <2>1. peer'[t] # "up" /\ UNCHANGED <<task, user, received>>
    BY <1>4 DEF PeerLeaves, Inv, IInv, TypeOK
  <2> QED  BY <1>0, <2>1 DEF LoginLinesOf, NotBegun, Total
<1>5. ASSUME NEW u \in Users, LoginStep(t, u)  PROVE LoginLinesOf(t)'
  <2>1. task[t].stage = "reading" /\ user[t] = None /\ task'[t].stage = "burst"
    BY <1>5 DEF LoginStep
  <2> QED  BY <1>0, <2>1, NoFraming DEF LoginLinesOf
<1>6. ASSUME NEW m \in Messages, NEW rest \in Seq(Users), TurnStep(t, m, rest)
      PROVE  LoginLinesOf(t)'
  <2>1. /\ task[t].stage \in {"reading", "fanout"} /\ UNCHANGED <<user, peer>>
        /\ task'[t].stage \in {"reading", "closed", "fanout"}
    BY <1>6, TurnStage DEF TurnStep
  <2> QED  BY <1>0, <2>1, NoFraming DEF LoginLinesOf
<1>7. CASE EndStep(t)
  <2>1. task'[t].stage = "closed" /\ user' = user
    BY <1>7 DEF EndStep, Ended, Closed, Frame
  <2>2. user[t] = None => task[t].stage \notin {"endburst", "last"}
    BY <1>0 DEF FrameOK
  <2> QED  BY <1>0, <2>1, <2>2, NoFraming DEF LoginLinesOf
<1> QED  BY <1>1, <1>2, <1>3, <1>4, <1>5, <1>6, <1>7 DEF Kinds

-----------------------------------------------------------------------------
(* Kept messages come between these lines, and others after them.          *)

(* What becomes due is the message being sent, with the user's clients of  *)
(* the moment.                                                             *)
LEMMA DueChanges ==
    ASSUME Inv, NEW t \in Clients, Kinds(t), NEW d \in due', d \notin due
    PROVE  \E m \in Messages, rest \in Seq(Users) :
              /\ TurnStep(t, m, rest) /\ d[2] \in ToSet(rest)
              /\ d = <<m, d[2], ToSet(connected_clients[d[2]])>>
<1>1. PICK m \in Messages, rest \in Seq(Users) : TurnStep(t, m, rest)
  BY DEF Kinds, OwnStep, EndStep, PopStep, NextClientStep, PeerLeaves, LoginStep
<1>2. PICK k \in 0 .. Len(rest) : Turns(t, m, rest, k)
  BY <1>1 DEF TurnStep
<1>3. /\ Firsts(rest, k) \subseteq ToSet(rest)
      /\ k < Len(rest) => rest[k + 1] \in ToSet(rest)
  BY DEF Firsts, ToSet
<1>4. \A a, b, s : <<a, b, s>>[1] = a /\ <<a, b, s>>[2] = b /\ <<a, b, s>>[3] = s
  OBVIOUS
<1>5. ToSet(<<>>) = {}
  BY DEF ToSet
<1>6. CASE d \in KeptFor(m, Firsts(rest, k))
  <2>1. PICK u \in Firsts(rest, k) : d = <<m, u, {}>>
    BY <1>6 DEF KeptFor
  <2>2. connected_clients[u] = <<>>
    BY <1>2 DEF Turns, Offline
  <2> QED  BY <1>1, <1>3, <1>4, <1>5, <2>1, <2>2
<1>7. CASE k < Len(rest) /\ d = <<m, rest[k + 1], ToSet(connected_clients[rest[k + 1]])>>
  BY <1>1, <1>3, <1>4, <1>7
<1> QED  BY <1>2, <1>6, <1>7 DEF Turns

(* Whether a message was kept is settled once a client has it.             *)
LEMMA KeptIsSettled ==
    ASSUME Inv, ReceivedIsDue, NEW t \in Clients, Kinds(t), NEW c \in Clients,
           NEW i \in DOMAIN received[c], IsMsg(received[c][i])
    PROVE  /\ user'[c] = user[c]
           /\ <<received[c][i], user[c], {}>> \in due'
                 <=> <<received[c][i], user[c], {}>> \in due
<1> DEFINE r == received[c][i]
<1>1. PICK cs : user[c] # None /\ <<r, user[c], cs>> \in due
  BY DEF ReceivedIsDue
<1>2. user'[c] = user[c] /\ due \subseteq due'
  BY <1>1, KindsGrow DEF Inv
<1>3. r \in Messages
  <2>1. \A d \in due : d[1] \in Messages
    BY DEF Inv, IInv, TypeOK
  <2>2. <<r, user[c], cs>>[1] = r
    OBVIOUS
  <2> QED  BY <1>1, <2>1, <2>2
<1> HIDE DEF r
<1>4. \A a, b, s : <<a, b, s>>[1] = a /\ <<a, b, s>>[2] = b /\ <<a, b, s>>[3] = s
  OBVIOUS
<1>5. ASSUME <<r, user[c], {}>> \in due', <<r, user[c], {}>> \notin due  PROVE FALSE
  <2>1. PICK m \in Messages, rest \in Seq(Users) :
            TurnStep(t, m, rest) /\ user[c] \in ToSet(rest) /\ r = m
    BY <1>4, <1>5, DueChanges
  <2>2. r.from = t
    BY <2>1 DEF TurnStep
  <2>3. r.n < r.n
    BY <1>1, <1>4, <2>1, <2>2, NotYetDueFor DEF Inv
  <2>4. r.n \in Nat
    BY <1>3 DEF Messages
  <2> QED  BY <2>3, <2>4
<1> QED  BY <1>2, <1>5 DEF r

(* A message heard from a drain was kept, one heard from a fan-out was not.*)
LEMMA HeardIsFramed ==
    ASSUME Inv, LoginLines, NEW t \in Clients, Kinds(t), NEW c \in Clients, Hears(t, c),
           IsMsg(task[t].line)
    PROVE  /\ user'[c] = user[c] /\ Total(c, "END_BURST") = 1
           /\ Total(c, "END_OFFLINE_MESSAGES") = 0 <=> <<task[t].line, user[c], {}>> \in due'
<1>1. /\ task[t].stage \in {"drain", "fanout"} /\ task[t].line \in Messages
      /\ task[t].stage = "drain" => c = t
      /\ user[t] # None /\ c = task[t].on /\ peer[c] = "up" /\ Open(c)
  BY MessageSent DEF Hears
<1>2. due \subseteq due' /\ (user[c] # None => user'[c] = user[c])
  BY KindsGrow DEF Inv
<1>3. CASE task[t].stage = "drain"
  <2>1. <<task[t].line, user[t], {}>> \in due
    BY <1>3 DEF Inv, StreamInv, FrameFits
  <2>2. InDrain(t)
    BY <1>1, <1>3 DEF LoginLines, LoginLinesOf
  <2> QED  BY <1>1, <1>2, <1>3, <2>1, <2>2 DEF InDrain
<1>4. CASE task[t].stage = "fanout"
  <2>1. /\ user[c] = Head(task[t].rest) /\ user[c] \in Users /\ user[c] # None
        /\ task[t].line.from = t /\ task[t].line.n = lines[t]
        /\ task[t].rest \in Seq(Users) /\ task[t].rest # <<>> /\ Distinct(task[t].rest)
    <3>1. /\ task[t].line.from = t /\ task[t].line.n = lines[t] /\ Distinct(task[t].rest)
          /\ user[c] = Head(task[t].rest)
      BY <1>1, <1>4 DEF Inv, StreamInv, FrameFits
    <3> QED  BY <1>4, <3>1, IteratedList, ConfigAssumption
  <2>2. task[c].stage \in {"reading", "fanout"}
    <3>1. ASSUME c # t, task[c].stage \in Sending \ {"fanout"}  PROVE FALSE
      <4>1. task[c].on = c /\ task[t].on = c /\ c # None
        BY <1>1, <3>1, ConfigAssumption DEF Inv, IInv, TypeOK, FrameOK
      <4> QED  BY <3>1, <4>1 DEF Inv, StreamInv, OneTaskPerStream
    <3>2. task[c].stage \in Stages
      BY DEF Inv, IInv, TypeOK, Frames
    <3> QED  BY <1>1, <1>4, <3>1, <3>2 DEF Open, Stages
  <2>3. Drained(c)
    BY <1>1, <2>1, <2>2 DEF LoginLines, LoginLinesOf
  <2>4. \A a, b, s : <<a, b, s>>[1] = a /\ <<a, b, s>>[2] = b /\ <<a, b, s>>[3] = s
    OBVIOUS
  <2>5. <<task[t].line, user[c], {}>> \notin due
    <3>1. SUFFICES ASSUME <<task[t].line, user[c], {}>> \in due  PROVE FALSE
      OBVIOUS
    <3>2. task[t].line.n < lines[t]
      BY <1>4, <2>1, <2>4, <3>1 DEF Inv, StreamInv, NotYetDue
    <3>3. lines[t] \in Nat
      BY DEF Inv, IInv, TypeOK
    <3> QED  BY <2>1, <3>2, <3>3
  <2>6. <<task[t].line, user[c], {}>> \notin due'
    <3>1. SUFFICES ASSUME <<task[t].line, user[c], {}>> \in due'  PROVE FALSE
      OBVIOUS
    <3>2. PICK m \in Messages, rest \in Seq(Users) :
              TurnStep(t, m, rest) /\ user[c] \in ToSet(rest)
      BY <2>4, <2>5, <3>1, DueChanges
    <3>3. rest = Tail(task[t].rest)
      BY <1>4, <3>2 DEF TurnStep
    <3> QED  BY <2>1, <3>2, <3>3, TailUsers
  <2> QED  BY <1>2, <2>1, <2>3, <2>6 DEF Drained
<1> QED  BY <1>1, <1>3, <1>4

LEMMA OfflineStaysFirst ==
    ASSUME Inv, ReceivedIsDue, LoginLines, OfflineMessagesFirst, NEW t \in Clients, Kinds(t)
    PROVE  OfflineMessagesFirst'
<1> SUFFICES ASSUME NEW c \in Clients, NEW j \in DOMAIN received'[c], IsMsg(received'[c][j])
             PROVE  /\ Before(received'[c], j, "END_BURST") = 1
                    /\ Before(received'[c], j, "END_OFFLINE_MESSAGES") = 0
                          <=> <<received'[c][j], user'[c], {}>> \in due'
  BY DEF OfflineMessagesFirst
<1>1. CASE received'[c] = received[c]
  BY <1>1, KeptIsSettled DEF OfflineMessagesFirst
<1>2. CASE Hears(t, c)
  <2>1. received[c] \in Seq(Lines) /\ task[t].line \in Lines
    BY <1>2, LineSent DEF Hears, Inv, IInv, TypeOK
  <2>2. received'[c] = Append(received[c], task[t].line)
    BY <1>2 DEF Hears
  <2> DEFINE r == Append(received[c], task[t].line)
  <2>5. /\ \A k \in DOMAIN r : \/ k \in DOMAIN received[c] /\ r[k] = received[c][k]
                               \/ k = Len(received[c]) + 1 /\ r[k] = task[t].line
        /\ \A kind : \A k \in DOMAIN received[c] : Before(r, k, kind) = Before(received[c], k, kind)
        /\ \A kind : task[t].line.kind # kind =>
              Before(r, Len(received[c]) + 1, kind) = Before(received[c], Len(received[c]), kind)
    <3>1. \A k \in DOMAIN r : \/ k \in DOMAIN received[c] /\ r[k] = received[c][k]
                              \/ k = Len(received[c]) + 1 /\ r[k] = task[t].line
      BY <2>1, AppendElements
    <3>2. ASSUME NEW kind
          PROVE  /\ \A k \in DOMAIN received[c] : Before(r, k, kind) = Before(received[c], k, kind)
                 /\ task[t].line.kind # kind =>
                       Before(r, Len(received[c]) + 1, kind)
                           = Before(received[c], Len(received[c]), kind)
      BY <2>1, BeforeAppend, ZenonT(30)
    <3> QED  BY <3>1, <3>2
  <2>6. received'[c] = r
    BY <2>2
  <2> HIDE DEF r
  <2>3. CASE j \in DOMAIN received[c] /\ received'[c][j] = received[c][j]
    <3>1. \A kind : Before(received'[c], j, kind) = Before(received[c], j, kind)
      BY <2>3, <2>5, <2>6
    <3> QED  BY <2>3, <3>1, KeptIsSettled DEF OfflineMessagesFirst
  <2>4. CASE j = Len(received[c]) + 1 /\ received'[c][j] = task[t].line
    <3>1. task[t].line.kind = "MSG"
      BY <2>4 DEF IsMsg
    <3>2. /\ Before(received'[c], j, "END_BURST") = Total(c, "END_BURST")
          /\ Before(received'[c], j, "END_OFFLINE_MESSAGES") = Total(c, "END_OFFLINE_MESSAGES")
      BY <2>4, <2>5, <2>6, <3>1 DEF Total
    <3> QED  BY <1>2, <2>4, <3>2, HeardIsFramed
  <2> QED  BY <2>3, <2>4, <2>5, <2>6
<1> QED  BY <1>1, <1>2, ReceivedChanges DEF Inv

LEMMA InitLoginLines == Init => LoginLines /\ OfflineMessagesFirst
<1> SUFFICES ASSUME Init, NEW c \in Clients
             PROVE  LoginLinesOf(c) /\ received[c] = <<>>
  BY DEF LoginLines, OfflineMessagesFirst
<1>1. task[c].stage = "absent" /\ received[c] = <<>>
  BY DEF Init, Absent, Frame
<1>2. \A kind : {i \in 1 .. Len(<<>>) : (<<>>)[i].kind = kind} = {}
  OBVIOUS
<1>3. \A kind : Total(c, kind) = 0
  BY <1>1, <1>2, FS_EmptySet DEF Total, Before
<1>4. user[c] = None
  BY DEF Init
<1> QED  BY <1>1, <1>3, <1>4 DEF LoginLinesOf, NotBegun

LEMMA NextLoginLines ==
    ASSUME Inv, ReceivedIsDue, LoginLines, OfflineMessagesFirst, [Next]_vars
    PROVE  LoginLines' /\ OfflineMessagesFirst'
<1>1. ASSUME NEW t \in Clients, Kinds(t)  PROVE LoginLines' /\ OfflineMessagesFirst'
  BY <1>1, OfflineStaysFirst, OthersLoginLines, OwnLoginLines DEF LoginLines
<1>2. CASE UNCHANGED vars
  BY <1>2 DEF vars, LoginLines, LoginLinesOf, NotBegun, InDrain, Drained, Total,
              OfflineMessagesFirst
<1> QED  BY <1>1, <1>2, NextKinds DEF Inv

(* What a client receives in its login is never mixed with live traffic:   *)
(* kept messages come between END_BURST and END_OFFLINE_MESSAGES and all   *)
(* others after them, for any number of users, channels and connections.   *)
THEOREM OfflineFirstHolds == Spec => []OfflineMessagesFirst
<1>1. Init => OrderInv /\ LoginLines /\ OfflineMessagesFirst
  BY InitOrderInv, InitLoginLines
<1>2. IInv /\ StreamInv => Inv
  BY DEF Inv
<1>3. Inv /\ Inv' /\ OrderInv /\ [Next]_vars => OrderInv'
  BY NextOrderInv
<1>4. Inv /\ OrderInv /\ LoginLines /\ OfflineMessagesFirst /\ [Next]_vars
        => LoginLines' /\ OfflineMessagesFirst'
  BY NextLoginLines DEF OrderInv
<1> QED  BY <1>1, <1>2, <1>3, <1>4, StreamsAreShared, PTL DEF Spec

-----------------------------------------------------------------------------
(***************************************************************************)
(* That the server of IdcServer loses nothing: a kept message is there     *)
(* until a login of its user got it, and a live one reaches each client    *)
(* its user had, unless one of them leaves.                                *)
(***************************************************************************)

-----------------------------------------------------------------------------
(* What a step cannot undo.                                                *)

LEMMA DueTypes ==
    ASSUME Inv, NEW d \in due
    PROVE  /\ d[1] \in Messages /\ d[1].from \in Clients /\ d[1].n \in Nat /\ d[2] \in Users
           /\ d[3] \subseteq Clients /\ d[2] # None
<1>1. d[1] \in Messages /\ d[2] \in Users /\ d[3] \subseteq Clients
  BY DEF Inv, IInv, TypeOK
<1> QED  BY <1>1, ConfigAssumption DEF Messages

LEMMA GotStays ==
    ASSUME Inv, NEW t \in Clients, Kinds(t), NEW c \in Clients, NEW m, Got(c, m)
    PROVE  Got(c, m)'
<1>1. received[c] \in Seq(Lines)
  BY DEF Inv, IInv, TypeOK
<1>2. CASE Hears(t, c)
  <2>1. task[t].line \in Lines /\ received'[c] = Append(received[c], task[t].line)
    BY <1>2, LineSent DEF Hears
  <2>2. ToSet(received'[c]) = ToSet(received[c]) \cup {task[t].line}
    BY <1>1, <2>1, AppendToSet
  <2> QED  BY <2>2 DEF Got
<1> QED  BY <1>2, ReceivedChanges DEF Inv, Got

LEMMA HeardIsGot ==
    ASSUME Inv, NEW t \in Clients, NEW c \in Clients, Hears(t, c), NEW m, m = task[t].line
    PROVE  Got(c, m)'
<1>1. received[c] \in Seq(Lines)
  BY DEF Inv, IInv, TypeOK
<1>2. task[t].line \in Lines /\ received'[c] = Append(received[c], task[t].line)
  BY LineSent DEF Hears
<1>3. ToSet(received'[c]) = ToSet(received[c]) \cup {task[t].line}
  BY <1>1, <1>2, AppendToSet
<1> QED  BY <1>3 DEF Got

LEMMA PeerMoves ==
    ASSUME Inv, NEW t \in Clients, Kinds(t), NEW c \in Clients
    PROVE  /\ peer'[c] = "up" => peer[c] = "up"
           /\ peer[c] = "down" => peer'[c] = "down"
<1>1. CASE PeerLeaves(t)
  BY <1>1 DEF PeerLeaves, Inv, IInv, TypeOK
<1>2. CASE peer' = peer
  BY <1>2
<1> QED  BY <1>1, <1>2 DEF Kinds, OwnStep, EndStep, PopStep, NextClientStep, LoginStep, TurnStep

(* Nobody goes back to before the connection, and the end is the end.      *)
LEMMA OpenBefore ==
    ASSUME Inv, NEW t \in Clients, Kinds(t), NEW c \in Clients
    PROVE  /\ task[c].stage # "absent" => task'[c].stage # "absent"
           /\ task[c].stage # "absent" /\ Open(c)' => Open(c)
<1>1. Moves(t)
  BY KindsGrow DEF Inv
<1>2. c # t => task'[c] = task[c]
  BY <1>1 DEF Moves
<1>3. CASE OwnStep(t)
  BY <1>2, <1>3 DEF OwnStep, OwnMoves, Open
<1>4. CASE EndStep(t)
  BY <1>2, <1>4 DEF EndStep, Ended, Closed, Frame, Returned, Sending, Open
<1>5. CASE PopStep(t) \/ NextClientStep(t)
  BY <1>2, <1>5 DEF PopStep, NextClientStep, FanoutFrame, Open
<1>6. CASE PeerLeaves(t)
  BY <1>6 DEF PeerLeaves, Open
<1>7. ASSUME NEW u \in Users, LoginStep(t, u)
      PROVE  task[t].stage = "reading" /\ task'[t].stage = "burst"
  BY <1>7 DEF LoginStep
<1>8. ASSUME NEW m \in Messages, NEW rest \in Seq(Users), TurnStep(t, m, rest)
      PROVE  /\ task[t].stage \in {"reading", "fanout"}
             /\ task'[t].stage \in {"reading", "closed", "fanout"}
  BY <1>8, TurnStage DEF TurnStep
<1> QED  BY <1>2, <1>3, <1>4, <1>5, <1>6, <1>7, <1>8 DEF Kinds, Open

-----------------------------------------------------------------------------
(* Kept messages.                                                          *)

(* Three ways for a message to be safe.                                    *)
Safe(m, u) ==
    \/ Waits(m, u) \/ Draining(m, u)
    \/ \E c \in Clients : user[c] = u /\ (Got(c, m) \/ peer[c] = "down")

LEMMA NewlyKeptWaits ==
    ASSUME Inv, NEW t \in Clients, Kinds(t), NEW d \in due', d \notin due, d[3] = {}
    PROVE  Waits(d[1], d[2])'
<1>1. PICK m \in Messages, rest \in Seq(Users) :
          TurnStep(t, m, rest) /\ d = <<m, d[2], ToSet(connected_clients[d[2]])>>
  BY DueChanges
<1>2. PICK k \in 0 .. Len(rest) : Turns(t, m, rest, k)
  BY <1>1 DEF TurnStep
<1>3. \A i \in 1 .. Len(rest) : rest[i] \in Users
  OBVIOUS
<1>4. \A a, b, s : <<a, b, s>>[1] = a /\ <<a, b, s>>[2] = b /\ <<a, b, s>>[3] = s
  OBVIOUS
<1>5. d \in KeptFor(m, Firsts(rest, k))
  <2>1. SUFFICES ASSUME k < Len(rest), ~Offline(rest[k + 1]),
                        d = <<m, rest[k + 1], ToSet(connected_clients[rest[k + 1]])>>
                 PROVE  FALSE
    BY <1>2 DEF Turns
  <2>2. ToSet(connected_clients[rest[k + 1]]) = {}
    BY <1>4, <2>1
  <2>3. rest[k + 1] \in Users
    BY <1>3, <2>1
  <2>4. connected_clients[rest[k + 1]] \in Seq(Clients)
    BY <2>3 DEF Inv, IInv, TypeOK
  <2>5. connected_clients[rest[k + 1]] = <<>>
    <3>1. SUFFICES ASSUME connected_clients[rest[k + 1]] # <<>>  PROVE FALSE
      OBVIOUS
    <3>2. 1 \in DOMAIN connected_clients[rest[k + 1]]
      BY <2>4, <3>1
    <3> QED  BY <2>2, <3>2 DEF ToSet
  <2> QED  BY <2>1, <2>5 DEF Offline
<1>6. d[1] = m /\ d[2] \in Firsts(rest, k)
  BY <1>4, <1>5 DEF KeptFor
<1>7. d[2] \in Users
  BY <1>3, <1>6 DEF Firsts
<1>8. queue'[d[2]] = Append(queue[d[2]], m) /\ queue[d[2]] \in Seq(Messages)
  BY <1>2, <1>6, <1>7 DEF Turns, Inv, IInv, TypeOK
<1>9. ToSet(queue'[d[2]]) = ToSet(queue[d[2]]) \cup {m}
  BY <1>8, AppendToSet
<1> QED  BY <1>6, <1>9 DEF Waits

LEMMA HeadOrTail ==
    ASSUME NEW q \in Seq(Messages), q # <<>>
    PROVE  ToSet(q) = {Head(q)} \cup ToSet(Tail(q))
<1> DEFINE r == Tail(q)
<1>1. /\ Len(q) \in Nat \ {0} /\ DOMAIN q = 1 .. Len(q) /\ Head(q) = q[1]
      /\ DOMAIN r = 1 .. Len(q) - 1
      /\ \A i \in 1 .. Len(q) - 1 : r[i] = q[i + 1]
  OBVIOUS
<1> HIDE DEF r
<1>2. \A i \in DOMAIN r : i + 1 \in DOMAIN q /\ r[i] = q[i + 1]
  BY <1>1
<1>3. \A i \in DOMAIN q : i = 1 \/ (i - 1 \in DOMAIN r /\ r[i - 1] = q[i])
  BY <1>1
<1>4. 1 \in DOMAIN q
  BY <1>1
<1>5. ToSet(r) \subseteq ToSet(q) /\ q[1] \in ToSet(q)
  BY <1>2, <1>4 DEF ToSet
<1>6. \A x \in ToSet(q) : x = q[1] \/ x \in ToSet(r)
  BY <1>3 DEF ToSet
<1> QED  BY <1>1, <1>5, <1>6 DEF r

(* A message leaves its queue for the send of the login that popped it.    *)
LEMMA WaitingStaysSafe ==
    ASSUME Inv, NEW t \in Clients, Kinds(t), NEW u \in Users, NEW m, Waits(m, u)
    PROVE  Safe(m, u)'
<1>1. queue[u] \in Seq(Messages)
  BY DEF Inv, IInv, TypeOK
<1>2. CASE queue'[u] = queue[u]
  BY <1>2 DEF Safe, Waits
<1>3. CASE \E x \in Messages : queue'[u] = Append(queue[u], x)
  BY <1>1, <1>3, AppendToSet DEF Safe, Waits
<1>4. CASE PopStep(t) /\ u = user[t] /\ queue[u] # <<>> /\ queue'[u] = Tail(queue[u])
  <2>1. ToSet(queue[u]) = {Head(queue[u])} \cup ToSet(Tail(queue[u]))
    BY <1>1, <1>4, HeadOrTail
  <2>2. CASE m = Head(queue[u])
    BY <1>4, <2>2 DEF PopStep, Safe, Draining
  <2>3. CASE m \in ToSet(Tail(queue[u]))
    BY <1>4, <2>3 DEF Safe, Waits
  <2> QED  BY <2>1, <2>2, <2>3 DEF Waits
<1> QED  BY <1>2, <1>3, <1>4, QueueChanges

(* That send ends with the message received, or the peer is gone.          *)
LEMMA DrainedStaysSafe ==
    ASSUME Inv, NEW t \in Clients, Kinds(t), NEW u \in Users, NEW m, Draining(m, u)
    PROVE  Safe(m, u)'
<1>1. PICK c \in Clients : user[c] = u /\ task[c].stage = "drain" /\ task[c].line = m
  BY DEF Draining
<1>2. user'[c] = u
  BY <1>1, KindsGrow, ConfigAssumption DEF Inv
<1>3. CASE c # t
  <2>1. task'[c] = task[c]
    BY <1>3, KindsGrow DEF Inv, Moves
  <2> QED  BY <1>1, <1>2, <2>1 DEF Safe, Draining
<1>4. CASE c = t /\ PeerLeaves(t)
  BY <1>1, <1>2, <1>4 DEF PeerLeaves, Safe, Draining
<1>5. CASE c = t /\ ~PeerLeaves(t)
  <2>1. task[t].on = t /\ Open(t)
    BY <1>1, <1>5 DEF Inv, IInv, TypeOK, FrameOK, Sending, Open
  <2>2. peer' = peer /\ (Returned(t) \/ peer[t] = "down")
    <3>1. OwnStep(t) \/ PopStep(t) \/ EndStep(t)
      BY <1>1, <1>5 DEF Kinds, NextClientStep, LoginStep, TurnStep
    <3> QED  BY <1>1, <1>5, <2>1, <3>1 DEF OwnStep, PopStep, EndStep, Open
  <2>3. CASE peer[t] = "down"
    BY <1>2, <1>5, <2>2, <2>3 DEF Safe
  <2>4. CASE peer[t] = "up"
    <3>1. Hears(t, t)
      BY <2>1, <2>2, <2>4, ReturnedHeard DEF Inv
    <3> QED  BY <1>1, <1>2, <1>5, <3>1, HeardIsGot DEF Safe
  <2> QED  BY <2>3, <2>4 DEF Inv, IInv, TypeOK
<1> QED  BY <1>3, <1>4, <1>5

LEMMA SafeStays ==
    ASSUME Inv, NEW t \in Clients, Kinds(t), NEW u \in Users, NEW m, Safe(m, u)
    PROVE  Safe(m, u)'
<1>1. ASSUME NEW c \in Clients, user[c] = u, Got(c, m) \/ peer[c] = "down"
      PROVE  Safe(m, u)'
  <2>1. user'[c] = u
    BY <1>1, KindsGrow, ConfigAssumption DEF Inv
  <2>2. Got(c, m)' \/ peer'[c] = "down"
    <3>1. peer[c] = "down" => peer'[c] = "down"
      BY PeerMoves
    <3> QED  BY <1>1, <3>1, GotStays
  <2> QED  BY <2>1, <2>2 DEF Safe
<1> QED  BY <1>1, WaitingStaysSafe, DrainedStaysSafe DEF Safe

LEMMA KeptStays ==
    ASSUME Inv, KeptUnlessReaderLeaves, NEW t \in Clients, Kinds(t)
    PROVE  KeptUnlessReaderLeaves'
<1> SUFFICES ASSUME NEW d \in due', d[3] = {}  PROVE Safe(d[1], d[2])'
  BY DEF KeptUnlessReaderLeaves, Safe
<1>1. CASE d \in due
  <2>1. Safe(d[1], d[2])
    BY <1>1 DEF KeptUnlessReaderLeaves, Safe
  <2> QED  BY <1>1, <2>1, SafeStays, DueTypes
<1>2. CASE d \notin due
  BY <1>2, NewlyKeptWaits DEF Safe
<1> QED  BY <1>1, <1>2

(* A message kept for a user is lost only with the peer of one of the      *)
(* user's logins, however many logins of the user pop its queue at once.   *)
THEOREM KeptHolds == Spec => []KeptUnlessReaderLeaves
<1>1. Init => KeptUnlessReaderLeaves
  BY DEF Init, KeptUnlessReaderLeaves
<1>2. Inv /\ KeptUnlessReaderLeaves /\ [Next]_vars => KeptUnlessReaderLeaves'
  <2>1. KeptUnlessReaderLeaves /\ UNCHANGED vars => KeptUnlessReaderLeaves'
    BY DEF KeptUnlessReaderLeaves, Waits, Draining, Got, vars
  <2> QED  BY <2>1, KeptStays, NextKinds DEF Inv
<1>3. IInv /\ StreamInv => Inv
  BY DEF Inv
<1> QED  BY <1>1, <1>2, <1>3, StreamsAreShared, PTL DEF Spec

-----------------------------------------------------------------------------
(* Live messages.                                                          *)

AllOpen(cs) == \A x \in cs : Open(x)

(* Who is in the history has connected, and as the user it was due to.     *)
DueKnown ==
    \A d \in due : task[d[1].from].stage # "absent" /\ \A x \in d[3] : user[x] = d[2]

(* The fan-out of a message goes over the clients the user had when send() *)
(* turned to it before it comes to those that logged in since; and those   *)
(* of them that the iterator has passed got it, or are getting it.         *)
OldBeforeNew(l, cs) == \A i, j \in DOMAIN l : l[i] \in cs /\ l[j] \notin cs => i < j
PassedHave(l, d, f) ==
    \A i \in DOMAIN l : l[i] \in d[3] /\ i < f.pos /\ peer[l[i]] = "up"
        => Got(l[i], d[1]) \/ f.on = l[i]

Fans(d) ==
    LET f == task[d[1].from]
    IN  f.stage = "fanout" /\ f.line = d[1] /\ Head(f.rest) = d[2]

OldFirst ==
    \A d \in due : Fans(d) /\ AllOpen(d[3]) =>
        /\ OldBeforeNew(connected_clients[d[2]], d[3])
        /\ PassedHave(connected_clients[d[2]], d, task[d[1].from])

DeliveryInv == DueKnown /\ OldFirst /\ DeliveredUnlessSomeoneLeaves

LEMMA KnownStays ==
    ASSUME Inv, DueKnown, NEW t \in Clients, Kinds(t)
    PROVE  DueKnown'
<1> SUFFICES ASSUME NEW d \in due'
             PROVE  task'[d[1].from].stage # "absent" /\ \A x \in d[3] : user'[x] = d[2]
  BY DEF DueKnown
<1>1. CASE d \in due
  <2>1. task[d[1].from].stage # "absent" /\ \A x \in d[3] : user[x] = d[2]
    BY <1>1 DEF DueKnown
  <2> QED  BY <1>1, <2>1, DueTypes, OpenBefore, KindsGrow DEF Inv
<1>2. CASE d \notin due
  <2>1. PICK m \in Messages, rest \in Seq(Users) :
            /\ TurnStep(t, m, rest) /\ d[2] \in ToSet(rest)
            /\ d = <<m, d[2], ToSet(connected_clients[d[2]])>>
    BY <1>2, DueChanges
  <2>2. d[1] = m /\ d[3] = ToSet(connected_clients[d[2]])
    BY <2>1
  <2>3. m.from = t /\ user' = user /\ task'[t].stage # "absent"
    BY <2>1, TurnStage DEF TurnStep
  <2>4. d[2] \in Users
    <3>1. \A i \in DOMAIN rest : rest[i] \in Users
      OBVIOUS
    <3> QED  BY <2>1, <3>1 DEF ToSet
  <2>5. connected_clients[d[2]] \in Seq(Clients)
    BY <2>4 DEF Inv, IInv, TypeOK
  <2>6. ToSet(connected_clients[d[2]]) \subseteq Clients
    <3>1. \A i \in DOMAIN connected_clients[d[2]] : connected_clients[d[2]][i] \in Clients
      BY <2>5
    <3> QED  BY <3>1 DEF ToSet
  <2> QED  BY <2>2, <2>3, <2>4, <2>6 DEF Inv, IInv, RegistryConsistent
<1> QED  BY <1>1, <1>2

(* What is open after a step and known to the history was open before it.  *)
LEMMA KnownOpen ==
    ASSUME Inv, DueKnown, NEW t \in Clients, Kinds(t), NEW d \in due
    PROVE  /\ Open(d[1].from)' => Open(d[1].from)
           /\ AllOpen(d[3])' => AllOpen(d[3])
<1>1. /\ d[3] \subseteq Clients /\ d[1].from \in Clients /\ d[2] # None
      /\ task[d[1].from].stage # "absent" /\ \A x \in d[3] : user[x] = d[2]
  BY DueTypes DEF DueKnown
<1>2. \A x \in d[3] : task[x].stage # "absent"
  BY <1>1 DEF Inv, IInv, TypeOK, FrameOK
<1> QED  BY <1>1, <1>2, OpenBefore DEF AllOpen

(* The clients a message is due to are in the list as long as they last.   *)
LEMMA KnownListed ==
    ASSUME Inv, DueKnown, NEW d \in due, AllOpen(d[3])
    PROVE  d[3] \subseteq ToSet(connected_clients[d[2]])
BY DueTypes DEF DueKnown, AllOpen, Inv, IInv, RegistryConsistent

(* A message that is due has a fan-out in progress or is dispatched.       *)
LEMMA DispatchedOrFans ==
    ASSUME Inv, NEW d \in due, Open(d[1].from)
    PROVE  Dispatched(d[1], d[2]) \/ Fans(d)
<1> DEFINE t == d[1].from  f == task[t]
<1>1. t \in Clients /\ d[2] \in Users
  BY DueTypes
<1>2. SUFFICES ASSUME f.line = d[1], d[2] \in ToSet(f.rest)
               PROVE  f.stage = "fanout" /\ Head(f.rest) = d[2]
  BY DEF Dispatched, Fans
<1>3. f.stage = "fanout"
  <2>1. ToSet(<<>>) = {}
    BY DEF ToSet
  <2> QED  BY <1>1, <1>2, <2>1 DEF Inv, StreamInv, FrameFits, PlainFrame
<1>4. f.rest \in Seq(Users) /\ f.rest # <<>> /\ f.line.n = lines[t] /\ lines[t] \in Nat
  BY <1>1, <1>3, IteratedList DEF Inv, StreamInv, FrameFits, IInv, TypeOK
<1>5. d[2] \notin ToSet(Tail(f.rest))
  <2>1. SUFFICES ASSUME d[2] \in ToSet(Tail(f.rest))  PROVE FALSE
    OBVIOUS
  <2>2. d[1].n < lines[t]
    BY <1>3, <2>1 DEF Inv, StreamInv, NotYetDue
  <2> QED  BY <1>2, <1>4, <2>2
<1> QED  BY <1>2, <1>3, <1>4, <1>5, TailUsers

-----------------------------------------------------------------------------
(* The list changes under an iterator.                                     *)

(* A client that leaves was not one of those the message is due to, so it  *)
(* stood behind them all, and they keep their places.                      *)
LEMMA OldKeepPlaces ==
    ASSUME Inv, Inv', NEW t \in Clients, Kinds(t), NEW d \in due, DueKnown, AllOpen(d[3])',
           OldBeforeNew(connected_clients[d[2]], d[3])
    PROVE  /\ \A i \in DOMAIN connected_clients'[d[2]] : connected_clients'[d[2]][i] \in d[3] =>
                i \in DOMAIN connected_clients[d[2]]
                /\ connected_clients'[d[2]][i] = connected_clients[d[2]][i]
           /\ OldBeforeNew(connected_clients'[d[2]], d[3])
<1> DEFINE l == connected_clients[d[2]]  k == connected_clients'[d[2]]
<1>1. d[2] \in Users /\ d[2] # None /\ d[3] \subseteq Clients
  BY DueTypes
<1>2. l \in Seq(Clients) /\ k \in Seq(Clients)
  BY <1>1 DEF Inv, IInv, TypeOK
<1>3. DOMAIN l \subseteq Nat /\ DOMAIN k \subseteq Nat
  BY <1>2
<1>4. \A i \in DOMAIN k :
          \/ i \in DOMAIN l /\ k[i] = l[i]
          \/ /\ i + 1 \in DOMAIN l /\ k[i] = l[i + 1]
             /\ task'[t] = Closed /\ \E j \in 1 .. i : l[j] = t
          \/ k[i] = t /\ user[t] = None /\ i = Len(l) + 1
  BY <1>1, EntryChanges DEF Inv
<1>5. task'[t] = Closed \/ user[t] = None => t \notin d[3]
  BY <1>1 DEF AllOpen, Open, Closed, Frame, DueKnown
<1>6. DOMAIN l = 1 .. Len(l) /\ Len(l) \in Nat
  BY <1>2
<1>7. \A i, j \in DOMAIN l : l[i] \in d[3] /\ l[j] \notin d[3] => i < j
  BY DEF OldBeforeNew
<1> HIDE DEF l, k
<1>8. ASSUME NEW i \in DOMAIN k, k[i] \in d[3]
      PROVE  i \in DOMAIN l /\ k[i] = l[i]
  <2>1. SUFFICES ASSUME i + 1 \in DOMAIN l, k[i] = l[i + 1], task'[t] = Closed,
                        NEW j \in 1 .. i, l[j] = t
                 PROVE  FALSE
    BY <1>4, <1>5, <1>8
  <2>2. i + 1 < j
    <3>1. j \in DOMAIN l
      BY <1>3, <1>6, <2>1
    <3> QED  BY <1>5, <1>7, <1>8, <2>1, <3>1
  <2> QED  BY <1>3, <2>2
<1>9. ASSUME NEW i \in DOMAIN k, NEW j \in DOMAIN k, k[i] \in d[3], k[j] \notin d[3]
      PROVE  i < j
  <2>1. i \in DOMAIN l /\ k[i] = l[i] /\ i \in Nat /\ j \in Nat /\ i # j
    BY <1>3, <1>8, <1>9
  <2>2. CASE j \in DOMAIN l /\ k[j] = l[j]
    BY <1>7, <1>9, <2>1, <2>2
  <2>3. CASE j + 1 \in DOMAIN l /\ k[j] = l[j + 1]
    <3>1. i < j + 1
      BY <1>7, <1>9, <2>1, <2>3
    <3> QED  BY <2>1, <3>1
  <2>4. CASE j = Len(l) + 1
    BY <1>6, <2>1, <2>4
  <2> QED  BY <1>4, <2>2, <2>3, <2>4
<1> QED  BY <1>8, <1>9 DEF OldBeforeNew, l, k

(* The fan-out of another task, or one that only sees a peer leave.        *)
LEMMA FansOn ==
    ASSUME Inv, Inv', DueKnown, OldFirst, NEW t \in Clients, Kinds(t), NEW d \in due,
           task'[d[1].from] = task[d[1].from], Fans(d)', AllOpen(d[3])'
    PROVE  /\ OldBeforeNew(connected_clients'[d[2]], d[3])
           /\ PassedHave(connected_clients[d[2]], d, task[d[1].from])'
<1> DEFINE l == connected_clients[d[2]]  k == connected_clients'[d[2]]
           f == task[d[1].from]
<1>1. Fans(d) /\ AllOpen(d[3])
  BY KnownOpen DEF Fans
<1>2. OldBeforeNew(l, d[3]) /\ PassedHave(l, d, f)
  BY <1>1 DEF OldFirst
<1>3. /\ \A i \in DOMAIN k : k[i] \in d[3] => i \in DOMAIN l /\ k[i] = l[i]
      /\ OldBeforeNew(k, d[3])
  BY <1>2, OldKeepPlaces
<1>4. d[3] \subseteq Clients
  BY DueTypes
<1>5. ASSUME NEW i \in DOMAIN k, k[i] \in d[3], i < f.pos, peer'[k[i]] = "up"
      PROVE  d[1] \in ToSet(received'[k[i]]) \/ f.on = k[i]
  <2>1. PICK c \in Clients : c = k[i]
    BY <1>4, <1>5
  <2>2. i \in DOMAIN l /\ l[i] = c /\ peer'[c] = "up" /\ c \in d[3]
    BY <1>3, <1>5, <2>1
  <2>3. Got(c, d[1]) \/ f.on = c
    BY <1>2, <1>5, <2>2, PeerMoves DEF PassedHave
  <2>4. CASE Got(c, d[1])
    BY <2>1, <2>4, GotStays DEF Got
  <2> QED  BY <2>1, <2>3, <2>4
<1>6. task'[d[1].from] = f /\ k = connected_clients'[d[2]]
  OBVIOUS
<1> QED  BY <1>3, <1>5, <1>6 DEF PassedHave, Got

(* The iterator goes on to the next client.                                *)
LEMMA FansNext ==
    ASSUME Inv, DueKnown, OldFirst, NEW t \in Clients, NextClientStep(t), NEW d \in due,
           d[1].from = t, Fans(d)', AllOpen(d[3])'
    PROVE  /\ OldBeforeNew(connected_clients'[d[2]], d[3])
           /\ PassedHave(connected_clients[d[2]], d, task[t])'
<1> DEFINE l == connected_clients[d[2]]  f == task[t]
<1>0. Kinds(t)
  BY DEF Kinds
<1>1. /\ f.stage = "fanout" /\ task'[t].line = f.line /\ task'[t].rest = f.rest
      /\ task'[t].on = Iterated(t)[f.pos] /\ task'[t].pos = f.pos + 1
      /\ UNCHANGED <<connected_clients, peer>> /\ Returned(t)
  BY DEF NextClientStep, FanoutFrame, Iterated
<1>2. Fans(d) /\ AllOpen(d[3]) /\ Iterated(t) = l /\ f.line = d[1]
  BY <1>0, <1>1, KnownOpen DEF Fans, Iterated
<1>3. OldBeforeNew(l, d[3]) /\ PassedHave(l, d, f)
  BY <1>2 DEF OldFirst
<1>4. d[3] \subseteq Clients /\ f.pos \in Nat /\ DOMAIN l \subseteq Nat
  BY <1>1, <1>2, DueTypes, IteratedList
<1>5. ASSUME NEW i \in DOMAIN l, l[i] \in d[3], i < f.pos + 1, peer[l[i]] = "up"
      PROVE  l[i] = l[f.pos] \/ d[1] \in ToSet(received'[l[i]])
  <2>1. i = f.pos \/ i < f.pos
    BY <1>4, <1>5
  <2>2. CASE i < f.pos
    <3>1. PICK c \in Clients : c = l[i] /\ Open(c) /\ peer[c] = "up"
      BY <1>2, <1>4, <1>5 DEF AllOpen
    <3>2. Got(c, d[1]) \/ f.on = c
      BY <1>3, <1>5, <2>2, <3>1 DEF PassedHave
    <3>3. CASE Got(c, d[1])
      BY <1>0, <3>1, <3>3, GotStays DEF Got
    <3>4. CASE f.on = c
      <4>1. Hears(t, c)
        BY <1>1, <3>1, <3>4, ReturnedHeard DEF Inv
      <4> QED  BY <1>2, <3>1, <4>1, HeardIsGot DEF Got
    <3> QED  BY <3>2, <3>3, <3>4
  <2> QED  BY <2>1, <2>2
<1> QED  BY <1>1, <1>2, <1>3, <1>5 DEF PassedHave, Got

(* A fan-out begins: all clients of the user are due the message.          *)
LEMMA FansFirst ==
    ASSUME Inv, Inv', NEW t \in Clients, Kinds(t), NEW m \in Messages, NEW rest \in Seq(Users),
           TurnStep(t, m, rest), NEW d \in due', d[1].from = t, Fans(d)'
    PROVE  /\ OldBeforeNew(connected_clients'[d[2]], d[3])
           /\ PassedHave(connected_clients[d[2]], d, task[t])'
<1> DEFINE f == task'[t]  l == connected_clients[d[2]]
<1>1. /\ f.line = m /\ f.pos = 2 /\ d[2] \in ToSet(rest) /\ d[2] \in Users
      /\ f.on = l[1] /\ connected_clients' = connected_clients /\ f.line = d[1]
  BY TurnedTo DEF Fans
<1>2. d \notin due
  <2>1. SUFFICES ASSUME d \in due  PROVE FALSE
    OBVIOUS
  <2>2. d[1].n < m.n
    BY <1>1, <2>1, NotYetDueFor DEF Inv
  <2> QED  BY <1>1, <2>1, <2>2, DueTypes
<1>3. d[3] = ToSet(l)
  <2>1. PICK x \in Messages, r \in Seq(Users) : d = <<x, d[2], ToSet(l)>>
    BY <1>2, DueChanges
  <2> QED  BY <2>1
<1>4. \A i \in DOMAIN l : l[i] \in d[3] /\ i \in Nat \ {0}
  <2>1. l \in Seq(Clients)
    BY <1>1 DEF Inv, IInv, TypeOK
  <2>2. DOMAIN l \subseteq Nat \ {0}
    BY <2>1
  <2> QED  BY <1>3, <2>2 DEF ToSet
<1>5. \A i \in DOMAIN l : i < 2 => i = 1
  BY <1>4
<1> QED  BY <1>1, <1>4, <1>5 DEF OldBeforeNew, PassedHave

LEMMA OldStaysFirst ==
    ASSUME Inv, Inv', DueKnown, OldFirst, NEW t \in Clients, Kinds(t)
    PROVE  OldFirst'
<1> SUFFICES ASSUME NEW d \in due', Fans(d)', AllOpen(d[3])'
             PROVE  /\ OldBeforeNew(connected_clients'[d[2]], d[3])
                    /\ PassedHave(connected_clients[d[2]], d, task[d[1].from])'
  BY DEF OldFirst
<1>1. CASE d \in due /\ d[1].from # t
  <2>1. task'[d[1].from] = task[d[1].from]
    BY <1>1, KindsGrow, DueTypes DEF Inv, Moves
  <2> QED  BY <1>1, <2>1, FansOn
<1>2. CASE d[1].from = t
  <2>1. CASE \E m \in Messages, rest \in Seq(Users) : TurnStep(t, m, rest)
    BY <1>2, <2>1, FansFirst
  <2>2. CASE ~\E m \in Messages, rest \in Seq(Users) : TurnStep(t, m, rest)
    <3>1. d \in due
      BY <2>2, DueChanges
    <3>2. NextClientStep(t) \/ PeerLeaves(t)
      BY <1>2, <2>2, FanoutFrom DEF Fans
    <3> QED  BY <1>2, <3>1, <3>2, FansNext, FansOn DEF PeerLeaves
  <2> QED  BY <2>1, <2>2
<1>3. CASE d \notin due
  <2>1. PICK m \in Messages, rest \in Seq(Users) :
            /\ TurnStep(t, m, rest)
            /\ d = <<m, d[2], ToSet(connected_clients[d[2]])>>
    BY <1>3, DueChanges
  <2>2. d[1].from = t
    BY <2>1 DEF TurnStep
  <2> QED  BY <1>2, <2>2
<1> QED  BY <1>1, <1>2, <1>3

-----------------------------------------------------------------------------
(* The theorem.                                                            *)

(* A send() that turns to a user with clients is not over, or its sender   *)
(* crashed.                                                                *)
LEMMA NewlyDueNotDispatched ==
    ASSUME Inv, NEW t \in Clients, Kinds(t), NEW d \in due', d \notin due, d[3] # {}
    PROVE  ~Dispatched(d[1], d[2])'
<1>1. PICK m \in Messages, rest \in Seq(Users) :
          TurnStep(t, m, rest) /\ d = <<m, d[2], ToSet(connected_clients[d[2]])>>
  BY DueChanges
<1>2. PICK k \in 0 .. Len(rest) : Turns(t, m, rest, k)
  BY <1>1 DEF TurnStep
<1>3. d[1] = m /\ m.from = t /\ Distinct(rest)
  BY <1>1 DEF TurnStep
<1>4. d \notin KeptFor(m, Firsts(rest, k))
  BY DEF KeptFor
<1>5. /\ k < Len(rest) /\ ~Offline(rest[k + 1])
      /\ d = <<m, rest[k + 1], ToSet(connected_clients[rest[k + 1]])>>
      /\ Ended(t) \/ task'[t] = FanoutFrame(m, SubSeq(rest, k + 1, Len(rest)), 1)
  BY <1>2, <1>4 DEF Turns
<1>6. d[2] = rest[k + 1]
  BY <1>5
<1>7. CASE Ended(t)
  BY <1>3, <1>7 DEF Ended, Dispatched, Open, Closed, Frame
<1>8. CASE task'[t] = FanoutFrame(m, SubSeq(rest, k + 1, Len(rest)), 1)
  <2>1. /\ task'[t].line = m /\ task'[t].rest \in Seq(Users) /\ task'[t].rest # <<>>
        /\ Head(task'[t].rest) = d[2]
    BY <1>3, <1>5, <1>6, <1>8, NextUser DEF Inv
  <2>2. d[2] \in ToSet(task'[t].rest)
    BY <2>1, TailUsers
  <2> QED  BY <1>3, <2>1, <2>2 DEF Dispatched
<1> QED  BY <1>5, <1>7, <1>8

(* When the iterator is at the end of the list everybody has the message.  *)
LEMMA FansToTheEnd ==
    ASSUME Inv, Inv', DueKnown, OldFirst, NEW t \in Clients, Kinds(t), NEW d \in due, Fans(d),
           AllOpen(d[3]), Dispatched(d[1], d[2])', NEW c \in d[3], peer[c] = "up"
    PROVE  Got(c, d[1])'
<1> DEFINE s == d[1].from  f == task[s]  l == connected_clients[d[2]]
<1>1. /\ s \in Clients /\ c \in Clients /\ d[2] \in Users /\ Open(c)
      /\ f.stage = "fanout" /\ f.line = d[1] /\ Head(f.rest) = d[2]
  BY DueTypes DEF Fans, AllOpen
<1>2. d[2] \in ToSet(f.rest) /\ f.pos \in Nat
  BY <1>1, IteratedList, TailUsers
<1>3. ~(task'[s].line = f.line /\ task'[s].rest = f.rest) /\ task'[s].stage # "closed"
  BY <1>1, <1>2 DEF Dispatched, Open
<1>4. s = t
  BY <1>1, <1>3, KindsGrow DEF Inv, Moves
<1>5. PICK m \in Messages, rest \in Seq(Users) : TurnStep(t, m, rest)
  <2>1. ~OwnStep(t) /\ ~PopStep(t)
    BY <1>1, <1>4 DEF OwnStep, OwnMoves, PopStep
  <2>2. ~EndStep(t) /\ ~NextClientStep(t) /\ ~PeerLeaves(t)
    BY <1>3, <1>4 DEF EndStep, Ended, Closed, Frame, NextClientStep, FanoutFrame, PeerLeaves
  <2>3. \A u \in Users : ~LoginStep(t, u)
    BY <1>1, <1>4 DEF LoginStep
  <2> QED  BY <2>1, <2>2, <2>3 DEF Kinds
<1>6. f.pos > Len(l) /\ Returned(t) /\ peer' = peer
  BY <1>1, <1>4, <1>5 DEF TurnStep
<1>7. c \in ToSet(l)
  BY KnownListed
<1>8. PICK i \in DOMAIN l : l[i] = c
  BY <1>7 DEF ToSet
<1>9. i < f.pos
  <2>1. l \in Seq(Clients)
    BY <1>1 DEF Inv, IInv, TypeOK
  <2>2. DOMAIN l = 1 .. Len(l) /\ Len(l) \in Nat
    BY <2>1
  <2> QED  BY <1>2, <1>6, <2>2
<1>10. PassedHave(l, d, f)
  BY DEF OldFirst
<1>11. Got(c, d[1]) \/ f.on = c
  BY <1>8, <1>9, <1>10 DEF PassedHave
<1>12. CASE f.on = c
  <2>1. Hears(t, c)
    BY <1>1, <1>4, <1>6, <1>12, ReturnedHeard DEF Inv
  <2> QED  BY <1>1, <1>4, <2>1, HeardIsGot
<1> QED  BY <1>1, <1>11, <1>12, GotStays

LEMMA DeliveredStays ==
    ASSUME Inv, Inv', DeliveryInv, NEW t \in Clients, Kinds(t)
    PROVE  DeliveredUnlessSomeoneLeaves'
<1> SUFFICES ASSUME NEW d \in due', Dispatched(d[1], d[2])', AllOpen(d[3])',
                    NEW c \in d[3], peer'[c] = "up"
             PROVE  Got(c, d[1])'
  BY DEF DeliveredUnlessSomeoneLeaves, AllOpen
<1>1. CASE d \in due
  <2>1. AllOpen(d[3]) /\ Open(d[1].from) /\ c \in Clients
    BY <1>1, KnownOpen, DueTypes DEF DeliveryInv, Dispatched
  <2>2. peer[c] = "up"
    BY <2>1, PeerMoves
  <2>3. CASE Dispatched(d[1], d[2])
    <3>1. Got(c, d[1])
      BY <1>1, <2>1, <2>2, <2>3 DEF DeliveryInv, DeliveredUnlessSomeoneLeaves, AllOpen
    <3> QED  BY <2>1, <3>1, GotStays
  <2>4. CASE Fans(d)
    BY <1>1, <2>1, <2>2, <2>4, FansToTheEnd DEF DeliveryInv
  <2> QED  BY <1>1, <2>1, <2>3, <2>4, DispatchedOrFans
<1>2. CASE d \notin due
  BY <1>2, NewlyDueNotDispatched
<1> QED  BY <1>1, <1>2

LEMMA NextDeliveryInv == Inv /\ Inv' /\ DeliveryInv /\ [Next]_vars => DeliveryInv'
<1> SUFFICES ASSUME Inv, Inv', DeliveryInv, [Next]_vars  PROVE DeliveryInv'
  OBVIOUS
<1>1. ASSUME NEW t \in Clients, Kinds(t)  PROVE DeliveryInv'
  BY <1>1, KnownStays, OldStaysFirst, DeliveredStays DEF DeliveryInv
<1>2. CASE UNCHANGED vars
  BY <1>2 DEF vars, DeliveryInv, DueKnown, OldFirst, Fans, AllOpen, Open, OldBeforeNew,
              PassedHave, Got, DeliveredUnlessSomeoneLeaves, Dispatched
<1> QED  BY <1>1, <1>2, NextKinds DEF Inv

(* A message reaches every client its user had when send() turned to the   *)
(* user, unless one of them ended or the sender did: whoever logs in, and  *)
(* however many messages are sent meanwhile.                               *)
THEOREM DeliveredHolds == Spec => []DeliveredUnlessSomeoneLeaves
<1>1. Init => DeliveryInv
  BY DEF Init, DeliveryInv, DueKnown, OldFirst, DeliveredUnlessSomeoneLeaves
<1>2. IInv /\ StreamInv => Inv
  BY DEF Inv
<1>3. Inv /\ Inv' /\ DeliveryInv /\ [Next]_vars => DeliveryInv'
  BY NextDeliveryInv
<1>4. DeliveryInv => DeliveredUnlessSomeoneLeaves
  BY DEF DeliveryInv
<1> QED  BY <1>1, <1>2, <1>3, <1>4, StreamsAreShared, PTL DEF Spec
=============================================================================
