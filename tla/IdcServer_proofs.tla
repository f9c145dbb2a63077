-------------------------- MODULE IdcServer_proofs --------------------------
(***************************************************************************)
(* Invariants of IdcServer for any number of connections, users, channels  *)
(* and lines: types, the registry and the queues; then what any step may   *)
(* change, and what streams and frames know of the history.                *)
(***************************************************************************)
EXTENDS IdcServer, FiniteSetTheorems, TLAPS

Distinct(s) == \A i, j \in DOMAIN s : s[i] = s[j] => i = j

(* What is left of a list after one element is taken out.                  *)
LEMMA RemoveAtElements ==
    ASSUME NEW s \in Seq(Clients), NEW i \in 1 .. Len(s)
    PROVE  /\ RemoveAt(s, i) \in Seq(Clients)
           /\ Len(RemoveAt(s, i)) = Len(s) - 1
           /\ \A k \in 1 .. Len(s) - 1 : RemoveAt(s, i)[k] = IF k < i THEN s[k] ELSE s[k + 1]
<1> DEFINE a == SubSeq(s, 1, i - 1)
           b == SubSeq(s, i + 1, Len(s))
           r == RemoveAt(s, i)
<1>1. /\ a \in Seq(Clients) /\ Len(a) = i - 1
      /\ \A k \in 1 .. i - 1 : a[k] = s[k]
  OBVIOUS
<1>2. /\ b \in Seq(Clients) /\ Len(b) = Len(s) - i
      /\ \A k \in 1 .. Len(s) - i : b[k] = s[i + k]
  OBVIOUS
<1>3. r = a \o b
  BY DEF RemoveAt
<1> HIDE DEF a, b, r
<1>4. r \in Seq(Clients) /\ Len(r) = Len(s) - 1
  <2>1. r \in Seq(Clients)
    BY <1>1, <1>2, <1>3
  <2>2. Len(r) = Len(a) + Len(b)
    <3>1. a \in Seq(Clients) /\ b \in Seq(Clients)
      BY <1>1, <1>2
    <3> QED  BY <3>1, <1>3
  <2>3. Len(s) \in Nat /\ i \in Nat
    OBVIOUS
  <2> QED  BY <2>1, <2>2, <2>3, <1>1, <1>2
<1>5. ASSUME NEW k \in 1 .. Len(r)
      PROVE  r[k] = IF k < i THEN s[k] ELSE s[k + 1]
  <2>1. CASE k < i
    <3>1. k \in 1 .. i - 1 /\ r[k] = a[k]
      BY <2>1, <1>1, <1>2, <1>3, <1>4
    <3> QED  BY <3>1, <2>1, <1>1
  <2>2. CASE ~(k < i)
    <3>1. k - (i - 1) \in 1 .. Len(s) - i /\ r[k] = b[k - (i - 1)]
      BY <2>2, <1>1, <1>2, <1>3, <1>4
    <3> QED  BY <3>1, <2>2, <1>2, <1>4
  <2> QED  BY <2>1, <2>2
<1> QED  BY <1>4, <1>5 DEF r

(* Taking a client off a list without duplicates leaves the other clients, *)
(* each once (connected_clients.remove); those behind it move up by one.   *)
LEMMA WithoutClientRemoves ==
    ASSUME NEW s \in Seq(Clients), Distinct(s), NEW c \in Clients
    PROVE  /\ WithoutClient(s, c) \in Seq(Clients)
           /\ Distinct(WithoutClient(s, c))
           /\ ToSet(WithoutClient(s, c)) = ToSet(s) \ {c}
           /\ \A k \in DOMAIN WithoutClient(s, c) :
                 \/ k \in DOMAIN s /\ WithoutClient(s, c)[k] = s[k]
                 \/ /\ k + 1 \in DOMAIN s /\ WithoutClient(s, c)[k] = s[k + 1]
                    /\ \E j \in 1 .. k : s[j] = c
<1>1. CASE c \notin ToSet(s)
  BY <1>1 DEF WithoutClient
<1>2. CASE c \in ToSet(s)
  <2> DEFINE i == CHOOSE k \in DOMAIN s : s[k] = c
             r == RemoveAt(s, i)
  <2>1. i \in 1 .. Len(s) /\ s[i] = c
    BY <1>2 DEF ToSet
  <2>2. /\ r \in Seq(Clients)
        /\ Len(r) = Len(s) - 1
        /\ \A k \in 1 .. Len(r) : r[k] = IF k < i THEN s[k] ELSE s[k + 1]
    <3> HIDE DEF i
    <3> QED  BY <2>1, RemoveAtElements
  <2>3. Distinct(r)
    <3> HIDE DEF i, r
    <3> QED  BY <2>1, <2>2 DEF Distinct
  <2>4. ToSet(r) \subseteq ToSet(s) \ {c}
    <3> HIDE DEF i, r
    <3> QED  BY <2>1, <2>2 DEF Distinct, ToSet
  <2>5. ASSUME NEW x \in ToSet(s) \ {c}  PROVE x \in ToSet(r)
    <3> HIDE DEF i, r
    <3>1. PICK k \in 1 .. Len(s) : s[k] = x
      BY DEF ToSet
    <3>2. CASE k < i
      BY <3>1, <3>2, <2>1, <2>2 DEF ToSet
    <3>3. CASE k > i
      <4>1. k - 1 \in 1 .. Len(r) /\ r[k - 1] = s[k]
        BY <3>1, <3>3, <2>1, <2>2
      <4> QED  BY <4>1, <3>1, <2>2 DEF ToSet
    <3> QED  BY <3>1, <3>2, <3>3, <2>1
  <2>6. ASSUME NEW k \in DOMAIN r
        PROVE  \/ k \in DOMAIN s /\ r[k] = s[k]
               \/ k + 1 \in DOMAIN s /\ r[k] = s[k + 1] /\ \E j \in 1 .. k : s[j] = c
    <3> HIDE DEF i, r
    <3>1. CASE k < i
      BY <3>1, <2>1, <2>2
    <3>2. CASE ~(k < i)
      <4>1. k + 1 \in DOMAIN s /\ r[k] = s[k + 1] /\ i \in 1 .. k
        BY <3>2, <2>1, <2>2
      <4> QED  BY <4>1, <2>1
    <3> QED  BY <3>1, <3>2
  <2>7. WithoutClient(s, c) = r
    BY <1>2 DEF WithoutClient
  <2> HIDE DEF i, r
  <2> QED  BY <2>2, <2>3, <2>4, <2>5, <2>6, <2>7
<1> QED  BY <1>1, <1>2

(* Appending a client that is not on the list adds it once.                *)
LEMMA AppendAdds ==
    ASSUME NEW s \in Seq(Clients), Distinct(s), NEW c \in Clients, c \notin ToSet(s)
    PROVE  /\ Append(s, c) \in Seq(Clients)
           /\ Distinct(Append(s, c))
           /\ ToSet(Append(s, c)) = ToSet(s) \cup {c}
<1>1. /\ Append(s, c) \in Seq(Clients)
      /\ Len(Append(s, c)) = Len(s) + 1
      /\ \A k \in 1 .. Len(s) : Append(s, c)[k] = s[k]
      /\ Append(s, c)[Len(s) + 1] = c
  OBVIOUS
<1>2. Distinct(Append(s, c))
  BY <1>1 DEF Distinct, ToSet
<1>3. ToSet(Append(s, c)) = ToSet(s) \cup {c}
  BY <1>1 DEF ToSet
<1> QED  BY <1>1, <1>2, <1>3

-----------------------------------------------------------------------------
(* The inductive invariant: the list remove() works on has no duplicates   *)
(* only because the registry is consistent, and a queue grows only while   *)
(* its user is offline only because the registry lists every open client.  *)
IInv == TypeOK /\ RegistryConsistent /\ NothingStranded

(* reg is a registry that is right when t is open and logged in as u.      *)
RightFor(reg, t, u) ==
    /\ reg \in [Users -> Seq(Clients)]
    /\ \A v \in Users :
          /\ Distinct(reg[v])
          /\ \A c \in Clients : c \in ToSet(reg[v]) <=>
                IF c = t THEN u = v ELSE Open(c) /\ user[c] = v

(* The finally clause takes the client off its user's list and touches     *)
(* nothing else.                                                           *)
LEMMA UnregisteredRemoves ==
    ASSUME NEW t \in Clients, NEW u \in Users \cup {None}, NEW reg, RightFor(reg, t, u)
    PROVE  /\ Unregistered(reg, u, t) \in [Users -> Seq(Clients)]
           /\ \A v \in Users :
                 /\ Distinct(Unregistered(reg, u, t)[v])
                 /\ \A c \in Clients : c \in ToSet(Unregistered(reg, u, t)[v])
                                        <=> c # t /\ Open(c) /\ user[c] = v
<1>1. CASE u = None
  BY <1>1, ConfigAssumption DEF Unregistered, RightFor
<1>2. CASE u # None
  <2>1. /\ u \in Users
        /\ Unregistered(reg, u, t) = [reg EXCEPT ![u] = WithoutClient(reg[u], t)]
    BY <1>2 DEF Unregistered
  <2>2. /\ WithoutClient(reg[u], t) \in Seq(Clients)
        /\ Distinct(WithoutClient(reg[u], t))
        /\ ToSet(WithoutClient(reg[u], t)) = ToSet(reg[u]) \ {t}
    BY <2>1, WithoutClientRemoves DEF RightFor
  <2> QED  BY <2>1, <2>2 DEF RightFor
<1> QED  BY <1>1, <1>2

(* In a consistent state the registry is right for every open task.        *)
LEMMA RegistryRight ==
    ASSUME IInv, NEW t \in Clients, Open(t)
    PROVE  RightFor(connected_clients, t, user[t])
BY DEF IInv, TypeOK, RegistryConsistent, RightFor, Distinct

(* A task that waits in a send or ends leaves a consistent registry.       *)
LEMMA BeginKeeps ==
    ASSUME TypeOK, NEW t \in Clients, NEW u \in Users \cup {None}, NEW reg,
           NEW f \in Frames, f.stage \in Sending, RightFor(reg, t, u),
           user' = [user EXCEPT ![t] = u], Begin(t, f, reg, u)
    PROVE  /\ task' \in [Clients -> Frames]
           /\ \A x \in Clients \ {t} : task'[x] = task[x]
           /\ task'[t] \in {f, Closed}
           /\ connected_clients' \in [Users -> Seq(Clients)]
           /\ RegistryConsistent'
<1>1. Closed \in Frames /\ Closed.stage = "closed"
  BY DEF Closed, Frame, Frames, Stages
<1>2. PICK ok \in BOOLEAN :
        /\ task' = [task EXCEPT ![t] = IF ok THEN f ELSE Closed]
        /\ connected_clients' = IF ok THEN reg ELSE Unregistered(reg, u, t)
  BY DEF Begin
<1>3. /\ task' \in [Clients -> Frames]
      /\ \A x \in Clients \ {t} : task'[x] = task[x]
      /\ task'[t] = IF ok THEN f ELSE Closed
  BY <1>1, <1>2 DEF TypeOK
<1>4. user'[t] = u /\ \A x \in Clients \ {t} : user'[x] = user[x]
  BY DEF TypeOK
<1>5. CASE ok
  <2>1. Open(t)'
    BY <1>3, <1>5 DEF Open, Sending
  <2>2. \A x \in Clients \ {t} : Open(x)' <=> Open(x)
    BY <1>3 DEF Open
  <2> QED  BY <1>2, <1>3, <1>4, <1>5, <2>1, <2>2 DEF RightFor, RegistryConsistent, Distinct
<1>6. CASE ~ok
  <2>1. ~Open(t)'
    BY <1>1, <1>3, <1>6 DEF Open
  <2>2. \A x \in Clients \ {t} : Open(x)' <=> Open(x)
    BY <1>3 DEF Open
  <2>3. connected_clients' = Unregistered(reg, u, t)
    BY <1>2, <1>6
  <2> QED  BY <1>3, <1>4, <1>6, <2>1, <2>2, <2>3, UnregisteredRemoves
             DEF RegistryConsistent, Distinct
<1> QED  BY <1>5, <1>6

(* The same for a task that sends on after its login.                      *)
LEMMA BeginOwnKeeps ==
    ASSUME IInv, NEW t \in Clients, Open(t), NEW f \in Frames, f.stage \in Sending,
           user' = user, BeginOwn(t, f)
    PROVE  /\ task' \in [Clients -> Frames]
           /\ \A x \in Clients \ {t} : task'[x] = task[x]
           /\ task'[t] \in {f, Closed}
           /\ connected_clients' \in [Users -> Seq(Clients)]
           /\ RegistryConsistent'
<1>1. RightFor(connected_clients, t, user[t])
  BY RegistryRight
<1>2. user' = [user EXCEPT ![t] = user[t]] /\ user[t] \in Users \cup {None}
  BY DEF IInv, TypeOK
<1>3. Begin(t, f, connected_clients, user[t])
  BY DEF BeginOwn
<1> QED  BY <1>1, <1>2, <1>3, BeginKeeps DEF IInv

(* The same for a task that ends.                                          *)
LEMMA LeaveKeeps ==
    ASSUME IInv, NEW t \in Clients, Open(t), user' = user, Leave(t)
    PROVE  /\ task' \in [Clients -> Frames]
           /\ \A x \in Clients \ {t} : task'[x] = task[x]
           /\ task'[t] = Closed
           /\ connected_clients' \in [Users -> Seq(Clients)]
           /\ RegistryConsistent'
<1>1. RightFor(connected_clients, t, user[t])
  BY RegistryRight
<1>2. user[t] \in Users \cup {None}
  BY DEF IInv, TypeOK
<1>3. Closed \in Frames /\ Closed.stage = "closed"
  BY DEF Closed, Frame, Frames, Stages
<1>4. /\ task' \in [Clients -> Frames]
      /\ \A x \in Clients \ {t} : task'[x] = task[x]
      /\ task'[t] = Closed
  BY <1>3 DEF Leave, IInv, TypeOK
<1>5. ~Open(t)' /\ \A x \in Clients \ {t} : Open(x)' <=> Open(x)
  BY <1>3, <1>4 DEF Open
<1>6. connected_clients' = Unregistered(connected_clients, user[t], t)
  BY DEF Leave
<1> QED  BY <1>1, <1>2, <1>4, <1>5, <1>6, UnregisteredRemoves
           DEF RegistryConsistent, Distinct

-----------------------------------------------------------------------------
(* What NothingStranded says of one client.                                *)
Unstranded(c) ==
    user[c] # None =>
        /\ task[c].stage \in {"last", "reading", "reply", "fanout"} => queue[user[c]] = <<>>
        /\ task[c].stage = "drain" => Len(queue[user[c]]) <= task[c].left

(* A step of t keeps the invariant if it does so for t and the queue of    *)
(* no user with another open client grows.                                 *)
LEMMA StepKeeps ==
    ASSUME IInv, NEW t \in Clients,
           task' \in [Clients -> Frames],
           \A x \in Clients \ {t} : task'[x] = task[x],
           user' \in [Clients -> Users \cup {None}],
           \A x \in Clients \ {t} : user'[x] = user[x],
           connected_clients' \in [Users -> Seq(Clients)],
           RegistryConsistent',
           queue' \in [Users -> Seq(Messages)],
           \A x \in Clients \ {t} : Open(x) /\ user[x] # None
                => Len(queue'[user[x]]) <= Len(queue[user[x]]),
           peer' \in [Clients -> {"up", "down"}],
           received' \in [Clients -> Seq(Lines)],
           lines' \in [Clients -> Nat],
           due' \subseteq Messages \X Users \X SUBSET Clients,
           FrameOK(t)', Unstranded(t)'
    PROVE  IInv'
<1>1. TypeOK'
  <2>1. ASSUME NEW x \in Clients \ {t}  PROVE FrameOK(x)'
    BY <2>1 DEF IInv, TypeOK, FrameOK
  <2> QED  BY <2>1 DEF TypeOK
<1>2. ASSUME NEW x \in Clients \ {t}, user'[x] # None  PROVE Unstranded(x)'
  <2>1. /\ Unstranded(x) /\ user[x] # None /\ user[x] \in Users
        /\ user'[x] = user[x] /\ task'[x] = task[x]
    BY <1>2 DEF IInv, TypeOK, NothingStranded, Unstranded
  <2>2. queue[user[x]] \in Seq(Messages) /\ queue'[user[x]] \in Seq(Messages)
    BY <2>1 DEF IInv, TypeOK
  <2>3. CASE task[x].stage \in {"last", "reading", "reply", "fanout"}
    <3>1. Len(queue'[user[x]]) <= Len(queue[user[x]])
      BY <2>1, <2>3 DEF Open
    <3> QED  BY <2>1, <2>2, <2>3, <3>1 DEF Unstranded
  <2>4. CASE task[x].stage = "drain"
    <3>1. Len(queue'[user[x]]) <= Len(queue[user[x]])
      BY <2>1, <2>4 DEF Open
    <3>2. task[x].left \in Nat
      BY DEF IInv, TypeOK, Frames
    <3> QED  BY <2>1, <2>2, <2>4, <3>1, <3>2 DEF Unstranded
  <2> QED  BY <2>1, <2>3, <2>4 DEF Unstranded
<1>3. NothingStranded'
  BY <1>2 DEF NothingStranded, Unstranded
<1> QED  BY <1>1, <1>3 DEF IInv

(* A step that leaves the queues and the users alone.                      *)
LEMMA QuietStepKeeps ==
    ASSUME IInv, NEW t \in Clients,
           task' \in [Clients -> Frames],
           \A x \in Clients \ {t} : task'[x] = task[x],
           connected_clients' \in [Users -> Seq(Clients)],
           RegistryConsistent',
           user' = user, queue' = queue, peer' \in [Clients -> {"up", "down"}],
           received' \in [Clients -> Seq(Lines)],
           lines' \in [Clients -> Nat], due' = due,
           FrameOK(t)', Unstranded(t)'
    PROVE  IInv'
<1>1. ASSUME NEW x \in Clients, user[x] # None
      PROVE  Len(queue'[user[x]]) <= Len(queue[user[x]])
  BY <1>1 DEF IInv, TypeOK
<1> QED  BY <1>1, StepKeeps DEF IInv, TypeOK

(* What send_all puts on a stream is a line.                               *)
LEMMA SendReturnsType ==
    ASSUME TypeOK, NEW t \in Clients, task[t].stage \in Sending, SendReturns(t)
    PROVE  received' \in [Clients -> Seq(Lines)]
BY DEF TypeOK, FrameOK, SendReturns

(* A frame for a send on the task's own stream.                            *)
LEMMA FrameType ==
    ASSUME NEW t \in Clients, NEW l \in Lines, NEW st \in Sending
    PROVE  /\ Frame(st, t, l) \in Frames
           /\ Frame(st, t, l).stage = st
           /\ Frame(st, t, l).on = t
           /\ Frame(st, t, l).line = l
<1>1. <<>> \in Seq(Users) /\ 1 \in Nat \ {0} /\ 0 \in Nat /\ st \in Stages
  BY DEF Stages
<1> QED  BY <1>1 DEF Frame, Frames

(* The same with a count of what is left to do.                            *)
LEMMA CountedFrameType ==
    ASSUME NEW t \in Clients, NEW l \in Lines, NEW st \in Sending, NEW n \in Nat
    PROVE  /\ [Frame(st, t, l) EXCEPT !.left = n] \in Frames
           /\ [Frame(st, t, l) EXCEPT !.left = n].stage = st
           /\ [Frame(st, t, l) EXCEPT !.left = n].on = t
           /\ [Frame(st, t, l) EXCEPT !.left = n].line = l
           /\ [Frame(st, t, l) EXCEPT !.left = n].left = n
<1> DEFINE rec(k) == [stage |-> st, on |-> t, line |-> l, left |-> k, rest |-> <<>>, pos |-> 1]
<1>1. <<>> \in Seq(Users) /\ 1 \in Nat \ {0} /\ st \in Stages
  BY DEF Stages
<1>2. rec(n) \in Frames
  BY <1>1 DEF Frames
<1>3. Frame(st, t, l) = rec(0)
  BY DEF Frame
<1>4. [rec(0) EXCEPT !.left = n] = rec(n)
  OBVIOUS
<1> QED  BY <1>2, <1>3, <1>4

LEMMA IdleFrames ==
    /\ Closed \in Frames /\ Closed.stage = "closed" /\ Closed.on = None
    /\ Reading \in Frames /\ Reading.stage = "reading" /\ Reading.on = None
    /\ Absent \in Frames /\ Absent.stage = "absent" /\ Absent.on = None
BY DEF Closed, Reading, Absent, Frame, Frames, Stages

LEMMA LineType ==
    ASSUME NEW k \in Replies
    PROVE  Line(k) \in Lines
BY DEF Line, Lines

(* A frame for a send of one of the server's own lines.                    *)
LEMMA ReplyFrameType ==
    ASSUME NEW t \in Clients, NEW k \in Replies, NEW st \in Sending
    PROVE  /\ Frame(st, t, Line(k)) \in Frames
           /\ Frame(st, t, Line(k)).stage = st
           /\ Frame(st, t, Line(k)).on = t
           /\ Frame(st, t, Line(k)).line \in Lines
<1>1. Line(k) \in Lines
  BY LineType
<1> QED  BY <1>1, FrameType

-----------------------------------------------------------------------------
(* One lemma for each action.                                              *)

LEMMA ConnectKeeps ==
    ASSUME IInv, NEW t \in Clients, Connect(t)
    PROVE  IInv'
<1> DEFINE f == Frame("motd", t, Line("MOTD"))
<1>1. /\ f \in Frames /\ f.stage = "motd" /\ f.on = t /\ f.line \in Lines
  <2>1. "motd" \in Sending /\ "MOTD" \in Replies
    BY DEF Sending, Replies
  <2> QED  BY <2>1, ReplyFrameType
<1>2. user[t] = None /\ ~Open(t)
  BY IdleFrames DEF IInv, TypeOK, FrameOK, Connect, Open
<1>3. RightFor(connected_clients, t, None)
  BY <1>2, ConfigAssumption DEF IInv, TypeOK, RegistryConsistent, RightFor, Distinct
<1>4. user' = [user EXCEPT ![t] = None]
  BY <1>2 DEF Connect, IInv, TypeOK
<1>5. Begin(t, f, connected_clients, None)
  BY <1>2 DEF Connect, BeginOwn
<1> HIDE DEF f
<1>6. /\ task' \in [Clients -> Frames]
      /\ \A x \in Clients \ {t} : task'[x] = task[x]
      /\ task'[t] \in {f, Closed}
      /\ connected_clients' \in [Users -> Seq(Clients)]
      /\ RegistryConsistent'
  BY <1>1, <1>3, <1>4, <1>5, BeginKeeps DEF IInv, Sending
<1>7. FrameOK(t)' /\ Unstranded(t)'
  BY <1>1, <1>2, <1>6, IdleFrames DEF FrameOK, Unstranded, Sending, Connect
<1> QED  BY <1>6, <1>7, QuietStepKeeps DEF Connect, IInv, TypeOK

LEMMA GreetKeeps ==
    ASSUME IInv, NEW t \in Clients, Greet(t)
    PROVE  IInv'
<1> DEFINE f == Frame("cert", t, Line("CLIENT_CERT"))
<1>1. /\ f \in Frames /\ f.stage = "cert" /\ f.on = t /\ f.line \in Lines
  <2>1. "cert" \in Sending /\ "CLIENT_CERT" \in Replies
    BY DEF Sending, Replies
  <2> QED  BY <2>1, ReplyFrameType
<1>2. user[t] = None /\ Open(t) /\ task[t].stage \in Sending
  BY DEF IInv, TypeOK, FrameOK, Greet, Open, Sending
<1>3. BeginOwn(t, f) /\ user' = user
  BY DEF Greet
<1> HIDE DEF f
<1>4. /\ task' \in [Clients -> Frames]
      /\ \A x \in Clients \ {t} : task'[x] = task[x]
      /\ task'[t] \in {f, Closed}
      /\ connected_clients' \in [Users -> Seq(Clients)]
      /\ RegistryConsistent'
  BY <1>1, <1>2, <1>3, BeginOwnKeeps DEF Sending
<1>5. FrameOK(t)' /\ Unstranded(t)'
  BY <1>1, <1>2, <1>4, IdleFrames DEF FrameOK, Unstranded, Sending, Greet
<1>6. received' \in [Clients -> Seq(Lines)]
  BY <1>2, SendReturnsType DEF Greet, IInv
<1> QED  BY <1>4, <1>5, <1>6, QuietStepKeeps DEF Greet, IInv, TypeOK

LEMMA ReadOnKeeps ==
    ASSUME IInv, NEW t \in Clients, ReadOn(t)
    PROVE  IInv'
<1>1. task[t].stage \in Sending /\ Open(t)
  BY DEF ReadOn, Sending, Open
<1>2. /\ task' \in [Clients -> Frames]
      /\ \A x \in Clients \ {t} : task'[x] = task[x]
      /\ task'[t] = Reading
  BY IdleFrames DEF ReadOn, IInv, TypeOK
<1>3. \A x \in Clients : Open(x)' <=> Open(x)
  BY <1>1, <1>2, IdleFrames DEF Open
<1>4. RegistryConsistent'
  BY <1>3 DEF ReadOn, IInv, RegistryConsistent
<1>5. FrameOK(t)'
  BY <1>2, IdleFrames DEF FrameOK, Sending
<1>6. Unstranded(t)'
  <2>1. CASE task[t].stage = "cert"
    BY <2>1, <1>2 DEF ReadOn, IInv, TypeOK, FrameOK, Unstranded
  <2>2. CASE task[t].stage \in {"reply", "last"}
    BY <2>2, <1>2, IdleFrames DEF ReadOn, IInv, NothingStranded, Unstranded
  <2> QED  BY <2>1, <2>2 DEF ReadOn
<1>7. received' \in [Clients -> Seq(Lines)]
  BY <1>1, SendReturnsType DEF ReadOn, IInv
<1> QED  BY <1>2, <1>4, <1>5, <1>6, <1>7, QuietStepKeeps DEF ReadOn, IInv, TypeOK

LEMMA AnswerKeeps ==
    ASSUME IInv, NEW t \in Clients, Answer(t)
    PROVE  IInv'
<1> DEFINE f == Frame("reply", t, Line("ANSWER"))
<1>1. /\ f \in Frames /\ f.stage = "reply" /\ f.on = t /\ f.line \in Lines
  <2>1. "reply" \in Sending /\ "ANSWER" \in Replies
    BY DEF Sending, Replies
  <2> QED  BY <2>1, ReplyFrameType
<1>2. Open(t) /\ task[t].stage = "reading" /\ lines' \in [Clients -> Nat]
  BY DEF IInv, TypeOK, Answer, TakeLine, Open
<1>3. BeginOwn(t, f) /\ user' = user /\ queue' = queue
  BY DEF Answer
<1> HIDE DEF f
<1>4. /\ task' \in [Clients -> Frames]
      /\ \A x \in Clients \ {t} : task'[x] = task[x]
      /\ task'[t] \in {f, Closed}
      /\ connected_clients' \in [Users -> Seq(Clients)]
      /\ RegistryConsistent'
  BY <1>1, <1>2, <1>3, BeginOwnKeeps DEF Sending
<1>5. FrameOK(t)'
  BY <1>1, <1>4, IdleFrames DEF FrameOK, Sending
<1>6. Unstranded(t)'
  BY <1>1, <1>2, <1>3, <1>4, IdleFrames DEF IInv, NothingStranded, Unstranded
<1> QED  BY <1>2, <1>3, <1>4, <1>5, <1>6, QuietStepKeeps DEF Answer, IInv, TypeOK

LEMMA LoginKeeps ==
    ASSUME IInv, NEW t \in Clients, NEW u \in Users, Login(t, u)
    PROVE  IInv'
<1> DEFINE n == Cardinality(InChannels(u))
           f == [Frame("burst", t, Line("LOGIN_GOOD")) EXCEPT !.left = n]
           reg == [connected_clients EXCEPT ![u] = Append(@, t)]
<1>1. n \in Nat
  BY FS_CardinalityType, FS_Subset, ConfigAssumption DEF InChannels
<1> HIDE DEF n
<1>2. /\ f \in Frames /\ f.stage = "burst" /\ f.on = t /\ f.line \in Lines
  <2>1. "burst" \in Sending /\ Line("LOGIN_GOOD") \in Lines
    BY LineType DEF Sending, Replies
  <2> QED  BY <2>1, <1>1, CountedFrameType
<1>3. /\ user[t] = None /\ u # None /\ Open(t) /\ task[t].stage = "reading"
      /\ lines' \in [Clients -> Nat]
      /\ user' = [user EXCEPT ![t] = u] /\ queue' = queue
  BY ConfigAssumption DEF IInv, TypeOK, Login, TakeLine, Open
<1>4. RightFor(reg, t, u)
  <2>1. \A v \in Users : /\ connected_clients[v] \in Seq(Clients)
                         /\ Distinct(connected_clients[v])
                         /\ t \notin ToSet(connected_clients[v])
    BY <1>3, ConfigAssumption DEF IInv, TypeOK, RegistryConsistent, Distinct
  <2>2. /\ Append(connected_clients[u], t) \in Seq(Clients)
        /\ Distinct(Append(connected_clients[u], t))
        /\ ToSet(Append(connected_clients[u], t)) = ToSet(connected_clients[u]) \cup {t}
    BY <2>1, AppendAdds
  <2>3. reg \in [Users -> Seq(Clients)]
    BY <2>2 DEF IInv, TypeOK
  <2>4. \A v \in Users : reg[v] = IF v = u THEN Append(connected_clients[u], t)
                                           ELSE connected_clients[v]
    BY DEF IInv, TypeOK
  <2> HIDE DEF reg
  <2>5. ASSUME NEW v \in Users
        PROVE  /\ Distinct(reg[v])
               /\ \A c \in Clients : c \in ToSet(reg[v]) <=>
                     IF c = t THEN u = v ELSE Open(c) /\ user[c] = v
    <3>1. \A c \in Clients : c \in ToSet(connected_clients[v]) <=> Open(c) /\ user[c] = v
      BY DEF IInv, RegistryConsistent
    <3>2. CASE v = u
      BY <3>1, <3>2, <2>1, <2>2, <2>4
    <3>3. CASE v # u
      <4>1. reg[v] = connected_clients[v]
        BY <3>3, <2>4
      <4> QED  BY <4>1, <3>1, <3>3, <2>1
    <3> QED  BY <3>2, <3>3
  <2> QED  BY <2>3, <2>5 DEF RightFor
<1>5. Begin(t, f, reg, u)
  BY DEF Login, n
<1> HIDE DEF f, reg
<1>6. /\ task' \in [Clients -> Frames]
      /\ \A x \in Clients \ {t} : task'[x] = task[x]
      /\ task'[t] \in {f, Closed}
      /\ connected_clients' \in [Users -> Seq(Clients)]
      /\ RegistryConsistent'
  BY <1>2, <1>3, <1>4, <1>5, BeginKeeps DEF IInv, Sending
<1>7. /\ user' \in [Clients -> Users \cup {None}]
      /\ user'[t] = u
      /\ \A x \in Clients \ {t} : user'[x] = user[x]
  BY <1>3 DEF IInv, TypeOK
<1>8. FrameOK(t)' /\ Unstranded(t)'
  BY <1>2, <1>3, <1>6, <1>7, IdleFrames DEF FrameOK, Unstranded, Sending
<1>9. \A x \in Clients \ {t} : Open(x) /\ user[x] # None
                => Len(queue'[user[x]]) <= Len(queue[user[x]])
  BY <1>3 DEF IInv, TypeOK
<1> QED  BY <1>3, <1>6, <1>7, <1>8, <1>9, StepKeeps DEF Login, IInv, TypeOK

LEMMA BurstStepKeeps ==
    ASSUME IInv, NEW t \in Clients, BurstStep(t)
    PROVE  IInv'
<1> DEFINE f == IF task[t].left > 0
                THEN [Frame("burst", t, Line("JOIN")) EXCEPT !.left = task[t].left - 1]
                ELSE Frame("endburst", t, Line("END_BURST"))
<1>1. /\ f \in Frames /\ f.stage \in {"burst", "endburst"} /\ f.on = t /\ f.line \in Lines
  <2>1. /\ "burst" \in Sending /\ "endburst" \in Sending
        /\ Line("JOIN") \in Lines /\ "END_BURST" \in Replies
    BY LineType DEF Sending, Replies
  <2>2. task[t].left \in Nat
    BY DEF IInv, TypeOK, Frames
  <2>3. CASE task[t].left > 0
    <3>1. task[t].left - 1 \in Nat
      BY <2>2, <2>3
    <3> QED  BY <2>1, <2>3, <3>1, CountedFrameType
  <2>4. CASE ~(task[t].left > 0)
    BY <2>1, <2>4, ReplyFrameType
  <2> QED  BY <2>3, <2>4
<1>2. /\ user[t] # None /\ Open(t) /\ task[t].stage \in Sending
      /\ user' = user /\ BeginOwn(t, f)
  BY DEF IInv, TypeOK, FrameOK, BurstStep, Open, Sending
<1> HIDE DEF f
<1>3. /\ task' \in [Clients -> Frames]
      /\ \A x \in Clients \ {t} : task'[x] = task[x]
      /\ task'[t] \in {f, Closed}
      /\ connected_clients' \in [Users -> Seq(Clients)]
      /\ RegistryConsistent'
  BY <1>1, <1>2, BeginOwnKeeps DEF Sending
<1>4. FrameOK(t)' /\ Unstranded(t)'
  BY <1>1, <1>2, <1>3, IdleFrames DEF FrameOK, Unstranded, Sending
<1>5. received' \in [Clients -> Seq(Lines)]
  BY <1>2, SendReturnsType DEF BurstStep, IInv
<1> QED  BY <1>3, <1>4, <1>5, QuietStepKeeps DEF BurstStep, IInv, TypeOK

(* END_OFFLINE_MESSAGES may be sent once the queue is empty.               *)
LEMMA FinishLoginKeeps ==
    ASSUME IInv, NEW t \in Clients, user[t] # None, task[t].stage \in Sending,
           queue[user[t]] = <<>>, SendReturns(t), FinishLogin(t),
           UNCHANGED <<user, peer, lines, due>>
    PROVE  IInv'
<1> DEFINE f == Frame("last", t, Line("END_OFFLINE_MESSAGES"))
<1>1. /\ f \in Frames /\ f.stage = "last" /\ f.on = t /\ f.line \in Lines
  <2>1. "last" \in Sending /\ "END_OFFLINE_MESSAGES" \in Replies
    BY DEF Sending, Replies
  <2> QED  BY <2>1, ReplyFrameType
<1>2. Open(t) /\ BeginOwn(t, f) /\ queue' = queue
  BY DEF FinishLogin, Open, Sending
<1> HIDE DEF f
<1>3. /\ task' \in [Clients -> Frames]
      /\ \A x \in Clients \ {t} : task'[x] = task[x]
      /\ task'[t] \in {f, Closed}
      /\ connected_clients' \in [Users -> Seq(Clients)]
      /\ RegistryConsistent'
  BY <1>1, <1>2, BeginOwnKeeps DEF Sending
<1>4. FrameOK(t)' /\ Unstranded(t)'
  BY <1>1, <1>2, <1>3, IdleFrames DEF FrameOK, Unstranded, Sending
<1>5. received' \in [Clients -> Seq(Lines)]
  BY SendReturnsType DEF IInv
<1> QED  BY <1>2, <1>3, <1>4, <1>5, QuietStepKeeps DEF IInv, TypeOK

(* An iteration that pops a message keeps the bound for the task itself,   *)
(* and other logins of the user find a shorter queue.                      *)
LEMMA PopAndQuoteKeeps ==
    ASSUME IInv, NEW t \in Clients, user[t] # None, task[t].stage \in Sending,
           queue[user[t]] # <<>>, NEW n \in Nat, Len(queue[user[t]]) <= n + 1,
           SendReturns(t), PopAndQuote(t, n),
           UNCHANGED <<user, peer, lines, due>>
    PROVE  IInv'
<1> DEFINE u == user[t]
           q == queue[u]
           f == [Frame("drain", t, Head(q)) EXCEPT !.left = n]
<1>1. u \in Users /\ q \in Seq(Messages) /\ q # <<>> /\ u # None
  BY DEF IInv, TypeOK
<1>2. /\ Head(q) \in Messages /\ Tail(q) \in Seq(Messages)
      /\ Len(q) \in Nat /\ Len(Tail(q)) = Len(q) - 1
  BY <1>1
<1>3. /\ f \in Frames /\ f.stage = "drain" /\ f.on = t /\ f.line \in Lines /\ f.left = n
  <2>1. "drain" \in Sending /\ Head(q) \in Lines
    BY <1>2 DEF Sending, Lines
  <2> HIDE DEF q
  <2> QED  BY <2>1, CountedFrameType
<1>4. Open(t) /\ BeginOwn(t, f) /\ queue' = [queue EXCEPT ![u] = Tail(q)]
  BY DEF PopAndQuote, Open, Sending
<1> HIDE DEF f
<1>5. /\ task' \in [Clients -> Frames]
      /\ \A x \in Clients \ {t} : task'[x] = task[x]
      /\ task'[t] \in {f, Closed}
      /\ connected_clients' \in [Users -> Seq(Clients)]
      /\ RegistryConsistent'
  BY <1>3, <1>4, BeginOwnKeeps DEF Sending
<1>6. /\ queue' \in [Users -> Seq(Messages)]
      /\ queue'[u] = Tail(q)
      /\ \A v \in Users : Len(queue'[v]) <= Len(queue[v])
  BY <1>1, <1>2, <1>4 DEF IInv, TypeOK
<1>7. FrameOK(t)'
  BY <1>1, <1>3, <1>5, IdleFrames DEF FrameOK, Sending
<1>8. Unstranded(t)'
  <2>1. Len(queue'[u]) <= n
    BY <1>2, <1>6
  <2>2. CASE task'[t] = Closed
    BY <2>2, IdleFrames DEF Unstranded
  <2>3. CASE task'[t] = f
    BY <2>1, <2>3, <1>3 DEF Unstranded
  <2> QED  BY <1>5, <2>2, <2>3
<1>9. received' \in [Clients -> Seq(Lines)]
  BY SendReturnsType DEF IInv
<1>10. \A x \in Clients \ {t} : Open(x) /\ user[x] # None
                => Len(queue'[user[x]]) <= Len(queue[user[x]])
  BY <1>6 DEF IInv, TypeOK
<1> QED  BY <1>5, <1>6, <1>7, <1>8, <1>9, <1>10, StepKeeps DEF IInv, TypeOK

LEMMA StartDrainKeeps ==
    ASSUME IInv, NEW t \in Clients, StartDrain(t)
    PROVE  IInv'
<1>1. /\ task[t].stage \in Sending /\ user[t] # None
      /\ queue[user[t]] \in Seq(Messages)
  BY DEF IInv, TypeOK, FrameOK, StartDrain, Sending
<1>2. SendReturns(t) /\ UNCHANGED <<user, peer, lines, due>>
  BY DEF StartDrain
<1>3. CASE queue[user[t]] = <<>>
  BY <1>1, <1>2, <1>3, FinishLoginKeeps DEF StartDrain
<1>4. CASE queue[user[t]] # <<>>
  <2> DEFINE n == Len(queue[user[t]]) - 1
  <2>1. n \in Nat /\ Len(queue[user[t]]) <= n + 1
    BY <1>1, <1>4
  <2>2. PopAndQuote(t, n)
    BY <1>4 DEF StartDrain
  <2> HIDE DEF n
  <2> QED  BY <1>1, <1>2, <1>4, <2>1, <2>2, PopAndQuoteKeeps
<1> QED  BY <1>3, <1>4

LEMMA DrainStepKeeps ==
    ASSUME IInv, NEW t \in Clients, DrainStep(t)
    PROVE  IInv'
<1>1. /\ task[t].stage \in Sending /\ Open(t) /\ user[t] # None
      /\ queue[user[t]] \in Seq(Messages)
      /\ task[t].left \in Nat /\ Len(queue[user[t]]) <= task[t].left
  BY DEF IInv, TypeOK, FrameOK, NothingStranded, DrainStep, Sending, Open, Frames
<1>2. SendReturns(t) /\ UNCHANGED <<user, peer, lines, due>>
  BY DEF DrainStep
<1>3. CASE task[t].left = 0 /\ FinishLogin(t)
  <2>1. queue[user[t]] = <<>>
    BY <1>1, <1>3
  <2> QED  BY <1>1, <1>2, <1>3, <2>1, FinishLoginKeeps
<1>4. CASE task[t].left > 0 /\ queue[user[t]] # <<>> /\ PopAndQuote(t, task[t].left - 1)
  <2> DEFINE n == task[t].left - 1
  <2>1. n \in Nat /\ Len(queue[user[t]]) <= n + 1 /\ PopAndQuote(t, n)
    BY <1>1, <1>4
  <2> HIDE DEF n
  <2> QED  BY <1>1, <1>2, <1>4, <2>1, PopAndQuoteKeeps
<1>5. CASE Leave(t) /\ queue' = queue
  <2>1. /\ task' \in [Clients -> Frames]
        /\ \A x \in Clients \ {t} : task'[x] = task[x]
        /\ task'[t] = Closed
        /\ connected_clients' \in [Users -> Seq(Clients)]
        /\ RegistryConsistent'
    BY <1>1, <1>2, <1>5, LeaveKeeps
  <2>2. FrameOK(t)' /\ Unstranded(t)'
    BY <2>1, IdleFrames DEF FrameOK, Unstranded, Sending
  <2>3. received' \in [Clients -> Seq(Lines)]
    BY <1>1, <1>2, SendReturnsType DEF IInv
  <2> QED  BY <1>2, <1>5, <2>1, <2>2, <2>3, QuietStepKeeps DEF IInv, TypeOK
<1> QED  BY <1>3, <1>4, <1>5 DEF DrainStep

(* The frame of a fan-out that waits on a client of the registry.          *)
LEMMA FanoutFrameType ==
    ASSUME TypeOK, NEW m \in Messages, NEW rest \in Seq(Users), rest # <<>>,
           NEW pos \in 1 .. Len(connected_clients[Head(rest)])
    PROVE  /\ FanoutFrame(m, rest, pos) \in Frames
           /\ FanoutFrame(m, rest, pos).stage = "fanout"
           /\ FanoutFrame(m, rest, pos).on \in Clients
           /\ FanoutFrame(m, rest, pos).line = m
           /\ FanoutFrame(m, rest, pos).rest = rest
<1> DEFINE c == connected_clients[Head(rest)][pos]
           rec == [stage |-> "fanout", on |-> c, line |-> m, left |-> 0,
                   rest |-> rest, pos |-> pos + 1]
<1>1. Head(rest) \in Users
  OBVIOUS
<1>2. c \in Clients /\ pos + 1 \in Nat \ {0}
  BY <1>1 DEF TypeOK
<1>3. FanoutFrame(m, rest, pos) = rec
  BY DEF FanoutFrame
<1> HIDE DEF c
<1>4. rec \in Frames
  <2>1. "fanout" \in Stages /\ m \in Lines \cup {None}
    BY DEF Stages, Sending, Lines
  <2> QED  BY <1>2, <2>1 DEF Frames
<1> QED  BY <1>2, <1>3, <1>4

(* send() queues a message only for users without an open client.          *)
LEMMA DeliverKeeps ==
    ASSUME IInv, NEW t \in Clients, Open(t), user[t] # None, queue[user[t]] = <<>>,
           NEW m \in Messages, NEW rest \in Seq(Users), Deliver(t, m, rest),
           user' = user, peer' = peer, received' \in [Clients -> Seq(Lines)],
           lines' \in [Clients -> Nat]
    PROVE  IInv'
<1> DEFINE skipped(k) == {rest[i] : i \in 1 .. k}
           reached(k) == {<<m, u, {}>> : u \in skipped(k)}
           live(k) == {<<m, rest[k + 1], ToSet(connected_clients[rest[k + 1]])>>}
           tail(k) == SubSeq(rest, k + 1, Len(rest))
<1>1. PICK k \in 0 .. Len(rest) :
        /\ \A u \in skipped(k) : Offline(u)
        /\ queue' = [u \in Users |-> IF u \in skipped(k) THEN Append(queue[u], m)
                                                       ELSE queue[u]]
        /\ \/ /\ k = Len(rest)
              /\ task' = [task EXCEPT ![t] = Reading]
              /\ due' = due \cup reached(k)
              /\ UNCHANGED connected_clients
           \/ /\ k < Len(rest)
              /\ ~Offline(rest[k + 1])
              /\ due' = due \cup reached(k) \cup live(k)
              /\ BeginOwn(t, FanoutFrame(m, tail(k), 1))
  BY DEF Deliver
<1>2. skipped(k) \subseteq Users /\ \A u \in skipped(k) : Offline(u)
  BY <1>1
<1>3. reached(k) \subseteq Messages \X Users \X SUBSET Clients
  BY <1>2
<1> HIDE DEF skipped, reached
<1>4. queue' \in [Users -> Seq(Messages)]
  BY <1>1 DEF IInv, TypeOK
<1>5. ASSUME NEW x \in Clients, Open(x), user[x] # None
      PROVE  user[x] \in Users /\ queue'[user[x]] = queue[user[x]]
  <2>1. user[x] \in Users
    BY <1>5 DEF IInv, TypeOK
  <2>2. x \in ToSet(connected_clients[user[x]])
    BY <1>5, <2>1 DEF IInv, RegistryConsistent
  <2>3. ~Offline(user[x])
    BY <2>2 DEF Offline, ToSet
  <2> QED  BY <1>1, <1>2, <2>1, <2>3
<1>6. queue'[user'[t]] = <<>>
  BY <1>5
<1>7. \A x \in Clients \ {t} : Open(x) /\ user[x] # None
                => Len(queue'[user[x]]) <= Len(queue[user[x]])
  BY <1>5, <1>4 DEF IInv, TypeOK
<1>8. CASE /\ task' = [task EXCEPT ![t] = Reading]
           /\ due' = due \cup reached(k)
           /\ UNCHANGED connected_clients
  <2>1. /\ task' \in [Clients -> Frames]
        /\ \A x \in Clients \ {t} : task'[x] = task[x]
        /\ task'[t] = Reading
    BY <1>8, IdleFrames DEF IInv, TypeOK
  <2>2. \A x \in Clients : Open(x)' <=> Open(x)
    BY <2>1, IdleFrames DEF Open
  <2>3. RegistryConsistent'
    BY <1>8, <2>2 DEF IInv, RegistryConsistent
  <2>4. FrameOK(t)' /\ Unstranded(t)'
    BY <2>1, <1>6, IdleFrames DEF FrameOK, Unstranded, Sending
  <2>5. due' \subseteq Messages \X Users \X SUBSET Clients
    BY <1>3, <1>8 DEF IInv, TypeOK
  <2> QED  BY <1>4, <1>7, <1>8, <2>1, <2>3, <2>4, <2>5, StepKeeps DEF IInv, TypeOK
<1>9. CASE /\ k < Len(rest)
           /\ ~Offline(rest[k + 1])
           /\ due' = due \cup reached(k) \cup live(k)
           /\ BeginOwn(t, FanoutFrame(m, tail(k), 1))
  <2>1. /\ tail(k) \in Seq(Users) /\ tail(k) # <<>>
        /\ Head(tail(k)) = rest[k + 1] /\ rest[k + 1] \in Users
    <3>1. k \in Nat /\ Len(rest) \in Nat /\ k + 1 \in 1 .. Len(rest)
      BY <1>9
    <3>2. /\ tail(k) \in Seq(Users)
          /\ Len(tail(k)) = Len(rest) - k
          /\ tail(k)[1] = rest[k + 1]
      BY <3>1
    <3> HIDE DEF tail
    <3>3. tail(k) # <<>> /\ Head(tail(k)) = tail(k)[1]
      BY <3>1, <3>2
    <3> QED  BY <3>1, <3>2, <3>3
  <2>2. 1 \in 1 .. Len(connected_clients[Head(tail(k))])
    <3>1. /\ connected_clients[rest[k + 1]] \in Seq(Clients)
          /\ connected_clients[rest[k + 1]] # <<>>
      BY <1>9, <2>1 DEF Offline, IInv, TypeOK
    <3> QED  BY <3>1, <2>1
  <2>3. live(k) \subseteq Messages \X Users \X SUBSET Clients
    <3>1. connected_clients[rest[k + 1]] \in Seq(Clients)
      BY <2>1 DEF IInv, TypeOK
    <3>2. ToSet(connected_clients[rest[k + 1]]) \subseteq Clients
      BY <3>1 DEF ToSet
    <3> QED  BY <3>2, <2>1
  <2> DEFINE f == FanoutFrame(m, tail(k), 1)
  <2> HIDE DEF live, tail
  <2>4. /\ f \in Frames /\ f.stage = "fanout" /\ f.on \in Clients
        /\ f.line = m /\ f.rest # <<>>
    BY <2>1, <2>2, FanoutFrameType DEF IInv
  <2>5. BeginOwn(t, f)
    BY <1>9
  <2> HIDE DEF f
  <2>6. /\ task' \in [Clients -> Frames]
        /\ \A x \in Clients \ {t} : task'[x] = task[x]
        /\ task'[t] \in {f, Closed}
        /\ connected_clients' \in [Users -> Seq(Clients)]
        /\ RegistryConsistent'
    BY <2>4, <2>5, BeginOwnKeeps DEF Sending
  <2>7. FrameOK(t)' /\ Unstranded(t)'
    BY <2>4, <2>6, <1>6, IdleFrames DEF FrameOK, Unstranded, Sending, Lines
  <2>8. due' \subseteq Messages \X Users \X SUBSET Clients
    BY <1>3, <1>9, <2>3 DEF IInv, TypeOK
  <2> QED  BY <1>4, <1>7, <2>6, <2>7, <2>8, StepKeeps DEF IInv, TypeOK
<1> QED  BY <1>1, <1>8, <1>9

(* A logged-in task that takes a line posts message number lines + 1.      *)
LEMMA PostType ==
    ASSUME IInv, NEW t \in Clients, TakeLine(t), user[t] # None,
           NEW target \in Users \cup Channels
    PROVE  /\ Open(t) /\ queue[user[t]] = <<>>
           /\ Message(t, target) \in Messages
           /\ lines' \in [Clients -> Nat]
<1>1. Open(t) /\ queue[user[t]] = <<>>
  BY DEF TakeLine, Open, IInv, NothingStranded
<1>2. lines[t] + 1 \in Nat /\ lines' \in [Clients -> Nat]
  BY DEF TakeLine, IInv, TypeOK
<1>3. Message(t, target) \in Messages
  BY <1>2 DEF Message, Messages
<1> QED  BY <1>1, <1>2, <1>3

LEMMA PrivmsgKeeps ==
    ASSUME IInv, NEW t \in Clients, NEW u \in Users, Privmsg(t, u)
    PROVE  IInv'
<1> DEFINE m == Message(t, u)
           rest == PrivmsgTargets(t, u)
<1>1. /\ Open(t) /\ user[t] # None /\ queue[user[t]] = <<>>
      /\ m \in Messages /\ lines' \in [Clients -> Nat]
  BY PostType DEF Privmsg
<1>2. user[t] \in Users
  BY <1>1 DEF IInv, TypeOK
<1>3. rest \in Seq(Users)
  BY <1>2 DEF PrivmsgTargets
<1>4. Deliver(t, m, rest) /\ UNCHANGED <<user, peer, received>>
  BY DEF Privmsg
<1> HIDE DEF m, rest
<1> QED  BY <1>1, <1>3, <1>4, DeliverKeeps DEF IInv, TypeOK

LEMMA ChanmsgKeeps ==
    ASSUME IInv, NEW t \in Clients, NEW ch \in Channels, Chanmsg(t, ch)
    PROVE  IInv'
<1> DEFINE m == Message(t, ch)
           rest == Members[ch]
<1>1. /\ Open(t) /\ user[t] # None /\ queue[user[t]] = <<>>
      /\ m \in Messages /\ lines' \in [Clients -> Nat]
  BY PostType DEF Chanmsg
<1>2. rest \in Seq(Users)
  BY ConfigAssumption
<1>3. Deliver(t, m, rest) /\ UNCHANGED <<user, peer, received>>
  BY DEF Chanmsg
<1> HIDE DEF m, rest
<1> QED  BY <1>1, <1>2, <1>3, DeliverKeeps DEF IInv, TypeOK

LEMMA FanoutStepKeeps ==
    ASSUME IInv, NEW t \in Clients, FanoutStep(t)
    PROVE  IInv'
<1> DEFINE m == task[t].line
           rest == task[t].rest
           pos == task[t].pos
<1>1. /\ task[t].stage = "fanout" /\ SendReturns(t)
      /\ user' = user /\ peer' = peer /\ lines' = lines
  BY DEF FanoutStep
<1>2. /\ Open(t) /\ user[t] # None /\ task[t].stage \in Sending
      /\ queue[user[t]] = <<>> /\ m \in Messages
      /\ rest \in Seq(Users) /\ rest # <<>> /\ pos \in Nat \ {0}
  BY <1>1 DEF IInv, TypeOK, FrameOK, NothingStranded, Open, Frames, Sending
<1>3. received' \in [Clients -> Seq(Lines)]
  BY <1>1, <1>2, SendReturnsType DEF IInv
<1>4. CASE /\ pos <= Len(connected_clients[Head(rest)])
           /\ BeginOwn(t, FanoutFrame(m, rest, pos))
           /\ UNCHANGED <<queue, due>>
  <2> DEFINE f == FanoutFrame(m, rest, pos)
  <2>1. Head(rest) \in Users
    BY <1>2
  <2>2. pos \in 1 .. Len(connected_clients[Head(rest)])
    BY <1>2, <1>4, <2>1 DEF IInv, TypeOK
  <2>3. /\ f \in Frames /\ f.stage = "fanout" /\ f.on \in Clients
        /\ f.line = m /\ f.rest = rest
    BY <1>2, <2>2, FanoutFrameType DEF IInv
  <2> HIDE DEF f
  <2>4. BeginOwn(t, f)
    BY <1>4 DEF f
  <2>5. /\ task' \in [Clients -> Frames]
        /\ \A x \in Clients \ {t} : task'[x] = task[x]
        /\ task'[t] \in {f, Closed}
        /\ connected_clients' \in [Users -> Seq(Clients)]
        /\ RegistryConsistent'
    BY <1>1, <1>2, <2>3, <2>4, BeginOwnKeeps DEF Sending
  <2>6. FrameOK(t)' /\ Unstranded(t)'
    BY <1>1, <1>2, <1>4, <2>3, <2>5, IdleFrames DEF FrameOK, Unstranded, Sending, Lines
  <2> QED  BY <1>1, <1>3, <1>4, <2>5, <2>6, QuietStepKeeps DEF IInv, TypeOK
<1>5. CASE Deliver(t, m, Tail(rest))
  <2>1. Tail(rest) \in Seq(Users) /\ lines' \in [Clients -> Nat]
    BY <1>1, <1>2 DEF IInv, TypeOK
  <2> HIDE DEF m, rest
  <2> QED  BY <1>1, <1>2, <1>3, <1>5, <2>1, DeliverKeeps
<1> QED  BY <1>4, <1>5 DEF FanoutStep

LEMMA PeerLeavesKeeps ==
    ASSUME IInv, NEW c \in Clients, PeerLeaves(c)
    PROVE  IInv'
<1>1. /\ UNCHANGED <<task, user, connected_clients, queue, received, lines, due>>
      /\ peer' \in [Clients -> {"up", "down"}]
  BY DEF PeerLeaves, IInv, TypeOK
<1>2. FrameOK(c)' /\ Unstranded(c)'
  BY <1>1 DEF IInv, TypeOK, FrameOK, NothingStranded, Unstranded
<1>3. RegistryConsistent'
  BY <1>1 DEF IInv, RegistryConsistent, Open
<1> QED  BY <1>1, <1>2, <1>3, QuietStepKeeps DEF IInv, TypeOK

(* Eof and SendFails end the connection of the task.                       *)
LEMMA LeaveStepKeeps ==
    ASSUME IInv, NEW t \in Clients, Open(t), Leave(t),
           UNCHANGED <<user, queue, peer, received, lines, due>>
    PROVE  IInv'
<1>1. /\ task' \in [Clients -> Frames]
      /\ \A x \in Clients \ {t} : task'[x] = task[x]
      /\ task'[t] = Closed
      /\ connected_clients' \in [Users -> Seq(Clients)]
      /\ RegistryConsistent'
  BY LeaveKeeps
<1>2. FrameOK(t)' /\ Unstranded(t)'
  BY <1>1, IdleFrames DEF FrameOK, Unstranded, Sending
<1> QED  BY <1>1, <1>2, QuietStepKeeps DEF IInv, TypeOK

-----------------------------------------------------------------------------
LEMMA InitIInv == Init => IInv
<1> SUFFICES ASSUME Init  PROVE IInv
  OBVIOUS
<1>1. TypeOK
  BY IdleFrames DEF Init, TypeOK, FrameOK, Sending
<1>2. RegistryConsistent
  BY IdleFrames, ConfigAssumption DEF Init, RegistryConsistent, Open, ToSet
<1>3. NothingStranded
  BY DEF Init, NothingStranded
<1> QED  BY <1>1, <1>2, <1>3 DEF IInv

LEMMA NextIInv == IInv /\ [Next]_vars => IInv'
<1> SUFFICES ASSUME IInv, [Next]_vars  PROVE IInv'
  OBVIOUS
<1>1. ASSUME NEW c \in Clients, Connect(c)  PROVE IInv'
  BY <1>1, ConnectKeeps
<1>2. ASSUME NEW c \in Clients, Step(c)  PROVE IInv'
  <2>1. CASE Eof(c)
    BY <2>1, LeaveStepKeeps DEF Eof, Open
  <2>2. CASE SendFails(c)
    BY <2>2, LeaveStepKeeps DEF SendFails, Open, Sending
  <2> QED  BY <1>2, <2>1, <2>2, GreetKeeps, ReadOnKeeps, BurstStepKeeps,
              StartDrainKeeps, DrainStepKeeps, FanoutStepKeeps DEF Step
<1>3. ASSUME NEW c \in Clients, Command(c)  PROVE IInv'
  BY <1>3, AnswerKeeps, LoginKeeps, PrivmsgKeeps, ChanmsgKeeps DEF Command
<1>4. ASSUME NEW c \in Clients, PeerLeaves(c)  PROVE IInv'
  BY <1>4, PeerLeavesKeeps
<1>5. CASE UNCHANGED vars
  BY <1>5 DEF vars, IInv, TypeOK, FrameOK, RegistryConsistent, Open, NothingStranded
<1> QED  BY <1>1, <1>2, <1>3, <1>4, <1>5 DEF Next, Finished

(* The types and the shape of every frame, for any configuration.          *)
THEOREM TypeCorrect == Spec => []TypeOK
<1>1. IInv => TypeOK
  BY DEF IInv
<1> QED  BY <1>1, InitIInv, NextIInv, PTL DEF Spec

(* connected_clients always lists exactly the open logged-in connections:  *)
(* no send to a deleted stream, no failing remove(), for any number of     *)
(* clients that log in, leave and crash in any order.                      *)
THEOREM RegistryIsConsistent == Spec => []RegistryConsistent
<1>1. IInv => RegistryConsistent
  BY DEF IInv
<1> QED  BY <1>1, InitIInv, NextIInv, PTL DEF Spec

(* A client past its login never has messages of its user waiting, however *)
(* many logins drain the queue at the same time.                           *)
THEOREM NoMessageStranded == Spec => []NothingStranded
<1>1. IInv => NothingStranded
  BY DEF IInv
<1> QED  BY <1>1, InitIInv, NextIInv, PTL DEF Spec

-----------------------------------------------------------------------------
(***************************************************************************)
(* What a step of IdcServer may change, as a few kinds of steps, and the   *)
(* invariant about streams and frames that the proofs about the history    *)
(* (what was received, what was due) start from.                           *)
(***************************************************************************)

(* One task at a time waits in send_all on a stream; somebody else's task  *)
(* does so only after the login of the stream's client.  So a login has    *)
(* its stream to itself from LOGIN_GOOD to END_OFFLINE_MESSAGES.           *)
OneTaskPerStream ==
    \A x, y \in Clients : task[x].on # None /\ task[x].on = task[y].on => x = y

OthersSendAfterLogin ==
    \A x, c \in Clients : x # c /\ task[x].on = c => user[c] # None

(* A frame outside fan-out and drain sends the line of its stage.          *)
PlainFrame(f) ==
    /\ f.stage # "fanout" => f.rest = <<>>
    /\ f.stage \in {"motd", "cert", "burst", "reply"} =>
          f.line.kind \in {"MOTD", "CLIENT_CERT", "LOGIN_GOOD", "JOIN", "ANSWER"}
    /\ f.stage = "endburst" => f.line.kind = "END_BURST"
    /\ f.stage = "last" => f.line.kind = "END_OFFLINE_MESSAGES"

(* A drain sends a message kept for the user; a fan-out sends the task's   *)
(* latest message, to each user once, and is on a stream of the first one. *)
FrameFits(t) ==
    LET f == task[t] IN
    /\ PlainFrame(f)
    /\ f.stage = "drain" => f.line \in Messages /\ <<f.line, user[t], {}>> \in due
    /\ f.stage = "fanout" =>
          /\ f.line.from = t /\ f.line.n = lines[t]
          /\ Distinct(f.rest)
          /\ user[f.on] = Head(f.rest)

(* A queue holds messages that came when the user had no client.           *)
QueuedIsDue == \A u \in Users : \A m \in ToSet(queue[u]) : <<m, u, {}>> \in due

(* Messages are numbered by the lines of their sender.                     *)
DueNumbered == \A d \in due : d[1].n <= lines[d[1].from]

(* A message in fan-out has not reached the users still to come, and was   *)
(* not kept for the one being iterated.                                    *)
NotYetDue ==
    \A d \in due : LET f == task[d[1].from] IN
        f.stage = "fanout" =>
          /\ d[2] \in ToSet(Tail(f.rest)) => d[1].n < lines[d[1].from]
          /\ d[2] = Head(f.rest) /\ d[3] = {} => d[1].n < lines[d[1].from]

StreamInv ==
    /\ OneTaskPerStream /\ OthersSendAfterLogin
    /\ \A t \in Clients : FrameFits(t)
    /\ QueuedIsDue /\ DueNumbered /\ NotYetDue

-----------------------------------------------------------------------------
(* The kinds of steps.                                                     *)

(* Only t moves, and never onto a stream that another task holds.          *)
Moves(t) ==
    /\ \A x \in Clients \ {t} : task'[x] = task[x] /\ lines'[x] = lines[x]
    /\ lines[t] <= lines'[t]
    /\ \A x \in Clients \ {t} : task'[t].on = None \/ task[x].on # task'[t].on

Returned(t) == task[t].stage \in Sending /\ SendReturns(t)

Ended(t) ==
    /\ task'[t] = Closed
    /\ connected_clients' = Unregistered(connected_clients, user[t], t)

OwnMoves ==
    {<<"absent", "motd">>, <<"motd", "cert">>, <<"cert", "reading">>,
     <<"reading", "reply">>, <<"reply", "reading">>, <<"burst", "burst">>,
     <<"burst", "endburst">>, <<"endburst", "last">>, <<"drain", "last">>,
     <<"last", "reading">>}

(* t sends one line of the server's own after the other.                   *)
OwnStep(t) ==
    /\ Moves(t)
    /\ <<task[t].stage, task'[t].stage>> \in OwnMoves
    /\ PlainFrame(task'[t])
    /\ \/ Returned(t)
       \/ task[t].stage \in {"absent", "reading"} /\ received' = received
    /\ UNCHANGED <<user, connected_clients, queue, peer, due>>

(* The connection of t ends: in a read, in a send whose peer or stream is  *)
(* gone, or at the next send.                                              *)
EndStep(t) ==
    /\ Moves(t) /\ Ended(t)
    /\ \/ Returned(t)
       \/ /\ received' = received
          /\ \/ task[t].stage = "reading"
             \/ /\ task[t].stage \in Sending
                /\ peer[task[t].on] = "down" \/ task[task[t].on].stage = "closed"
    /\ UNCHANGED <<user, queue, peer, due>>

LoginStep(t, u) ==
    /\ Moves(t)
    /\ task[t].stage = "reading" /\ user[t] = None
    /\ task'[t].stage = "burst" /\ PlainFrame(task'[t])
    /\ user' = [user EXCEPT ![t] = u]
    /\ connected_clients' = [connected_clients EXCEPT ![u] = Append(@, t)]
    /\ UNCHANGED <<queue, peer, received, due>>

PopStep(t) ==
    /\ Moves(t) /\ Returned(t)
    /\ task[t].stage \in {"endburst", "drain"}
    /\ queue[user[t]] # <<>>
    /\ queue' = [queue EXCEPT ![user[t]] = Tail(@)]
    /\ task'[t].stage = "drain" /\ task'[t].rest = <<>>
    /\ task'[t].line = Head(queue[user[t]])
    /\ UNCHANGED <<user, connected_clients, peer, due>>

(* send() of message m turns to the users rest: the first k are offline.   *)
Firsts(rest, k) == {rest[i] : i \in 1 .. k}
KeptFor(m, us) == {<<m, u, {}>> : u \in us}

Turns(t, m, rest, k) ==
    /\ \A u \in Firsts(rest, k) : Offline(u)
    /\ queue' = [u \in Users |-> IF u \in Firsts(rest, k) THEN Append(queue[u], m)
                                                          ELSE queue[u]]
    /\ \/ /\ k = Len(rest)
          /\ task'[t] = Reading
          /\ due' = due \cup KeptFor(m, Firsts(rest, k))
          /\ UNCHANGED connected_clients
       \/ /\ k < Len(rest)
          /\ ~Offline(rest[k + 1])
          /\ due' = due \cup KeptFor(m, Firsts(rest, k)) \cup
                      {<<m, rest[k + 1], ToSet(connected_clients[rest[k + 1]])>>}
          /\ \/ Ended(t)
             \/ /\ task'[t] = FanoutFrame(m, SubSeq(rest, k + 1, Len(rest)), 1)
                /\ UNCHANGED connected_clients

(* Either t has just read the message, or the iteration over the clients   *)
(* of one user is over.                                                    *)
TurnStep(t, m, rest) ==
    /\ Moves(t)
    /\ m \in Messages /\ m.from = t /\ m.n = lines'[t]
    /\ rest \in Seq(Users) /\ Distinct(rest)
    /\ \/ task[t].stage = "reading" /\ lines[t] < m.n /\ received' = received
       \/ /\ task[t].stage = "fanout" /\ Returned(t) /\ lines'[t] = lines[t]
          /\ m = task[t].line /\ rest = Tail(task[t].rest)
          /\ task[t].pos > Len(connected_clients[Head(task[t].rest)])
    /\ \E k \in 0 .. Len(rest) : Turns(t, m, rest, k)
    /\ UNCHANGED <<user, peer>>

(* The iteration goes on with the next client of the same user.            *)
NextClientStep(t) ==
    /\ Moves(t) /\ Returned(t) /\ lines'[t] = lines[t]
    /\ task[t].stage = "fanout"
    /\ task[t].pos <= Len(connected_clients[Head(task[t].rest)])
    /\ task'[t] = FanoutFrame(task[t].line, task[t].rest, task[t].pos)
    /\ UNCHANGED <<user, connected_clients, queue, peer, due>>

Kinds(t) ==
    \/ OwnStep(t) \/ EndStep(t) \/ PopStep(t) \/ NextClientStep(t) \/ PeerLeaves(t)
    \/ \E u \in Users : LoginStep(t, u)
    \/ \E m \in Messages, rest \in Seq(Users) : TurnStep(t, m, rest)

LinesGrow(t) ==
    lines[t] <= lines'[t] /\ \A x \in Clients \ {t} : lines'[x] = lines[x]

LEMMA NoLine ==
    ASSUME IInv, NEW t \in Clients, lines' = lines
    PROVE  LinesGrow(t)
BY DEF LinesGrow, IInv, TypeOK

LEMMA OneLine ==
    ASSUME IInv, NEW t \in Clients, TakeLine(t)
    PROVE  LinesGrow(t) /\ lines'[t] = lines[t] + 1 /\ task[t].stage = "reading"
BY DEF LinesGrow, TakeLine, IInv, TypeOK

(* What Begin does, with its test spelled out.                             *)
LEMMA BeginOutcome ==
    ASSUME IInv, NEW t \in Clients, NEW f, NEW reg, NEW u, f.on \in Clients,
           Begin(t, f, reg, u), LinesGrow(t)
    PROVE  /\ Moves(t)
           /\ \/ task'[t] = f /\ connected_clients' = reg
              \/ /\ task'[t] = Closed /\ connected_clients' = Unregistered(reg, u, t)
                 /\ Busy(t, f.on) \/ task[f.on].stage = "closed"
<1>1. CASE ~Busy(t, f.on) /\ task[f.on].stage # "closed"
  <2>1. task' = [task EXCEPT ![t] = f] /\ connected_clients' = reg
    BY <1>1 DEF Begin
  <2> QED  BY <1>1, <2>1 DEF Busy, Moves, LinesGrow, IInv, TypeOK
<1>2. CASE Busy(t, f.on) \/ task[f.on].stage = "closed"
  <2>1. task' = [task EXCEPT ![t] = Closed] /\ connected_clients' = Unregistered(reg, u, t)
    BY <1>2 DEF Begin
  <2> QED  BY <1>2, <2>1, IdleFrames DEF Moves, LinesGrow, IInv, TypeOK
<1> QED  BY <1>1, <1>2

(* Before its login and during its burst a client is alone on its stream.  *)
LEMMA Alone ==
    ASSUME StreamInv, NEW t \in Clients, user[t] = None \/ task[t].on = t
    PROVE  ~Busy(t, t)
<1> SUFFICES ASSUME NEW x \in Clients \ {t}, task[x].on = t  PROVE FALSE
  BY DEF Busy
<1>1. user[t] # None
  BY DEF StreamInv, OthersSendAfterLogin
<1>2. t # None
  BY ConfigAssumption
<1> QED  BY <1>1, <1>2 DEF StreamInv, OneTaskPerStream

(* So what it sends there then is never refused.                           *)
LEMMA OwnSendAccepted ==
    ASSUME IInv, StreamInv, NEW t \in Clients, user[t] = None \/ task[t].on = t,
           task[t].stage # "closed", NEW f, f.on = t, BeginOwn(t, f), LinesGrow(t)
    PROVE  Moves(t) /\ task'[t] = f /\ UNCHANGED connected_clients
BY Alone, BeginOutcome DEF BeginOwn

LEMMA OwnFrame ==
    ASSUME NEW t \in Clients, NEW l, NEW st
    PROVE  /\ Frame(st, t, l).stage = st /\ Frame(st, t, l).on = t
           /\ Frame(st, t, l).line = l /\ Frame(st, t, l).rest = <<>>
           /\ \A n : /\ [Frame(st, t, l) EXCEPT !.left = n].stage = st
                    /\ [Frame(st, t, l) EXCEPT !.left = n].on = t
                    /\ [Frame(st, t, l) EXCEPT !.left = n].line = l
                    /\ [Frame(st, t, l) EXCEPT !.left = n].rest = <<>>
BY DEF Frame

LEMMA ConnectKind ==
    ASSUME IInv, StreamInv, NEW t \in Clients, Connect(t)
    PROVE  OwnStep(t)
<1> DEFINE f == Frame("motd", t, Line("MOTD"))
<1>1. f.stage = "motd" /\ f.on = t /\ f.line.kind = "MOTD" /\ f.rest = <<>>
  BY OwnFrame DEF Line
<1>2. task[t].stage = "absent" /\ user[t] = None
  BY IdleFrames DEF Connect, IInv, TypeOK, FrameOK
<1>3. BeginOwn(t, f) /\ LinesGrow(t)
  BY NoLine DEF Connect
<1> HIDE DEF f
<1>4. Moves(t) /\ task'[t] = f /\ UNCHANGED connected_clients
  BY <1>1, <1>2, <1>3, OwnSendAccepted
<1> QED  BY <1>1, <1>2, <1>4 DEF Connect, OwnStep, OwnMoves, PlainFrame

LEMMA GreetKind ==
    ASSUME IInv, StreamInv, NEW t \in Clients, Greet(t)
    PROVE  OwnStep(t)
<1> DEFINE f == Frame("cert", t, Line("CLIENT_CERT"))
<1>1. f.stage = "cert" /\ f.on = t /\ f.line.kind = "CLIENT_CERT" /\ f.rest = <<>>
  BY OwnFrame DEF Line
<1>2. task[t].stage = "motd" /\ user[t] = None /\ Returned(t)
  BY DEF Greet, IInv, TypeOK, FrameOK, Returned, Sending
<1>3. BeginOwn(t, f) /\ LinesGrow(t)
  BY NoLine DEF Greet
<1> HIDE DEF f
<1>4. Moves(t) /\ task'[t] = f /\ UNCHANGED connected_clients
  BY <1>1, <1>2, <1>3, OwnSendAccepted
<1> QED  BY <1>1, <1>2, <1>4 DEF Greet, OwnStep, OwnMoves, PlainFrame

LEMMA ReadOnKind ==
    ASSUME IInv, NEW t \in Clients, ReadOn(t)
    PROVE  OwnStep(t)
<1>1. task[t].stage \in {"cert", "reply", "last"} /\ Returned(t) /\ LinesGrow(t)
  BY NoLine DEF ReadOn, Returned, Sending
<1>2. task'[t] = Reading /\ \A x \in Clients \ {t} : task'[x] = task[x]
  BY DEF ReadOn, IInv, TypeOK
<1>3. Moves(t)
  BY <1>1, <1>2, IdleFrames DEF Moves, LinesGrow
<1>4. PlainFrame(task'[t])
  BY <1>2, IdleFrames DEF PlainFrame, Reading, Frame
<1> QED  BY <1>1, <1>2, <1>3, <1>4, IdleFrames DEF ReadOn, OwnStep, OwnMoves

LEMMA AnswerKind ==
    ASSUME IInv, NEW t \in Clients, Answer(t)
    PROVE  OwnStep(t) \/ EndStep(t)
<1> DEFINE f == Frame("reply", t, Line("ANSWER"))
<1>1. f.stage = "reply" /\ f.on = t /\ f.line.kind = "ANSWER" /\ f.rest = <<>>
  BY OwnFrame DEF Line
<1>2. LinesGrow(t) /\ task[t].stage = "reading"
  BY OneLine DEF Answer
<1>3. BeginOwn(t, f)
  BY DEF Answer
<1> HIDE DEF f
<1>4. /\ Moves(t)
      /\ \/ task'[t] = f /\ UNCHANGED connected_clients
         \/ Ended(t)
  BY <1>1, <1>2, <1>3, BeginOutcome DEF BeginOwn, Ended
<1>5. CASE task'[t] = f /\ UNCHANGED connected_clients
  BY <1>1, <1>2, <1>4, <1>5 DEF Answer, OwnStep, OwnMoves, PlainFrame
<1>6. CASE Ended(t)
  BY <1>2, <1>4, <1>6 DEF Answer, EndStep
<1> QED  BY <1>4, <1>5, <1>6

LEMMA LoginKind ==
    ASSUME IInv, StreamInv, NEW t \in Clients, NEW u \in Users, Login(t, u)
    PROVE  LoginStep(t, u)
<1> DEFINE f == [Frame("burst", t, Line("LOGIN_GOOD"))
                     EXCEPT !.left = Cardinality(InChannels(u))]
           reg == [connected_clients EXCEPT ![u] = Append(@, t)]
<1>1. f.stage = "burst" /\ f.on = t /\ f.line.kind = "LOGIN_GOOD" /\ f.rest = <<>>
  BY OwnFrame DEF Line
<1>2. LinesGrow(t) /\ task[t].stage = "reading" /\ user[t] = None
  BY OneLine DEF Login
<1>3. Begin(t, f, reg, u)
  BY DEF Login
<1> HIDE DEF f, reg
<1>4. Moves(t) /\ task'[t] = f /\ connected_clients' = reg
  BY <1>1, <1>2, <1>3, BeginOutcome, Alone
<1> QED  BY <1>1, <1>2, <1>4 DEF Login, LoginStep, PlainFrame, reg

LEMMA BurstStepKind ==
    ASSUME IInv, StreamInv, NEW t \in Clients, BurstStep(t)
    PROVE  OwnStep(t)
<1> DEFINE f == IF task[t].left > 0
                THEN [Frame("burst", t, Line("JOIN")) EXCEPT !.left = task[t].left - 1]
                ELSE Frame("endburst", t, Line("END_BURST"))
<1>1. /\ f.on = t /\ f.rest = <<>>
      /\ \/ f.stage = "burst" /\ f.line.kind = "JOIN"
         \/ f.stage = "endburst" /\ f.line.kind = "END_BURST"
  BY OwnFrame DEF Line
<1>2. task[t].stage = "burst" /\ task[t].on = t /\ Returned(t)
  BY DEF BurstStep, IInv, TypeOK, FrameOK, Returned, Sending
<1>3. BeginOwn(t, f) /\ LinesGrow(t)
  BY NoLine DEF BurstStep
<1> HIDE DEF f
<1>4. Moves(t) /\ task'[t] = f /\ UNCHANGED connected_clients
  BY <1>1, <1>2, <1>3, OwnSendAccepted
<1>5. <<task[t].stage, task'[t].stage>> \in OwnMoves /\ PlainFrame(task'[t])
  BY <1>1, <1>2, <1>4 DEF OwnMoves, PlainFrame
<1> QED  BY <1>2, <1>4, <1>5 DEF BurstStep, OwnStep

LEMMA FinishLoginKind ==
    ASSUME IInv, StreamInv, NEW t \in Clients, task[t].stage \in {"endburst", "drain"},
           SendReturns(t), FinishLogin(t), UNCHANGED <<user, peer, lines, due>>
    PROVE  OwnStep(t)
<1> DEFINE f == Frame("last", t, Line("END_OFFLINE_MESSAGES"))
<1>1. /\ f.stage = "last" /\ f.on = t /\ f.rest = <<>>
      /\ f.line.kind = "END_OFFLINE_MESSAGES"
  BY OwnFrame DEF Line
<1>2. task[t].on = t /\ Returned(t) /\ LinesGrow(t)
  BY NoLine DEF IInv, TypeOK, FrameOK, Returned, Sending
<1>3. BeginOwn(t, f)
  BY DEF FinishLogin
<1> HIDE DEF f
<1>4. Moves(t) /\ task'[t] = f /\ UNCHANGED connected_clients
  BY <1>1, <1>2, <1>3, OwnSendAccepted
<1>5. <<task[t].stage, task'[t].stage>> \in OwnMoves /\ PlainFrame(task'[t])
  BY <1>1, <1>4 DEF OwnMoves, PlainFrame
<1> QED  BY <1>2, <1>4, <1>5 DEF FinishLogin, OwnStep

LEMMA PopKind ==
    ASSUME IInv, StreamInv, NEW t \in Clients, task[t].stage \in {"endburst", "drain"},
           queue[user[t]] # <<>>, SendReturns(t), NEW n, PopAndQuote(t, n),
           UNCHANGED <<user, peer, lines, due>>
    PROVE  PopStep(t)
<1> DEFINE h == Head(queue[user[t]])
           f == [Frame("drain", t, h) EXCEPT !.left = n]
<1>1. f.stage = "drain" /\ f.on = t /\ f.rest = <<>> /\ f.line = h
  BY OwnFrame
<1>2. task[t].on = t /\ Returned(t) /\ LinesGrow(t)
  BY NoLine DEF IInv, TypeOK, FrameOK, Returned, Sending
<1>3. BeginOwn(t, f) /\ queue' = [queue EXCEPT ![user[t]] = Tail(@)]
  BY DEF PopAndQuote
<1> HIDE DEF f
<1>4. Moves(t) /\ task'[t] = f /\ UNCHANGED connected_clients
  BY <1>1, <1>2, <1>3, OwnSendAccepted
<1> QED  BY <1>1, <1>2, <1>3, <1>4 DEF PopStep

LEMMA StartDrainKind ==
    ASSUME IInv, StreamInv, NEW t \in Clients, StartDrain(t)
    PROVE  OwnStep(t) \/ PopStep(t)
BY FinishLoginKind, PopKind DEF StartDrain

LEMMA LeaveKind ==
    ASSUME IInv, NEW t \in Clients, Leave(t), lines' = lines
    PROVE  Moves(t) /\ Ended(t)
<1>1. task'[t] = Closed /\ \A x \in Clients \ {t} : task'[x] = task[x]
  BY DEF Leave, IInv, TypeOK
<1> QED  BY <1>1, NoLine, IdleFrames DEF Leave, Moves, Ended, LinesGrow

LEMMA DrainStepKind ==
    ASSUME IInv, StreamInv, NEW t \in Clients, DrainStep(t)
    PROVE  OwnStep(t) \/ PopStep(t) \/ EndStep(t)
<1>1. /\ task[t].stage = "drain" /\ SendReturns(t) /\ Returned(t)
      /\ UNCHANGED <<user, peer, lines, due>>
  BY DEF DrainStep, Returned, Sending
<1>2. CASE FinishLogin(t)
  BY <1>1, <1>2, FinishLoginKind
<1>3. CASE queue[user[t]] # <<>> /\ PopAndQuote(t, task[t].left - 1)
  BY <1>1, <1>3, PopKind
<1>4. CASE Leave(t) /\ queue' = queue
  BY <1>1, <1>4, LeaveKind DEF EndStep
<1> QED  BY <1>2, <1>3, <1>4 DEF DrainStep

(* The rest of a list of users, and what is left of it after its first k.  *)
LEMMA TailUsers ==
    ASSUME NEW s \in Seq(Users), s # <<>>
    PROVE  /\ Head(s) \in Users /\ Tail(s) \in Seq(Users)
           /\ ToSet(s) = {Head(s)} \cup ToSet(Tail(s))
           /\ Distinct(s) => Distinct(Tail(s)) /\ Head(s) \notin ToSet(Tail(s))
<1>1. /\ Len(s) \in Nat \ {0} /\ Head(s) = s[1] /\ Tail(s) \in Seq(Users)
      /\ Len(Tail(s)) = Len(s) - 1
      /\ \A i \in 1 .. Len(s) - 1 : Tail(s)[i] = s[i + 1]
  OBVIOUS
<1>2. Head(s) \in Users
  OBVIOUS
<1>3. ToSet(s) \subseteq {Head(s)} \cup ToSet(Tail(s))
  <2> SUFFICES ASSUME NEW i \in 1 .. Len(s), i # 1  PROVE s[i] \in ToSet(Tail(s))
    BY <1>1 DEF ToSet
  <2>1. i - 1 \in 1 .. Len(s) - 1 /\ (i - 1) + 1 = i
    BY <1>1
  <2>2. i - 1 \in DOMAIN Tail(s) /\ Tail(s)[i - 1] = s[i]
    BY <1>1, <2>1
  <2> DEFINE r == Tail(s)
  <2> HIDE DEF r
  <2>3. r[i - 1] \in ToSet(r)
    BY <2>2 DEF ToSet, r
  <2> QED  BY <2>2, <2>3 DEF r
<1>4. {Head(s)} \cup ToSet(Tail(s)) \subseteq ToSet(s)
  BY <1>1 DEF ToSet
<1>5. ASSUME Distinct(s)  PROVE Distinct(Tail(s)) /\ Head(s) \notin ToSet(Tail(s))
  BY <1>1, <1>5 DEF Distinct, ToSet
<1> QED  BY <1>1, <1>2, <1>3, <1>4, <1>5

SuffixFrom(s, rest, k) ==
    /\ s \in Seq(Users) /\ Len(s) = Len(rest) - k
    /\ \A i \in 1 .. Len(s) : s[i] = rest[k + i]

LEMMA SubSeqIsSuffix ==
    ASSUME NEW rest \in Seq(Users), NEW k \in 0 .. Len(rest), k < Len(rest)
    PROVE  SuffixFrom(SubSeq(rest, k + 1, Len(rest)), rest, k)
<1> DEFINE r == SubSeq(rest, k + 1, Len(rest))
<1>1. k \in Nat /\ Len(rest) \in Nat /\ k + 1 \in 1 .. Len(rest)
  OBVIOUS
<1>2. r \in Seq(Users) /\ Len(r) = Len(rest) - k
  BY <1>1
<1>3. \A i \in 1 .. Len(rest) - k : r[i] = rest[k + i]
  BY <1>1
<1> HIDE DEF r
<1>4. SuffixFrom(r, rest, k)
  BY <1>2, <1>3 DEF SuffixFrom
<1> QED  BY <1>4 DEF r

LEMMA SuffixUsers ==
    ASSUME NEW rest \in Seq(Users), NEW k \in 0 .. Len(rest), k < Len(rest), NEW s,
           SuffixFrom(s, rest, k)
    PROVE  /\ s \in Seq(Users) /\ s # <<>> /\ Head(s) = rest[k + 1]
           /\ rest[k + 1] \in ToSet(s) /\ ToSet(s) \subseteq ToSet(rest)
           /\ Distinct(rest) => Distinct(s) /\ ToSet(s) \cap Firsts(rest, k) = {}
<1>1. k \in Nat /\ Len(rest) \in Nat /\ k + 1 \in 1 .. Len(rest)
  OBVIOUS
<1>2. /\ s \in Seq(Users) /\ Len(s) = Len(rest) - k
      /\ \A i \in 1 .. Len(s) : s[i] = rest[k + i]
  BY DEF SuffixFrom
<1>3. s # <<>> /\ Head(s) = rest[k + 1]
  BY <1>1, <1>2
<1>4. rest[k + 1] \in ToSet(s) /\ ToSet(s) \subseteq ToSet(rest)
  BY <1>1, <1>2, SMTT(30) DEF ToSet
<1>5. ASSUME Distinct(rest)  PROVE Distinct(s) /\ ToSet(s) \cap Firsts(rest, k) = {}
  <2>1. \A i \in DOMAIN s : i \in Nat \ {0} /\ k + i \in DOMAIN rest /\ s[i] = rest[k + i]
    BY <1>1, <1>2
  <2>2. \A i \in 1 .. k : i \in DOMAIN rest
    BY <1>1
  <2>3. \A i, j \in DOMAIN rest : rest[i] = rest[j] => i = j
    BY <1>5 DEF Distinct
  <2>4. Distinct(s)
    BY <1>1, <2>1, <2>3 DEF Distinct
  <2>5. \A i \in DOMAIN s, j \in 1 .. k : s[i] # rest[j]
    BY <1>1, <2>1, <2>2, <2>3
  <2> QED  BY <2>4, <2>5 DEF ToSet, Firsts
<1> QED  BY <1>2, <1>3, <1>4, <1>5

(* send() turns to the users of a list.                                    *)
LEMMA TurnKind ==
    ASSUME IInv, NEW t \in Clients, NEW m \in Messages, NEW rest \in Seq(Users),
           LinesGrow(t), Deliver(t, m, rest)
    PROVE  /\ Moves(t)
           /\ \E k \in 0 .. Len(rest) : Turns(t, m, rest, k)
<1>1. PICK k \in 0 .. Len(rest) :
        /\ \A u \in Firsts(rest, k) : Offline(u)
        /\ queue' = [u \in Users |-> IF u \in Firsts(rest, k) THEN Append(queue[u], m)
                                                              ELSE queue[u]]
        /\ \/ /\ k = Len(rest)
              /\ task' = [task EXCEPT ![t] = Reading]
              /\ due' = due \cup KeptFor(m, Firsts(rest, k))
              /\ UNCHANGED connected_clients
           \/ /\ k < Len(rest)
              /\ ~Offline(rest[k + 1])
              /\ due' = due \cup KeptFor(m, Firsts(rest, k)) \cup
                    {<<m, rest[k + 1], ToSet(connected_clients[rest[k + 1]])>>}
              /\ BeginOwn(t, FanoutFrame(m, SubSeq(rest, k + 1, Len(rest)), 1))
  BY DEF Deliver, Firsts, KeptFor
<1>2. CASE /\ k = Len(rest)
           /\ task' = [task EXCEPT ![t] = Reading]
           /\ due' = due \cup KeptFor(m, Firsts(rest, k))
           /\ UNCHANGED connected_clients
  <2>1. task'[t] = Reading /\ \A x \in Clients \ {t} : task'[x] = task[x]
    BY <1>2 DEF IInv, TypeOK
  <2>2. Moves(t)
    BY <2>1, IdleFrames DEF Moves, LinesGrow
  <2> QED  BY <1>1, <1>2, <2>1, <2>2 DEF Turns
<1>3. CASE /\ k < Len(rest)
           /\ ~Offline(rest[k + 1])
           /\ due' = due \cup KeptFor(m, Firsts(rest, k)) \cup
                    {<<m, rest[k + 1], ToSet(connected_clients[rest[k + 1]])>>}
           /\ BeginOwn(t, FanoutFrame(m, SubSeq(rest, k + 1, Len(rest)), 1))
  <2> DEFINE s == SubSeq(rest, k + 1, Len(rest))
             f == FanoutFrame(m, s, 1)
  <2>1. s \in Seq(Users) /\ s # <<>> /\ Head(s) = rest[k + 1]
    BY <1>3, SubSeqIsSuffix, SuffixUsers
  <2> HIDE DEF s, f
  <2>2. Head(s) \in Users
    BY <2>1
  <2>3. 1 \in 1 .. Len(connected_clients[Head(s)])
    <3>1. connected_clients[Head(s)] # <<>>
      BY <1>3, <2>1 DEF Offline
    <3>2. connected_clients[Head(s)] \in Seq(Clients)
      BY <2>2 DEF IInv, TypeOK
    <3> QED  BY <3>1, <3>2
  <2>4. f.on \in Clients
    BY <2>1, <2>3, FanoutFrameType DEF IInv, f
  <2>5. /\ Moves(t)
        /\ \/ task'[t] = f /\ UNCHANGED connected_clients
           \/ Ended(t)
    BY <1>3, <2>4, BeginOutcome DEF BeginOwn, Ended, s, f
  <2> QED  BY <1>1, <1>3, <2>5 DEF Turns, s, f
<1> QED  BY <1>1, <1>2, <1>3

(* A new message has the number of the line that posted it.                *)
LEMMA PostKind ==
    ASSUME IInv, NEW t \in Clients, NEW target \in Users \cup Channels, TakeLine(t),
           user[t] # None, NEW rest \in Seq(Users), Distinct(rest),
           Deliver(t, Message(t, target), rest), UNCHANGED <<user, peer, received>>
    PROVE  Message(t, target) \in Messages /\ TurnStep(t, Message(t, target), rest)
<1> DEFINE m == Message(t, target)
<1>1. LinesGrow(t) /\ lines'[t] = lines[t] + 1 /\ task[t].stage = "reading"
  BY OneLine
<1>2. m \in Messages
  BY PostType
<1>3. m.from = t /\ m.n = lines[t] + 1 /\ lines[t] \in Nat
  BY DEF Message, IInv, TypeOK
<1> HIDE DEF m
<1>4. /\ Moves(t)
      /\ \E k \in 0 .. Len(rest) : Turns(t, m, rest, k)
  BY <1>1, <1>2, TurnKind DEF m
<1>5. TurnStep(t, m, rest)
  BY <1>1, <1>2, <1>3, <1>4 DEF TurnStep
<1> QED  BY <1>2, <1>5 DEF m

LEMMA PrivmsgKind ==
    ASSUME IInv, NEW t \in Clients, NEW u \in Users, Privmsg(t, u)
    PROVE  Kinds(t)
<1> DEFINE rest == PrivmsgTargets(t, u)
<1>1. user[t] \in Users
  BY DEF Privmsg, IInv, TypeOK
<1>2. rest \in Seq(Users) /\ Distinct(rest)
  <2>1. CASE u = user[t]
    BY <1>1, <2>1 DEF PrivmsgTargets, Distinct
  <2>2. CASE u # user[t]
    BY <1>1, <2>2 DEF PrivmsgTargets, Distinct
  <2> QED  BY <2>1, <2>2
<1>3. /\ TakeLine(t) /\ user[t] # None /\ Deliver(t, Message(t, u), rest)
      /\ UNCHANGED <<user, peer, received>>
  BY DEF Privmsg
<1> HIDE DEF rest
<1> QED  BY <1>2, <1>3, PostKind DEF Kinds

LEMMA ChanmsgKind ==
    ASSUME IInv, NEW t \in Clients, NEW ch \in Channels, Chanmsg(t, ch)
    PROVE  Kinds(t)
<1>1. Members[ch] \in Seq(Users) /\ Distinct(Members[ch])
  BY ConfigAssumption DEF Distinct
<1>2. /\ TakeLine(t) /\ user[t] # None /\ Deliver(t, Message(t, ch), Members[ch])
      /\ UNCHANGED <<user, peer, received>>
  BY DEF Chanmsg
<1> QED  BY <1>1, <1>2, PostKind DEF Kinds

LEMMA FanoutStepKind ==
    ASSUME IInv, StreamInv, NEW t \in Clients, FanoutStep(t)
    PROVE  Kinds(t)
<1> DEFINE m == task[t].line
           rest == task[t].rest
           pos == task[t].pos
<1>1. /\ task[t].stage = "fanout" /\ Returned(t) /\ SendReturns(t)
      /\ UNCHANGED <<user, peer, lines>>
      /\ LinesGrow(t) /\ lines'[t] = lines[t]
  BY NoLine DEF FanoutStep, Returned, Sending
<1>2. /\ m \in Messages /\ rest \in Seq(Users) /\ rest # <<>> /\ pos \in Nat \ {0}
      /\ m.from = t /\ m.n = lines[t] /\ Distinct(rest)
  BY <1>1 DEF IInv, TypeOK, FrameOK, Frames, StreamInv, FrameFits
<1>3. CASE /\ pos <= Len(connected_clients[Head(rest)])
           /\ BeginOwn(t, FanoutFrame(m, rest, pos))
           /\ UNCHANGED <<queue, due>>
  <2> DEFINE f == FanoutFrame(m, rest, pos)
  <2>1. pos \in 1 .. Len(connected_clients[Head(rest)])
    BY <1>2, <1>3 DEF IInv, TypeOK
  <2>2. f.on \in Clients
    BY <1>2, <2>1, FanoutFrameType DEF IInv
  <2> HIDE DEF f
  <2>3. /\ Moves(t)
        /\ \/ task'[t] = f /\ UNCHANGED connected_clients
           \/ Ended(t)
    BY <1>1, <1>3, <2>2, BeginOutcome DEF BeginOwn, Ended, f
  <2>4. CASE task'[t] = f /\ UNCHANGED connected_clients
    BY <1>1, <1>3, <2>3, <2>4 DEF NextClientStep, f, Kinds
  <2>5. CASE Ended(t)
    BY <1>1, <1>3, <2>3, <2>5 DEF EndStep, Kinds
  <2> QED  BY <2>3, <2>4, <2>5
<1>4. CASE pos > Len(connected_clients[Head(rest)]) /\ Deliver(t, m, Tail(rest))
  <2>1. Tail(rest) \in Seq(Users) /\ Distinct(Tail(rest))
    BY <1>2, TailUsers
  <2>2. /\ Moves(t)
        /\ \E k \in 0 .. Len(Tail(rest)) : Turns(t, m, Tail(rest), k)
    BY <1>1, <1>2, <1>4, <2>1, TurnKind
  <2>3. TurnStep(t, m, Tail(rest))
    BY <1>1, <1>2, <1>4, <2>1, <2>2 DEF TurnStep
  <2> QED  BY <1>2, <2>1, <2>3 DEF Kinds
<1> QED  BY <1>3, <1>4 DEF FanoutStep

(* Every step is of one of the kinds.                                      *)
LEMMA NextKinds ==
    ASSUME IInv, StreamInv, Next
    PROVE  UNCHANGED vars \/ \E t \in Clients : Kinds(t)
<1>1. ASSUME NEW t \in Clients, Step(t)  PROVE Kinds(t)
  <2>1. ASSUME SendFails(t)  PROVE EndStep(t)
    BY <2>1, LeaveKind DEF SendFails, EndStep
  <2>2. ASSUME Eof(t)  PROVE EndStep(t)
    BY <2>2, LeaveKind DEF Eof, EndStep
  <2> QED  BY <1>1, <2>1, <2>2, GreetKind, ReadOnKind, BurstStepKind, StartDrainKind,
              DrainStepKind, FanoutStepKind DEF Step, Kinds
<1>2. ASSUME NEW t \in Clients, Command(t)  PROVE Kinds(t)
  BY <1>2, AnswerKind, LoginKind, PrivmsgKind, ChanmsgKind DEF Command, Kinds
<1> QED  BY <1>1, <1>2, ConnectKind DEF Next, Finished, Kinds

-----------------------------------------------------------------------------
(* The invariant about streams and frames.                                 *)

(* Whatever the step, a login is for good and nothing that was due is      *)
(* forgotten.                                                              *)
LEMMA KindsGrow ==
    ASSUME IInv, StreamInv, NEW t \in Clients, Kinds(t)
    PROVE  /\ Moves(t)
           /\ \A c \in Clients : user[c] # None => user'[c] = user[c]
           /\ due \subseteq due'
<1>1. CASE PeerLeaves(t)
  <2>1. UNCHANGED <<task, user, lines, due>>
    BY <1>1 DEF PeerLeaves
  <2>2. Moves(t)
    <3>1. lines[t] <= lines'[t]
      BY <2>1 DEF IInv, TypeOK
    <3> QED  BY <2>1, <3>1 DEF Moves, StreamInv, OneTaskPerStream
  <2> QED  BY <2>1, <2>2
<1>2. CASE OwnStep(t) \/ EndStep(t) \/ PopStep(t) \/ NextClientStep(t)
  BY <1>2 DEF OwnStep, EndStep, PopStep, NextClientStep
<1>3. ASSUME NEW u \in Users, LoginStep(t, u)
      PROVE  Moves(t) /\ (\A c \in Clients : user[c] # None => user'[c] = user[c]) /\ due' = due
  BY <1>3 DEF LoginStep, IInv, TypeOK
<1>4. ASSUME NEW m \in Messages, NEW rest \in Seq(Users), TurnStep(t, m, rest)
      PROVE  Moves(t) /\ user' = user /\ due \subseteq due'
  BY <1>4 DEF TurnStep, Turns
<1> QED  BY <1>1, <1>2, <1>3, <1>4 DEF Kinds

(* So only the frame of the task that moves and the messages it brings     *)
(* have to be looked at.                                                   *)
LEMMA StreamsKept ==
    ASSUME IInv, StreamInv, IInv', NEW t \in Clients, Kinds(t),
           FrameFits(t)', QueuedIsDue', DueNumbered', NotYetDue'
    PROVE  StreamInv'
<1>1. /\ Moves(t)
      /\ \A c \in Clients : user[c] # None => user'[c] = user[c]
      /\ due \subseteq due'
  BY KindsGrow
<1>2. OneTaskPerStream'
  BY <1>1 DEF Moves, StreamInv, OneTaskPerStream
<1>3. ASSUME NEW x \in Clients, NEW c \in Clients, x # c, task'[x].on = c
      PROVE  user'[c] # None
  <2>1. CASE x = t
    <3>1. task'[t].on # None
      BY <1>3, <2>1, ConfigAssumption
    <3>2. FrameOK(t)'
      BY DEF IInv, TypeOK
    <3>3. task'[t].stage = "fanout"
      BY <1>3, <2>1, <3>1, <3>2 DEF FrameOK
    <3>4. task'[t].rest \in Seq(Users) /\ task'[t].rest # <<>>
      BY <3>2, <3>3 DEF FrameOK, IInv, TypeOK, Frames
    <3>5. Head(task'[t].rest) \in Users
      BY <3>4, TailUsers
    <3>6. user'[c] = Head(task'[t].rest)
      BY <1>3, <2>1, <3>3 DEF FrameFits
    <3> QED  BY <3>5, <3>6, ConfigAssumption
  <2>2. CASE x # t
    BY <1>1, <1>3, <2>2 DEF Moves, StreamInv, OthersSendAfterLogin
  <2> QED  BY <2>1, <2>2
<1>4. ASSUME NEW x \in Clients \ {t}  PROVE FrameFits(x)'
  <2>1. FrameFits(x) /\ FrameOK(x) /\ task'[x] = task[x] /\ lines'[x] = lines[x]
    BY <1>1 DEF IInv, TypeOK, StreamInv, Moves
  <2>2. CASE task[x].stage = "drain"
    <3>1. user'[x] = user[x]
      BY <1>1, <2>1, <2>2 DEF FrameOK
    <3> QED  BY <1>1, <2>1, <2>2, <3>1 DEF FrameFits
  <2>3. CASE task[x].stage = "fanout"
    <3>1. task[x].rest \in Seq(Users) /\ task[x].rest # <<>> /\ task[x].on \in Clients
      BY <2>1, <2>3 DEF FrameOK, IInv, TypeOK, Frames, Sending
    <3>2. user[task[x].on] # None
      BY <2>1, <2>3, <3>1, TailUsers, ConfigAssumption DEF FrameFits
    <3>3. user'[task[x].on] = user[task[x].on]
      BY <1>1, <3>1, <3>2
    <3> QED  BY <2>1, <2>3, <3>3 DEF FrameFits
  <2> QED  BY <2>1, <2>2, <2>3 DEF FrameFits
<1> QED  BY <1>2, <1>3, <1>4 DEF StreamInv, OthersSendAfterLogin

LEMMA LinesOnlyGrow ==
    ASSUME IInv, IInv', NEW t \in Clients, Moves(t)
    PROVE  \A x \in Clients : lines[x] \in Nat /\ lines'[x] \in Nat /\ lines[x] <= lines'[x]
<1>1. \A x \in Clients : lines[x] \in Nat /\ lines'[x] \in Nat
  BY DEF IInv, TypeOK
<1>2. lines[t] <= lines'[t] /\ \A x \in Clients \ {t} : lines'[x] = lines[x]
  BY DEF Moves
<1> QED  BY <1>1, <1>2

(* A step that brings no message: what was due is due as before.           *)
LEMMA NothingNewDue ==
    ASSUME IInv, StreamInv, IInv', NEW t \in Clients, Kinds(t), due' = due,
           FrameFits(t)', QueuedIsDue',
           task'[t].stage = "fanout" =>
              task[t].stage = "fanout" /\ task'[t].rest = task[t].rest /\ lines'[t] = lines[t]
    PROVE  StreamInv'
<1>1. Moves(t)
  BY KindsGrow
<1>2. \A x \in Clients : lines[x] \in Nat /\ lines'[x] \in Nat /\ lines[x] <= lines'[x]
  BY <1>1, LinesOnlyGrow
<1>3. \A d \in due : d[1].from \in Clients /\ d[1].n \in Nat
  BY DEF IInv, TypeOK, Messages
<1>4. DueNumbered'
  BY <1>2, <1>3 DEF StreamInv, DueNumbered
<1>5. NotYetDue'
  <2> SUFFICES ASSUME NEW d \in due, task'[d[1].from].stage = "fanout",
                      \/ d[2] \in ToSet(Tail(task'[d[1].from].rest))
                      \/ d[2] = Head(task'[d[1].from].rest) /\ d[3] = {}
               PROVE  d[1].n < lines'[d[1].from]
    BY DEF NotYetDue
  <2>1. CASE d[1].from = t
    BY <2>1 DEF StreamInv, NotYetDue
  <2>2. CASE d[1].from # t
    BY <1>1, <1>3, <2>2 DEF Moves, StreamInv, NotYetDue
  <2> QED  BY <2>1, <2>2
<1> QED  BY <1>4, <1>5, StreamsKept

LEMMA OwnStepStreams ==
    ASSUME IInv, StreamInv, IInv', NEW t \in Clients, OwnStep(t)
    PROVE  StreamInv'
<1>1. task'[t].stage \notin {"drain", "fanout"} /\ PlainFrame(task'[t])
  BY DEF OwnStep, OwnMoves
<1>2. FrameFits(t)'
  BY <1>1 DEF FrameFits
<1> QED  BY <1>1, <1>2, NothingNewDue DEF OwnStep, Kinds, StreamInv, QueuedIsDue

LEMMA EndStepStreams ==
    ASSUME IInv, StreamInv, IInv', NEW t \in Clients, EndStep(t)
    PROVE  StreamInv'
<1>1. task'[t].stage = "closed" /\ task'[t].rest = <<>>
  BY DEF EndStep, Ended, Closed, Frame
<1>2. FrameFits(t)'
  BY <1>1 DEF FrameFits, PlainFrame
<1> QED  BY <1>1, <1>2, NothingNewDue DEF EndStep, Kinds, StreamInv, QueuedIsDue

LEMMA LoginStepStreams ==
    ASSUME IInv, StreamInv, IInv', NEW t \in Clients, NEW u \in Users, LoginStep(t, u)
    PROVE  StreamInv'
<1>1. task'[t].stage = "burst" /\ PlainFrame(task'[t])
  BY DEF LoginStep
<1>2. FrameFits(t)'
  BY <1>1 DEF FrameFits
<1> QED  BY <1>1, <1>2, NothingNewDue DEF LoginStep, Kinds, StreamInv, QueuedIsDue

LEMMA PeerLeavesStreams ==
    ASSUME IInv, StreamInv, IInv', NEW t \in Clients, PeerLeaves(t)
    PROVE  StreamInv'
BY DEF PeerLeaves, StreamInv, OneTaskPerStream, OthersSendAfterLogin, FrameFits,
       QueuedIsDue, DueNumbered, NotYetDue

(* What a queue loses is the message it is asked for.                      *)
LEMMA HeadAndTail ==
    ASSUME NEW q \in Seq(Messages), q # <<>>
    PROVE  /\ Head(q) \in ToSet(q) /\ Tail(q) \in Seq(Messages)
           /\ ToSet(Tail(q)) \subseteq ToSet(q)
<1>1. /\ Len(q) \in Nat \ {0} /\ Head(q) = q[1] /\ Tail(q) \in Seq(Messages)
      /\ Len(Tail(q)) = Len(q) - 1
      /\ \A i \in 1 .. Len(q) - 1 : Tail(q)[i] = q[i + 1]
  OBVIOUS
<1> QED  BY <1>1 DEF ToSet

LEMMA AppendToSet ==
    ASSUME NEW S, NEW q \in Seq(S), NEW m \in S
    PROVE  ToSet(Append(q, m)) = ToSet(q) \cup {m}
<1>1. /\ Len(Append(q, m)) = Len(q) + 1 /\ Len(q) \in Nat
      /\ DOMAIN Append(q, m) = 1 .. Len(q) + 1 /\ DOMAIN q = 1 .. Len(q)
      /\ \A k \in 1 .. Len(q) : Append(q, m)[k] = q[k]
      /\ Append(q, m)[Len(q) + 1] = m
  OBVIOUS
<1> DEFINE r == Append(q, m)
<1> HIDE DEF r
<1>2. ToSet(r) = ToSet(q) \cup {m}
  BY <1>1 DEF ToSet, r
<1> QED  BY <1>2 DEF r

LEMMA PopStepStreams ==
    ASSUME IInv, StreamInv, IInv', NEW t \in Clients, PopStep(t)
    PROVE  StreamInv'
<1> DEFINE u == user[t]
           q == queue[u]
<1>1. u \in Users /\ q \in Seq(Messages) /\ q # <<>>
  BY DEF PopStep, IInv, TypeOK, FrameOK
<1>2. Head(q) \in ToSet(q) /\ ToSet(Tail(q)) \subseteq ToSet(q)
  BY <1>1, HeadAndTail
<1>3. task'[t].stage = "drain" /\ task'[t].line = Head(q) /\ task'[t].rest = <<>>
  BY DEF PopStep
<1>4. \A v \in Users : queue'[v] = IF v = u THEN Tail(q) ELSE queue[v]
  BY <1>1 DEF PopStep, IInv, TypeOK
<1>5. due' = due /\ user' = user
  BY DEF PopStep
<1>6. \A m \in ToSet(q) : <<m, u, {}>> \in due
  BY <1>1 DEF StreamInv, QueuedIsDue
<1>7. FrameFits(t)'
  <2>1. Head(q) \in Messages
    BY <1>1
  <2> QED  BY <1>2, <1>3, <1>5, <1>6, <2>1 DEF FrameFits, PlainFrame
<1>8. QueuedIsDue'
  BY <1>2, <1>4, <1>5, <1>6 DEF StreamInv, QueuedIsDue
<1> QED  BY <1>3, <1>5, <1>7, <1>8, NothingNewDue DEF Kinds

LEMMA NextClientStepStreams ==
    ASSUME IInv, StreamInv, IInv', NEW t \in Clients, NextClientStep(t)
    PROVE  StreamInv'
<1> DEFINE f == task[t]
           u == Head(f.rest)
           c == connected_clients[u][f.pos]
<1>1. /\ f.stage = "fanout" /\ f.rest \in Seq(Users) /\ f.rest # <<>> /\ f.pos \in Nat \ {0}
      /\ f.line.from = t /\ f.line.n = lines[t] /\ Distinct(f.rest)
  BY DEF NextClientStep, IInv, TypeOK, FrameOK, Frames, StreamInv, FrameFits
<1>2. u \in Users
  BY <1>1
<1>3. connected_clients[u] \in Seq(Clients) /\ f.pos \in DOMAIN connected_clients[u]
  BY <1>1, <1>2 DEF NextClientStep, IInv, TypeOK
<1>4. c \in Clients /\ c \in ToSet(connected_clients[u])
  BY <1>3 DEF ToSet
<1>5. user[c] = u
  BY <1>2, <1>4 DEF IInv, RegistryConsistent
<1>6. /\ task'[t].stage = "fanout" /\ task'[t].rest = f.rest /\ task'[t].line = f.line
      /\ task'[t].on = c
  BY DEF NextClientStep, FanoutFrame
<1>7. FrameFits(t)'
  BY <1>1, <1>5, <1>6 DEF NextClientStep, FrameFits, PlainFrame
<1> QED  BY <1>1, <1>6, <1>7, NothingNewDue DEF NextClientStep, Kinds, StreamInv, QueuedIsDue

-----------------------------------------------------------------------------
(* When send() turns to the next users.                                    *)

(* Nothing the sender posted at or after this message reached them.        *)
LEMMA NotYetDueFor ==
    ASSUME IInv, StreamInv, NEW t \in Clients, NEW m \in Messages, NEW rest \in Seq(Users),
           TurnStep(t, m, rest), NEW d \in due, d[1].from = t, d[2] \in ToSet(rest)
    PROVE  d[1].n < m.n
<1>1. d[1].n \in Nat /\ lines[t] \in Nat /\ d[1].n <= lines[t] /\ m.n \in Nat
  BY DEF IInv, TypeOK, Messages, StreamInv, DueNumbered
<1>2. CASE task[t].stage = "reading" /\ lines[t] < m.n
  BY <1>1, <1>2
<1>3. CASE /\ task[t].stage = "fanout" /\ m = task[t].line /\ rest = Tail(task[t].rest)
  BY <1>3 DEF StreamInv, NotYetDue, FrameFits
<1> QED  BY <1>2, <1>3 DEF TurnStep

(* The frame that the send to the next online user waits in.               *)
LEMMA NextUser ==
    ASSUME IInv, NEW t \in Clients, NEW m \in Messages, NEW rest \in Seq(Users),
           Distinct(rest), NEW k \in 0 .. Len(rest), k < Len(rest), ~Offline(rest[k + 1]),
           task'[t] = FanoutFrame(m, SubSeq(rest, k + 1, Len(rest)), 1)
    PROVE  /\ task'[t].stage = "fanout" /\ task'[t].line = m /\ task'[t].pos = 2
           /\ task'[t].rest \in Seq(Users) /\ task'[t].rest # <<>>
           /\ Head(task'[t].rest) = rest[k + 1] /\ rest[k + 1] \in ToSet(rest)
           /\ rest[k + 1] \in Users
           /\ Distinct(task'[t].rest)
           /\ ToSet(task'[t].rest) \subseteq ToSet(rest) \ Firsts(rest, k)
           /\ ToSet(Tail(task'[t].rest)) \subseteq ToSet(rest) \ Firsts(rest, k)
           /\ rest[k + 1] \notin ToSet(Tail(task'[t].rest))
           /\ task'[t].on = connected_clients[rest[k + 1]][1]
           /\ task'[t].on \in ToSet(connected_clients[rest[k + 1]])
           /\ task'[t].on \in Clients
           /\ user[task'[t].on] = rest[k + 1]
<1> DEFINE s == SubSeq(rest, k + 1, Len(rest))
<1>1. SuffixFrom(s, rest, k)
  BY SubSeqIsSuffix
<1>2. /\ task'[t].stage = "fanout" /\ task'[t].line = m /\ task'[t].pos = 2
      /\ task'[t].rest = s /\ task'[t].on = connected_clients[Head(s)][1]
  BY DEF FanoutFrame
<1> HIDE DEF s
<1>3. /\ s \in Seq(Users) /\ s # <<>> /\ Head(s) = rest[k + 1]
      /\ rest[k + 1] \in ToSet(s) /\ ToSet(s) \subseteq ToSet(rest)
      /\ Distinct(s) /\ ToSet(s) \cap Firsts(rest, k) = {}
  BY <1>1, SuffixUsers
<1>4. /\ Head(s) \in Users
      /\ ToSet(s) = {Head(s)} \cup ToSet(Tail(s))
      /\ Head(s) \notin ToSet(Tail(s))
  BY <1>3, TailUsers
<1>5. LET l == connected_clients[rest[k + 1]]
      IN  l[1] \in ToSet(l) /\ l[1] \in Clients
  <2>1. connected_clients[rest[k + 1]] \in Seq(Clients) /\ connected_clients[rest[k + 1]] # <<>>
    BY <1>3, <1>4 DEF IInv, TypeOK, Offline
  <2> QED  BY <2>1 DEF ToSet
<1>6. user[connected_clients[rest[k + 1]][1]] = rest[k + 1]
  BY <1>3, <1>4, <1>5 DEF IInv, RegistryConsistent
<1> QED  BY <1>2, <1>3, <1>4, <1>5, <1>6

LEMMA TurnStepStreams ==
    ASSUME IInv, StreamInv, IInv', NEW t \in Clients, NEW m \in Messages,
           NEW rest \in Seq(Users), TurnStep(t, m, rest)
    PROVE  StreamInv'
<1>1. PICK k \in 0 .. Len(rest) : Turns(t, m, rest, k)
  BY DEF TurnStep
<1>2. /\ Moves(t) /\ m.from = t /\ m.n = lines'[t] /\ Distinct(rest) /\ user' = user
  BY DEF TurnStep
<1>3. Firsts(rest, k) \subseteq Users
  BY DEF Firsts
<1>4. \A x \in Clients : lines[x] \in Nat /\ lines'[x] \in Nat /\ lines[x] <= lines'[x]
  BY <1>2, LinesOnlyGrow
<1>5. \A d \in due : d[1].from \in Clients /\ d[1].n \in Nat
  BY DEF IInv, TypeOK, Messages
<1>6. \A d \in due' \ due :
        /\ d[1] = m
        /\ \/ d[2] \in Firsts(rest, k) /\ d[3] = {}
           \/ /\ k < Len(rest) /\ ~Offline(rest[k + 1])
              /\ d[2] = rest[k + 1] /\ d[3] = ToSet(connected_clients[rest[k + 1]])
  BY <1>1 DEF Turns, KeptFor
<1>7. KeptFor(m, Firsts(rest, k)) \subseteq due' /\ due \subseteq due'
  BY <1>1 DEF Turns
<1>8. QueuedIsDue'
  <2> SUFFICES ASSUME NEW u \in Users, NEW x \in ToSet(queue'[u])
               PROVE  <<x, u, {}>> \in due'
    BY DEF QueuedIsDue
  <2>1. queue[u] \in Seq(Messages)
    BY DEF IInv, TypeOK
  <2>2. queue'[u] = IF u \in Firsts(rest, k) THEN Append(queue[u], m) ELSE queue[u]
    BY <1>1 DEF Turns
  <2>3. CASE x \in ToSet(queue[u])
    BY <1>7, <2>3 DEF StreamInv, QueuedIsDue
  <2>4. CASE x = m /\ u \in Firsts(rest, k)
    BY <1>7, <2>4 DEF KeptFor
  <2>5. ToSet(Append(queue[u], m)) = ToSet(queue[u]) \cup {m}
    BY <2>1, AppendToSet
  <2> QED  BY <2>2, <2>3, <2>4, <2>5
<1>9. DueNumbered'
  BY <1>2, <1>4, <1>5, <1>6 DEF StreamInv, DueNumbered
<1>10. /\ FrameFits(t)'
       /\ task'[t].stage = "fanout" =>
            \A d \in due' : d[1].from = t =>
                /\ d[2] \in ToSet(Tail(task'[t].rest)) => d[1].n < lines'[t]
                /\ d[2] = Head(task'[t].rest) /\ d[3] = {} => d[1].n < lines'[t]
  <2>1. CASE task'[t] \in {Reading, Closed}
    BY <2>1 DEF FrameFits, PlainFrame, Reading, Closed, Frame
  <2>2. CASE /\ k < Len(rest) /\ ~Offline(rest[k + 1])
             /\ task'[t] = FanoutFrame(m, SubSeq(rest, k + 1, Len(rest)), 1)
    <3> DEFINE f == task'[t]
    <3>1. /\ f.stage = "fanout" /\ f.line = m
          /\ Head(f.rest) = rest[k + 1] /\ rest[k + 1] \in ToSet(rest)
          /\ Distinct(f.rest)
          /\ ToSet(f.rest) \subseteq ToSet(rest) \ Firsts(rest, k)
          /\ ToSet(Tail(f.rest)) \subseteq ToSet(rest) \ Firsts(rest, k)
          /\ rest[k + 1] \notin ToSet(Tail(f.rest))
          /\ f.on \in ToSet(connected_clients[rest[k + 1]])
          /\ user[f.on] = rest[k + 1]
          /\ rest[k + 1] \in ToSet(f.rest)
      <4>1. task'[t].rest \in Seq(Users) /\ task'[t].rest # <<>>
        BY <1>2, <2>2, NextUser
      <4>2. Head(task'[t].rest) \in ToSet(task'[t].rest)
        BY <4>1, TailUsers
      <4> QED  BY <1>2, <2>2, <4>2, NextUser
    <3> HIDE DEF f
    <3>2. FrameFits(t)'
      BY <1>2, <3>1 DEF FrameFits, PlainFrame, f
    <3>3. ASSUME NEW d \in due', d[1].from = t,
                 \/ d[2] \in ToSet(Tail(f.rest))
                 \/ d[2] = Head(f.rest) /\ d[3] = {}
          PROVE  d[1].n < lines'[t]
      <4>1. d[2] \in ToSet(rest) \ Firsts(rest, k)
        BY <3>1, <3>3
      <4>2. CASE d \in due
        BY <1>2, <3>3, <4>1, <4>2, NotYetDueFor
      <4>3. CASE d \in due' \ due
        <5>1. d[2] = rest[k + 1] /\ d[3] = ToSet(connected_clients[rest[k + 1]])
          BY <1>6, <4>1, <4>3
        <5>2. d[3] # {} /\ d[2] \notin ToSet(Tail(f.rest))
          BY <3>1, <5>1
        <5> QED  BY <3>3, <5>2
      <4> QED  BY <4>2, <4>3
    <3> QED  BY <3>2, <3>3 DEF f
  <2> QED  BY <1>1, <2>1, <2>2 DEF Turns, Ended
<1>11. NotYetDue'
  <2> SUFFICES ASSUME NEW d \in due', task'[d[1].from].stage = "fanout",
                      \/ d[2] \in ToSet(Tail(task'[d[1].from].rest))
                      \/ d[2] = Head(task'[d[1].from].rest) /\ d[3] = {}
               PROVE  d[1].n < lines'[d[1].from]
    BY DEF NotYetDue
  <2>1. CASE d[1].from = t
    BY <1>10, <2>1
  <2>2. CASE d[1].from # t
    <3>1. d \in due /\ d[1].from \in Clients \ {t}
      BY <1>2, <1>5, <1>6, <2>2
    <3> QED  BY <1>2, <3>1 DEF Moves, StreamInv, NotYetDue
  <2> QED  BY <2>1, <2>2
<1> QED  BY <1>8, <1>9, <1>10, <1>11, StreamsKept DEF Kinds

-----------------------------------------------------------------------------
LEMMA InitStreamInv == Init => StreamInv
<1> SUFFICES ASSUME Init  PROVE StreamInv
  OBVIOUS
<1>1. \A t \in Clients : task[t].stage = "absent" /\ task[t].on = None /\ task[t].rest = <<>>
  BY DEF Init, Absent, Frame
<1>2. \A u \in Users : queue[u] = <<>>
  BY DEF Init
<1>3. QueuedIsDue
  BY <1>2 DEF QueuedIsDue, ToSet
<1> QED  BY <1>1, <1>3, ConfigAssumption
           DEF Init, StreamInv, OneTaskPerStream, OthersSendAfterLogin, FrameFits, PlainFrame,
               DueNumbered, NotYetDue

LEMMA NextStreamInv == IInv /\ StreamInv /\ [Next]_vars => StreamInv'
<1> SUFFICES ASSUME IInv, StreamInv, [Next]_vars  PROVE StreamInv'
  OBVIOUS
<1>1. IInv'
  BY NextIInv
<1>2. CASE UNCHANGED vars
  BY <1>2 DEF vars, StreamInv, OneTaskPerStream, OthersSendAfterLogin, FrameFits, QueuedIsDue,
              DueNumbered, NotYetDue
<1>3. ASSUME NEW t \in Clients, Kinds(t)  PROVE StreamInv'
  BY <1>1, <1>3, OwnStepStreams, EndStepStreams, LoginStepStreams, PopStepStreams,
     NextClientStepStreams, PeerLeavesStreams, TurnStepStreams DEF Kinds
<1> QED  BY <1>2, <1>3, NextKinds

(* The sends of any number of tasks never meet on a stream, and what they  *)
(* hold agrees with what is due.                                           *)
THEOREM StreamsAreShared == Spec => [](IInv /\ StreamInv)
BY InitIInv, NextIInv, InitStreamInv, NextStreamInv, PTL DEF Spec

-----------------------------------------------------------------------------
(* What a step does to what was received, and to the registry.             *)

(* Client c receives the line that task t was sending.                     *)
Hears(t, c) ==
    /\ task[t].stage \in Sending /\ c = task[t].on /\ Open(c) /\ peer[c] = "up"
    /\ received'[c] = Append(received[c], task[t].line)

LEMMA ReturnedHeard ==
    ASSUME IInv, StreamInv, NEW t \in Clients, Returned(t)
    PROVE  /\ \A c \in Clients : received'[c] = received[c] \/ Hears(t, c)
           /\ Open(task[t].on) /\ peer[task[t].on] = "up" => Hears(t, task[t].on)
<1> DEFINE s == task[t].on
<1>1. /\ s \in Clients /\ task[t].stage \in Sending
      /\ received' = IF peer[s] = "up" /\ task[s].stage # "closed"
                     THEN [received EXCEPT ![s] = Append(received[s], task[t].line)]
                     ELSE received
  BY DEF Returned, SendReturns, IInv, TypeOK, FrameOK
<1>2. task[s].stage # "absent"
  BY <1>1 DEF IInv, TypeOK, FrameOK, Sending, StreamInv, OthersSendAfterLogin
<1> QED  BY <1>1, <1>2 DEF Hears, Open, IInv, TypeOK

LEMMA ReceivedChanges ==
    ASSUME IInv, StreamInv, NEW t \in Clients, Kinds(t)
    PROVE  \A c \in Clients : received'[c] = received[c] \/ Hears(t, c)
<1>1. CASE Returned(t)
  BY <1>1, ReturnedHeard
<1>2. CASE received' = received
  BY <1>2
<1>3. ASSUME NEW m \in Messages, NEW rest \in Seq(Users), TurnStep(t, m, rest)
      PROVE  Returned(t) \/ received' = received
  BY <1>3 DEF TurnStep
<1>4. ASSUME NEW u \in Users, LoginStep(t, u)
      PROVE  received' = received
  BY <1>4 DEF LoginStep
<1> QED  BY <1>1, <1>2, <1>3, <1>4 DEF Kinds, OwnStep, EndStep, PopStep, NextClientStep, PeerLeaves

(* During its burst and its drain nobody else sends to a client.           *)
LEMMA OwnStream ==
    ASSUME IInv, StreamInv, NEW t \in Clients, Kinds(t), NEW c \in Clients, c # t,
           task[c].stage \in Sending \ {"fanout"}
    PROVE  received'[c] = received[c]
<1>1. task[c].on = c /\ c # None
  BY ConfigAssumption DEF IInv, TypeOK, FrameOK
<1>2. task[t].on # c
  BY <1>1 DEF StreamInv, OneTaskPerStream
<1> QED  BY <1>2, ReceivedChanges DEF Hears

(* Where the entries of a list come from: it stays as it is, t moves out,  *)
(* or t is added by its login.                                             *)
LEMMA ListChanges ==
    ASSUME IInv, StreamInv, NEW t \in Clients, Kinds(t), NEW u \in Users
    PROVE  \/ connected_clients'[u] = connected_clients[u]
           \/ /\ connected_clients'[u] = Append(connected_clients[u], t)
              /\ user[t] = None /\ task'[t].stage = "burst"
           \/ /\ connected_clients'[u] = WithoutClient(connected_clients[u], t)
              /\ task'[t] = Closed
<1> DEFINE Goal == \/ connected_clients'[u] = connected_clients[u]
                   \/ /\ connected_clients'[u] = Append(connected_clients[u], t)
                      /\ user[t] = None /\ task'[t].stage = "burst"
                   \/ /\ connected_clients'[u] = WithoutClient(connected_clients[u], t)
                      /\ task'[t] = Closed
<1>1. CASE connected_clients' = connected_clients
  BY <1>1
<1>2. CASE Ended(t)
  BY <1>2 DEF Ended, Unregistered, IInv, TypeOK
<1>3. ASSUME NEW v \in Users, LoginStep(t, v)
      PROVE  Goal
  BY <1>3 DEF LoginStep, IInv, TypeOK
<1>4. ASSUME NEW m \in Messages, NEW rest \in Seq(Users), TurnStep(t, m, rest)
      PROVE  connected_clients' = connected_clients \/ Ended(t)
  BY <1>4 DEF TurnStep, Turns
<1> HIDE DEF Goal
<1>5. Goal
  BY <1>1, <1>2, <1>3, <1>4
     DEF Goal, Kinds, OwnStep, EndStep, PopStep, NextClientStep, PeerLeaves
<1> QED  BY <1>5 DEF Goal

LEMMA EntryChanges ==
    ASSUME IInv, StreamInv, NEW t \in Clients, Kinds(t), NEW u \in Users,
           NEW i \in DOMAIN connected_clients'[u]
    PROVE  LET l == connected_clients[u]
               k == connected_clients'[u]
           IN  \/ i \in DOMAIN l /\ k[i] = l[i]
               \/ /\ i + 1 \in DOMAIN l /\ k[i] = l[i + 1]
                  /\ task'[t] = Closed /\ \E j \in 1 .. i : l[j] = t
               \/ k[i] = t /\ user[t] = None /\ task'[t].stage = "burst" /\ i = Len(l) + 1
<1>1. connected_clients[u] \in Seq(Clients) /\ Distinct(connected_clients[u])
  BY DEF IInv, TypeOK, RegistryConsistent, Distinct
<1>2. CASE connected_clients'[u] = connected_clients[u]
  BY <1>2
<1>3. CASE /\ connected_clients'[u] = Append(connected_clients[u], t)
           /\ user[t] = None /\ task'[t].stage = "burst"
  <2>1. /\ DOMAIN Append(connected_clients[u], t) = 1 .. Len(connected_clients[u]) + 1
        /\ DOMAIN connected_clients[u] = 1 .. Len(connected_clients[u])
        /\ Len(connected_clients[u]) \in Nat
        /\ \A j \in 1 .. Len(connected_clients[u]) :
              Append(connected_clients[u], t)[j] = connected_clients[u][j]
        /\ Append(connected_clients[u], t)[Len(connected_clients[u]) + 1] = t
    BY <1>1
  <2> DEFINE q == Append(connected_clients[u], t)
  <2> HIDE DEF q
  <2>2. i \in DOMAIN q /\ connected_clients'[u][i] = q[i]
    BY <1>3 DEF q
  <2>3. CASE i \in 1 .. Len(connected_clients[u])
    BY <2>1, <2>2, <2>3 DEF q
  <2>4. CASE i = Len(connected_clients[u]) + 1
    BY <1>3, <2>1, <2>2, <2>4 DEF q
  <2>5. i \in 1 .. Len(connected_clients[u]) + 1
    BY <2>1, <2>2 DEF q
  <2>6. i \in 1 .. Len(connected_clients[u]) \/ i = Len(connected_clients[u]) + 1
    BY <2>1, <2>5
  <2> QED  BY <2>3, <2>4, <2>6
<1>4. CASE /\ connected_clients'[u] = WithoutClient(connected_clients[u], t)
           /\ task'[t] = Closed
  <2> DEFINE l == connected_clients[u]
             r == WithoutClient(l, t)
  <2> HIDE DEF l, r
  <2>1. \A k \in DOMAIN r :
           \/ k \in DOMAIN l /\ r[k] = l[k]
           \/ k + 1 \in DOMAIN l /\ r[k] = l[k + 1] /\ \E j \in 1 .. k : l[j] = t
    BY <1>1, WithoutClientRemoves DEF l, r
  <2>2. i \in DOMAIN r /\ connected_clients'[u][i] = r[i]
    BY <1>4 DEF l, r
  <2> QED  BY <1>4, <2>1, <2>2 DEF l
<1> QED  BY <1>2, <1>3, <1>4, ListChanges
=============================================================================
