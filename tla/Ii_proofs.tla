----------------------------- MODULE Ii_proofs -----------------------------
(***************************************************************************)
(* Proofs about Ii, for any names, any lines of the server and any timeout: *)
(* its types, that the loop over the channels never follows a freed        *)
(* pointer, that lines are printed to the channel they name, and that what *)
(* is sent for a channel is what was written to its FIFO.                  *)
(***************************************************************************)
EXTENDS Ii, SequenceLemmas, TLAPS

(* The list has no channel twice, so that freeing the channel that is      *)
(* handled frees nothing that the saved `next` could point at.             *)
NoneTwice == \A i, j \in DOMAIN channels : channels[i] = channels[j] => i = j

(* The master is opened once, by main: the server names other channels     *)
(* only, so that once freed it never comes back to the list.               *)
PrintedRight ==
    \A p \in out :
        /\ p.line \in Names => p.on = p.line
        /\ p.line = "plain" => p.on = Master \/ Master \notin Listed

LoopOK ==
    /\ DOMAIN loop = {"at", "ready", "c"}
    /\ loop.at \in {"select", "server", "channels", "close", "open", "exited"}
    /\ loop.ready \subseteq Names \cup {Server}
    /\ loop.c \in Listed \cup {NULL}
    /\ loop.at \in {"close", "open"} => loop.c \in Listed

ListOK == channels \in Seq(Names) /\ NoneTwice
WorldOK ==
    /\ idle \in 0 .. MaxIdle
    /\ sending \in BOOLEAN /\ outgoing \in 0 .. Capacity
    /\ hungup \cup usable \cup writing \subseteq Names
    /\ incoming \in Seq(ServerLines)

IInv == ListOK /\ LoopOK /\ WorldOK /\ PrintedRight

-----------------------------------------------------------------------------
(* The operations on the list.                                             *)

(* The channel after one in the list is another channel of the list, or    *)
(* there is none.                                                          *)
LEMMA AfterInList ==
    ASSUME ListOK, NEW c \in Listed
    PROVE  /\ Place(channels, c) \in 1 .. Len(channels)
           /\ channels[Place(channels, c)] = c
           /\ After(channels, c) \in (Listed \ {c}) \cup {NULL}
<1> DEFINE i == Place(channels, c)
<1>1. i \in DOMAIN channels /\ channels[i] = c
  BY DEF Listed, Range, Place
<1> HIDE DEF i
<1>2. Len(channels) \in Nat /\ DOMAIN channels = 1 .. Len(channels)
  BY DEF ListOK
<1>3. CASE c = Last(channels)
  BY <1>1, <1>2, <1>3 DEF After, Listed, i
<1>4. CASE c # Last(channels)
  <2>1. i # Len(channels)
    BY <1>1, <1>4 DEF Last
  <2>2. i + 1 \in DOMAIN channels
    BY <1>1, <1>2, <2>1
  <2>3. channels[i + 1] # c
    BY <1>1, <1>2, <2>2 DEF ListOK, NoneTwice
  <2>4. After(channels, c) = channels[i + 1]
    BY <1>4 DEF After, Listed, i
  <2>5. channels[i + 1] \in Listed
    BY <2>2 DEF Listed, Range
  <2> QED
    BY <1>1, <1>2, <2>3, <2>4, <2>5 DEF i
<1> QED
  BY <1>3, <1>4

(* channel_rm takes out the channel, and nothing else.                     *)
LEMMA WithoutIsRest ==
    ASSUME ListOK, NEW c \in Listed,
           channels' = WithoutChannel(c)
    PROVE  ListOK' /\ Listed' = Listed \ {c}
<1> DEFINE i == Place(channels, c)
           n == Len(channels)
           a == SubSeq(channels, 1, i - 1)
           b == SubSeq(channels, i + 1, n)
<1>1. i \in 1 .. n /\ channels[i] = c /\ n \in Nat /\ DOMAIN channels = 1 .. n
      /\ channels \in Seq(Names)
  BY AfterInList DEF ListOK
<1>2. channels' = a \o b
  BY DEF WithoutChannel, RemoveAt
<1> HIDE DEF i
<1>3. a \in Seq(Names) /\ Len(a) = i - 1 /\ \A k \in 1 .. i - 1 : a[k] = channels[k]
  BY <1>1
<1>4. b \in Seq(Names) /\ Len(b) = n - i /\ \A k \in 1 .. n - i : b[k] = channels[k + i]
  <2>1. b \in Seq(Names)
    BY <1>1
  <2>2. Len(b) = n - i
    BY <1>1, SeqIsSeq, DropIsSeq
  <2>3. \A k \in 1 .. n - i : b[k] = channels[(i + 1) + k - 1]
    BY <1>1
  <2>4. \A k \in 1 .. n - i : (i + 1) + k - 1 = k + i
    BY <1>1
  <2> QED
    BY <2>1, <2>2, <2>3, <2>4
<1> HIDE DEF a, b, n
<1>5. /\ channels' \in Seq(Names) /\ Len(channels') = n - 1
      /\ \A k \in 1 .. i - 1 : channels'[k] = a[k]
      /\ \A k \in i .. n - 1 : channels'[k] = b[k - (i - 1)]
  BY <1>1, <1>2, <1>3, <1>4
<1>6. DOMAIN channels' = 1 .. n - 1
  BY <1>5
<1>7. \A k \in 1 .. i - 1 : channels'[k] = channels[k]
  BY <1>3, <1>5
<1>8. \A k \in i .. n - 1 : channels'[k] = channels[k + 1]
  <2> SUFFICES ASSUME NEW k \in i .. n - 1 PROVE channels'[k] = channels[k + 1]
    OBVIOUS
  <2>1. k - (i - 1) \in 1 .. n - i /\ (k - (i - 1)) + i = k + 1
    BY <1>1
  <2> QED
    BY <1>4, <1>5, <2>1
<1>9. NoneTwice'
  <2> SUFFICES ASSUME NEW k \in 1 .. n - 1, NEW l \in 1 .. n - 1, channels'[k] = channels'[l]
               PROVE  k = l
    BY <1>6 DEF NoneTwice
  <2> DEFINE old(x) == IF x < i THEN x ELSE x + 1
  <2>1. \A x \in 1 .. n - 1 : old(x) \in 1 .. n /\ channels'[x] = channels[old(x)]
    BY <1>1, <1>7, <1>8
  <2> HIDE DEF old
  <2>2. old(k) = old(l)
    BY <1>1, <2>1 DEF ListOK, NoneTwice
  <2> QED
    BY <1>1, <2>2 DEF old
<1>10. Listed' = Listed \ {c}
  <2>1. \A k \in 1 .. n - 1 :
           channels'[k] \in {channels[x] : x \in 1 .. n} /\ channels'[k] # c
    <3> SUFFICES ASSUME NEW k \in 1 .. n - 1
                 PROVE  channels'[k] \in {channels[x] : x \in 1 .. n} /\ channels'[k] # c
      OBVIOUS
    <3>1. CASE k < i
      <4>1. k \in 1 .. n /\ channels'[k] = channels[k] /\ k # i
        BY <1>1, <1>7, <3>1
      <4> QED
        BY <1>1, <4>1 DEF ListOK, NoneTwice
    <3>2. CASE k >= i
      <4>1. k + 1 \in 1 .. n /\ channels'[k] = channels[k + 1] /\ k + 1 # i
        BY <1>1, <1>8, <3>2
      <4> QED
        BY <1>1, <4>1 DEF ListOK, NoneTwice
    <3> QED
      BY <1>1, <3>1, <3>2
  <2>2. \A x \in 1 .. n : channels[x] # c => \E k \in 1 .. n - 1 : channels'[k] = channels[x]
    <3> SUFFICES ASSUME NEW x \in 1 .. n, channels[x] # c
                 PROVE  \E k \in 1 .. n - 1 : channels'[k] = channels[x]
      OBVIOUS
    <3>1. CASE x < i
      <4>1. x \in 1 .. i - 1 /\ x \in 1 .. n - 1
        BY <1>1, <3>1
      <4> QED
        BY <1>7, <4>1
    <3>2. CASE x > i
      <4>1. x - 1 \in i .. n - 1 /\ x - 1 \in 1 .. n - 1 /\ (x - 1) + 1 = x
        BY <1>1, <3>2
      <4> QED
        BY <1>8, <4>1
    <3> QED
      BY <1>1, <3>1, <3>2
  <2>3. Listed = {channels[x] : x \in 1 .. n}
    BY <1>1 DEF Listed, Range
  <2>4. Listed' = {channels'[k] : k \in 1 .. n - 1}
    BY <1>6 DEF Listed, Range
  <2> QED
    BY <2>1, <2>2, <2>3, <2>4
<1> QED
  BY <1>5, <1>9, <1>10 DEF ListOK

(* A channel that joins becomes the head, unless it is in the list.        *)
LEMMA JoinedIsMore ==
    ASSUME ListOK, NEW name \in Names, channels' = Joined(name)
    PROVE  ListOK' /\ Listed \subseteq Listed' /\ Listed' \subseteq Listed \cup {name}
<1>1. CASE channels' = channels
  BY <1>1 DEF ListOK, NoneTwice, Listed
<1>2. CASE name \notin Listed /\ channels' = <<name>> \o channels
  <2>1. Len(channels) \in Nat /\ DOMAIN channels = 1 .. Len(channels)
    BY DEF ListOK
  <2>2. /\ channels' \in Seq(Names) /\ Len(channels') = Len(channels) + 1
        /\ channels'[1] = name
        /\ \A k \in 1 .. Len(channels) : channels'[k + 1] = channels[k]
    BY <1>2 DEF ListOK
  <2>3. DOMAIN channels' = 1 .. Len(channels) + 1
    BY <2>2
  <2>4. \A k \in 1 .. Len(channels) + 1 :
           k # 1 => k - 1 \in 1 .. Len(channels) /\ channels'[k] = channels[k - 1]
    <3> SUFFICES ASSUME NEW k \in 1 .. Len(channels) + 1, k # 1
                 PROVE  k - 1 \in 1 .. Len(channels) /\ channels'[k] = channels[k - 1]
      OBVIOUS
    <3>1. k - 1 \in 1 .. Len(channels) /\ (k - 1) + 1 = k
      BY <2>1
    <3> QED
      BY <2>2, <3>1
  <2>5. \A x \in 1 .. Len(channels) : channels[x] # name
    BY <1>2, <2>1 DEF Listed, Range
  <2>6. NoneTwice'
    <3> SUFFICES ASSUME NEW k \in 1 .. Len(channels) + 1, NEW l \in 1 .. Len(channels) + 1,
                        channels'[k] = channels'[l]
                 PROVE  k = l
      BY <2>3 DEF NoneTwice
    <3>1. CASE k = 1 \/ l = 1
      BY <2>2, <2>4, <2>5, <3>1
    <3>2. CASE k # 1 /\ l # 1
      <4>1. k - 1 = l - 1
        BY <2>1, <2>4, <3>2 DEF ListOK, NoneTwice
      <4> QED
        BY <2>1, <4>1
    <3> QED
      BY <3>1, <3>2
  <2>7. Listed \subseteq Listed'
    <3> SUFFICES ASSUME NEW x \in 1 .. Len(channels)
                 PROVE  channels[x] \in Listed'
      BY <2>1 DEF Listed, Range
    <3>1. x + 1 \in DOMAIN channels' /\ channels'[x + 1] = channels[x]
      BY <2>1, <2>2, <2>3
    <3> QED
      BY <3>1 DEF Listed, Range
  <2>8. Listed' \subseteq Listed \cup {name}
    <3> SUFFICES ASSUME NEW k \in 1 .. Len(channels) + 1
                 PROVE  channels'[k] \in Listed \cup {name}
      BY <2>3 DEF Listed, Range
    <3>1. CASE k = 1
      BY <2>2, <3>1
    <3>2. CASE k # 1
      BY <2>1, <2>4, <3>2 DEF Listed, Range
    <3> QED
      BY <3>1, <3>2
  <2> QED
    BY <2>2, <2>6, <2>7, <2>8 DEF ListOK
<1> QED
  BY <1>1, <1>2 DEF Joined

-----------------------------------------------------------------------------
(* The steps.                                                              *)

LEMMA InitIInv == Init => IInv
<1> SUFFICES ASSUME Init PROVE IInv
  OBVIOUS
<1>1. Master \in Names /\ MaxIdle \in Nat /\ Capacity \in Nat
  BY IiAssumption
<1>2. ListOK
  <2>1. <<Master>> \in Seq(Names) /\ DOMAIN <<Master>> = {1}
    BY <1>1
  <2> QED
    BY <2>1 DEF Init, ListOK, NoneTwice
<1>3. LoopOK
  BY DEF Init, LoopOK, Selecting
<1>4. idle \in 0 .. MaxIdle /\ outgoing \in 0 .. Capacity
  BY <1>1 DEF Init
<1>5. sending \in BOOLEAN
  BY DEF Init
<1>6. hungup \cup usable \cup writing \subseteq Names /\ incoming \in Seq(ServerLines)
  BY DEF Init
<1> QED
  BY <1>2, <1>3, <1>4, <1>5, <1>6 DEF Init, IInv, WorldOK, PrintedRight

LEMMA OutsideKeeps ==
    ASSUME IInv, UNCHANGED <<channels, loop, sending, idle, out>>,
           hungup' \cup usable' \cup writing' \subseteq Names,
           incoming' \in Seq(ServerLines), outgoing' \in 0 .. Capacity
    PROVE  IInv'
  BY DEF IInv, ListOK, NoneTwice, LoopOK, Listed, WorldOK, PrintedRight

LEMMA ProgramsKeep == ASSUME IInv, Programs PROVE IInv'
<1>1. PICK c \in Names :
          Write(c) \/ WriteBegins(c) \/ WriteEnds(c) \/ WriterLeaves(c) \/ Obstruct(c)
  BY DEF Programs
<1>2. UNCHANGED <<channels, loop, sending, idle, out, incoming, outgoing>>
  BY <1>1 DEF Write, WriteBegins, WriteEnds, WriterLeaves, Obstruct, program, server
<1>3. /\ hungup' \subseteq hungup \cup {c} /\ usable' \subseteq usable
      /\ writing' \subseteq writing \cup {c}
  BY <1>1 DEF Write, WriteBegins, WriteEnds, WriterLeaves, Obstruct
<1>4. WorldOK
  BY DEF IInv
<1> QED
  BY <1>2, <1>3, <1>4, OutsideKeeps DEF WorldOK

LEMMA ServerKeeps == ASSUME IInv, ServerBegins \/ Serving \/ ServerCloses PROVE IInv'
<1>1. UNCHANGED <<channels, loop, sending, idle, out, hungup, usable, writing>>
  BY DEF ServerBegins, Serving, ServerEnds, ServerReads, ServerCloses, program
<1>2. WorldOK
  BY DEF IInv
<1>3. incoming' \in Seq(ServerLines)
  <2>1. CASE UNCHANGED incoming
    BY <1>2, <2>1 DEF WorldOK
  <2>2. ASSUME NEW text \in ServerLines, incoming' = Append(incoming, text)
        PROVE  incoming' \in Seq(ServerLines)
    BY <1>2, <2>2 DEF WorldOK
  <2> QED
    BY <2>1, <2>2 DEF ServerBegins, Serving, ServerEnds, ServerReads, ServerCloses
<1>4. outgoing' \in 0 .. Capacity
  BY <1>2, IiAssumption
  DEF WorldOK, ServerBegins, Serving, ServerEnds, ServerReads, ServerCloses
<1> QED
  BY <1>1, <1>2, <1>3, <1>4, OutsideKeeps DEF WorldOK

LEMMA LoopKeeps ==
    ASSUME IInv, Select \/ Idle \/ Written \/ WriteFails \/ Disconnected \/ Crash PROVE IInv'
<1>1. UNCHANGED <<channels, hungup, incoming, out, usable, writing>>
  BY DEF Select, Idle, Written, WriteFails, Disconnected, Crash, outside
<1>2. Listed \subseteq Names
  BY DEF IInv, ListOK, Listed, Range
<1>3. LoopOK'
  <2>1. CASE Select
    BY <1>1, <1>2, <2>1 DEF Select, Ready, LoopOK
  <2>2. CASE Exit
    BY <1>1, <2>2 DEF Exit, Selecting, LoopOK
  <2>3. CASE UNCHANGED loop
    BY <1>1, <2>3 DEF IInv, LoopOK, Listed
  <2> QED
    BY <2>1, <2>2, <2>3 DEF Idle, Written, WriteFails, Disconnected, Crash
<1>4. idle' \in 0 .. MaxIdle
  BY IiAssumption DEF Select, Idle, Written, WriteFails, Disconnected, Crash, IInv, WorldOK
<1>5. sending' \in BOOLEAN
  BY DEF Select, Idle, Written, WriteFails, Disconnected, Crash, IInv, WorldOK
<1>6. outgoing' \in 0 .. Capacity
  <2>1. outgoing \in 0 .. Capacity /\ Capacity \in Nat
    BY IiAssumption DEF IInv, WorldOK
  <2>2. UNCHANGED outgoing \/ (outgoing < Capacity /\ outgoing' = outgoing + 1)
    BY DEF Select, Idle, Written, WriteFails, Disconnected, Crash
  <2> QED
    BY <2>1, <2>2
<1> QED
  BY <1>1, <1>3, <1>4, <1>5, <1>6 DEF IInv, ListOK, NoneTwice, Listed, WorldOK, PrintedRight

LEMMA ServerCommandKeeps ==
    ASSUME IInv, NEW text \in ServerLines, ServerCommand(text)
    PROVE  ListOK' /\ PrintedRight' /\ Listed \subseteq Listed'
<1>1. ListOK /\ PrintedRight
  BY DEF IInv
<1>2. CASE text = "PING" /\ UNCHANGED <<channels, out>>
  BY <1>1, <1>2 DEF ListOK, NoneTwice, PrintedRight, Listed
<1>3. CASE /\ text = "plain" /\ Master \in Listed
           /\ out' = Printed(text, Master) /\ UNCHANGED channels
  BY <1>1, <1>3, IiAssumption DEF ListOK, NoneTwice, PrintedRight, Listed, Printed
<1>4. CASE /\ text = "plain" /\ Master \notin Listed /\ UNCHANGED channels
           /\ \E c \in Listed \cup {Freed} : out' = Printed(text, c)
  BY <1>1, <1>4, IiAssumption DEF ListOK, NoneTwice, PrintedRight, Listed, Printed
<1>5. CASE /\ text \in Names /\ channels' = Joined(text)
           /\ out' = IF text \in Range(channels') THEN Printed(text, text) ELSE out
  <2>1. text # Master /\ text # "plain"
    BY <1>5, IiAssumption
  <2>2. ListOK' /\ Listed \subseteq Listed' /\ Listed' \subseteq Listed \cup {text}
    BY <1>1, <1>5, JoinedIsMore
  <2>3. Master \notin Listed => Master \notin Listed'
    BY <2>1, <2>2
  <2>4. \A p \in out' : p \in out \/ (p.line = text /\ p.on = text)
    BY <1>5 DEF Printed
  <2>5. PrintedRight'
    BY <1>1, <2>1, <2>3, <2>4 DEF PrintedRight
  <2> QED
    BY <2>2, <2>5
<1> QED
  BY <1>2, <1>3, <1>4, <1>5 DEF ServerCommand

LEMMA HandleServerOutputKeeps ==
    ASSUME IInv, HandleServerOutput PROVE IInv' /\ Listed \subseteq Listed'
<1>1. UNCHANGED <<hungup, outgoing, usable, writing>>
  BY DEF HandleServerOutput, outside
<1>2. /\ ListOK' /\ PrintedRight' /\ idle' \in 0 .. MaxIdle /\ incoming' \in Seq(ServerLines)
      /\ sending' \in BOOLEAN /\ Listed \subseteq Listed'
  <2>1. CASE UNCHANGED <<channels, sending, idle, incoming, out>>
    BY <2>1 DEF IInv, ListOK, NoneTwice, PrintedRight, Listed, WorldOK
  <2>2. CASE /\ incoming # <<>> /\ incoming' = Tail(incoming) /\ idle' = 0
             /\ ServerCommand(Head(incoming))
    <3>1. incoming \in Seq(ServerLines)
      BY DEF IInv, WorldOK
    <3>2. Head(incoming) \in ServerLines /\ Tail(incoming) \in Seq(ServerLines)
      BY <2>2, <3>1
    <3>3. 0 \in 0 .. MaxIdle
      BY IiAssumption
    <3>4. sending' \in BOOLEAN
      BY <2>2 DEF ServerCommand
    <3> QED
      BY <2>2, <3>2, <3>3, <3>4, ServerCommandKeeps
  <2> QED
    BY <2>1, <2>2 DEF HandleServerOutput
<1>3. First' \in Listed' \cup {NULL}
  <2>1. channels' # <<>> => 1 \in DOMAIN channels'
    BY <1>2 DEF ListOK
  <2> QED
    BY <2>1 DEF First, Listed, Range
<1>4. loop' = [loop EXCEPT !.at = "channels", !.c = First'] /\ LoopOK
  BY DEF HandleServerOutput, IInv
<1>5. LoopOK'
  BY <1>3, <1>4 DEF LoopOK
<1>6. WorldOK'
  BY <1>1, <1>2 DEF IInv, WorldOK
<1> QED
  BY <1>2, <1>5, <1>6 DEF IInv

(* Whatever is done with the channel at the pointer, it is in the list.    *)
LEMMA ReadyIsListed == ASSUME LoopOK, loop.c \in loop.ready PROVE loop.c \in Listed
  BY IiAssumption DEF LoopOK, NULL, Server

LEMMA HandleChannelKeeps == ASSUME IInv, HandleChannel PROVE IInv'
<1>1. UNCHANGED <<channels, idle, incoming, out, hungup, usable, writing, outgoing>>
  BY DEF HandleChannel, outside
<1>2. LoopOK /\ ListOK
  BY DEF IInv
<1>3. sending' \in BOOLEAN
  <2>1. UNCHANGED sending \/ sending' = (LineLength(loop.c) > 1)
    BY DEF HandleChannel, ReadsLine, ReadFails
  <2>2. (LineLength(loop.c) > 1) \in BOOLEAN
    OBVIOUS
  <2> QED
    BY <2>1, <2>2 DEF IInv, WorldOK
<1>4. LoopOK'
  <2>1. CASE loop' = Selecting
    BY <2>1 DEF LoopOK, Selecting
  <2>2. ASSUME loop.c # NULL, loop' = [loop EXCEPT !.c = NextChannel(loop.c)], loop.at = "channels"
        PROVE  LoopOK'
    <3>1. loop.c \in Listed
      BY <1>2, <2>2 DEF LoopOK
    <3>2. After(channels, loop.c) \in Listed \cup {NULL}
      BY <1>2, <3>1, AfterInList
    <3> QED
      BY <1>1, <1>2, <2>2, <3>2 DEF LoopOK, NextChannel, Listed
  <2>3. CASE loop.c \in loop.ready /\ ReadFails(loop.c)
    BY <1>1, <1>2, <2>3, ReadyIsListed DEF LoopOK, ReadFails, Listed
  <2>4. CASE loop.c \in loop.ready /\ ReadsLine(loop.c)
    <3>1. loop.c # NULL
      BY <1>2, <2>4, IiAssumption DEF LoopOK, NULL, Server
    <3> QED
      BY <2>2, <2>4, <3>1 DEF ReadsLine, HandleChannel, At
  <2> QED
    BY <2>1, <2>2, <2>3, <2>4 DEF HandleChannel, At
<1> QED
  BY <1>1, <1>3, <1>4 DEF IInv, ListOK, NoneTwice, Listed, WorldOK, PrintedRight

LEMMA CloseFifoKeeps == ASSUME IInv, CloseFifo PROVE IInv'
<1>1. UNCHANGED <<channels, sending, idle, incoming, out, hungup, usable, writing, outgoing>>
  BY DEF CloseFifo, outside
<1>2. LoopOK'
  BY <1>1 DEF CloseFifo, IInv, LoopOK, Listed
<1> QED
  BY <1>1, <1>2 DEF IInv, ListOK, NoneTwice, Listed, WorldOK, PrintedRight

(* A channel that cannot be opened again is freed, and no other.           *)
LEMMA OpenFifoKeeps ==
    ASSUME IInv, OpenFifo PROVE IInv' /\ Listed \ {loop.c} \subseteq Listed'
<1>1. UNCHANGED <<sending, idle, incoming, out, usable, writing, outgoing>>
  BY DEF OpenFifo, outside
<1>2. LoopOK /\ ListOK /\ PrintedRight /\ Master \in Names
  BY IiAssumption DEF IInv
<1>3. PICK c : c = loop.c
  OBVIOUS
<1>4. c \in Listed
  BY <1>2, <1>3 DEF LoopOK, OpenFifo
<1>5. ListOK' /\ Listed \ {c} \subseteq Listed' /\ Listed' \subseteq Listed
  <2>1. CASE channels' = channels
    BY <1>2, <2>1 DEF ListOK, NoneTwice, Listed
  <2>2. CASE channels' = WithoutChannel(c)
    BY <1>2, <1>4, <2>2, WithoutIsRest
  <2> QED
    BY <1>3, <2>1, <2>2 DEF OpenFifo
<1>6. After(channels, c) \in (Listed \ {c}) \cup {NULL}
  BY <1>2, <1>4, AfterInList
<1>7. loop' = [loop EXCEPT !.at = "channels", !.c = After(channels, c)]
  BY <1>3 DEF OpenFifo, NextChannel
<1>8. LoopOK'
  BY <1>2, <1>5, <1>6, <1>7 DEF LoopOK
<1>9. PrintedRight'
  BY <1>1, <1>2, <1>5 DEF PrintedRight
<1>10. hungup' \subseteq hungup
  BY DEF OpenFifo
<1>11. WorldOK'
  BY <1>1, <1>10 DEF IInv, WorldOK
<1> QED
  BY <1>3, <1>5, <1>8, <1>9, <1>11 DEF IInv

LEMMA StepIInv == IInv /\ [Next]_vars => IInv'
<1> SUFFICES ASSUME IInv, [Next]_vars PROVE IInv'
  OBVIOUS
<1>1. CASE UNCHANGED vars
  BY <1>1 DEF vars, IInv, ListOK, NoneTwice, LoopOK, Listed, WorldOK, PrintedRight
<1> QED
  BY <1>1, LoopKeeps, HandleServerOutputKeeps, HandleChannelKeeps, CloseFifoKeeps,
     OpenFifoKeeps, ProgramsKeep, ServerKeeps
  DEF Next, Run

LEMMA IInvAlways == Spec => []IInv
  BY InitIInv, StepIInv, PTL DEF Spec

(* Every variable keeps its type: the list holds channels, and select is   *)
(* only told of descriptors of channels and of the socket.                 *)
THEOREM IiTypeCorrect == Spec => []TypeOK
<1>1. IInv => TypeOK
  BY DEF IInv, TypeOK, ListOK, LoopOK, WorldOK
<1> QED
  BY <1>1, IInvAlways, PTL

(* The loop over the channels never follows a freed pointer, although      *)
(* handle_channels_input may free the channel that is handled and the      *)
(* server's lines add channels before the loop: the list has no channel    *)
(* twice and `next` was saved before the handler ran (ii.c:778-782).       *)
THEOREM LoopPointerIsListed == Spec => []ListWalkable
<1>1. IInv => ListWalkable
  BY DEF IInv, ListOK, NoneTwice, LoopOK, ListWalkable, IsInjective
<1> QED
  BY <1>1, IInvAlways, PTL

(* A line of the server is printed to the channel it names and to no       *)
(* other, and one that names none to the master for as long as that is in  *)
(* the list, whatever has been freed or created in between.                *)
THEOREM LinesPrintedRight == Spec => []PrintedWhereNamed
<1>1. IInv => PrintedWhereNamed
  BY DEF IInv, PrintedRight, PrintedWhereNamed
<1> QED
  BY <1>1, IInvAlways, PTL

-----------------------------------------------------------------------------
(* What is sent for a channel.  For each channel, S are the numbers sent,  *)
(* F what is in its FIFO and W what was written.  The numbers that were    *)
(* sent or wait are increasing, what was written with its end and in time  *)
(* is among them, and in the FIFO it is followed by its EOL: what a read   *)
(* without an EOL throws away is parts only.                               *)
NumberOf == [x \in Nat |-> IF x = EOL THEN <<>> ELSE <<x>>]
Both(S, F) == S \o Numbers(F)

InOrder(S, F) ==
    \A i, j \in 1 .. Len(Both(S, F)) : i < j => Both(S, F)[i] < Both(S, F)[j]
NumbersOf(S, F, W) == \A i \in 1 .. Len(Both(S, F)) : Both(S, F)[i] <= Len(W)
LinesThere(S, F, W) ==
    \A n \in 1 .. Len(W) : W[n] => \E i \in 1 .. Len(Both(S, F)) : Both(S, F)[i] = n
LinesWhole(F, W) ==
    \A k \in 1 .. Len(F) :
        /\ F[k] <= Len(W)
        /\ F[k] # EOL /\ W[F[k]] => k + 1 <= Len(F) /\ F[k + 1] = EOL

Sound(S, F, W) ==
    /\ S \in Seq(Nat) /\ F \in Seq(Nat) /\ W \in Seq(BOOLEAN)
    /\ InOrder(S, F) /\ NumbersOf(S, F, W) /\ LinesThere(S, F, W) /\ LinesWhole(F, W)

LEMMA NumberOfType == Maps(NumberOf, Nat, Nat)
<1>1. \A x \in Nat : <<x>> \in Seq(Nat)
  OBVIOUS
<1>2. <<>> \in Seq(Nat)
  OBVIOUS
<1> QED
  BY <1>1, <1>2 DEF NumberOf, Maps

LEMMA NumbersMap == ASSUME NEW s \in Seq(Nat) PROVE Numbers(s) = FlatMap(NumberOf, s)
<1>1. [i \in DOMAIN s |-> IF s[i] = EOL THEN <<>> ELSE <<s[i]>>] =
          [i \in DOMAIN s |-> NumberOf[s[i]]]
  BY ElementType DEF NumberOf
<1> QED
  BY <1>1 DEF Numbers, FlatMap

LEMMA NumbersFacts ==
    /\ \A s, t \in Seq(Nat) : Numbers(s \o t) = Numbers(s) \o Numbers(t)
    /\ \A s \in Seq(Nat) : Numbers(s) \in Seq(Nat)
    /\ \A s \in Seq(Nat) : (\A i \in DOMAIN s : s[i] # EOL) => Numbers(s) = s
    /\ Numbers(<<>>) = <<>> /\ Numbers(<<EOL>>) = <<>>
    /\ \A n \in Nat \ {0} : Numbers(<<n>>) = <<n>> /\ Numbers(<<n, EOL>>) = <<n>>
<1>0. \A s, t \in Seq(Nat) : s \o t \in Seq(Nat)
  BY ConcatFacts
<1>1. \A s, t \in Seq(Nat) : /\ FlatMap(NumberOf, s \o t) = FlatMap(NumberOf, s) \o FlatMap(NumberOf, t)
                             /\ FlatMap(NumberOf, s) \in Seq(Nat)
  BY NumberOfType, FlatMapJoin, Zenon
<1>2. /\ \A s, t \in Seq(Nat) : Numbers(s \o t) = Numbers(s) \o Numbers(t)
      /\ \A s \in Seq(Nat) : Numbers(s) \in Seq(Nat)
  BY <1>0, <1>1, NumbersMap
<1>3. ASSUME NEW s \in Seq(Nat), \A i \in DOMAIN s : s[i] # EOL PROVE Numbers(s) = s
  <2>1. \A i \in DOMAIN s : NumberOf[s[i]] = <<s[i]>>
    BY <1>3, ElementType DEF NumberOf
  <2>2. FlatMap(NumberOf, s) = s
    BY <2>1, NumberOfType, FlatMapSame
  <2> QED
    BY <2>2, NumbersMap
<1>4. <<>> \in Seq(Nat) /\ <<EOL>> \in Seq(Nat)
  BY DEF EOL
<1>5. Numbers(<<>>) = <<>>
  BY <1>4, NumbersMap, FlatMapEmpty
<1>6. Numbers(<<EOL>>) = <<>>
  BY <1>4, NumbersMap, FlatMapSingle DEF NumberOf, EOL
<1>7. ASSUME NEW n \in Nat \ {0} PROVE Numbers(<<n>>) = <<n>> /\ Numbers(<<n, EOL>>) = <<n>>
  <2>1. <<n>> \in Seq(Nat) /\ <<n, EOL>> = <<n>> \o <<EOL>> /\ <<n>> \o <<>> = <<n>>
    BY DEF EOL
  <2>2. Numbers(<<n>>) = <<n>>
    <3>1. \A i \in DOMAIN <<n>> : <<n>>[i] # EOL
      BY DEF EOL
    <3> QED
      BY <2>1, <3>1, <1>3
  <2>3. Numbers(<<n>> \o <<EOL>>) = Numbers(<<n>>) \o Numbers(<<EOL>>)
    BY <1>2, <1>4, <2>1
  <2> QED
    BY <1>6, <2>1, <2>2, <2>3, Zenon
<1> QED
  BY <1>2, <1>3, <1>5, <1>6, <1>7

LEMMA NumbersJoin == \A x, y, z \in Seq(Nat) : (x \o y) \o z = x \o (y \o z)
  BY ConcatFacts

LEMMA BothType ==
    ASSUME NEW S \in Seq(Nat), NEW F \in Seq(Nat)
    PROVE  Both(S, F) \in Seq(Nat)
  BY NumbersFacts, ConcatFacts DEF Both

LEMMA BothOfMore ==
    ASSUME NEW S \in Seq(Nat), NEW F \in Seq(Nat), NEW more \in Seq(Nat)
    PROVE  Both(S, F \o more) = Both(S, F) \o Numbers(more)
<1> DEFINE a == Numbers(F)
           c == Numbers(more)
<1>1. Numbers(F \o more) = a \o c
  BY NumbersFacts
<1>2. a \in Seq(Nat) /\ c \in Seq(Nat)
  BY NumbersFacts
<1>3. Both(S, F) = S \o a /\ Both(S, F \o more) = S \o (a \o c)
  BY <1>1 DEF Both
<1> HIDE DEF a
<1>4. S \o (a \o c) = (S \o a) \o c
  BY <1>2, NumbersJoin
<1> QED
  BY <1>3, <1>4

(* A number more, with the EOL that makes it a line or without one.        *)
LEMMA WriteKeepsSound ==
    ASSUME NEW S, NEW F, NEW W, Sound(S, F, W), NEW b \in BOOLEAN, NEW more,
           \/ more = <<Len(W) + 1, EOL>>
           \/ more = <<Len(W) + 1>> /\ b = FALSE
    PROVE  Sound(S, F \o more, Append(W, b))
<1> DEFINE n == Len(W) + 1
           X == Both(S, F)
           Y == Both(S, F \o more)
           V == Append(W, b)
           G == F \o more
<1>1. /\ S \in Seq(Nat) /\ F \in Seq(Nat) /\ W \in Seq(BOOLEAN) /\ Len(W) \in Nat
      /\ n \in Nat \ {0} /\ n - 1 = Len(W) /\ n = Len(W) + 1
  <2>1. S \in Seq(Nat) /\ F \in Seq(Nat) /\ W \in Seq(BOOLEAN)
    BY DEF Sound
  <2> QED
    BY <2>1
<1> HIDE DEF n
<1>2. more \in Seq(Nat) /\ Numbers(more) = <<n>>
  <2>1. <<n>> \in Seq(Nat) /\ <<n, EOL>> \in Seq(Nat)
    BY <1>1 DEF EOL
  <2>2. \A x \in Nat \ {0} : Numbers(<<x>>) = <<x>> /\ Numbers(<<x, EOL>>) = <<x>>
    BY NumbersFacts
  <2> QED
    BY <1>1, <2>1, <2>2 DEF n
<1>3. X \in Seq(Nat) /\ Y = X \o <<n>>
  <2>1. X \in Seq(Nat)
    BY <1>1, BothType
  <2>2. Y = X \o Numbers(more)
    BY <1>1, <1>2, BothOfMore
  <2> QED
    BY <2>1, <2>2, <1>2
<1>4. /\ Len(Y) = Len(X) + 1 /\ Y[Len(X) + 1] = n
      /\ \A i \in 1 .. Len(X) : Y[i] = X[i]
      /\ Len(X) \in Nat
  BY <1>1, <1>3
<1>5. V \in Seq(BOOLEAN) /\ Len(V) = n /\ V[n] = b /\ \A i \in 1 .. Len(W) : V[i] = W[i]
  BY <1>1
<1>6. /\ G \in Seq(Nat) /\ \A i \in 1 .. Len(F) : G[i] = F[i]
      /\ \/ Len(G) = Len(F) + 2 /\ G[Len(F) + 1] = n /\ G[Len(F) + 2] = EOL
         \/ Len(G) = Len(F) + 1 /\ G[Len(F) + 1] = n /\ b = FALSE
      /\ Len(F) \in Nat
  <2>1. Len(F) \in Nat /\ \A m \in Seq(Nat) : /\ F \o m \in Seq(Nat) /\ Len(F \o m) = Len(F) + Len(m)
                           /\ (\A i \in 1 .. Len(F) : (F \o m)[i] = F[i])
                           /\ (\A i \in 1 .. Len(m) : (F \o m)[Len(F) + i] = m[i])
    BY <1>1
  <2>4. /\ G \in Seq(Nat) /\ Len(G) = Len(F) + Len(more)
        /\ \A i \in 1 .. Len(F) : G[i] = F[i]
        /\ \A i \in 1 .. Len(more) : G[Len(F) + i] = more[i]
    BY <1>2, <2>1
  <2> HIDE DEF G
  <2>2. CASE more = <<n, EOL>>
    <3>1. Len(more) = 2 /\ more[1] = n /\ more[2] = EOL
      BY <2>2
    <3>2. 1 \in 1 .. Len(more) /\ 2 \in 1 .. Len(more)
      BY <3>1
    <3>3. G[Len(F) + 1] = n /\ G[Len(F) + 2] = EOL /\ Len(G) = Len(F) + 2
      BY <2>4, <3>1, <3>2
    <3> QED
      BY <2>1, <2>4, <3>3
  <2>3. CASE more = <<n>> /\ b = FALSE
    <3>1. Len(more) = 1 /\ more[1] = n
      BY <2>3
    <3>2. 1 \in 1 .. Len(more)
      BY <3>1
    <3>3. G[Len(F) + 1] = n /\ Len(G) = Len(F) + 1
      BY <2>4, <3>1, <3>2
    <3> QED
      BY <2>1, <2>3, <2>4, <3>3
  <2> QED
    BY <2>2, <2>3 DEF n
<1> HIDE DEF X, Y, V, G
<1>7. (\A i, j \in 1 .. Len(X) : i < j => X[i] < X[j]) /\ (\A i \in 1 .. Len(X) : X[i] <= n - 1)
  BY <1>1 DEF Sound, InOrder, NumbersOf, X
<1>8. \A i, j \in 1 .. Len(Y) : i < j => Y[i] < Y[j]
  <2> SUFFICES ASSUME NEW i \in 1 .. Len(Y), NEW j \in 1 .. Len(Y), i < j PROVE Y[i] < Y[j]
    OBVIOUS
  <2>1. i \in 1 .. Len(X) /\ Y[i] = X[i] /\ X[i] \in Nat
    BY <1>3, <1>4
  <2>2. CASE j = Len(X) + 1
    <3>1. X[i] <= n - 1 /\ Y[j] = n
      BY <1>4, <1>7, <2>1, <2>2
    <3> QED
      BY <1>1, <2>1, <3>1
  <2>3. CASE j # Len(X) + 1
    BY <1>4, <1>7, <2>1, <2>3
  <2> QED
    BY <2>2, <2>3
<1>9. \A i \in 1 .. Len(Y) : Y[i] <= Len(V)
  <2> SUFFICES ASSUME NEW i \in 1 .. Len(Y) PROVE Y[i] <= Len(V)
    OBVIOUS
  <2>1. CASE i = Len(X) + 1
    BY <1>1, <1>4, <1>5, <2>1
  <2>2. CASE i # Len(X) + 1
    <3>1. i \in 1 .. Len(X) /\ Y[i] = X[i] /\ X[i] \in Nat /\ X[i] <= n - 1
      BY <1>3, <1>4, <1>7, <2>2
    <3> QED
      BY <1>1, <1>5, <3>1
  <2> QED
    BY <2>1, <2>2
<1>10. \A m \in 1 .. Len(V) : V[m] => \E i \in 1 .. Len(Y) : Y[i] = m
  <2> SUFFICES ASSUME NEW m \in 1 .. Len(V), V[m] PROVE \E i \in 1 .. Len(Y) : Y[i] = m
    OBVIOUS
  <2>1. CASE m = n
    <3>1. Len(X) + 1 \in 1 .. Len(Y)
      BY <1>4
    <3> QED
      BY <1>4, <2>1, <3>1
  <2>2. CASE m # n
    <3>1. m \in 1 .. Len(W) /\ W[m]
      BY <1>1, <1>5, <2>2
    <3>2. PICK i \in 1 .. Len(X) : X[i] = m
      BY <3>1 DEF Sound, LinesThere, X
    <3> QED
      BY <1>4, <3>2
  <2> QED
    BY <2>1, <2>2
<1>11. \A k \in 1 .. Len(G) : /\ G[k] <= Len(V)
                              /\ G[k] # EOL /\ V[G[k]] => k + 1 <= Len(G) /\ G[k + 1] = EOL
  <2> SUFFICES ASSUME NEW k \in 1 .. Len(G)
               PROVE  /\ G[k] <= Len(V)
                      /\ G[k] # EOL /\ V[G[k]] => k + 1 <= Len(G) /\ G[k + 1] = EOL
    OBVIOUS
  <2>1. CASE k \in 1 .. Len(F)
    <3>1. /\ G[k] = F[k] /\ F[k] \in Nat /\ F[k] <= n - 1
          /\ F[k] # EOL /\ W[F[k]] => k + 1 <= Len(F) /\ F[k + 1] = EOL
      <4>1. G[k] = F[k] /\ F[k] \in Nat
        <5>1. F[k] \in Nat
          BY <1>1, <2>1
        <5> QED
          BY <1>6, <2>1, <5>1
      <4>2. F[k] <= Len(W) /\ (F[k] # EOL /\ W[F[k]] => k + 1 <= Len(F) /\ F[k + 1] = EOL)
        BY <2>1 DEF Sound, LinesWhole
      <4> QED
        BY <1>1, <4>1, <4>2
    <3>2. F[k] # EOL => F[k] \in 1 .. Len(W)
      BY <1>1, <3>1 DEF EOL
    <3>3. G[k] <= Len(V)
      BY <1>1, <1>5, <3>1
    <3>4. ASSUME F[k] # EOL, V[F[k]] PROVE k + 1 <= Len(G) /\ G[k + 1] = EOL
      <4>1. k + 1 <= Len(F) /\ F[k + 1] = EOL
        BY <1>5, <3>1, <3>2, <3>4
      <4> QED
        BY <1>6, <2>1, <4>1, SMTT(30)
    <3> QED
      BY <3>1, <3>3, <3>4
  <2>2. CASE k = Len(F) + 1
    BY <1>1, <1>5, <1>6, <2>2
  <2>3. CASE k = Len(F) + 2
    <3>1. G[k] = EOL
      BY <1>6, <2>3
    <3> QED
      BY <1>1, <1>5, <3>1 DEF EOL
  <2> QED
    BY <1>6, <2>1, <2>2, <2>3
<1>12. Sound(S, G, V)
  BY <1>1, <1>5, <1>6, <1>8, <1>9, <1>10, <1>11
  DEF Sound, InOrder, NumbersOf, LinesThere, LinesWhole, Y, G
<1> QED
  BY <1>12 DEF G, V

(* A program opens the FIFO and writes nothing yet.                        *)
LEMMA NothingKeepsSound ==
    ASSUME NEW S, NEW F, NEW W, Sound(S, F, W)
    PROVE  Sound(S, F, Append(W, FALSE))
<1> DEFINE V == Append(W, FALSE)
           X == Both(S, F)
<1>1. S \in Seq(Nat) /\ F \in Seq(Nat) /\ W \in Seq(BOOLEAN) /\ Len(W) \in Nat
  <2>1. S \in Seq(Nat) /\ F \in Seq(Nat) /\ W \in Seq(BOOLEAN)
    BY DEF Sound
  <2> QED
    BY <2>1
<1>2. /\ V \in Seq(BOOLEAN) /\ Len(V) = Len(W) + 1 /\ V[Len(W) + 1] = FALSE
      /\ \A i \in 1 .. Len(W) : V[i] = W[i]
  BY <1>1
<1>3. X \in Seq(Nat)
  BY <1>1, BothType
<1> HIDE DEF V, X
<1>4. NumbersOf(S, F, V)
  <2> SUFFICES ASSUME NEW i \in 1 .. Len(X) PROVE X[i] <= Len(V)
    BY DEF NumbersOf, X
  <2>1. X[i] \in Nat /\ X[i] <= Len(W)
    <3>1. X[i] \in Nat
      BY <1>3
    <3> QED
      BY <3>1 DEF Sound, NumbersOf, X
  <2> QED
    BY <1>1, <1>2, <2>1
<1>5. \A n \in 1 .. Len(V) : V[n] => n \in 1 .. Len(W) /\ W[n]
  <2> SUFFICES ASSUME NEW n \in 1 .. Len(V), V[n] PROVE n \in 1 .. Len(W) /\ W[n]
    OBVIOUS
  <2>1. n # Len(W) + 1
    BY <1>2
  <2>2. n \in 1 .. Len(W)
    BY <1>1, <1>2, <2>1
  <2> QED
    BY <1>2, <2>2
<1>6. LinesThere(S, F, V)
  BY <1>5 DEF Sound, LinesThere
<1>7. LinesWhole(F, V)
  <2> SUFFICES ASSUME NEW k \in 1 .. Len(F)
               PROVE  /\ F[k] <= Len(V)
                      /\ F[k] # EOL /\ V[F[k]] => k + 1 <= Len(F) /\ F[k + 1] = EOL
    BY DEF LinesWhole
  <2>1. /\ F[k] <= Len(W)
        /\ F[k] # EOL /\ W[F[k]] => k + 1 <= Len(F) /\ F[k + 1] = EOL
    BY DEF Sound, LinesWhole
  <2>2. F[k] \in Nat
    BY <1>1
  <2>3. F[k] <= Len(V)
    BY <1>1, <1>2, <2>1, <2>2
  <2>4. F[k] # EOL => F[k] \in 1 .. Len(W)
    BY <1>1, <2>1, <2>2 DEF EOL
  <2>5. F[k] # EOL /\ V[F[k]] => W[F[k]]
    BY <1>2, <2>4
  <2> QED
    BY <2>1, <2>3, <2>5
<1> QED
  BY <1>1, <1>2, <1>4, <1>6, <1>7 DEF Sound, V

(* What is in a FIFO is lost, when nothing in it is due.                   *)
LEMMA LossKeepsSound ==
    ASSUME NEW S, NEW F, NEW W, Sound(S, F, W), LinesThere(S, <<>>, W)
    PROVE  Sound(S, <<>>, W)
<1> DEFINE X == Both(S, F)
           N == Numbers(F)
<1>1. S \in Seq(Nat) /\ F \in Seq(Nat) /\ W \in Seq(BOOLEAN) /\ Len(S) \in Nat
  <2>1. S \in Seq(Nat) /\ F \in Seq(Nat) /\ W \in Seq(BOOLEAN)
    BY DEF Sound
  <2> QED
    BY <2>1
<1>2. N \in Seq(Nat) /\ X = S \o N
  BY <1>1, NumbersFacts DEF Both
<1>3. Both(S, <<>>) = S
  <2>1. S \o <<>> = S
    BY <1>1
  <2> QED
    BY <2>1, NumbersFacts DEF Both
<1> HIDE DEF N
<1>4. Len(X) = Len(S) + Len(N) /\ Len(N) \in Nat /\ \A i \in 1 .. Len(S) : X[i] = S[i]
  BY <1>1, <1>2
<1> HIDE DEF X
<1>5. \A i \in 1 .. Len(S) : i \in 1 .. Len(X)
  BY <1>1, <1>4
<1>6. InOrder(S, <<>>)
  BY <1>3, <1>4, <1>5 DEF Sound, InOrder, X
<1>7. NumbersOf(S, <<>>, W)
  BY <1>3, <1>4, <1>5 DEF Sound, NumbersOf, X
<1>8. LinesWhole(<<>>, W) /\ <<>> \in Seq(Nat)
  <2>1. <<>> \in Seq(Nat) /\ 1 .. Len(<<>>) = {}
    OBVIOUS
  <2> QED
    BY <2>1 DEF LinesWhole
<1> QED
  BY <1>1, <1>6, <1>7, <1>8 DEF Sound

(* A FIFO without an EOL is read and thrown away.                          *)
LEMMA ClearKeepsSound ==
    ASSUME NEW S, NEW F, NEW W, Sound(S, F, W), EOL \notin Range(F)
    PROVE  Sound(S, <<>>, W)
<1> DEFINE X == Both(S, F)
<1>1. /\ S \in Seq(Nat) /\ F \in Seq(Nat) /\ W \in Seq(BOOLEAN)
      /\ Len(S) \in Nat /\ Len(F) \in Nat /\ DOMAIN F = 1 .. Len(F)
  <2>1. S \in Seq(Nat) /\ F \in Seq(Nat) /\ W \in Seq(BOOLEAN)
    BY DEF Sound
  <2> QED
    BY <2>1
<1>2. \A i \in 1 .. Len(F) : F[i] # EOL
  BY <1>1 DEF Range
<1>3. X = S \o F
  BY <1>1, <1>2, NumbersFacts DEF Both
<1>4. Both(S, <<>>) = S
  <2>1. S \o <<>> = S
    BY <1>1
  <2> QED
    BY <2>1, NumbersFacts DEF Both
<1>5. /\ Len(X) = Len(S) + Len(F)
      /\ \A i \in 1 .. Len(S) : X[i] = S[i]
      /\ \A i \in 1 .. Len(F) : X[Len(S) + i] = F[i]
  BY <1>1, <1>3
<1> HIDE DEF X
<1>6. \A i \in 1 .. Len(S) : i \in 1 .. Len(X)
  BY <1>1, <1>5
<1>7. InOrder(S, <<>>)
  BY <1>4, <1>5, <1>6 DEF Sound, InOrder, X
<1>8. NumbersOf(S, <<>>, W)
  BY <1>4, <1>5, <1>6 DEF Sound, NumbersOf, X
<1>9. LinesThere(S, <<>>, W)
  <2> SUFFICES ASSUME NEW n \in 1 .. Len(W), W[n]
               PROVE  \E i \in 1 .. Len(S) : S[i] = n
    BY <1>4 DEF LinesThere
  <2>1. PICK i \in 1 .. Len(X) : X[i] = n
    BY DEF Sound, LinesThere, X
  <2>2. CASE i <= Len(S)
    BY <1>1, <1>5, <2>1, <2>2
  <2>3. CASE ~(i <= Len(S))
    <3> DEFINE k == i - Len(S)
    <3>1. k \in 1 .. Len(F) /\ i = Len(S) + k
      BY <1>1, <1>5, <2>3
    <3>2. F[k] = n /\ F[k] # EOL
      BY <1>2, <1>5, <2>1, <3>1
    <3>3. k + 1 <= Len(F) /\ F[k + 1] = EOL
      BY <3>1, <3>2 DEF Sound, LinesWhole
    <3>4. k + 1 \in 1 .. Len(F)
      BY <1>1, <3>1, <3>3
    <3> QED
      BY <1>2, <3>3, <3>4
  <2> QED
    BY <2>2, <2>3
<1>10. LinesWhole(<<>>, W) /\ <<>> \in Seq(Nat)
  <2>1. <<>> \in Seq(Nat) /\ 1 .. Len(<<>>) = {}
    OBVIOUS
  <2> QED
    BY <2>1 DEF LinesWhole
<1> QED
  BY <1>1, <1>7, <1>8, <1>9, <1>10 DEF Sound

(* A line is read and sent.                                                *)
LEMMA LineKeepsSound ==
    ASSUME NEW S, NEW F, NEW W, Sound(S, F, W),
           NEW k \in 1 .. Len(F), F[k] = EOL, \A i \in 1 .. k - 1 : F[i] # EOL
    PROVE  /\ SubSeq(F, 1, k - 1) \in Seq(Nat)
           /\ Sound(S \o SubSeq(F, 1, k - 1), SubSeq(F, k + 1, Len(F)), W)
<1> DEFINE P == SubSeq(F, 1, k - 1)
           R == SubSeq(F, k + 1, Len(F))
           N == Numbers(R)
           E == <<EOL>>
<1>1. /\ S \in Seq(Nat) /\ F \in Seq(Nat) /\ W \in Seq(BOOLEAN)
      /\ Len(F) \in Nat /\ E \in Seq(Nat)
  <2>1. S \in Seq(Nat) /\ F \in Seq(Nat) /\ W \in Seq(BOOLEAN)
    BY DEF Sound
  <2> QED
    BY <2>1 DEF EOL
<1>2. /\ P \in Seq(Nat) /\ Len(P) = k - 1 /\ DOMAIN P = 1 .. k - 1
      /\ \A i \in 1 .. k - 1 : P[i] = F[i]
  BY <1>1
<1>3. /\ R \in Seq(Nat) /\ Len(R) = Len(F) - k
      /\ \A i \in 1 .. Len(F) - k : R[i] = F[k + i]
  <2>1. R \in Seq(Nat)
    BY <1>1
  <2>2. Len(R) = Len(F) - k
    BY <1>1, SeqIsSeq, DropIsSeq
  <2>3. \A i \in 1 .. Len(F) - k : R[i] = F[(k + 1) + i - 1]
    BY <1>1
  <2>4. \A i \in 1 .. Len(F) - k : (k + 1) + i - 1 = k + i
    BY <1>1
  <2> QED
    BY <2>1, <2>2, <2>3, <2>4
<1> HIDE DEF P, R, E
<1>4. F = (P \o E) \o R
  BY <1>1, SplitAt DEF P, E, R
<1>5. Numbers(F) = P \o N
  <2>1. P \o E \in Seq(Nat)
    BY <1>1, <1>2
  <2>2. Numbers((P \o E) \o R) = Numbers(P \o E) \o Numbers(R)
    BY <1>3, <2>1, NumbersFacts
  <2>3. Numbers(P \o E) = Numbers(P) \o Numbers(E)
    BY <1>1, <1>2, NumbersFacts
  <2>4. Numbers(E) = <<>>
    BY NumbersFacts DEF E
  <2>5. Numbers(P) = P
    BY <1>2, NumbersFacts
  <2>6. P \o <<>> = P
    BY <1>2
  <2> QED
    BY <1>4, <2>2, <2>3, <2>4, <2>5, <2>6, Zenon
<1>6. Both(S \o P, R) = Both(S, F)
  <2>1. N \in Seq(Nat)
    BY <1>3, NumbersFacts
  <2> HIDE DEF N
  <2>3. (S \o P) \o N = S \o (P \o N)
    BY <1>1, <1>2, <2>1, NumbersJoin, ZenonT(30)
  <2> QED
    BY <1>5, <2>3, Zenon DEF Both, N
<1>7. InOrder(S \o P, R) /\ NumbersOf(S \o P, R, W) /\ LinesThere(S \o P, R, W)
  BY <1>6 DEF Sound, InOrder, NumbersOf, LinesThere
<1>8. LinesWhole(R, W)
  <2> SUFFICES ASSUME NEW i \in 1 .. Len(R)
               PROVE  /\ R[i] <= Len(W)
                      /\ R[i] # EOL /\ W[R[i]] => i + 1 <= Len(R) /\ R[i + 1] = EOL
    BY DEF LinesWhole
  <2>1. k + i \in 1 .. Len(F) /\ R[i] = F[k + i]
    BY <1>1, <1>3
  <2>2. /\ F[k + i] <= Len(W)
        /\ F[k + i] # EOL /\ W[F[k + i]] => (k + i) + 1 <= Len(F) /\ F[(k + i) + 1] = EOL
    BY <2>1 DEF Sound, LinesWhole
  <2>3. ASSUME (k + i) + 1 <= Len(F) PROVE i + 1 <= Len(R) /\ R[i + 1] = F[(k + i) + 1]
    <3>1. i + 1 \in 1 .. Len(F) - k /\ k + (i + 1) = (k + i) + 1 /\ i + 1 <= Len(R)
      BY <1>1, <1>3, <2>3
    <3> QED
      BY <1>3, <3>1
  <2> QED
    BY <2>1, <2>2, <2>3
<1>9. S \o P \in Seq(Nat)
  BY <1>1, <1>2
<1> QED
  BY <1>1, <1>2, <1>3, <1>7, <1>8, <1>9 DEF Sound, P, R

TextsOK ==
    /\ fifo \in [Names -> Seq(Nat)] /\ sent \in [Names -> Seq(Seq(Nat))]
    /\ written \in [Names -> Seq(BOOLEAN)]
SentOf(c) == FlattenSeq(sent[c])

(* While a FIFO may be lost with all that is in it, all that is due of it  *)
(* has been sent.                                                          *)
MayBeLost(c) == ~Open(c) \/ Late(c)
NothingDue(c) == MayBeLost(c) => LinesThere(SentOf(c), <<>>, written[c])

SentInv ==
    /\ TextsOK
    /\ \A c \in Names : Sound(SentOf(c), fifo[c], written[c])
    /\ \A c \in Names : NothingDue(c)

LEMMA InitSentInv == Init => SentInv
<1> SUFFICES ASSUME Init PROVE SentInv
  OBVIOUS
<1>1. \A T : <<>> \in Seq(T)
  OBVIOUS
<1>2. TextsOK
  <2>1. <<>> \in Seq(Nat) /\ <<>> \in Seq(Seq(Nat)) /\ <<>> \in Seq(BOOLEAN)
    BY <1>1
  <2> QED
    BY <2>1 DEF Init, TextsOK
<1>3. ASSUME NEW c \in Names PROVE Sound(SentOf(c), fifo[c], written[c]) /\ NothingDue(c)
  <2>1. SentOf(c) = <<>> /\ fifo[c] = <<>> /\ written[c] = <<>>
    BY FlattenEmpty DEF Init, SentOf
  <2>2. Both(<<>>, <<>>) = <<>>
    <3>1. <<>> \o <<>> = <<>>
      OBVIOUS
    <3> QED
      BY <3>1, NumbersFacts DEF Both
  <2>3. 1 .. Len(<<>>) = {}
    OBVIOUS
  <2>4. Sound(<<>>, <<>>, <<>>)
    BY <1>1, <2>2, <2>3 DEF Sound, InOrder, NumbersOf, LinesThere, LinesWhole
  <2> QED
    BY <2>1, <2>4 DEF NothingDue, Sound
<1> QED
  BY <1>2, <1>3 DEF SentInv

(* A step that changes no more than one channel's FIFO, what is sent of it *)
(* and what was written to it.                                             *)
LEMMA OneChannelKeepsSent ==
    ASSUME SentInv, NEW c \in Names, NEW F, NEW t \in Seq(Seq(Nat)), NEW W,
           fifo' = [fifo EXCEPT ![c] = F], sent' = [sent EXCEPT ![c] = t],
           written' = [written EXCEPT ![c] = W],
           Sound(FlattenSeq(t), F, W),
           MayBeLost(c)' => LinesThere(FlattenSeq(t), <<>>, W),
           \A d \in Names \ {c} : MayBeLost(d)' => MayBeLost(d)
    PROVE  SentInv'
<1>1. TextsOK /\ F \in Seq(Nat) /\ W \in Seq(BOOLEAN)
  BY DEF SentInv, Sound
<1>2. TextsOK'
  BY <1>1 DEF TextsOK
<1>3. ASSUME NEW d \in Names PROVE Sound(SentOf(d)', fifo'[d], written'[d]) /\ NothingDue(d)'
  <2>1. CASE d = c
    <3>1. sent'[c] = t /\ fifo'[c] = F /\ written'[c] = W
      BY <1>1 DEF TextsOK
    <3> QED
      BY <2>1, <3>1 DEF SentOf, NothingDue
  <2>2. CASE d # c
    <3>1. sent'[d] = sent[d] /\ fifo'[d] = fifo[d] /\ written'[d] = written[d]
      BY <1>1, <2>2 DEF TextsOK
    <3>2. Sound(SentOf(d), fifo[d], written[d]) /\ NothingDue(d)
      BY DEF SentInv
    <3>3. SentOf(d)' = SentOf(d)
      BY <3>1 DEF SentOf
    <3> QED
      BY <2>2, <3>1, <3>2, <3>3 DEF NothingDue
  <2> QED
    BY <2>1, <2>2
<1> QED
  BY <1>2, <1>3 DEF SentInv

LEMMA NoTextKeepsSent ==
    ASSUME SentInv, UNCHANGED <<fifo, sent, written>>,
           \A d \in Names : MayBeLost(d)' => MayBeLost(d)
    PROVE  SentInv'
<1>1. TextsOK'
  BY DEF SentInv, TextsOK
<1>2. ASSUME NEW d \in Names PROVE Sound(SentOf(d)', fifo'[d], written'[d]) /\ NothingDue(d)'
  <2>1. Sound(SentOf(d), fifo[d], written[d]) /\ NothingDue(d)
    BY DEF SentInv
  <2>2. SentOf(d)' = SentOf(d)
    BY DEF SentOf
  <2> QED
    BY <2>1, <2>2 DEF NothingDue
<1> QED
  BY <1>1, <1>2 DEF SentInv

(* What SentInv says of one channel.                                       *)
LEMMA TextsOf ==
    ASSUME SentInv, NEW c \in Names
    PROVE  /\ sent[c] \in Seq(Seq(Nat)) /\ fifo[c] \in Seq(Nat) /\ written[c] \in Seq(BOOLEAN)
           /\ sent = [sent EXCEPT ![c] = sent[c]] /\ written = [written EXCEPT ![c] = written[c]]
           /\ fifo = [fifo EXCEPT ![c] = fifo[c]]
           /\ Sound(FlattenSeq(sent[c]), fifo[c], written[c])
           /\ MayBeLost(c) => LinesThere(FlattenSeq(sent[c]), <<>>, written[c])
  BY DEF SentInv, TextsOK, SentOf, NothingDue

(* A late write makes nothing due.                                         *)
LEMMA NothingMoreIsDue ==
    ASSUME NEW S, NEW W \in Seq(BOOLEAN), LinesThere(S, <<>>, W)
    PROVE  LinesThere(S, <<>>, Append(W, FALSE))
<1> DEFINE V == Append(W, FALSE)
<1>1. /\ Len(W) \in Nat /\ Len(V) = Len(W) + 1 /\ V[Len(W) + 1] = FALSE
      /\ \A i \in 1 .. Len(W) : V[i] = W[i]
  OBVIOUS
<1> HIDE DEF V
<1> SUFFICES ASSUME NEW n \in 1 .. Len(V), V[n]
             PROVE  \E i \in 1 .. Len(Both(S, <<>>)) : Both(S, <<>>)[i] = n
  BY DEF LinesThere, V
<1>2. n # Len(W) + 1
  BY <1>1
<1>3. n \in 1 .. Len(W) /\ W[n]
  BY <1>1, <1>2
<1> QED
  BY <1>3 DEF LinesThere

(* A program writes a line, or a part of one.                              *)
LEMMA WritesKeepSent ==
    ASSUME SentInv, NEW c \in Names, Write(c) \/ WriteBegins(c) \/ WriteEnds(c) PROVE SentInv'
<1>1. UNCHANGED <<sent, loop, channels>>
  BY DEF Write, WriteBegins, WriteEnds, program
<1>2. \A d \in Names : MayBeLost(d)' = MayBeLost(d)
  BY <1>1 DEF MayBeLost, Open, Late, Listed
<1>3. ~MayBeLost(c) \/ Late(c)
  BY DEF Write, WriteBegins, WriteEnds, Writable, MayBeLost
<1>4. ASSUME NEW b \in BOOLEAN, NEW F, Late(c) => b = FALSE,
             fifo' = [fifo EXCEPT ![c] = F], written' = [written EXCEPT ![c] = Append(@, b)],
             Sound(SentOf(c), F, Append(written[c], b))
      PROVE  SentInv'
  <2> DEFINE W == Append(written[c], b)
  <2>1. MayBeLost(c) => LinesThere(SentOf(c), <<>>, W)
    <3> SUFFICES ASSUME MayBeLost(c) PROVE LinesThere(SentOf(c), <<>>, W)
      OBVIOUS
    <3>1. b = FALSE
      BY <1>3, <1>4
    <3>2. LinesThere(SentOf(c), <<>>, written[c]) /\ written[c] \in Seq(BOOLEAN)
      BY TextsOf DEF SentOf
    <3> QED
      BY <3>1, <3>2, NothingMoreIsDue
  <2>2. sent' = [sent EXCEPT ![c] = sent[c]] /\ sent[c] \in Seq(Seq(Nat))
    BY <1>1, TextsOf
  <2>3. written' = [written EXCEPT ![c] = W]
    BY <1>4
  <2> HIDE DEF W
  <2>4. MayBeLost(c)' => LinesThere(SentOf(c), <<>>, W)
    BY <1>2, <2>1
  <2>5. Sound(SentOf(c), F, W)
    BY <1>4 DEF W
  <2> QED
    BY <1>2, <1>4, <2>2, <2>3, <2>4, <2>5, OneChannelKeepsSent DEF SentOf
<1>5. /\ Sound(SentOf(c), fifo[c], written[c])
      /\ fifo[c] \in Seq(Nat) /\ written[c] \in Seq(BOOLEAN) /\ Number(c) = Len(written[c]) + 1
      /\ fifo = [fifo EXCEPT ![c] = fifo[c]]
  BY TextsOf DEF SentOf, Number
<1>6. ASSUME NEW b \in BOOLEAN, Late(c) => b = FALSE,
             fifo' = [fifo EXCEPT ![c] = @ \o <<Number(c), EOL>>],
             written' = [written EXCEPT ![c] = Append(@, b)]
      PROVE  SentInv'
  <2>1. Sound(SentOf(c), fifo[c] \o <<Number(c), EOL>>, Append(written[c], b))
    BY <1>5, WriteKeepsSound
  <2>2. fifo' = [fifo EXCEPT ![c] = fifo[c] \o <<Number(c), EOL>>]
    BY <1>6
  <2> QED
    BY <1>4, <1>6, <2>1, <2>2
<1>7. CASE Write(c)
  BY <1>6, <1>7 DEF Write
<1>8. CASE WriteEnds(c)
  BY <1>6, <1>8 DEF WriteEnds
<1>9. CASE WriteBegins(c) /\ UNCHANGED fifo
  <2>1. Sound(SentOf(c), fifo[c], Append(written[c], FALSE))
    BY <1>5, NothingKeepsSound
  <2> QED
    BY <1>4, <1>5, <1>9, <2>1 DEF WriteBegins
<1>10. CASE WriteBegins(c) /\ fifo' = [fifo EXCEPT ![c] = Append(@, Number(c))]
  <2>1. Sound(SentOf(c), fifo[c] \o <<Number(c)>>, Append(written[c], FALSE))
    BY <1>5, WriteKeepsSound
  <2>2. Append(fifo[c], Number(c)) = fifo[c] \o <<Number(c)>>
    <3> DEFINE F == fifo[c]
               n == Number(c)
    <3>1. F \in Seq(Nat) /\ n \in Nat
      BY <1>5
    <3> HIDE DEF F, n
    <3> QED
      BY <3>1
  <2>3. fifo' = [fifo EXCEPT ![c] = fifo[c] \o <<Number(c)>>]
    BY <1>10, <2>2
  <2> QED
    BY <1>4, <1>10, <2>1, <2>3 DEF WriteBegins
<1> QED
  BY <1>7, <1>8, <1>9, <1>10 DEF WriteBegins

(* Both ends of a FIFO are closed: what is in it is lost.                  *)
LEMMA LossKeepsSent ==
    ASSUME SentInv, NEW c \in Names, MayBeLost(c), fifo' = [fifo EXCEPT ![c] = <<>>],
           UNCHANGED <<sent, written>>, \A d \in Names : MayBeLost(d)' => MayBeLost(d)
    PROVE  SentInv'
<1> DEFINE F == <<>>
           t == sent[c]
           W == written[c]
<1>1. /\ Sound(FlattenSeq(t), fifo[c], W) /\ LinesThere(FlattenSeq(t), <<>>, W)
      /\ t \in Seq(Seq(Nat)) /\ sent' = [sent EXCEPT ![c] = t]
      /\ written' = [written EXCEPT ![c] = W]
  BY TextsOf
<1>2. Sound(FlattenSeq(t), F, W)
  BY <1>1, LossKeepsSound
<1>3. fifo' = [fifo EXCEPT ![c] = F]
  OBVIOUS
<1> HIDE DEF F, t, W
<1> QED
  BY <1>1, <1>2, <1>3, OneChannelKeepsSent

LEMMA WriterLeavesKeepsSent ==
    ASSUME SentInv, NEW c \in Names, WriterLeaves(c) PROVE SentInv'
<1>1. UNCHANGED <<sent, written, loop, channels>>
  BY DEF WriterLeaves, program
<1>2. \A d \in Names : MayBeLost(d)' => MayBeLost(d)
  BY <1>1 DEF MayBeLost, Open, Late, Listed
<1>3. CASE UNCHANGED fifo
  BY <1>1, <1>2, <1>3, NoTextKeepsSent
<1>4. CASE ~Open(c) /\ fifo' = [fifo EXCEPT ![c] = <<>>]
  BY <1>1, <1>2, <1>4, LossKeepsSent DEF MayBeLost
<1> QED
  BY <1>3, <1>4 DEF WriterLeaves

(* handle_channels_input takes the first line, or all there is.            *)
LEMMA FirstEol ==
    ASSUME NEW c \in Names, fifo[c] \in Seq(Nat), HasLine(c)
    PROVE  /\ LineLength(c) \in 1 .. Len(fifo[c]) /\ fifo[c][LineLength(c)] = EOL
           /\ \A i \in 1 .. LineLength(c) - 1 : fifo[c][i] # EOL
<1> DEFINE F == fifo[c]
           I == {i \in 1 .. Len(F) : F[i] = EOL}
<1>1. Len(F) \in Nat /\ DOMAIN F = 1 .. Len(F)
  OBVIOUS
<1>2. I # {} /\ I \subseteq Nat
  BY <1>1 DEF HasLine, Range
<1>3. LineLength(c) = Min(I)
  BY <1>2 DEF LineLength, SelectInSeq
<1>4. \E n \in I : \A k \in I : n <= k
  BY <1>2, Smallest
<1>5. Min(I) \in I /\ \A k \in I : Min(I) <= k
  BY <1>4 DEF Min
<1> DEFINE m == LineLength(c)
<1>6. m \in I /\ \A k \in I : m <= k
  BY <1>3, <1>5
<1> HIDE DEF m
<1>7. \A i \in 1 .. m - 1 : F[i] # EOL
  BY <1>1, <1>6
<1> QED
  BY <1>6, <1>7 DEF m

LEMMA LineKeepsSent ==
    ASSUME SentInv, NEW c \in Names, ReadsLine(c), UNCHANGED written, ~MayBeLost(c)',
           \A d \in Names : MayBeLost(d)' => MayBeLost(d)
    PROVE  SentInv'
<1> DEFINE k == LineLength(c)
           P == SubSeq(fifo[c], 1, k - 1)
<1>1. /\ fifo[c] \in Seq(Nat) /\ Sound(SentOf(c), fifo[c], written[c])
      /\ sent[c] \in Seq(Seq(Nat)) /\ sent = [sent EXCEPT ![c] = sent[c]]
      /\ written' = [written EXCEPT ![c] = written[c]]
  BY TextsOf DEF SentOf
<1>2. HasLine(c) /\ fifo' = [fifo EXCEPT ![c] = Rest(c)]
  BY DEF ReadsLine
<1>3. /\ k \in 1 .. Len(fifo[c]) /\ fifo[c][k] = EOL
      /\ \A i \in 1 .. k - 1 : fifo[c][i] # EOL
  BY <1>1, <1>2, FirstEol
<1>4. P \in Seq(Nat) /\ Sound(SentOf(c) \o P, Rest(c), written[c])
  BY <1>1, <1>3, LineKeepsSound DEF Rest
<1>5. CASE k = 1
  <2>1. P = <<>>
    BY <1>1, <1>5
  <2>2. SentOf(c) \in Seq(Nat)
    BY <1>1 DEF Sound
  <2>3. SentOf(c) \o <<>> = SentOf(c)
    BY <2>2
  <2>4. Sound(SentOf(c), Rest(c), written[c])
    BY <1>4, <2>1, <2>3
  <2>5. UNCHANGED sent
    BY <1>5 DEF ReadsLine
  <2> QED
    BY <1>1, <1>2, <2>4, <2>5, OneChannelKeepsSent DEF SentOf
<1>6. CASE k # 1
  <2>1. Append(sent[c], P) \in Seq(Seq(Nat))
    <3> HIDE DEF P
    <3> QED
      BY <1>1, <1>4
  <2>2. FlattenSeq(Append(sent[c], P)) = SentOf(c) \o P
    BY <1>1, <1>4, FlattenAppend DEF SentOf
  <2>3. sent' = [sent EXCEPT ![c] = Append(sent[c], P)]
    BY <1>6 DEF ReadsLine
  <2> DEFINE t == Append(sent[c], P)
  <2>4. Sound(FlattenSeq(t), Rest(c), written[c])
    BY <1>4, <2>2
  <2> HIDE DEF t
  <2> QED
    BY <1>1, <1>2, <2>1, <2>3, <2>4, OneChannelKeepsSent DEF t
<1> QED
  BY <1>5, <1>6

LEMMA FailureKeepsSent ==
    ASSUME SentInv, NEW c \in Names, ReadFails(c), UNCHANGED written,
           \A d \in Names \ {c} : MayBeLost(d)' => MayBeLost(d)
    PROVE  SentInv'
<1>1. /\ fifo' = [fifo EXCEPT ![c] = <<>>] /\ EOL \notin Range(fifo[c])
      /\ sent' = [sent EXCEPT ![c] = sent[c]] /\ sent[c] \in Seq(Seq(Nat))
      /\ written' = [written EXCEPT ![c] = written[c]]
      /\ Sound(FlattenSeq(sent[c]), fifo[c], written[c])
  BY TextsOf DEF ReadFails, HasLine
<1>2. Sound(FlattenSeq(sent[c]), <<>>, written[c])
  BY <1>1, ClearKeepsSound
<1>3. LinesThere(FlattenSeq(sent[c]), <<>>, written[c])
  BY <1>2 DEF Sound
<1> QED
  BY <1>1, <1>2, <1>3, OneChannelKeepsSent

LEMMA HandleChannelKeepsSent == ASSUME IInv, SentInv, HandleChannel PROVE SentInv'
<1>1. UNCHANGED <<channels, written>> /\ LoopOK /\ Listed \subseteq Names
  BY DEF HandleChannel, outside, IInv, ListOK, Listed, Range
<1>2. Listed' = Listed /\ loop.at = "channels"
  BY <1>1 DEF Listed, HandleChannel, At
<1>3. loop.c \in loop.ready => loop.c \in Listed
  BY <1>1, ReadyIsListed
<1>4. ASSUME loop' = Selecting \/ loop' = [loop EXCEPT !.c = NextChannel(loop.c)]
      PROVE  \A d \in Names : MayBeLost(d)' <=> d \notin Listed
  BY <1>1, <1>2, <1>4 DEF MayBeLost, Open, Late, Selecting, LoopOK
<1>5. \A d \in Names : d \notin Listed => MayBeLost(d)
  BY DEF MayBeLost, Open
<1>6. CASE loop.c \in loop.ready /\ ReadsLine(loop.c)
  BY <1>1, <1>3, <1>4, <1>5, <1>6, LineKeepsSent DEF ReadsLine
<1>7. CASE loop.c \in loop.ready /\ ReadFails(loop.c)
  <2>1. \A d \in Names \ {loop.c} : MayBeLost(d)' <=> d \notin Listed
    BY <1>1, <1>2, <1>7 DEF MayBeLost, Open, Late, ReadFails, LoopOK
  <2> QED
    BY <1>1, <1>3, <1>5, <1>7, <2>1, FailureKeepsSent
<1>8. CASE /\ UNCHANGED <<fifo, sent>>
           /\ loop' = Selecting \/ loop' = [loop EXCEPT !.c = NextChannel(loop.c)]
  BY <1>1, <1>4, <1>5, <1>8, NoTextKeepsSent
<1> QED
  BY <1>6, <1>7, <1>8 DEF HandleChannel

LEMMA ReopenKeepsSent == ASSUME IInv, SentInv, CloseFifo \/ OpenFifo PROVE SentInv'
<1>1. UNCHANGED <<sent, written>> /\ LoopOK /\ loop.c \in Listed /\ Listed \subseteq Names
  BY DEF CloseFifo, OpenFifo, outside, IInv, LoopOK, ListOK, Listed, Range
<1>2. CASE CloseFifo
  <2>1. UNCHANGED channels /\ loop' = [loop EXCEPT !.at = "open"] /\ loop.at = "close"
    BY <1>2 DEF CloseFifo
  <2>2. Listed' = Listed
    BY <2>1 DEF Listed
  <2>3. \A d \in Names : MayBeLost(d)' => MayBeLost(d)
    BY <1>1, <2>1, <2>2 DEF MayBeLost, Open, Late, LoopOK
  <2>4. MayBeLost(loop.c)
    BY <2>1 DEF MayBeLost, Late
  <2> QED
    BY <1>1, <1>2, <2>3, <2>4, LossKeepsSent, NoTextKeepsSent DEF CloseFifo
<1>3. CASE OpenFifo
  <2>1. Listed \ {loop.c} \subseteq Listed' /\ loop.at = "open" /\ UNCHANGED fifo
    BY <1>3, OpenFifoKeeps DEF OpenFifo
  <2>2. loop' = [loop EXCEPT !.at = "channels", !.c = NextChannel(loop.c)]
    BY <1>3 DEF OpenFifo
  <2>3. \A d \in Names : MayBeLost(d)' => MayBeLost(d)
    BY <1>1, <2>1, <2>2 DEF MayBeLost, Open, Late, LoopOK
  <2> QED
    BY <1>1, <2>1, <2>3, NoTextKeepsSent
<1> QED
  BY <1>2, <1>3

(* The steps that leave the FIFOs alone are no part of a reopening.        *)
LEMMA OtherStepsKeepSent ==
    ASSUME IInv, SentInv,
           \/ Select \/ Idle \/ Written \/ WriteFails \/ HandleServerOutput \/ Disconnected
           \/ Crash \/ ServerBegins \/ Serving \/ ServerCloses \/ UNCHANGED vars
    PROVE  SentInv'
<1>1. UNCHANGED <<fifo, sent, written>>
  BY DEF Select, Idle, Written, WriteFails, HandleServerOutput, Disconnected, Crash,
         ServerBegins, Serving, ServerEnds, ServerReads, ServerCloses, program, outside, vars
<1>2. Listed \subseteq Listed'
  <2>1. CASE HandleServerOutput
    BY <2>1, HandleServerOutputKeeps
  <2>2. CASE UNCHANGED channels
    BY <2>2 DEF Listed
  <2> QED
    BY <2>1, <2>2
    DEF Select, Idle, Written, WriteFails, Disconnected, Crash,
        ServerBegins, Serving, ServerEnds, ServerReads, ServerCloses, program, vars
<1>3. UNCHANGED loop \/ loop'.at \notin {"close", "open"}
  <2>1. CASE Exit
    BY <2>1 DEF Exit, Selecting
  <2>2. CASE Select
    BY <2>2 DEF Select
  <2>3. CASE HandleServerOutput
    BY <2>3 DEF HandleServerOutput, IInv, LoopOK
  <2> QED
    BY <2>1, <2>2, <2>3
    DEF Idle, Written, WriteFails, Disconnected, Crash,
        ServerBegins, Serving, ServerEnds, ServerReads, ServerCloses, program, vars
<1>4. \A d \in Names : MayBeLost(d)' => MayBeLost(d)
  BY <1>2, <1>3 DEF MayBeLost, Open, Late
<1> QED
  BY <1>1, <1>4, NoTextKeepsSent

LEMMA StepKeepsSent == ASSUME IInv, SentInv, [Next]_vars PROVE SentInv'
<1>1. CASE Programs
  <2>1. PICK c \in Names :
            Write(c) \/ WriteBegins(c) \/ WriteEnds(c) \/ WriterLeaves(c) \/ Obstruct(c)
    BY <1>1 DEF Programs
  <2>2. CASE Obstruct(c)
    <3>1. UNCHANGED <<fifo, sent, written, loop, channels>>
      BY <2>2 DEF Obstruct, program
    <3>2. \A d \in Names : MayBeLost(d)' => MayBeLost(d)
      BY <3>1 DEF MayBeLost, Open, Late, Listed
    <3> QED
      BY <3>1, <3>2, NoTextKeepsSent
  <2> QED
    BY <2>1, <2>2, WritesKeepSent, WriterLeavesKeepsSent
<1> QED
  BY <1>1, HandleChannelKeepsSent, ReopenKeepsSent, OtherStepsKeepSent DEF Next, Run

(* What is sent for a channel is what was written to it, once and in       *)
(* order; and what was written with its end is sent or still waits,        *)
(* whatever parts of lines of others are thrown away between them, unless  *)
(* it came between a read that failed and the close that follows           *)
(* (ii.c:671-704, 213-221).                                                *)
THEOREM LinesSentAsWritten == Spec => []SentAsWritten
<1>1. SentInv => SentAsWritten
  <2> SUFFICES ASSUME SentInv, NEW c \in Names
               PROVE  LET numbers == FlattenSeq(sent[c]) \o Numbers(fifo[c])
                      IN  /\ \A i, j \in DOMAIN numbers : i < j => numbers[i] < numbers[j]
                          /\ c \in Listed =>
                                {i \in DOMAIN written[c] : written[c][i]} \subseteq Range(numbers)
    BY DEF SentAsWritten
  <2> DEFINE X == Both(SentOf(c), fifo[c])
             W == written[c]
  <2>1. X \in Seq(Nat) /\ W \in Seq(BOOLEAN)
    BY BothType DEF SentInv, Sound
  <2>2. /\ \A i, j \in 1 .. Len(X) : i < j => X[i] < X[j]
        /\ \A n \in 1 .. Len(W) : W[n] => \E i \in 1 .. Len(X) : X[i] = n
    BY DEF SentInv, Sound, InOrder, LinesThere
  <2>3. X = FlattenSeq(sent[c]) \o Numbers(fifo[c])
    BY DEF Both, SentOf
  <2> HIDE DEF X, W
  <2>4. DOMAIN X = 1 .. Len(X) /\ DOMAIN W = 1 .. Len(W)
    BY <2>1
  <2>5. \A i, j \in DOMAIN X : i < j => X[i] < X[j]
    BY <2>2, <2>4
  <2>6. {i \in DOMAIN W : W[i]} \subseteq Range(X)
    BY <2>2, <2>4 DEF Range
  <2> QED
    BY <2>3, <2>5, <2>6, Zenon DEF W
<1> QED
  BY <1>1, InitSentInv, StepKeepsSent, IInvAlways, PTL DEF Spec
=============================================================================
