----------------------------- MODULE WsHubProofs -----------------------------
(***************************************************************************)
(* Theorems about WsHub, for every set of connections, every capacity of   *)
(* their buffers and every number of broadcasts.                           *)
(***************************************************************************)
EXTENDS WsHub, SequenceTheorems, TLAPS

-----------------------------------------------------------------------------
(* The invariant.  That the hub never panics rests on the map and the closed  *)
(* channels being disjoint, and that a client leaves the map before its pumps *)
(* are past their unregister on what a connection is before it registers.     *)

Fresh(c) == /\ c \notin clients /\ c \notin closed
            /\ writer[c] = "off" /\ reader[c] = "off"
            /\ hand[c] = <<>> /\ buf[c] = <<>> /\ got[c] = <<>>

Sound(c) ==
    /\ handler[c] # "done" => Fresh(c)
    /\ c \in clients => /\ c \notin closed
                        /\ writer[c] \notin {"bye", "close", "done"}
                        /\ reader[c] \notin {"close", "done"}
    /\ handler[c] = "done" /\ c \notin clients => c \in closed
    /\ writer[c] = "loop" => hand[c] = <<>>
    /\ Len(hand[c]) <= 1

SoundInv == /\ NeverPanics
            /\ hub = "sending" => taken # <<>>
            /\ \A c \in Clients : Sound(c)

LEMMA InitSound == Init => TypeOK /\ SoundInv
  BY SizesAssumption
  DEF Init, TypeOK, SoundInv, NeverPanics, Sound, Fresh, Messages, Writer, Reader

\* The queue operations of the buffers and of the log.
LEMMA SequenceTypes ==
    ASSUME TypeOK, NEW c \in Clients
    PROVE  /\ \A m \in Messages : /\ Append(buf[c], m) \in Seq(Messages)
                                  /\ Len(Append(buf[c], m)) = Len(buf[c]) + 1
           /\ taken # <<>> => taken[Len(taken)] \in Messages
           /\ buf[c] # <<>> => /\ <<Head(buf[c])>> \in Seq(Messages)
                               /\ Len(<<Head(buf[c])>>) = 1
                               /\ Tail(buf[c]) \in Seq(Messages)
                               /\ Len(Tail(buf[c])) <= Len(buf[c])
           /\ got[c] \o hand[c] \in Seq(Messages)
<1>1. /\ buf[c] \in Seq(Messages) /\ hand[c] \in Seq(Messages)
      /\ got[c] \in Seq(Messages) /\ taken \in Seq(Messages)
  BY DEF TypeOK
<1> QED BY <1>1, AppendProperties, HeadTailProperties, ConcatProperties, LenProperties,
           EmptySeq, ElementOfSeq

LEMMA RunSound ==
    ASSUME TypeOK, SoundInv, Run
    PROVE  TypeOK' /\ SoundInv'
<1> USE DEF pumps, net, log, InSelect
<1>1. CASE Park
  BY <1>1 DEF Park, TypeOK, SoundInv, NeverPanics, Sound, Fresh
<1>2. CASE EndBroadcast
  BY <1>2 DEF EndBroadcast, TypeOK, SoundInv, NeverPanics, Sound, Fresh
<1>3. ASSUME NEW c \in Clients, TakeRegister(c)
      PROVE  TypeOK' /\ SoundInv'
  <2>1. TypeOK'
    BY <1>3 DEF TakeRegister, TypeOK, Writer, Reader
  <2>2. \A d \in Clients : Sound(d)'
    BY <1>3 DEF TakeRegister, TypeOK, SoundInv, Sound, Fresh
  <2> QED BY <1>3, <2>1, <2>2 DEF TakeRegister, SoundInv, NeverPanics
<1>4. ASSUME NEW c \in Clients, TakeUnregister(c)
      PROVE  TypeOK' /\ SoundInv'
  <2>1. /\ hub' = "head" /\ clients' = clients \ {c}
        /\ closed' = IF c \in clients THEN closed \cup {c} ELSE closed
    BY <1>4 DEF TakeUnregister, Drop, CloseSend, SoundInv, Sound
  <2>2. TypeOK'
    BY <1>4, <2>1 DEF TakeUnregister, TypeOK, Writer, Reader
  <2>3. \A d \in Clients : Sound(d)'
    BY <1>4, <2>1 DEF TakeUnregister, TypeOK, SoundInv, Sound, Fresh
  <2> QED BY <1>4, <2>1, <2>2, <2>3 DEF TakeUnregister, SoundInv, NeverPanics
<1>5. ASSUME NEW c \in Clients, Deliver(c)
      PROVE  TypeOK' /\ SoundInv'
  <2>1. /\ c \in clients /\ c \notin closed /\ handler[c] = "done"
        /\ hub' = "sending" /\ UNCHANGED taken
    BY <1>5 DEF Deliver, Offer, TypeOK, SoundInv, Sound, Fresh
  <2>2. CASE /\ Len(buf[c]) < BufCap
             /\ buf' = [buf EXCEPT ![c] = Append(@, taken[Len(taken)])]
             /\ UNCHANGED <<hub, clients, closed>>
    <3>1. /\ Append(buf[c], taken[Len(taken)]) \in Seq(Messages)
          /\ Len(Append(buf[c], taken[Len(taken)])) <= BufCap
      BY <1>5, <2>2, SequenceTypes, SizesAssumption, LenProperties
      DEF TypeOK, Deliver, SoundInv
    <3>2. TypeOK'
      BY <1>5, <2>1, <2>2, <3>1 DEF Deliver, TypeOK
    <3>3. \A d \in Clients : Sound(d)'
      BY <1>5, <2>1, <2>2 DEF Deliver, TypeOK, SoundInv, Sound, Fresh
    <3> QED BY <1>5, <2>1, <2>2, <3>2, <3>3 DEF SoundInv, NeverPanics
  <2>3. CASE /\ closed' = closed \cup {c}
             /\ clients' = clients \ {c}
             /\ UNCHANGED <<hub, buf>>
    <3>1. TypeOK'
      BY <1>5, <2>1, <2>3 DEF Deliver, TypeOK
    <3>2. \A d \in Clients : Sound(d)'
      BY <1>5, <2>1, <2>3 DEF Deliver, TypeOK, SoundInv, Sound, Fresh
    <3> QED BY <1>5, <2>1, <2>3, <3>1, <3>2 DEF SoundInv, NeverPanics
  <2> QED BY <1>5, <2>1, <2>2, <2>3 DEF Deliver, Offer
<1> QED BY <1>1, <1>2, <1>3, <1>4, <1>5 DEF Run

LEMMA BroadcastSound ==
    ASSUME TypeOK, SoundInv, BroadcastTaken \/ BroadcastDropped
    PROVE  TypeOK' /\ SoundInv'
<1> USE DEF pumps, net, log
<1>1. CASE BroadcastTaken
  <2>1. sent + 1 \in Messages /\ sent' = sent + 1
    BY <1>1, SizesAssumption DEF BroadcastTaken, TypeOK, Messages
  <2>2. taken' \in Seq(Messages) /\ taken' # <<>>
    BY <1>1, <2>1, AppendProperties DEF BroadcastTaken, TypeOK
  <2> QED BY <1>1, <2>1, <2>2, SizesAssumption
          DEF BroadcastTaken, TypeOK, Messages, SoundInv, NeverPanics, Sound, Fresh
<1>2. CASE BroadcastDropped
  BY <1>2, SizesAssumption
  DEF BroadcastDropped, TypeOK, SoundInv, NeverPanics, Sound, Fresh
<1> QED BY <1>1, <1>2

LEMMA PeerSound ==
    ASSUME TypeOK, SoundInv, NEW c \in Clients, Upgrade(c) \/ PeerLeaves(c) \/ ReadFails(c)
    PROVE  TypeOK' /\ SoundInv'
<1> USE DEF pumps, net, log
<1>1. CASE Upgrade(c)
  BY <1>1 DEF Upgrade, TypeOK, SoundInv, NeverPanics, Sound, Fresh
<1>2. CASE PeerLeaves(c)
  BY <1>2 DEF PeerLeaves, TypeOK, SoundInv, NeverPanics, Sound, Fresh
<1>3. CASE ReadFails(c)
  BY <1>3 DEF ReadFails, TypeOK, Reader, SoundInv, NeverPanics, Sound, Fresh
<1> QED BY <1>1, <1>2, <1>3

LEMMA WriterSound ==
    ASSUME TypeOK, SoundInv, NEW c \in Clients, WritePump(c)
    PROVE  TypeOK' /\ SoundInv'
<1> USE DEF pumps, net, log, WriterStep
<1>1. CASE TakeMessage(c)
  <2>1. /\ <<Head(buf[c])>> \in Seq(Messages) /\ Len(<<Head(buf[c])>>) = 1
        /\ Tail(buf[c]) \in Seq(Messages) /\ Len(Tail(buf[c])) <= BufCap
    BY <1>1, SequenceTypes, SizesAssumption, LenProperties DEF TakeMessage, TypeOK
  <2>2. TypeOK'
    BY <1>1, <2>1 DEF TakeMessage, TypeOK, Writer
  <2>3. handler[c] = "done"
    BY <1>1 DEF TakeMessage, SoundInv, Sound, Fresh
  <2>4. \A d \in Clients : Sound(d)'
    BY <1>1, <2>1, <2>3 DEF TakeMessage, TypeOK, SoundInv, Sound, Fresh
  <2> QED BY <1>1, <2>2, <2>4 DEF TakeMessage, SoundInv, NeverPanics
<1>2. CASE SeeClosed(c) \/ Ping(c)
  <2>1. TypeOK'
    BY <1>2 DEF SeeClosed, Ping, TypeOK, Writer
  <2>2. \A d \in Clients : Sound(d)'
    BY <1>2 DEF SeeClosed, Ping, TypeOK, SoundInv, Sound, Fresh
  <2> QED BY <1>2, <2>1, <2>2 DEF SeeClosed, Ping, SoundInv, NeverPanics
<1>3. CASE WriteDone(c)
  <2>1. got[c] \o hand[c] \in Seq(Messages)
    BY SequenceTypes
  <2>2. TypeOK'
    BY <1>3, <2>1 DEF WriteDone, TypeOK, Writer
  <2>3. handler[c] = "done" /\ Len(<<>>) = 0
    BY <1>3 DEF WriteDone, SoundInv, Sound, Fresh
  <2>4. \A d \in Clients : Sound(d)'
    BY <1>3, <2>3 DEF WriteDone, TypeOK, SoundInv, Sound, Fresh
  <2> QED BY <1>3, <2>2, <2>4 DEF WriteDone, SoundInv, NeverPanics
<1>4. CASE WriteFails(c) \/ SayBye(c)
  BY <1>4 DEF WriteFails, SayBye, TypeOK, Writer, SoundInv, NeverPanics, Sound, Fresh
<1>5. CASE CloseConn(c)
  BY <1>5 DEF CloseConn, TypeOK, Writer, Reader, SoundInv, NeverPanics, Sound, Fresh
<1> QED BY <1>1, <1>2, <1>3, <1>4, <1>5 DEF WritePump, Listen

LEMMA SoundInvariant == Spec => [](TypeOK /\ SoundInv)
<1>1. ASSUME TypeOK, SoundInv, [Next]_vars
      PROVE  TypeOK' /\ SoundInv'
  <2>1. CASE UNCHANGED vars
    <3>1. TypeOK'
      BY <1>1, <2>1 DEF vars, TypeOK
    <3>2. SoundInv'
      BY <1>1, <2>1 DEF vars, SoundInv, NeverPanics, Sound, Fresh
    <3> QED BY <3>1, <3>2
  <2> QED BY <1>1, <2>1, RunSound, BroadcastSound, PeerSound, WriterSound DEF Next
<1> QED BY <1>1, InitSound, PTL DEF Spec

\* Every variable keeps its type, and no buffer holds more than its capacity.
THEOREM HubTyped == Spec => []TypeOK
  BY SoundInvariant, PTL

\* The hub never closes a channel twice nor sends on a closed one.
THEOREM NeverPanicsHolds == Spec => []NeverPanics
<1>1. SoundInv => NeverPanics
  BY DEF SoundInv
<1> QED BY <1>1, SoundInvariant, PTL

\* Nobody stays in the map past its unregister, and whoever left it is closed.
THEOREM MapMatchesPumpsHolds == Spec => []MapMatchesPumps
<1>1. SoundInv => MapMatchesPumps
  BY DEF SoundInv, Sound, MapMatchesPumps
<1> QED BY <1>1, SoundInvariant, PTL

-----------------------------------------------------------------------------
(* The refinement of ClientFeed.  What a client is owed lies in three places;  *)
(* a step of WsHub that passes a message from one to the next leaves the whole *)
(* as it is.                                                                   *)

Coming(c) == IF c \in todo THEN <<taken[Len(taken)]>> ELSE <<>>
Owing(c)  == hand[c] \o buf[c] \o Coming(c)

LEMMA OwingTyped ==
    ASSUME TypeOK, SoundInv, NEW c \in Clients
    PROVE  /\ hand[c] \in Seq(Messages) /\ buf[c] \in Seq(Messages)
           /\ got[c] \in Seq(Messages) /\ Coming(c) \in Seq(Messages)
           /\ hand[c] \o buf[c] \in Seq(Messages)
           /\ Owing(c) \in Seq(Messages)
<1>1. /\ hand[c] \in Seq(Messages) /\ buf[c] \in Seq(Messages)
      /\ got[c] \in Seq(Messages)
  BY DEF TypeOK
<1>2. Coming(c) \in Seq(Messages)
  <2>1. c \in todo => taken[Len(taken)] \in Messages
    BY SequenceTypes DEF TypeOK, SoundInv
  <2> QED BY <2>1 DEF Coming
<1> QED BY <1>1, <1>2, ConcatProperties DEF Owing

LEMMA Regroup ==
    ASSUME NEW p \in Seq(Messages), NEW q \in Seq(Messages), NEW r \in Seq(Messages)
    PROVE  p \o q \o r = p \o (q \o r)
  BY ConcatAssociative

\* The three ways in which a message moves on.
LEMMA HandLemma ==
    ASSUME NEW q \in Seq(Messages), q # <<>>
    PROVE  <<Head(q)>> \o Tail(q) = q
<1>1. Len(q) \in Nat /\ Len(q) # 0 /\ Head(q) = q[1]
  BY EmptySeq, LenProperties
<1>2. SubSeq(q, 1, Len(q)) = <<q[1]>> \o SubSeq(q, 2, Len(q))
  BY <1>1, SubSeqRecursiveFirst
<1> QED BY <1>1, <1>2, SubSeqFull, TailIsSubSeq

LEMMA GiveLemma ==
    ASSUME NEW m \in Messages, NEW q \in Seq(Messages)
    PROVE  /\ <<m>> \o q # <<>>
           /\ Head(<<m>> \o q) = m
           /\ Tail(<<m>> \o q) = q
<1>1. /\ <<m>> \in Seq(Messages) /\ Len(<<m>>) = 1 /\ <<m>>[1] = m
      /\ Len(q) \in Nat
  BY LenProperties
<1> DEFINE r == <<m>> \o q
<1>2. /\ r \in Seq(Messages) /\ Len(r) = 1 + Len(q)
      /\ r[1] = m
      /\ \A i \in 1 .. Len(q) : r[i + 1] = q[i]
  BY <1>1, ConcatProperties
<1>3. r # <<>> /\ Head(r) = m
  BY <1>1, <1>2, EmptySeq
<1>4. /\ Tail(r) \in Seq(Messages) /\ Len(Tail(r)) = Len(q)
      /\ \A i \in 1 .. Len(Tail(r)) : Tail(r)[i] = r[i + 1]
  BY <1>1, <1>2, <1>3, HeadTailProperties
<1>5. Tail(r) = q
  BY <1>1, <1>2, <1>4, SeqEqual
<1> QED BY <1>3, <1>5

LEMMA ShortenLemma ==
    ASSUME NEW m \in Messages, NEW q \in Seq(Messages)
    PROVE  /\ q \o <<m>> # <<>>
           /\ SubSeq(q \o <<m>>, 1, Len(q \o <<m>>) - 1) = q
<1>1. /\ <<m>> \in Seq(Messages) /\ Len(<<m>>) = 1 /\ Len(q) \in Nat
  BY LenProperties
<1> DEFINE r == q \o <<m>>
<1>2. /\ r \in Seq(Messages) /\ Len(r) = Len(q) + 1
      /\ \A i \in 1 .. Len(q) : r[i] = q[i]
  BY <1>1, ConcatProperties
<1>3. r # <<>>
  BY <1>1, <1>2, EmptySeq
<1> DEFINE p == SubSeq(r, 1, Len(q))
<1>4. /\ p \in Seq(Messages) /\ Len(p) = Len(q)
      /\ \A i \in 1 .. Len(q) : p[i] = r[i]
  <2>1. \A i \in 1 .. Len(q) : r[i] \in Messages
    BY <1>1, <1>2, ElementOfSeq
  <2> HIDE DEF r
  <2>2. /\ p \in Seq(Messages)
        /\ Len(p) = IF 1 <= Len(q) THEN Len(q) - 1 + 1 ELSE 0
        /\ \A i \in 1 .. Len(q) - 1 + 1 : p[i] = r[1 + i - 1]
    BY <1>1, <2>1, SubSeqProperties
  <2> QED BY <1>1, <2>2
<1>5. p = q
  BY <1>2, <1>4, SeqEqual
<1> QED BY <1>1, <1>2, <1>3, <1>5

LEMMA FeedInit == Init => Feed!Init
<1> SUFFICES ASSUME Init PROVE Feed!Init
  OBVIOUS
<1>1. Departed = {}
  BY DEF Init, Departed
<1>2. \A c \in Clients : Owing(c) = <<>>
  <2>1. <<>> \o <<>> = <<>>
    BY ConcatEmptySeq
  <2> QED BY <2>1 DEF Init, Owing, Coming
<1>3. [c \in Clients |-> Owing(c)] = [c \in Clients |-> <<>>]
  BY <1>2, Zenon
<1> QED BY <1>1, <1>3 DEF Init, Feed!Init, Owing, Coming

\* Between two steps the feed is the same if its parts are.
LEMMA Unmoved ==
    ASSUME UNCHANGED <<clients, handler, got>>,
           \A c \in Clients : Owing(c)' = Owing(c)
    PROVE  UNCHANGED Feed!fvars
<1>1. Departed' = Departed
  BY DEF Departed
<1>2. [c \in Clients |-> Owing(c)]' = [c \in Clients |-> Owing(c)]
  BY Zenon
<1> QED BY <1>1, <1>2 DEF Feed!fvars, Owing, Coming

\* One client leaves the map; it may lose the message the loop had for it.
LEMMA Leaves ==
    ASSUME TypeOK, SoundInv, NEW c \in clients,
           clients' = clients \ {c}, UNCHANGED <<handler, got>>,
           \A d \in Clients \ {c} : Owing(d)' = Owing(d),
           \/ Owing(c)' = Owing(c)
           \/ /\ Owing(c) # <<>>
              /\ Owing(c)' = SubSeq(Owing(c), 1, Len(Owing(c)) - 1)
    PROVE  Feed!Leave(c)
<1>1. c \in Clients /\ handler[c] = "done"
  BY DEF TypeOK, SoundInv, Sound, Fresh
<1>2. Departed' = Departed \cup {c}
  BY <1>1 DEF Departed
<1> DEFINE owed == [d \in Clients |-> Owing(d)]
<1>3. owed[c] = Owing(c)
  BY <1>1
<1>4. CASE Owing(c)' = Owing(c)
  <2>1. owed' = owed
    BY <1>4, Zenon
  <2> QED BY <1>2, <2>1 DEF Feed!Leave, Owing, Coming
<1>5. CASE /\ Owing(c) # <<>>
           /\ Owing(c)' = SubSeq(Owing(c), 1, Len(Owing(c)) - 1)
  <2>1. owed' = [owed EXCEPT ![c] = SubSeq(@, 1, Len(@) - 1)]
    <3>1. owed' = [d \in Clients |-> IF d = c THEN SubSeq(Owing(c), 1, Len(Owing(c)) - 1)
                                              ELSE Owing(d)]
      BY <1>5, Zenon
    <3>2. [owed EXCEPT ![c] = SubSeq(@, 1, Len(@) - 1)]
          = [d \in Clients |-> IF d = c THEN SubSeq(Owing(c), 1, Len(Owing(c)) - 1)
                                         ELSE Owing(d)]
      BY <1>1, Zenon
    <3> QED BY <3>1, <3>2
  <2> QED BY <1>2, <1>3, <1>5, <2>1 DEF Feed!Leave, Owing, Coming
<1> QED BY <1>4, <1>5

\* The steps of the hub itself.
LEMMA RunFeeds ==
    ASSUME TypeOK, SoundInv, Run
    PROVE  [Feed!Next]_(Feed!fvars)
<1> USE DEF pumps, net, log, InSelect
<1>1. CASE Park \/ EndBroadcast
  <2>1. \A c \in Clients : Owing(c)' = Owing(c)
    BY <1>1 DEF Park, EndBroadcast, Owing, Coming
  <2> QED BY <1>1, <2>1, Unmoved DEF Park, EndBroadcast
<1>2. ASSUME NEW c \in Clients, TakeRegister(c)
      PROVE  Feed!Admit(c)
  <2>1. c \notin clients /\ handler[c] # "done"
    BY <1>2 DEF TakeRegister, SoundInv, Sound, Fresh
  <2>2. c \notin Departed /\ Departed' = Departed
    BY <1>2, <2>1 DEF TakeRegister, Departed, TypeOK
  <2>3. \A d \in Clients : Owing(d)' = Owing(d)
    BY <1>2 DEF TakeRegister, Owing, Coming
  <2>4. [d \in Clients |-> Owing(d)]' = [d \in Clients |-> Owing(d)]
    BY <2>3, Zenon
  <2> QED BY <1>2, <2>1, <2>2, <2>4 DEF TakeRegister, Feed!Admit, Owing, Coming
<1>3. ASSUME NEW c \in Clients, TakeUnregister(c)
      PROVE  [Feed!Next]_(Feed!fvars)
  <2>1. clients' = clients \ {c} /\ UNCHANGED <<handler, got>>
    BY <1>3 DEF TakeUnregister, Drop
  <2>2. \A d \in Clients : Owing(d)' = Owing(d)
    BY <1>3 DEF TakeUnregister, Owing, Coming
  <2>3. CASE c \in clients
    BY <2>1, <2>2, <2>3, Leaves DEF Feed!Next
  <2>4. CASE c \notin clients
    BY <2>1, <2>2, <2>4, Unmoved
  <2> QED BY <2>3, <2>4
<1>4. ASSUME NEW c \in Clients, Deliver(c)
      PROVE  [Feed!Next]_(Feed!fvars)
  <2> DEFINE m == taken[Len(taken)]
  <2>1. /\ c \in clients /\ c \notin closed /\ c \in todo /\ todo' = todo \ {c}
        /\ UNCHANGED <<handler, got, hand, taken>>
        /\ m \in Messages
    BY <1>4, SequenceTypes DEF Deliver, TypeOK, SoundInv, Sound
  <2>2. \A d \in Clients \ {c} : buf'[d] = buf[d] => Owing(d)' = Owing(d)
    BY <2>1 DEF Owing, Coming
  <2>3. /\ Owing(c) = hand[c] \o buf[c] \o <<m>>
        /\ Owing(c)' = hand[c] \o buf'[c] \o <<>>
        /\ hand[c] \in Seq(Messages) /\ buf[c] \in Seq(Messages)
        /\ hand[c] \o buf[c] \in Seq(Messages) /\ <<m>> \in Seq(Messages)
    BY <2>1, OwingTyped DEF Owing, Coming
  <2>4. CASE /\ buf' = [buf EXCEPT ![c] = Append(@, m)]
             /\ UNCHANGED <<hub, clients, closed>>
    <3>1. /\ buf'[c] = buf[c] \o <<m>>
          /\ \A d \in Clients \ {c} : buf'[d] = buf[d]
      BY <2>1, <2>3, <2>4, AppendIsConcat DEF TypeOK
    <3>2. hand[c] \o (buf[c] \o <<m>>) = hand[c] \o buf[c] \o <<m>>
      <4> HIDE DEF m
      <4> QED BY <2>3, Regroup, Zenon
    <3>3. (hand[c] \o (buf[c] \o <<m>>)) \o <<>> = hand[c] \o (buf[c] \o <<m>>)
      BY <2>3, ConcatProperties, ConcatEmptySeq
    <3>4. \A d \in Clients : Owing(d)' = Owing(d)
      BY <2>2, <2>3, <3>1, <3>2, <3>3
    <3> QED BY <2>1, <2>4, <3>4, Unmoved
  <2>5. CASE /\ closed' = closed \cup {c}
             /\ clients' = clients \ {c}
             /\ UNCHANGED <<hub, buf>>
    <3>1. Owing(c)' = hand[c] \o buf[c]
      BY <2>3, <2>5, ConcatEmptySeq
    <3>2. Owing(c) # <<>> /\ Owing(c)' = SubSeq(Owing(c), 1, Len(Owing(c)) - 1)
      BY <2>1, <2>3, <3>1, ShortenLemma
    <3>3. Feed!Leave(c)
      BY <2>1, <2>2, <2>5, <3>2, Leaves
    <3> QED BY <1>4, <3>3 DEF Feed!Next
  <2> QED BY <1>4, <2>1, <2>4, <2>5 DEF Deliver, Offer
<1> QED BY <1>1, <1>2, <1>3, <1>4 DEF Run, Feed!Next

\* A broadcast counts for every client in the map at once.
LEMMA BroadcastFeeds ==
    ASSUME TypeOK, SoundInv, BroadcastTaken
    PROVE  Feed!Announce
<1> USE DEF pumps, net
<1> DEFINE m == sent + 1
<1>1. m \in Messages
  BY SizesAssumption DEF BroadcastTaken, TypeOK, Messages
<1>2. /\ taken' = Append(taken, m) /\ todo' = clients /\ todo = {}
      /\ UNCHANGED <<clients, handler, hand, buf, got>>
  BY DEF BroadcastTaken, TypeOK
<1>3. taken'[Len(taken')] = m
  BY <1>1, <1>2, AppendProperties DEF TypeOK
<1>4. ASSUME NEW c \in Clients
      PROVE  Owing(c)' = IF c \in clients THEN Append(Owing(c), m) ELSE Owing(c)
  <2>1. /\ Owing(c) = hand[c] \o buf[c] \o <<>>
        /\ Owing(c)' = hand[c] \o buf[c] \o (IF c \in clients THEN <<m>> ELSE <<>>)
    BY <1>2, <1>3 DEF Owing, Coming
  <2>2. Owing(c) = hand[c] \o buf[c] /\ Owing(c) \in Seq(Messages)
    BY <2>1, OwingTyped, ConcatEmptySeq
  <2> QED BY <1>1, <2>1, <2>2, AppendIsConcat
<1> DEFINE owed == [c \in Clients |-> Owing(c)]
<1>5. owed' = [c \in Clients |-> IF c \in clients THEN Append(owed[c], m) ELSE owed[c]]
  <2>1. owed' = [c \in Clients |-> IF c \in clients THEN Append(Owing(c), m) ELSE Owing(c)]
    BY <1>4, Zenon
  <2> QED BY <2>1, Zenon
<1>6. Departed' = Departed
  BY <1>2 DEF Departed
<1> QED BY <1>1, <1>2, <1>5, <1>6 DEF Feed!Announce, Owing, Coming

\* The writer takes from the buffer, and gives to the browser.
LEMMA WriterFeeds ==
    ASSUME TypeOK, SoundInv, NEW c \in Clients, WritePump(c)
    PROVE  [Feed!Next]_(Feed!fvars)
<1> USE DEF pumps, net, log, WriterStep
<1>1. CASE TakeMessage(c)
  <2>1. /\ hand[c] = <<>> /\ buf[c] # <<>>
        /\ hand' = [hand EXCEPT ![c] = <<Head(buf[c])>>]
        /\ buf' = [buf EXCEPT ![c] = Tail(@)]
        /\ UNCHANGED <<clients, todo, handler, taken, got>>
    BY <1>1 DEF TakeMessage, SoundInv, Sound
  <2>2. hand[c] \o buf[c] = hand'[c] \o buf'[c]
    BY <2>1, HandLemma, ConcatEmptySeq DEF TypeOK
  <2>3. \A d \in Clients \ {c} : hand'[d] = hand[d] /\ buf'[d] = buf[d]
    BY <2>1 DEF TypeOK
  <2>4. \A d \in Clients : Owing(d)' = Owing(d)
    BY <2>1, <2>2, <2>3 DEF Owing, Coming
  <2> QED BY <2>1, <2>4, Unmoved
<1>2. CASE SeeClosed(c) \/ Ping(c) \/ WriteFails(c) \/ SayBye(c) \/ CloseConn(c)
  <2>1. UNCHANGED <<clients, todo, handler, hand, buf, taken, got>>
    BY <1>2 DEF SeeClosed, Ping, WriteFails, SayBye, CloseConn
  <2>2. \A d \in Clients : Owing(d)' = Owing(d)
    BY <2>1 DEF Owing, Coming
  <2> QED BY <2>1, <2>2, Unmoved
<1>3. CASE WriteDone(c)
  <2>1. /\ got' = [got EXCEPT ![c] = @ \o hand[c]]
        /\ hand' = [hand EXCEPT ![c] = <<>>]
        /\ UNCHANGED <<clients, todo, handler, taken, buf>>
    BY <1>3 DEF WriteDone
  <2>2. \A d \in Clients \ {c} : Owing(d)' = Owing(d)
    BY <2>1 DEF Owing, Coming, TypeOK
  <2>3. Owing(c)' = <<>> \o buf[c] \o Coming(c)
    BY <2>1 DEF Owing, Coming, TypeOK
  <2>4. /\ <<>> \o buf[c] = buf[c]
        /\ hand[c] \in Seq(Messages) /\ buf[c] \in Seq(Messages)
        /\ Coming(c) \in Seq(Messages) /\ buf[c] \o Coming(c) \in Seq(Messages)
    BY OwingTyped, ConcatEmptySeq, ConcatProperties
  <2>5. CASE hand[c] = <<>>
    <3>1. got' = got
      BY <2>1, <2>5, ConcatEmptySeq DEF TypeOK
    <3>2. Owing(c)' = Owing(c)
      BY <2>3, <2>5 DEF Owing
    <3> QED BY <2>1, <2>2, <3>1, <3>2, Unmoved
  <2>6. CASE hand[c] # <<>>
    <3> DEFINE m == hand[c][1]
    <3>1. Len(hand[c]) = 1 /\ m \in Messages /\ hand[c] = <<m>>
      <4>1. Len(hand[c]) \in Nat /\ Len(hand[c]) # 0 /\ Len(hand[c]) <= 1
        BY <2>4, <2>6, EmptySeq, LenProperties DEF SoundInv, Sound
      <4>2. Len(hand[c]) = 1 /\ m \in Messages
        <5> DEFINE k == Len(hand[c])
        <5>1. k = 1
          <6>1. k \in Nat /\ k # 0 /\ k <= 1
            BY <4>1
          <6> HIDE DEF k
          <6> QED BY <6>1
        <5> QED BY <2>4, <5>1, ElementOfSeq
      <4>3. <<m>> \in Seq(Messages) /\ Len(<<m>>) = 1 /\ <<m>>[1] = m
        BY <4>2
      <4> HIDE DEF m
      <4>4. \A i \in 1 .. 1 : hand[c][i] = <<m>>[i]
        BY <4>3 DEF m
      <4> QED BY <2>4, <4>2, <4>3, <4>4, SeqEqual
    <3>2. /\ Owing(c) = <<m>> \o (buf[c] \o Coming(c))
          /\ Owing(c)' = buf[c] \o Coming(c)
      <4>1. <<m>> \in Seq(Messages)
        BY <3>1
      <4>2. Owing(c) = <<m>> \o buf[c] \o Coming(c)
        BY <3>1 DEF Owing
      <4> HIDE DEF m
      <4> QED BY <2>3, <2>4, <4>1, <4>2, Regroup, Zenon
    <3>3. Owing(c) # <<>> /\ Head(Owing(c)) = m /\ Owing(c)' = Tail(Owing(c))
      BY <2>4, <3>1, <3>2, GiveLemma
    <3>4. got' = [got EXCEPT ![c] = Append(@, m)]
      <4>1. Append(got[c], m) = got[c] \o <<m>>
        BY <3>1, AppendIsConcat DEF TypeOK
      <4> QED BY <2>1, <3>1, <4>1
    <3> DEFINE owed == [d \in Clients |-> Owing(d)]
    <3>5. owed' = [owed EXCEPT ![c] = Tail(@)]
      <4>1. owed' = [d \in Clients |-> IF d = c THEN Tail(Owing(c)) ELSE Owing(d)]
        BY <2>2, <3>3, Zenon
      <4>2. [owed EXCEPT ![c] = Tail(@)]
            = [d \in Clients |-> IF d = c THEN Tail(Owing(c)) ELSE Owing(d)]
        BY Zenon
      <4> QED BY <4>1, <4>2
    <3>6. owed[c] # <<>> /\ Head(owed[c]) = m
      BY <3>3
    <3>7. Departed' = Departed
      BY <2>1 DEF Departed
    <3>8. Feed!Give(c)
      BY <2>1, <3>4, <3>5, <3>6, <3>7 DEF Feed!Give, Owing, Coming
    <3> QED BY <3>8 DEF Feed!Next
  <2> QED BY <2>5, <2>6
<1> QED BY <1>1, <1>2, <1>3 DEF WritePump, Listen

LEMMA NextFeeds ==
    ASSUME TypeOK, SoundInv, [Next]_vars
    PROVE  [Feed!Next]_(Feed!fvars)
<1> USE DEF pumps, net, log
<1>1. CASE UNCHANGED vars \/ BroadcastDropped
           \/ \E c \in Clients : Upgrade(c) \/ PeerLeaves(c) \/ ReadFails(c)
  <2>1. /\ UNCHANGED <<clients, todo, hand, buf, taken, got>>
        /\ {c \in Clients : handler'[c] = "done"} = {c \in Clients : handler[c] = "done"}
    BY <1>1 DEF vars, BroadcastDropped, Upgrade, PeerLeaves, ReadFails, TypeOK
  <2>2. \A c \in Clients : Owing(c)' = Owing(c)
    BY <2>1 DEF Owing, Coming
  <2>3. Departed' = Departed
    BY <2>1 DEF Departed
  <2>4. [c \in Clients |-> Owing(c)]' = [c \in Clients |-> Owing(c)]
    BY <2>2, Zenon
  <2> QED BY <2>1, <2>3, <2>4 DEF Feed!fvars, Owing, Coming
<1> QED BY <1>1, RunFeeds, BroadcastFeeds, WriterFeeds DEF Next, Feed!Next

\* WsHub implements ClientFeed: a client is owed every message the hub takes while
\* it is in the map, gets them in order, and leaves rather than miss one.
THEOREM KeepsFeedHolds == Spec => KeepsFeed
<1>1. TypeOK /\ SoundInv /\ [Next]_vars => [Feed!Next]_(Feed!fvars)
  BY NextFeeds
<1> QED BY <1>1, FeedInit, SoundInvariant, PTL DEF Spec, KeepsFeed, Feed!Spec

-----------------------------------------------------------------------------
(* No gaps.  What reached a client that registered is a stretch of the log     *)
(* that starts where it came; for a client in the map the stretch goes to the  *)
(* end, or one short of it while the loop is still to reach the client.        *)

LEMMA SliceTyped ==
    ASSUME NEW s \in Seq(Messages), NEW j \in Nat, NEW n \in Nat, j <= n, n <= Len(s)
    PROVE  /\ SubSeq(s, j + 1, n) \in Seq(Messages)
           /\ Len(SubSeq(s, j + 1, n)) = n - j
           /\ \A i \in 1 .. n - j : SubSeq(s, j + 1, n)[i] = s[j + i]
<1>1. Len(s) \in Nat
  BY LenProperties
<1>2. \A i \in j + 1 .. n : s[i] \in Messages
  <2> SUFFICES ASSUME NEW i \in j + 1 .. n PROVE s[i] \in Messages
    OBVIOUS
  <2>1. i \in 1 .. Len(s)
    BY <1>1
  <2> QED BY <2>1, ElementOfSeq
<1> DEFINE p == SubSeq(s, j + 1, n)
           a == j + 1
<1>3. /\ p \in Seq(Messages)
      /\ Len(p) = IF a <= n THEN n - a + 1 ELSE 0
      /\ \A i \in 1 .. n - a + 1 : p[i] = s[a + i - 1]
  <2>1. a \in Int /\ n \in Int /\ \A i \in a .. n : s[i] \in Messages
    BY <1>2
  <2>2. p = SubSeq(s, a, n)
    OBVIOUS
  <2> HIDE DEF a, p
  <2> QED BY <2>1, <2>2, SubSeqProperties
<1>4. Len(p) = n - j
  BY <1>3
<1>5. ASSUME NEW i \in 1 .. n - j PROVE p[i] = s[j + i]
  <2>1. i \in 1 .. n - a + 1 /\ a + i - 1 = j + i
    OBVIOUS
  <2> HIDE DEF a, p
  <2> QED BY <1>3, <2>1
<1> QED BY <1>3, <1>4, <1>5

LEMMA SliceOfAppend ==
    ASSUME NEW s \in Seq(Messages), NEW m \in Messages,
           NEW j \in Nat, NEW n \in Nat, j <= n, n <= Len(s)
    PROVE  SubSeq(Append(s, m), j + 1, n) = SubSeq(s, j + 1, n)
<1> DEFINE t == Append(s, m)
<1>1. /\ t \in Seq(Messages) /\ Len(t) = Len(s) + 1 /\ Len(s) \in Nat
      /\ \A i \in 1 .. Len(s) : t[i] = s[i]
  BY AppendProperties, LenProperties
<1>2. /\ SubSeq(t, j + 1, n) \in Seq(Messages) /\ Len(SubSeq(t, j + 1, n)) = n - j
      /\ \A i \in 1 .. n - j : SubSeq(t, j + 1, n)[i] = t[j + i]
  <2> HIDE DEF t
  <2> QED BY <1>1, SliceTyped
<1>3. \A i \in 1 .. n - j : t[j + i] = s[j + i]
  BY <1>1
<1> QED BY <1>2, <1>3, SliceTyped, SeqEqual

LEMMA SliceOfSlice ==
    ASSUME NEW s \in Seq(Messages), NEW j \in Nat, NEW n \in Nat, NEW k \in Nat,
           j <= n, n <= k, k <= Len(s)
    PROVE  SubSeq(SubSeq(s, j + 1, k), 1, n - j) = SubSeq(s, j + 1, n)
<1> DEFINE t == SubSeq(s, j + 1, k)
<1>1. /\ t \in Seq(Messages) /\ Len(t) = k - j
      /\ \A i \in 1 .. k - j : t[i] = s[j + i]
  BY SliceTyped, LenProperties
<1>2. n - j \in Nat /\ n - j <= Len(t)
  BY <1>1
<1>3. /\ SubSeq(t, 0 + 1, n - j) \in Seq(Messages)
      /\ Len(SubSeq(t, 0 + 1, n - j)) = n - j - 0
      /\ \A i \in 1 .. n - j - 0 : SubSeq(t, 0 + 1, n - j)[i] = t[0 + i]
  <2> HIDE DEF t
  <2> QED BY <1>1, <1>2, SliceTyped
<1>4. /\ SubSeq(s, j + 1, n) \in Seq(Messages) /\ Len(SubSeq(s, j + 1, n)) = n - j
      /\ \A i \in 1 .. n - j : SubSeq(s, j + 1, n)[i] = s[j + i]
  BY SliceTyped, LenProperties
<1>5. SubSeq(t, 1, n - j) \in Seq(Messages) /\ Len(SubSeq(t, 1, n - j)) = n - j
  BY <1>2, <1>3
<1>6. \A i \in 1 .. n - j : SubSeq(t, 1, n - j)[i] = SubSeq(s, j + 1, n)[i]
  BY <1>1, <1>2, <1>3, <1>4
<1> QED BY <1>4, <1>5, <1>6, SeqEqual

\* The stretch is one longer.
LEMMA SliceGrows ==
    ASSUME NEW s \in Seq(Messages), NEW j \in Nat, NEW n \in Nat, j <= n, n + 1 = Len(s)
    PROVE  SubSeq(s, j + 1, n + 1) = SubSeq(s, j + 1, n) \o <<s[n + 1]>>
<1>1. j + 1 \in 1 .. Len(s) /\ n + 1 \in j + 1 .. Len(s) /\ n + 1 - 1 = n
  OBVIOUS
<1> DEFINE a == j + 1
           b == n + 1
<1>2. SubSeq(s, a, b) = SubSeq(s, a, b - 1) \o <<s[b]>>
  <2>1. a \in 1 .. Len(s) /\ b \in a .. Len(s)
    BY <1>1
  <2> HIDE DEF a, b
  <2> QED BY <2>1, SubSeqRecursiveSecond
<1>3. b - 1 = n /\ b = n + 1 /\ a = j + 1
  OBVIOUS
<1> HIDE DEF a, b
<1> QED BY <1>2, <1>3

Behind(c) == IF c \in todo THEN 1 ELSE 0
Reached(c, n) == /\ joined[c] <= n /\ n <= Len(taken)
                 /\ Stream(c) = SubSeq(taken, joined[c] + 1, n)
                 /\ c \in clients => n = Len(taken) - Behind(c)
GapsInv == \A c \in Clients : handler[c] = "done" => \E n \in Nat : Reached(c, n)

\* The types of a client's stream.
LEMMA StreamTyped ==
    ASSUME TypeOK, NEW c \in Clients
    PROVE  /\ got[c] \in Seq(Messages) /\ hand[c] \in Seq(Messages)
           /\ buf[c] \in Seq(Messages) /\ taken \in Seq(Messages)
           /\ got[c] \o hand[c] \in Seq(Messages) /\ Stream(c) \in Seq(Messages)
           /\ joined[c] \in Nat /\ Len(taken) \in Nat
<1>1. /\ got[c] \in Seq(Messages) /\ hand[c] \in Seq(Messages)
      /\ buf[c] \in Seq(Messages) /\ taken \in Seq(Messages) /\ joined[c] \in Nat
  BY DEF TypeOK
<1> QED BY <1>1, ConcatProperties, LenProperties DEF Stream

\* A step that moves no message and takes nobody into the map.
LEMMA StreamsStay ==
    ASSUME GapsInv,
           UNCHANGED <<taken, joined>>, clients' \subseteq clients,
           \A c \in Clients : handler'[c] = "done" => handler[c] = "done",
           \A c \in Clients : /\ Stream(c)' = Stream(c)
                              /\ c \in clients' => (c \in todo' <=> c \in todo)
    PROVE  GapsInv'
<1> SUFFICES ASSUME NEW c \in Clients, handler'[c] = "done"
             PROVE  \E n \in Nat : Reached(c, n)'
  BY DEF GapsInv
<1>1. PICK n \in Nat : Reached(c, n)
  BY DEF GapsInv
<1>2. Reached(c, n)'
  BY <1>1 DEF Reached, Behind
<1> QED BY <1>2

\* The loop: a client comes in with nothing, and each turn adds what was taken last.
LEMMA RunGaps ==
    ASSUME TypeOK, SoundInv, GapsInv, Run
    PROVE  GapsInv'
<1> USE DEF pumps, net, log, InSelect
<1>1. CASE Park \/ EndBroadcast
  BY <1>1, StreamsStay DEF Park, EndBroadcast, Stream
<1>2. ASSUME NEW c \in Clients, TakeRegister(c)
      PROVE  GapsInv'
  <2>1. /\ UNCHANGED <<taken, buf, hand, got, todo>>
        /\ joined' = [joined EXCEPT ![c] = Len(taken)]
        /\ handler' = [handler EXCEPT ![c] = "done"] /\ clients' = clients \cup {c}
        /\ handler[c] # "done"
    BY <1>2 DEF TakeRegister
  <2>2. \A d \in Clients : Stream(d)' = Stream(d)
    BY <2>1 DEF Stream
  <2> SUFFICES ASSUME NEW d \in Clients, handler'[d] = "done"
               PROVE  \E n \in Nat : Reached(d, n)'
    BY DEF GapsInv
  <2>3. CASE d = c
    <3>1. Stream(c) = <<>> /\ c \notin todo
      <4>1. got[c] = <<>> /\ hand[c] = <<>> /\ buf[c] = <<>> /\ c \notin clients
        BY <2>1 DEF SoundInv, Sound, Fresh
      <4>2. <<>> \o <<>> = <<>>
        BY ConcatEmptySeq
      <4> QED BY <4>1, <4>2 DEF Stream, TypeOK
    <3>2. SubSeq(taken, Len(taken) + 1, Len(taken)) = <<>>
      BY StreamTyped, SubSeqEmpty
    <3>3. joined'[c] = Len(taken)
      BY <2>1 DEF TypeOK
    <3>4. Reached(c, Len(taken))'
      BY <2>1, <2>2, <3>1, <3>2, <3>3, StreamTyped DEF Reached, Behind
    <3> QED BY <2>3, <3>4, StreamTyped, <2>1
  <2>4. CASE d # c
    <3>1. PICK n \in Nat : Reached(d, n)
      BY <2>1, <2>4 DEF GapsInv, TypeOK
    <3>2. joined'[d] = joined[d] /\ (d \in clients' <=> d \in clients)
      BY <2>1, <2>4 DEF TypeOK
    <3>3. Reached(d, n)'
      BY <2>1, <2>2, <3>1, <3>2 DEF Reached, Behind
    <3> QED BY <3>3
  <2> QED BY <2>3, <2>4
<1>3. ASSUME NEW c \in Clients, TakeUnregister(c)
      PROVE  GapsInv'
  <2>1. /\ clients' = clients \ {c}
        /\ UNCHANGED <<taken, joined, handler, todo, got, hand, buf>>
    BY <1>3 DEF TakeUnregister, Drop
  <2> QED BY <2>1, StreamsStay DEF Stream
<1>4. ASSUME NEW c \in Clients, Deliver(c)
      PROVE  GapsInv'
  <2>1. /\ c \in clients /\ c \notin closed /\ c \in todo /\ todo' = todo \ {c}
        /\ UNCHANGED <<handler, got, hand, taken, joined>>
    BY <1>4 DEF Deliver, TypeOK, SoundInv, Sound
  <2> SUFFICES ASSUME NEW d \in Clients, handler[d] = "done"
               PROVE  \E n \in Nat : Reached(d, n)'
    BY <2>1 DEF GapsInv
  <2>2. PICK n \in Nat : Reached(d, n)
    BY DEF GapsInv
  <2>3. CASE /\ buf' = [buf EXCEPT ![c] = Append(@, taken[Len(taken)])]
             /\ UNCHANGED <<hub, clients, closed>>
    <3>1. CASE d # c
      <4>1. Stream(d)' = Stream(d)
        BY <2>1, <2>3, <3>1 DEF Stream, TypeOK
      <4>2. Reached(d, n)'
        BY <2>1, <2>2, <2>3, <3>1, <4>1 DEF Reached, Behind
      <4> QED BY <4>2
    <3>2. CASE d = c
      <4> DEFINE m == taken[Len(taken)]
                 j == joined[c]
      <4>1. /\ j \in Nat /\ j <= n /\ n + 1 = Len(taken)
            /\ Stream(c) = SubSeq(taken, j + 1, n)
        BY <2>1, <2>2, <3>2, StreamTyped DEF Reached, Behind
      <4>2. m \in Messages
        BY <1>4, SequenceTypes DEF Deliver, SoundInv
      <4>3. buf'[c] = buf[c] \o <<m>> /\ <<m>> \in Seq(Messages)
        <5>1. buf'[c] = Append(buf[c], m)
          BY <2>3 DEF TypeOK
        <5>2. buf[c] \in Seq(Messages)
          BY StreamTyped
        <5> HIDE DEF m
        <5> QED BY <5>1, <5>2, <4>2, AppendIsConcat
      <4>4. Stream(c)' = Stream(c) \o <<m>>
        <5>1. Stream(c)' = got[c] \o hand[c] \o (buf[c] \o <<m>>)
          BY <2>1, <4>3 DEF Stream
        <5>2. got[c] \o hand[c] \o buf[c] \o <<m>>
              = got[c] \o hand[c] \o (buf[c] \o <<m>>)
          <6>1. got[c] \o hand[c] \in Seq(Messages) /\ buf[c] \in Seq(Messages)
            BY StreamTyped
          <6> HIDE DEF m
          <6> QED BY <4>3, <6>1, Regroup
        <5> QED BY <5>1, <5>2 DEF Stream
      <4>5. Stream(c)' = SubSeq(taken, j + 1, n + 1)
        <5>1. SubSeq(taken, j + 1, n + 1) = SubSeq(taken, j + 1, n) \o <<taken[n + 1]>>
          BY <4>1, StreamTyped, SliceGrows
        <5> QED BY <4>1, <4>4, <5>1
      <4>6. Reached(c, n + 1)'
        BY <2>1, <2>3, <4>1, <4>5 DEF Reached, Behind
      <4> QED BY <3>2, <4>6
    <3> QED BY <3>1, <3>2
  <2>4. CASE /\ clients' = clients \ {c}
             /\ UNCHANGED <<hub, buf>>
    <3>1. Stream(d)' = Stream(d)
      BY <2>1, <2>4 DEF Stream
    <3>2. Reached(d, n)'
      BY <2>1, <2>2, <2>4, <3>1 DEF Reached, Behind
    <3> QED BY <3>2
  <2> QED BY <1>4, <2>1, <2>3, <2>4 DEF Deliver, Offer
<1> QED BY <1>1, <1>2, <1>3, <1>4 DEF Run

\* A broadcast makes the log longer and leaves every stretch of it what it was.
LEMMA BroadcastGaps ==
    ASSUME TypeOK, SoundInv, GapsInv, BroadcastTaken
    PROVE  GapsInv'
<1> USE DEF pumps, net
<1> DEFINE m == sent + 1
<1>1. m \in Messages
  BY SizesAssumption DEF BroadcastTaken, TypeOK, Messages
<1>2. /\ taken' = Append(taken, m) /\ todo' = clients /\ todo = {}
      /\ UNCHANGED <<clients, handler, hand, buf, got, joined>>
  BY DEF BroadcastTaken, TypeOK
<1>3. Len(taken') = Len(taken) + 1
  BY <1>1, <1>2, AppendProperties DEF TypeOK
<1> SUFFICES ASSUME NEW c \in Clients, handler[c] = "done"
             PROVE  \E n \in Nat : Reached(c, n)'
  BY <1>2 DEF GapsInv
<1>4. PICK n \in Nat : Reached(c, n)
  BY DEF GapsInv
<1>5. SubSeq(taken', joined[c] + 1, n) = SubSeq(taken, joined[c] + 1, n)
  <2>1. joined[c] <= n /\ n <= Len(taken)
    BY <1>4 DEF Reached
  <2> HIDE DEF m
  <2> QED BY <1>1, <1>2, <2>1, StreamTyped, SliceOfAppend
<1>6. Stream(c)' = Stream(c)
  BY <1>2 DEF Stream
<1>7. Reached(c, n)'
  <2>1. joined[c] <= n /\ n <= Len(taken) + 1 /\ Len(taken) \in Nat
        /\ Stream(c) = SubSeq(taken, joined[c] + 1, n)
    BY <1>4, StreamTyped DEF Reached
  <2>2. c \in clients => n = Len(taken) + 1 - 1 /\ Behind(c)' = 1
    BY <1>2, <1>4, StreamTyped DEF Reached, Behind
  <2> HIDE DEF m
  <2>3. joined'[c] <= n /\ n <= Len(taken')
    BY <1>2, <1>3, <2>1
  <2>4. Stream(c)' = SubSeq(taken', joined'[c] + 1, n)
    BY <1>2, <1>5, <1>6, <2>1
  <2>5. c \in clients' => n = Len(taken') - Behind(c)'
    BY <1>2, <1>3, <2>2
  <2> QED BY <2>3, <2>4, <2>5 DEF Reached
<1> QED BY <1>7

\* The writer moves a message along the stream.
LEMMA WriterGaps ==
    ASSUME TypeOK, SoundInv, GapsInv, NEW c \in Clients, WritePump(c)
    PROVE  GapsInv'
<1> USE DEF pumps, net, log, WriterStep
<1>1. UNCHANGED <<clients, todo, handler, taken, joined>>
  BY DEF WritePump, Listen, TakeMessage, SeeClosed, Ping, WriteDone, WriteFails, SayBye,
         CloseConn
<1>2. \A d \in Clients \ {c} : Stream(d)' = Stream(d)
  BY DEF WritePump, Listen, TakeMessage, SeeClosed, Ping, WriteDone, WriteFails, SayBye,
         CloseConn, Stream, TypeOK
<1>3. Stream(c)' = Stream(c)
  <2>1. CASE TakeMessage(c)
    <3> DEFINE h == <<Head(buf[c])>>
    <3>1. /\ hand[c] = <<>> /\ buf[c] # <<>>
          /\ hand'[c] = h /\ buf'[c] = Tail(buf[c]) /\ got'[c] = got[c]
      BY <2>1 DEF TakeMessage, SoundInv, Sound, TypeOK
    <3>2. h \in Seq(Messages) /\ Tail(buf[c]) \in Seq(Messages) /\ h \o Tail(buf[c]) = buf[c]
      BY <3>1, SequenceTypes, StreamTyped, HandLemma
    <3>3. Stream(c)' = got[c] \o h \o Tail(buf[c])
      BY <3>1 DEF Stream
    <3>4. got[c] \o h \o Tail(buf[c]) = got[c] \o (h \o Tail(buf[c]))
      <4>1. got[c] \in Seq(Messages)
        BY StreamTyped
      <4> HIDE DEF h
      <4> QED BY <3>2, <4>1, Regroup
    <3>5. Stream(c) = got[c] \o buf[c]
      BY <3>1, StreamTyped, ConcatEmptySeq DEF Stream
    <3> QED BY <3>2, <3>3, <3>4, <3>5
  <2>2. CASE SeeClosed(c) \/ Ping(c) \/ WriteFails(c) \/ SayBye(c) \/ CloseConn(c)
    BY <2>2 DEF SeeClosed, Ping, WriteFails, SayBye, CloseConn, Stream
  <2>3. CASE WriteDone(c)
    <3>1. got'[c] = got[c] \o hand[c] /\ hand'[c] = <<>> /\ buf'[c] = buf[c]
      BY <2>3 DEF WriteDone, TypeOK
    <3>2. got[c] \o hand[c] \o <<>> = got[c] \o hand[c]
      BY StreamTyped, ConcatEmptySeq
    <3> QED BY <3>1, <3>2 DEF Stream
  <2> QED BY <2>1, <2>2, <2>3 DEF WritePump, Listen
<1> QED BY <1>1, <1>2, <1>3, StreamsStay

LEMMA NextGaps ==
    ASSUME TypeOK, SoundInv, GapsInv, [Next]_vars
    PROVE  GapsInv'
<1> USE DEF pumps, net, log
<1>1. CASE UNCHANGED vars \/ BroadcastDropped
           \/ \E c \in Clients : Upgrade(c) \/ PeerLeaves(c) \/ ReadFails(c)
  <2>1. /\ UNCHANGED <<clients, todo, hand, buf, taken, joined, got>>
        /\ \A c \in Clients : handler'[c] = "done" => handler[c] = "done"
    BY <1>1 DEF vars, BroadcastDropped, Upgrade, PeerLeaves, ReadFails, TypeOK
  <2> QED BY <2>1, StreamsStay DEF Stream
<1> QED BY <1>1, RunGaps, BroadcastGaps, WriterGaps DEF Next

\* A client in the map misses no message the hub took since it came; one that left
\* has a prefix of them.
THEOREM NoGapsHolds == Spec => []NoGaps
<1>1. Init => GapsInv
  BY DEF Init, GapsInv
<1>2. TypeOK /\ GapsInv => NoGaps
  <2> SUFFICES ASSUME TypeOK, GapsInv, NEW c \in Clients, handler[c] = "done"
               PROVE  /\ c \in clients => Stream(c) = Owed(c)
                      /\ \E n \in 0 .. Len(Owed(c)) :
                            Stream(c) = SubSeq(Owed(c), 1, n)
    BY DEF NoGaps
  <2>1. PICK n \in Nat : Reached(c, n)
    BY DEF GapsInv
  <2> DEFINE j == joined[c]
             k == Len(taken) - Behind(c)
  <2>2. /\ j \in Nat /\ k \in Nat /\ j <= n /\ n <= k /\ k <= Len(taken)
        /\ c \in clients => n = k
    BY <2>1, StreamTyped DEF Reached, Behind, TypeOK
  <2>3. Owed(c) = SubSeq(taken, j + 1, k) /\ Stream(c) = SubSeq(taken, j + 1, n)
    BY <2>1 DEF Reached, Owed, Behind
  <2> HIDE DEF j, k
  <2>4. Len(Owed(c)) = k - j
    BY <2>2, <2>3, StreamTyped, SliceTyped
  <2>5. Stream(c) = SubSeq(Owed(c), 1, n - j) /\ n - j \in 0 .. Len(Owed(c))
    BY <2>2, <2>3, <2>4, StreamTyped, SliceOfSlice
  <2> QED BY <2>2, <2>3, <2>5
<1>3. TypeOK /\ SoundInv /\ GapsInv /\ [Next]_vars => GapsInv'
  BY NextGaps
<1> QED BY <1>1, <1>2, <1>3, SoundInvariant, PTL DEF Spec

=============================================================================
