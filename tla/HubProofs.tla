------------------------------ MODULE HubProofs ------------------------------
(***************************************************************************)
(* Theorems about Hub, for any number of connections and events and any    *)
(* capacities: its types, and that Run never sends on a closed channel.    *)
(*                                                                         *)
(* Theorems about Files, whose views listen to the hub, for any number of  *)
(* requests, views, names, parts and chunks: its types, that uploads which *)
(* are alone end up whole, that progress bars end, and that a view which   *)
(* nothing disturbed shows what its directory has.                         *)
(***************************************************************************)
EXTENDS Hub, Files, SequenceTheorems, TLAPS

\* Between two messages Run has nobody left to offer one to.
IdleIsDone == Idle => todo = {}

\* A channel is closed only by its reader's last call, and a reader begins with
\* its connection: a client registers at most once, before it is closed.
ReaderOrder ==
  \A c \in Clients : /\ c \in closed => reader[c] = "done"
                     /\ peer[c] = "none" => reader[c] = "none"

IInv == TypeOK /\ NoSendOnClosed /\ IdleIsDone /\ ReaderOrder

-----------------------------------------------------------------------------
LEMMA InitInv == Init => IInv
<1> SUFFICES ASSUME Init PROVE IInv
  OBVIOUS
<1>1. <<>> \in Seq(Nat \ {0})
  OBVIOUS
<1>2. TypeOK
  BY <1>1 DEF Init, TypeOK
<1>3. NoSendOnClosed /\ IdleIsDone /\ ReaderOrder
  BY DEF Init, NoSendOnClosed, IdleIsDone, ReaderOrder
<1>4. QED
  BY <1>2, <1>3 DEF IInv

\* What the channels carry: events, numbered from one.
LEMMA Appended == ASSUME NEW s \in Seq(Nat \ {0}), NEW e \in Nat \ {0}
                  PROVE  Append(s, e) \in Seq(Nat \ {0})
OBVIOUS

LEMMA Taken == ASSUME NEW s \in Seq(Nat \ {0}), s # <<>>
               PROVE  Head(s) \in Nat \ {0} /\ Tail(s) \in Seq(Nat \ {0})
BY HeadTailProperties

LEMMA EmitInv == ASSUME IInv, Emit PROVE IInv'
<1> USE DEF IInv, Emit
<1>1. TypeOK'
  <2>1. emitted + 1 \in Nat \ {0} /\ broadcast \in Seq(Nat \ {0})
    BY DEF TypeOK
  <2>2. Append(broadcast, emitted + 1) \in Seq(Nat \ {0})
    BY <2>1, Appended
  <2>3. QED
    BY <2>1, <2>2 DEF TypeOK
<1>2. NoSendOnClosed' /\ IdleIsDone' /\ ReaderOrder'
  BY DEF NoSendOnClosed, IdleIsDone, Idle, ReaderOrder
<1>3. QED
  BY <1>1, <1>2

LEMMA TakeInv == ASSUME IInv, TakeMessage \/ DiscardMessage PROVE IInv'
<1> USE DEF IInv, news
<1>1. Head(broadcast) \in Nat \ {0} /\ Tail(broadcast) \in Seq(Nat \ {0})
  BY Taken DEF TypeOK, TakeMessage, DiscardMessage
<1>2. CASE TakeMessage
  <2>1. TypeOK'
    BY <1>1, <1>2 DEF TypeOK, TakeMessage
  <2>2. NoSendOnClosed' /\ ReaderOrder'
    BY <1>2 DEF NoSendOnClosed, ReaderOrder, TakeMessage
  <2>3. IdleIsDone'
    BY <1>1, <1>2 DEF IdleIsDone, Idle, TakeMessage
  <2>4. QED
    BY <2>1, <2>2, <2>3
<1>3. CASE DiscardMessage
  <2>1. TypeOK'
    BY <1>1, <1>3 DEF TypeOK, DiscardMessage
  <2>2. NoSendOnClosed' /\ ReaderOrder' /\ IdleIsDone'
    BY <1>3 DEF NoSendOnClosed, ReaderOrder, IdleIsDone, Idle, DiscardMessage
  <2>3. QED
    BY <2>1, <2>2
<1>4. QED
  BY <1>2, <1>3

LEMMA RegisterInv == ASSUME IInv, NEW c \in Clients, Register(c) PROVE IInv'
<1> USE DEF IInv, Register, news
<1>1. TypeOK'
  BY DEF TypeOK
<1>2. c \notin closed /\ todo = {}
  BY DEF ReaderOrder, IdleIsDone
<1>3. NoSendOnClosed'
  BY <1>2 DEF NoSendOnClosed
<1>4. IdleIsDone' /\ ReaderOrder'
  BY <1>2 DEF IdleIsDone, Idle, ReaderOrder, TypeOK
<1>5. QED
  BY <1>1, <1>3, <1>4

LEMMA UnregisterInv == ASSUME IInv, NEW c \in Clients, Unregister(c) PROVE IInv'
<1> USE DEF IInv, Unregister, news
<1>1. TypeOK'
  BY DEF TypeOK
<1>2. todo = {}
  BY DEF IdleIsDone
<1>3. NoSendOnClosed'
  BY <1>2 DEF NoSendOnClosed
<1>4. IdleIsDone' /\ ReaderOrder'
  BY <1>2 DEF IdleIsDone, Idle, ReaderOrder, TypeOK
<1>5. QED
  BY <1>1, <1>3, <1>4

LEMMA OfferInv == ASSUME IInv, NEW c \in Clients, Offer(c) PROVE IInv'
<1> USE DEF IInv, Offer
<1>1. message \in Nat \ {0}
  BY DEF IdleIsDone, Idle, TypeOK
<1>2. Append(send[c], message) \in Seq(Nat \ {0})
  BY <1>1, Appended DEF TypeOK
<1>3. TypeOK'
  BY <1>1, <1>2 DEF TypeOK
<1>4. NoSendOnClosed' /\ ReaderOrder'
  BY DEF NoSendOnClosed, ReaderOrder
<1>5. IdleIsDone'
  BY <1>1 DEF IdleIsDone, Idle
<1>6. QED
  BY <1>3, <1>4, <1>5

LEMMA WriteInv == ASSUME IInv, NEW c \in Clients, Write(c) PROVE IInv'
<1> USE DEF IInv, Write, hubVars
<1>1. Head(send[c]) \in Nat \ {0} /\ Tail(send[c]) \in Seq(Nat \ {0})
  BY Taken DEF TypeOK
<1>2. Append(received[c], Head(send[c])) \in Seq(Nat \ {0})
  BY <1>1, Appended DEF TypeOK
<1>3. TypeOK'
  BY <1>1, <1>2 DEF TypeOK
<1>4. NoSendOnClosed' /\ ReaderOrder' /\ IdleIsDone'
  BY DEF NoSendOnClosed, ReaderOrder, IdleIsDone, Idle
<1>5. QED
  BY <1>3, <1>4

\* The ends of a connection: none of them touches what Run has.
LEMMA EndsInv ==
  ASSUME IInv, NEW c \in Clients, Connect(c) \/ Leave(c) \/ ReadFails(c) \/ WriterExits(c)
  PROVE  IInv'
<1> USE DEF IInv, Connect, Leave, ReadFails, WriterExits, hubVars, news
<1>1. TypeOK'
  BY DEF TypeOK
<1>2. NoSendOnClosed' /\ IdleIsDone'
  BY DEF NoSendOnClosed, IdleIsDone, Idle
<1>3. ReaderOrder'
  BY DEF ReaderOrder, TypeOK
<1>4. QED
  BY <1>1, <1>2, <1>3

LEMMA NextInv == IInv /\ [Next]_vars => IInv'
<1> SUFFICES ASSUME IInv, [Next]_vars PROVE IInv'
  OBVIOUS
<1>1. CASE Emit
  BY <1>1, EmitInv
<1>2. CASE Run
  BY <1>2, TakeInv, RegisterInv, UnregisterInv, OfferInv DEF Run
<1>3. CASE \E c \in Clients : Connect(c) \/ Leave(c) \/ ReadFails(c) \/ Write(c) \/ WriterExits(c)
  BY <1>3, EndsInv, WriteInv
<1>4. CASE UNCHANGED vars
  BY <1>4 DEF vars, hubVars, news, IInv, TypeOK, NoSendOnClosed, IdleIsDone, Idle, ReaderOrder
<1>5. QED
  BY <1>1, <1>2, <1>3, <1>4 DEF Next

\* The inductive invariant: what Run, the readers and the channels are to each
\* other (hub.go Run, ServeWS).
THEOREM Invariance == Spec => []IInv
BY InitInv, NextInv, PTL DEF Spec

\* The variables of the hub keep their types, whatever connects, leaves and
\* emits.
THEOREM TypeCorrect == Spec => []TypeOK
<1>1. IInv => TypeOK
  BY DEF IInv
<1>2. QED
  BY <1>1, Invariance, PTL

\* Run never sends on a closed channel, which would end nasd, for any number of
\* browsers that come and go while events are handed out (hub.go:51-66).
THEOREM NeverSendsOnClosed == Spec => []NoSendOnClosed
<1>1. IInv => NoSendOnClosed
  BY DEF IInv
<1>2. QED
  BY <1>1, Invariance, PTL
-----------------------------------------------------------------------------
(* The hub implements LossyStream                                          *)

\* s increases strictly, above lo and up to hi.
Between(lo, s, hi) ==
  /\ \A i \in 1 .. Len(s) : lo < s[i] /\ s[i] <= hi
  /\ \A i, j \in 1 .. Len(s) : i < j => s[i] < s[j]

Last(c) == Stream!LastOf(received[c])

\* What a client was given last, or has in its channel.
Known(c) == {Last(c)} \cup {send[c][i] : i \in 1 .. Len(send[c])}

\* Along the way of an event, from Emit through Hub.broadcast, Run's hand and
\* client.send to the browser, the earlier event is always the farther one.
FirstInFirstOut ==
  /\ message <= emitted
  /\ Between(message, broadcast, emitted)
  /\ \A c \in Clients :
       /\ Between(Last(c), send[c], emitted)
       /\ \A e \in Known(c) : /\ e <= emitted
                              /\ c \in todo => e < message
                              /\ \A j \in 1 .. Len(broadcast) : e < broadcast[j]

FifoInv == IInv /\ FirstInFirstOut

LEMMA AppendBetween ==
  ASSUME NEW s \in Seq(Nat \ {0}), NEW e \in Nat \ {0}, NEW lo \in Nat, NEW hi \in Nat,
         NEW top \in Nat, Between(lo, s, hi), hi =< top, e =< top, lo < e,
         \A i \in 1 .. Len(s) : s[i] < e
  PROVE  Between(lo, Append(s, e), top)
<1>1. /\ Len(Append(s, e)) = Len(s) + 1
      /\ \A i \in 1 .. Len(s) : Append(s, e)[i] = s[i] /\ s[i] \in Nat
      /\ Append(s, e)[Len(s) + 1] = e
      /\ Len(s) \in Nat
  BY AppendProperties, ElementOfSeq, LenProperties
<1>2. \A i \in 1 .. Len(s) + 1 : i \in 1 .. Len(s) \/ i = Len(s) + 1
  BY <1>1
<1>3. ASSUME NEW i \in 1 .. Len(s) + 1 PROVE lo < Append(s, e)[i] /\ Append(s, e)[i] =< top
  BY <1>1, <1>2 DEF Between
<1>4. ASSUME NEW i \in 1 .. Len(s) + 1, NEW j \in 1 .. Len(s) + 1, i < j
      PROVE  Append(s, e)[i] < Append(s, e)[j]
  <2>1. i \in 1 .. Len(s)
    BY <1>1, <1>4
  <2>2. QED
    BY <1>1, <1>2, <1>4, <2>1 DEF Between
<1>5. QED
  BY <1>1, <1>3, <1>4 DEF Between

LEMMA TailBetween ==
  ASSUME NEW s \in Seq(Nat \ {0}), s # <<>>, NEW lo \in Nat, NEW hi \in Nat,
         Between(lo, s, hi)
  PROVE  /\ Head(s) = s[1] /\ 1 \in 1 .. Len(s) /\ lo < Head(s) /\ Head(s) =< hi
         /\ Len(Tail(s)) = Len(s) - 1
         /\ \A i \in 1 .. Len(Tail(s)) : Tail(s)[i] = s[i + 1] /\ i + 1 \in 1 .. Len(s)
         /\ Between(Head(s), Tail(s), hi)
<1>1. /\ Head(s) = s[1] /\ Len(s) \in Nat /\ Len(s) # 0
      /\ Len(Tail(s)) = Len(s) - 1
      /\ \A i \in 1 .. Len(Tail(s)) : Tail(s)[i] = s[i + 1]
  BY HeadTailProperties, LenProperties, EmptySeq
<1>2. 1 \in 1 .. Len(s) /\ \A i \in 1 .. Len(Tail(s)) : i + 1 \in 1 .. Len(s) /\ 1 < i + 1
  BY <1>1
<1>3. Between(Head(s), Tail(s), hi)
  BY <1>1, <1>2 DEF Between
<1>4. QED
  BY <1>1, <1>2, <1>3 DEF Between

\* The last event a browser got is a number, and the one it is given next.
LEMMA LastIs ==
  ASSUME NEW s \in Seq(Nat \ {0})
  PROVE  /\ Stream!LastOf(s) \in Nat
         /\ \A e \in Nat \ {0} : Stream!LastOf(Append(s, e)) = e
<1>1. Stream!LastOf(s) \in Nat
  <2>1. CASE s = <<>>
    BY <2>1 DEF Stream!LastOf
  <2>2. CASE s # <<>>
    <3>1. Len(s) \in 1 .. Len(s)
      BY <2>2, LenProperties, EmptySeq
    <3>2. QED
      BY <2>2, <3>1, ElementOfSeq DEF Stream!LastOf
  <2>3. QED
    BY <2>1, <2>2
<1>2. ASSUME NEW e \in Nat \ {0} PROVE Stream!LastOf(Append(s, e)) = e
  <2>1. /\ Append(s, e) # <<>> /\ Len(Append(s, e)) = Len(s) + 1
        /\ Append(s, e)[Len(s) + 1] = e
    BY AppendProperties
  <2>2. QED
    BY <2>1 DEF Stream!LastOf
<1>3. QED
  BY <1>1, <1>2

\* What a client was given are numbers.
LEMMA KnownAreNumbers ==
  ASSUME TypeOK, NEW c \in Clients
  PROVE  Last(c) \in Nat /\ Known(c) \subseteq Nat
<1>1. Last(c) \in Nat
  BY LastIs DEF Last, TypeOK
<1>2. \A i \in 1 .. Len(send[c]) : send[c][i] \in Nat
  BY ElementOfSeq DEF TypeOK
<1>3. QED
  BY <1>1, <1>2 DEF Known

LEMMA InitFifo == Init => FirstInFirstOut
<1> SUFFICES ASSUME Init PROVE FirstInFirstOut
  OBVIOUS
<1>1. Len(<<>>) = 0 /\ 1 .. 0 = {}
  BY EmptySeq
<1>2. ASSUME NEW c \in Clients PROVE Last(c) = 0 /\ send[c] = <<>> /\ Known(c) = {0}
  BY <1>1 DEF Init, Last, Stream!LastOf, Known
<1>3. QED
  BY <1>1, <1>2 DEF Init, FirstInFirstOut, Between

\* An event that is emitted is later than every one on its way.
LEMMA EmitFifo == ASSUME FifoInv, Emit PROVE FirstInFirstOut'
<1> USE DEF FifoInv, IInv
<1>1. /\ emitted \in Nat /\ emitted + 1 \in Nat \ {0} /\ message \in Nat
      /\ broadcast \in Seq(Nat \ {0})
  BY DEF TypeOK
<1>2. \A i \in 1 .. Len(broadcast) : broadcast[i] \in Nat /\ broadcast[i] < emitted + 1
  BY <1>1, ElementOfSeq DEF FirstInFirstOut, Between
<1>3. message =< emitted /\ Between(message, broadcast, emitted)
  BY DEF FirstInFirstOut
<1>4. /\ Between(message, Append(broadcast, emitted + 1), emitted + 1)
      /\ Between(message, broadcast, emitted + 1)
  <2>1. Between(message, Append(broadcast, emitted + 1), emitted + 1)
    BY <1>1, <1>2, <1>3, AppendBetween
  <2>2. Between(message, broadcast, emitted + 1)
    BY <1>1, <1>2, <1>3 DEF Between
  <2>3. QED
    BY <2>1, <2>2
<1>5. message' =< emitted' /\ Between(message, broadcast, emitted)'
  BY <1>1, <1>3, <1>4 DEF Emit, Between
<1>6. ASSUME NEW c \in Clients
      PROVE  /\ Between(Last(c), send[c], emitted)'
             /\ \A e \in Known(c)' : /\ e =< emitted'
                                     /\ c \in todo' => e < message'
                                     /\ \A j \in 1 .. Len(broadcast') : e < broadcast'[j]
  <2>1. Known(c)' = Known(c) /\ Last(c)' = Last(c) /\ send'[c] = send[c]
    BY DEF Emit, Known, Last
  <2>2. /\ Between(Last(c), send[c], emitted) /\ Last(c) \in Nat
        /\ \A i \in 1 .. Len(send[c]) : send[c][i] \in Nat
        /\ \A e \in Known(c) : e \in Nat /\ e =< emitted
    BY KnownAreNumbers, ElementOfSeq DEF FirstInFirstOut, TypeOK
  <2>3. Between(Last(c), send[c], emitted + 1)
    <3>1. \A x \in Nat : x =< emitted => x =< emitted + 1
      BY <1>1
    <3>2. \A i \in 1 .. Len(send[c]) : send[c][i] =< emitted + 1
      BY <2>2, <3>1 DEF Between
    <3>3. QED
      BY <2>2, <3>2 DEF Between
  <2>4. \A j \in 1 .. Len(broadcast') : \/ j \in 1 .. Len(broadcast) /\ broadcast'[j] = broadcast[j]
                                        \/ broadcast'[j] = emitted + 1
    BY <1>1, AppendProperties, LenProperties DEF Emit
  <2>5. QED
    BY <1>1, <2>1, <2>2, <2>3, <2>4 DEF Emit, FirstInFirstOut, Between
<1>7. QED
  BY <1>5, <1>6 DEF FirstInFirstOut

\* Run takes the earliest event that waits; it is later than what the clients
\* were given before.
LEMMA TakeFifo == ASSUME FifoInv, TakeMessage \/ DiscardMessage PROVE FirstInFirstOut'
<1> USE DEF FifoInv, IInv
<1>1. /\ emitted \in Nat /\ message = 0 /\ todo = {} /\ broadcast # <<>>
      /\ broadcast \in Seq(Nat \ {0}) /\ broadcast' = Tail(broadcast)
      /\ Between(0, broadcast, emitted)
      /\ emitted' = emitted /\ send' = send /\ received' = received
  BY DEF TypeOK, TakeMessage, DiscardMessage, Idle, IdleIsDone, FirstInFirstOut
<1>2. /\ Head(broadcast) = broadcast[1] /\ 1 \in 1 .. Len(broadcast)
      /\ 0 < Head(broadcast) /\ Head(broadcast) =< emitted
      /\ \A i \in 1 .. Len(Tail(broadcast)) :
           Tail(broadcast)[i] = broadcast[i + 1] /\ i + 1 \in 1 .. Len(broadcast)
      /\ Between(Head(broadcast), Tail(broadcast), emitted)
  BY <1>1, TailBetween
<1>3. Head(broadcast) \in Nat /\ \A i \in 1 .. Len(Tail(broadcast)) : Tail(broadcast)[i] \in Nat
  BY <1>1, <1>2, ElementOfSeq
<1>4. Between(0, Tail(broadcast), emitted)
  BY <1>2, <1>3 DEF Between
<1>5. ASSUME NEW c \in Clients
      PROVE  /\ Between(Last(c), send[c], emitted)'
             /\ \A e \in Known(c)' : /\ e =< emitted'
                                     /\ e < Head(broadcast)
                                     /\ \A j \in 1 .. Len(broadcast') : e < broadcast'[j]
  BY <1>1, <1>2 DEF FirstInFirstOut, Known, Last
<1>6. \/ message' = Head(broadcast)
      \/ message' = 0 /\ todo' = {}
  BY <1>1 DEF TakeMessage, DiscardMessage
<1>7. message' =< emitted' /\ Between(message, broadcast, emitted)'
  BY <1>1, <1>2, <1>4, <1>6
<1>8. QED
  BY <1>5, <1>6, <1>7 DEF FirstInFirstOut

LEMMA OfferFifo == ASSUME FifoInv, NEW c \in Clients, Offer(c) PROVE FirstInFirstOut'
<1> USE DEF FifoInv, IInv
<1>1. /\ emitted \in Nat /\ message \in Nat \ {0} /\ message =< emitted
      /\ send \in [Clients -> Seq(Nat \ {0})] /\ broadcast \in Seq(Nat \ {0})
      /\ Between(message, broadcast, emitted)
      /\ emitted' = emitted /\ broadcast' = broadcast /\ received' = received
  BY DEF TypeOK, Offer, Idle, IdleIsDone, FirstInFirstOut
<1>2. message' \in {0, message} /\ (todo' # {} => message' = message) /\ todo' \subseteq todo
  BY DEF Offer
<1>3. \A j \in 1 .. Len(broadcast) : broadcast[j] \in Nat /\ message < broadcast[j]
  BY <1>1, ElementOfSeq DEF Between
<1>4. message' =< emitted' /\ Between(message, broadcast, emitted)'
  BY <1>1, <1>2, <1>3 DEF Between
<1>5. ASSUME NEW d \in Clients
      PROVE  /\ Between(Last(d), send[d], emitted)'
             /\ \A e \in Known(d)' : /\ e =< emitted'
                                     /\ d \in todo' => e < message'
                                     /\ \A j \in 1 .. Len(broadcast') : e < broadcast'[j]
  <2>1. /\ Last(d)' = Last(d) /\ Last(d) \in Nat
        /\ Between(Last(d), send[d], emitted)
        /\ \A e \in Known(d) : /\ e \in Nat /\ e =< emitted
                               /\ d \in todo => e < message
                               /\ \A j \in 1 .. Len(broadcast) : e < broadcast[j]
    BY <1>1, KnownAreNumbers DEF FirstInFirstOut, Last
  <2>2. CASE send'[d] = send[d]
    <3>1. Known(d)' = Known(d)
      BY <2>1, <2>2 DEF Known
    <3>2. QED
      BY <1>1, <1>2, <2>1, <2>2, <3>1
  <2>3. CASE send'[d] # send[d]
    <3>1. d = c /\ d \in todo /\ d \notin todo' /\ send'[d] = Append(send[d], message)
      BY <1>1, <2>3 DEF Offer
    <3>2. Last(d) < message /\ \A i \in 1 .. Len(send[d]) : send[d][i] < message
      BY <2>1, <3>1 DEF Known
    <3>3. Between(Last(d), Append(send[d], message), emitted)
      BY <1>1, <2>1, <3>2, AppendBetween
    <3>4. \A i \in 1 .. Len(send'[d]) : \/ i \in 1 .. Len(send[d]) /\ send'[d][i] = send[d][i]
                                        \/ send'[d][i] = message
      BY <1>1, <3>1, AppendProperties, LenProperties
    <3>5. Known(d)' \subseteq Known(d) \cup {message}
      BY <2>1, <3>4 DEF Known
    <3>6. QED
      BY <1>1, <1>3, <2>1, <3>1, <3>3, <3>5
  <2>4. QED
    BY <2>2, <2>3
<1>6. QED
  BY <1>4, <1>5 DEF FirstInFirstOut

\* The writer takes the earliest event of its channel: it is later than what
\* the browser got last.
LEMMA WriteFifo == ASSUME FifoInv, NEW c \in Clients, Write(c) PROVE FirstInFirstOut'
<1> USE DEF FifoInv, IInv
<1>1. /\ emitted \in Nat /\ emitted' = emitted /\ broadcast' = broadcast
      /\ message' = message /\ todo' = todo
      /\ send \in [Clients -> Seq(Nat \ {0})] /\ received \in [Clients -> Seq(Nat \ {0})]
  BY DEF TypeOK, Write, hubVars
<1>2. ASSUME NEW d \in Clients
      PROVE  /\ Between(Last(d), send[d], emitted)'
             /\ \A e \in Known(d)' : /\ e =< emitted'
                                     /\ d \in todo' => e < message'
                                     /\ \A j \in 1 .. Len(broadcast') : e < broadcast'[j]
  <2>1. /\ Last(d) \in Nat /\ Between(Last(d), send[d], emitted)
        /\ \A e \in Known(d) : /\ e =< emitted
                               /\ d \in todo => e < message
                               /\ \A j \in 1 .. Len(broadcast) : e < broadcast[j]
    BY KnownAreNumbers DEF FirstInFirstOut
  <2>2. CASE d # c
    <3>1. send'[d] = send[d] /\ received'[d] = received[d]
      BY <1>1, <2>2 DEF Write
    <3>2. Last(d)' = Last(d) /\ Known(d)' = Known(d)
      BY <3>1 DEF Last, Known
    <3>3. QED
      BY <1>1, <2>1, <3>1, <3>2
  <2>3. CASE d = c
    <3>1. /\ send[c] # <<>> /\ send'[c] = Tail(send[c])
          /\ \/ received'[c] = Append(received[c], Head(send[c]))
             \/ received'[c] = received[c]
      BY <1>1 DEF Write
    <3>2. /\ Head(send[c]) = send[c][1] /\ 1 \in 1 .. Len(send[c])
          /\ Last(c) < Head(send[c]) /\ Head(send[c]) \in Nat \ {0}
          /\ \A i \in 1 .. Len(Tail(send[c])) :
               Tail(send[c])[i] = send[c][i + 1] /\ i + 1 \in 1 .. Len(send[c])
          /\ Between(Head(send[c]), Tail(send[c]), emitted)
      BY <1>1, <2>1, <2>3, <3>1, TailBetween, ElementOfSeq
    <3>3. Last(c)' \in {Last(c), Head(send[c])}
      <4>1. Stream!LastOf(Append(received[c], Head(send[c]))) = Head(send[c])
        BY <1>1, <3>2, LastIs
      <4>2. Last(c)' = Stream!LastOf(received'[c])
        BY DEF Last
      <4>3. QED
        BY <3>1, <4>1, <4>2 DEF Last
    <3>4. \A i \in 1 .. Len(Tail(send[c])) : Tail(send[c])[i] \in Nat
      BY <1>1, <3>2, ElementOfSeq
    <3>5. Between(Last(c)', Tail(send[c]), emitted)
      BY <2>1, <2>3, <3>2, <3>3, <3>4 DEF Between
    <3>6. Known(c)' \subseteq Known(c)
      BY <3>1, <3>2, <3>3 DEF Known
    <3>7. QED
      BY <1>1, <2>1, <2>3, <3>1, <3>5, <3>6
  <2>4. QED
    BY <2>2, <2>3
<1>3. QED
  BY <1>1, <1>2 DEF FifoInv, FirstInFirstOut

\* Every other step leaves the events where they are; only Unregister and
\* Register change what Run has, and they leave todo alone.
LEMMA OtherFifo ==
  ASSUME FirstInFirstOut, UNCHANGED <<emitted, broadcast, message, todo, send, received>>
  PROVE  FirstInFirstOut'
<1>1. \A c \in Clients : Known(c)' = Known(c) /\ Last(c)' = Last(c)
  BY Zenon DEF Known, Last
<1>2. \A c \in Clients : Between(Last(c), send[c], emitted)' <=> Between(Last(c), send[c], emitted)
  BY <1>1 DEF Between
<1>3. Between(message, broadcast, emitted)' <=> Between(message, broadcast, emitted)
  BY DEF Between
<1>4. QED
  BY <1>1, <1>2, <1>3 DEF FirstInFirstOut

LEMMA NextFifo == FifoInv /\ [Next]_vars => FirstInFirstOut'
<1> SUFFICES ASSUME FifoInv, [Next]_vars PROVE FirstInFirstOut'
  OBVIOUS
<1>1. CASE Emit
  BY <1>1, EmitFifo
<1>2. CASE TakeMessage \/ DiscardMessage
  BY <1>2, TakeFifo
<1>3. CASE \E c \in Clients : Offer(c)
  BY <1>3, OfferFifo
<1>4. CASE \E c \in Clients : Write(c)
  BY <1>4, WriteFifo
<1>5. CASE \/ UNCHANGED vars
           \/ \E c \in Clients : \/ Register(c) \/ Unregister(c) \/ Connect(c)
                                 \/ Leave(c) \/ ReadFails(c) \/ WriterExits(c)
  <2>1. UNCHANGED <<emitted, broadcast, message, todo, send, received>>
    BY <1>5 DEF Register, Unregister, Connect, Leave, ReadFails, WriterExits, hubVars, vars
  <2>2. QED
    BY <2>1, OtherFifo DEF FifoInv
<1>6. QED
  BY <1>1, <1>2, <1>3, <1>4, <1>5 DEF Next, Run

\* A step of the hub is a step of LossyStream, or none: only Emit emits, and
\* what a browser gets is later than what it got last.
LEMMA StepRefines ==
  FifoInv /\ [Next]_vars => [Stream!Next]_<<emitted, received>>
<1> SUFFICES ASSUME FifoInv, [Next]_vars, ~ UNCHANGED <<emitted, received>>
             PROVE  Stream!Next
  OBVIOUS
<1>1. CASE Emit
  BY <1>1 DEF Emit, Stream!Next, Stream!Emit
<1>2. CASE \E c \in Clients : Write(c)
  <2>1. PICK c \in Clients : Write(c)
    BY <1>2
  <2>2. /\ send[c] # <<>> /\ emitted' = emitted
        /\ received' = [received EXCEPT ![c] = Append(@, Head(send[c]))]
    BY <2>1 DEF Write
  <2>3. /\ emitted \in Nat /\ send[c] \in Seq(Nat \ {0}) /\ received[c] \in Seq(Nat \ {0})
        /\ Last(c) \in Nat /\ Between(Last(c), send[c], emitted)
    BY KnownAreNumbers DEF FifoInv, IInv, TypeOK, FirstInFirstOut
  <2>4. Head(send[c]) \in Nat \ {0} /\ Last(c) < Head(send[c]) /\ Head(send[c]) =< emitted
    BY <2>2, <2>3, Taken, TailBetween
  <2>5. /\ Head(send[c]) \in 1 .. emitted
        /\ Head(send[c]) \in (Last(c) + 1) .. emitted
    BY <2>3, <2>4
  <2>6. Stream!Deliver(c, Head(send[c]))
    BY <2>2, <2>5 DEF Stream!Deliver, Last
  <2>7. QED
    BY <2>5, <2>6 DEF Stream!Next
<1>3. QED
  BY <1>1, <1>2 DEF Next, Run, TakeMessage, DiscardMessage, Register, Unregister, Offer,
                    Connect, Leave, ReadFails, WriterExits, vars, hubVars

\* The events keep their order on the whole way from the handler to the
\* browser, whatever is dropped (hub.go Emit, Run, writePump).
THEOREM OrderIsKept == Spec => []FirstInFirstOut
<1>1. FifoInv /\ [Next]_vars => FifoInv'
  BY NextInv, NextFifo DEF FifoInv
<1>2. Init => FifoInv
  BY InitInv, InitFifo DEF FifoInv
<1>3. FifoInv => FirstInFirstOut
  BY DEF FifoInv
<1>4. QED
  BY <1>1, <1>2, <1>3, PTL DEF Spec

\* The hub implements LossyStream: each browser sees a subsequence of the
\* events, each once and in the order they were emitted, for any number of
\* browsers, events and any channel capacities (hub.go Emit, Run, writePump).
THEOREM Refinement == Spec => OrderedStream
<1>1. Init => Stream!Init
  BY DEF Init, Stream!Init
<1>2. FirstInFirstOut /\ IInv /\ [Next]_vars => [Stream!Next]_<<emitted, received>>
  BY StepRefines DEF FifoInv
<1>3. QED
  BY <1>1, <1>2, Invariance, OrderIsKept, PTL DEF Spec, OrderedStream, Stream!Spec

-----------------------------------------------------------------------------
(* Files: what a request is at                                             *)

\* What a request is at.
Doing(r) ==
  /\ pc[r] \in {"new", "seen"} <=> job[r] = NoJob
  /\ pc[r] = "new" => part[r] = 1
  /\ pc[r] \in Steps => part[r] <= Len(job[r].names)
  /\ pc[r] # "writing" => file[r] = NoFile
  /\ pc[r] = "writing" => /\ job[r].op = "upload" /\ file[r].inode # Closed
                          /\ file[r].next <= Sizes[part[r]] + 1

RequestsTyped ==
  /\ pc \in [Requests -> {"new"} \cup Steps \cup {"ok", "error", "seen"}]
  /\ job \in [Requests -> Menu \cup {NoJob}]
  /\ home \in [Requests -> Dirs]
  /\ part \in [Requests -> 1 .. Len(Sizes) + 1]
  /\ file \in [Requests -> [inode: {Closed} \cup Inodes, next: {1} \cup {k + 1 : k \in Chunks}]]
  /\ \A r \in Requests : Doing(r)

\* An upload has two parts at least, of one chunk at least.
LEMMA SizesType == Len(Sizes) \in Nat /\ Len(Sizes) >= 2 /\ \A k \in Parts : Sizes[k] \in Nat \ {0}
BY FilesAssumption DEF Parts

\* What can be asked for.
LEMMA ChangeFields ==
  ASSUME NEW c \in Menu
  PROVE  /\ c.op \in {"mkdir", "chmod", "rename", "remove", "upload"}
         /\ c.view \in Views \cup {None} /\ c.dir \in Dirs /\ c.to \in Dirs
         /\ c.names \in Seq(Names) /\ Len(c.names) \in Nat /\ 1 <= Len(c.names) /\ Len(c.names) <= 2
         /\ c.op = "rename" => Len(c.names) = 2
<1> DEFINE Lists == UNION {[1 .. k -> Names] : k \in 1 .. 2}
           Of(ops, lists) == [op: ops, view: Views \cup {None}, dir: Dirs, to: Dirs, names: lists]
<1>1. c \in Changes
  BY MenuAssumption
<1>2. \/ c \in Of({"mkdir", "chmod"}, {s \in Lists : Len(s) = 1})
      \/ c \in Of({"rename"}, {s \in Lists : Len(s) = 2})
      \/ c \in Of({"remove", "upload"}, {s \in Lists : IsInjective(s)})
  BY <1>1 DEF Changes
<1>3. \A s \in Lists : s \in Seq(Names) /\ Len(s) \in Nat /\ 1 <= Len(s) /\ Len(s) <= 2
  <2>1. ASSUME NEW k \in 1 .. 2, NEW s \in [1 .. k -> Names] 
          PROVE  s \in Seq(Names) /\ Len(s) \in Nat /\ 1 <= Len(s) /\ Len(s) <= 2
    OBVIOUS
  <2>2. QED
    BY <2>1
<1>4. c.names \in Lists /\ (c.op = "rename" => Len(c.names) = 2)
      /\ c.op \in {"mkdir", "chmod", "rename", "remove", "upload"}
      /\ c.view \in Views \cup {None} /\ c.dir \in Dirs /\ c.to \in Dirs
  <2> HIDE DEF Lists
  <2> QED
  BY <1>2
<1>5. QED
  BY <1>3, <1>4

\* A request that has begun has a job of the menu.
LEMMA JobKnown ==
  ASSUME RequestsTyped, NEW r \in Requests, pc[r] \notin {"new", "seen"}
  PROVE  /\ job[r] \in Menu
         /\ job[r].op \in {"mkdir", "chmod", "rename", "remove", "upload"}
         /\ job[r].view \in Views \cup {None} /\ job[r].dir \in Dirs /\ job[r].to \in Dirs
         /\ job[r].names \in Seq(Names) /\ Len(job[r].names) \in Nat
         /\ 1 <= Len(job[r].names) /\ Len(job[r].names) <= 2
         /\ job[r].op = "rename" => Len(job[r].names) = 2
<1>1. job[r] \in Menu
  BY DEF RequestsTyped, Doing
<1>2. QED
  BY <1>1, ChangeFields

\* What a request is at, step by step.
LEMMA RequestsInit == FilesInit => RequestsTyped
<1> SUFFICES ASSUME FilesInit PROVE RequestsTyped
  OBVIOUS
<1>1. Len(Sizes) + 1 >= 1 /\ Len(Sizes) \in Nat
  BY SizesType
<1>2. QED
  BY <1>1 DEF FilesInit, RequestsTyped, Doing, Dirs, NoFile, Steps

\* A step of one request.
LEMMA OneRequest ==
  ASSUME RequestsTyped, NEW r \in Requests, NEW s, Goto(r, s),
         s \in {"new"} \cup Steps \cup {"ok", "error", "seen"},
         job' \in [Requests -> Menu \cup {NoJob}], home' \in [Requests -> Dirs],
         part' \in [Requests -> 1 .. Len(Sizes) + 1],
         file' \in [Requests -> [inode: {Closed} \cup Inodes, next: {1} \cup {k + 1 : k \in Chunks}]],
         \A q \in Requests : q # r =>
           job'[q] = job[q] /\ part'[q] = part[q] /\ file'[q] = file[q],
         Doing(r)'
  PROVE  RequestsTyped'
<1>1. pc' \in [Requests -> {"new"} \cup Steps \cup {"ok", "error", "seen"}]
      /\ \A q \in Requests : q # r => pc'[q] = pc[q]
  BY DEF RequestsTyped, Goto
<1>2. ASSUME NEW q \in Requests PROVE Doing(q)'
  <2>1. CASE q = r
    BY <2>1
  <2>2. CASE q # r
    BY <1>1, <2>2 DEF RequestsTyped, Doing
  <2>3. QED
    BY <2>1, <2>2
<1>3. QED
  BY <1>1, <1>2 DEF RequestsTyped

LEMMA AskRequests ==
  ASSUME RequestsTyped, path \in [Views -> Dirs], NEW r \in Requests, NEW c \in Menu, Ask(r, c)
  PROVE  RequestsTyped'
<1>1. c.view \in Views \cup {None} /\ Len(c.names) \in Nat /\ 1 <= Len(c.names)
  BY ChangeFields
<1>2. c # NoJob
  BY ChangeFields DEF NoJob
<1>3. job' = [job EXCEPT ![r] = c] /\ UNCHANGED <<part, file>> /\ Goto(r, "serving")
      /\ pc[r] = "new" /\ home' = [home EXCEPT ![r] = IF c.view = None THEN Root ELSE path[c.view]]
  BY DEF Ask
<1>4. home' \in [Requests -> Dirs]
  BY <1>1, <1>3 DEF RequestsTyped, Dirs
<1>5. pc'[r] = "serving" /\ job'[r] = c /\ part'[r] = 1 /\ file'[r] = NoFile
  BY <1>3 DEF RequestsTyped, Doing, Goto
<1>6. Doing(r)'
  <2>1. part'[r] <= Len(job'[r].names)
    <3>1. Len(job'[r].names) = Len(c.names)
      BY <1>5, Zenon
    <3>2. 1 <= Len(c.names)
      BY <1>1
    <3>3. part'[r] = 1
      BY <1>5
    <3>4. QED
      BY <3>1, <3>2, <3>3
  <2>2. job'[r] # NoJob
    BY <1>2, <1>5
  <2>3. QED
    BY <1>5, <2>1, <2>2 DEF Doing
<1>7. QED
  BY <1>3, <1>4, <1>6, OneRequest DEF RequestsTyped, Steps

LEMMA ForgetRequests ==
  ASSUME RequestsTyped, NEW r \in Requests, pc[r] \in {"ok", "error"}, Forget(r), UNCHANGED <<part, file>>
  PROVE  RequestsTyped'
<1>1. job' \in [Requests -> Menu \cup {NoJob}] /\ home' \in [Requests -> Dirs]
  BY DEF Forget, RequestsTyped, Dirs
<1>2. pc'[r] = "seen" /\ job'[r] = NoJob /\ file'[r] = NoFile
  BY DEF Forget, Goto, RequestsTyped, Doing
<1>3. Doing(r)'
  BY <1>2 DEF Doing, Steps
<1>4. QED
  BY <1>1, <1>3, OneRequest DEF Forget, RequestsTyped

\* A request that is served and answers.
LEMMA AnswerRequests ==
  ASSUME RequestsTyped, NEW r \in Requests, pc[r] = "serving", NEW s \in {"ok", "error"}, Goto(r, s),
         UNCHANGED <<job, home, part, file>>
  PROVE  RequestsTyped'
<1>1. pc'[r] = s /\ job'[r] # NoJob /\ file'[r] = NoFile
  BY DEF Goto, RequestsTyped, Doing
<1>2. Doing(r)'
  BY <1>1 DEF Doing, Steps
<1>3. QED
  BY <1>2, OneRequest DEF RequestsTyped, Steps

LEMMA RemovedRequests ==
  ASSUME RequestsTyped, NEW r \in Requests, Removed(r) PROVE RequestsTyped'
<1>1. pc[r] = "serving" /\ UNCHANGED <<job, home, file>>
  BY DEF Removed, At
<1>2. CASE Goto(r, "ok") /\ UNCHANGED part
  BY <1>1, <1>2, AnswerRequests
<1>3. CASE /\ part[r] < Len(job[r].names) /\ part' = [part EXCEPT ![r] = part[r] + 1] /\ UNCHANGED pc
  <2>1. Len(job[r].names) \in Nat /\ Len(job[r].names) <= 2
    BY <1>1, JobKnown
  <2>2. part[r] + 1 \in 1 .. Len(Sizes) + 1
    <3>1. part[r] \in 1 .. Len(Sizes) + 1 /\ part[r] < Len(job[r].names)
      BY <1>3 DEF RequestsTyped
    <3>2. PICK n : n = Len(job[r].names)
      OBVIOUS
    <3>3. QED
      BY <2>1, <3>1, <3>2, SizesType
  <2>3. part' \in [Requests -> 1 .. Len(Sizes) + 1] /\ part'[r] = part[r] + 1
        /\ \A q \in Requests : q # r => part'[q] = part[q]
    BY <1>3, <2>2 DEF RequestsTyped
  <2>4. part'[r] <= Len(job[r].names) /\ pc'[r] = "serving"
    BY <1>1, <1>3, <2>1, <2>3 DEF RequestsTyped
  <2>5. Doing(r)'
    BY <1>1, <2>4 DEF Doing, RequestsTyped
  <2>6. \A q \in Requests : q # r => Doing(q)'
    BY <1>1, <1>3, <2>3 DEF Doing, RequestsTyped
  <2>7. QED
    BY <1>1, <1>3, <2>3, <2>5, <2>6 DEF RequestsTyped
<1>4. QED
  BY <1>2, <1>3 DEF Removed

Kinds == {Folder} \cup Inodes
TreeClosed == \A d \in Dirs, n \in Names : Exists(Append(d, n)) => IsFolder(d)
\* The tree: every entry is in a directory.
TreeShape ==
  /\ DOMAIN tree \subseteq Paths
  /\ \A p \in DOMAIN tree : tree[p] \in Kinds
  /\ IsFolder(Root) /\ TreeClosed

\* An upload is at a part that it has and that has a size.
LEMMA PartKnown ==
  ASSUME RequestsTyped, NEW r \in Requests, pc[r] \in Steps
  PROVE  /\ part[r] \in Parts /\ part[r] \in Nat /\ part[r] + 1 \in 1 .. Len(Sizes) + 1
         /\ job[r].names[part[r]] \in Names
         /\ <<r, part[r]>> \in Inodes
         /\ Sizes[part[r]] \in Nat \ {0}
<1>1. /\ job[r].names \in Seq(Names) /\ Len(job[r].names) \in Nat /\ Len(job[r].names) <= 2
      /\ part[r] <= Len(job[r].names)
  BY JobKnown DEF Steps, RequestsTyped, Doing
<1>2. part[r] \in Nat /\ part[r] >= 1
  <2>1. part[r] \in 1 .. Len(Sizes) + 1
    BY DEF RequestsTyped
  <2>2. QED
    BY <2>1, SizesType
<1>3. PICK n : n = Len(job[r].names)
  OBVIOUS
<1>4. part[r] \in 1 .. n /\ part[r] <= 2
  BY <1>1, <1>2, <1>3
<1>5. part[r] \in Parts /\ part[r] + 1 \in 1 .. Len(Sizes) + 1
  BY <1>2, <1>4, SizesType DEF Parts
<1>6. job[r].names[part[r]] \in Names
  BY <1>1, <1>3, <1>4
<1>7. QED
  BY <1>2, <1>5, <1>6, SizesType DEF Inodes

FileType == [inode: {Closed} \cup Inodes, next: {1} \cup {k + 1 : k \in Chunks}]

LEMMA OpenRequests ==
  ASSUME RequestsTyped, TreeShape, NEW r \in Requests, Open(r) PROVE RequestsTyped'
<1> DEFINE p == Target(r)
           i == IF Exists(p) THEN tree[p] ELSE <<r, part[r]>>
<1>1. /\ pc[r] = "serving" /\ job[r].op = "upload" /\ ~IsFolder(p)
      /\ file' = [file EXCEPT ![r] = [inode |-> i, next |-> 1]]
      /\ Goto(r, "writing") /\ UNCHANGED <<job, home, part>>
  BY DEF Open, At
<1>2. i \in Inodes
  <2>1. <<r, part[r]>> \in Inodes
    BY <1>1, PartKnown DEF Steps
  <2>2. Exists(p) => tree[p] \in Inodes
    BY <1>1 DEF TreeShape, Kinds, IsFolder, Exists
  <2>3. QED
    BY <2>1, <2>2
<1> HIDE DEF i
<1>3. i # Closed
  <2>1. PICK q \in Requests, k \in Parts : i = <<q, k>>
    BY <1>2 DEF Inodes
  <2>2. <<q, k>> # <<>>
    OBVIOUS
  <2>3. QED
    BY <2>1, <2>2 DEF Closed
<1>4. file' \in [Requests -> FileType]
  BY <1>1, <1>2 DEF RequestsTyped, FileType
<1>5. file'[r].inode # Closed /\ file'[r].next = 1 /\ pc'[r] = "writing" /\ part'[r] = part[r]
      /\ job'[r] = job[r] /\ \A q \in Requests : q # r => file'[q] = file[q]
  BY <1>1, <1>3 DEF RequestsTyped, Goto
<1>6. /\ job[r] # NoJob /\ part[r] <= Len(job[r].names) /\ Sizes[part[r]] \in Nat \ {0}
  BY <1>1, PartKnown DEF RequestsTyped, Doing, Steps
<1>7. 1 <= Sizes[part[r]] + 1
  BY <1>6
<1>8. Doing(r)'
  BY <1>1, <1>5, <1>6, <1>7 DEF Doing, Steps
<1>9. QED
  BY <1>1, <1>4, <1>5, <1>8, OneRequest DEF RequestsTyped, Steps, FileType

LEMMA WriteRequests ==
  ASSUME RequestsTyped, NEW r \in Requests, WriteChunk(r)
  PROVE  /\ RequestsTyped'
         /\ file[r].inode \in Inodes /\ file[r].next \in Nat \ {0} /\ file[r].next \in 1 .. Sizes[part[r]]
         /\ file[r].next \in Chunks
         /\ file'[r] = [inode |-> file[r].inode, next |-> file[r].next + 1]
         /\ \A q \in Requests : q # r => file'[q] = file[q]
<1>1. /\ pc[r] = "writing" /\ file[r].next <= Sizes[part[r]]
      /\ file' = [file EXCEPT ![r].next = file[r].next + 1]
      /\ UNCHANGED <<pc, job, home, part>>
  BY DEF WriteChunk
<1>2. part[r] \in Parts /\ Sizes[part[r]] \in Nat \ {0}
  BY <1>1, PartKnown DEF Steps
<1>3. PICK f \in FileType : f = file[r]
  BY DEF RequestsTyped, FileType
<1>4. f.inode \in Inodes /\ f.next \in {1} \cup {k + 1 : k \in Chunks}
  BY <1>1, <1>3 DEF FileType, RequestsTyped, Doing
<1>5. Chunks \subseteq Nat
  BY SizesType DEF Chunks
<1>6. f.next \in Nat \ {0}
  BY <1>4, <1>5
<1>7. f.next \in 1 .. Sizes[part[r]]
  BY <1>1, <1>2, <1>3, <1>6
<1>8. f.next \in Chunks
  BY <1>2, <1>7 DEF Chunks
<1>9. PICK g : g = [inode |-> f.inode, next |-> f.next + 1]
  OBVIOUS
<1>10. g \in FileType /\ g.inode = f.inode /\ g.next = f.next + 1
  BY <1>4, <1>8, <1>9 DEF FileType
<1>11. file' = [file EXCEPT ![r] = g]
  <2>1. [file[r] EXCEPT !.next = file[r].next + 1] = g
    BY <1>3, <1>9 DEF FileType
  <2>2. file' = [file EXCEPT ![r] = [file[r] EXCEPT !.next = file[r].next + 1]]
    BY <1>1 DEF RequestsTyped
  <2>3. QED
    BY <2>1, <2>2
<1>12. file' \in [Requests -> FileType] /\ file'[r] = g /\ \A q \in Requests : q # r => file'[q] = file[q]
  BY <1>10, <1>11 DEF RequestsTyped, FileType
<1>13. g.next <= Sizes[part[r]] + 1
  BY <1>2, <1>7, <1>10
<1>14. Doing(r)'
  <2>1. Doing(r) /\ f.inode # Closed
    BY <1>1, <1>3 DEF RequestsTyped, Doing
  <2>2. QED
    BY <1>1, <1>10, <1>12, <1>13, <2>1 DEF Doing
<1>15. RequestsTyped'
  <2>1. \A q \in Requests : q # r => Doing(q)'
    BY <1>1, <1>12 DEF RequestsTyped, Doing
  <2>2. QED
    BY <1>1, <1>12, <1>14, <2>1 DEF RequestsTyped, FileType
<1>16. QED
  BY <1>3, <1>4, <1>6, <1>7, <1>8, <1>9, <1>12, <1>15

LEMMA FinishRequests ==
  ASSUME RequestsTyped, NEW r \in Requests, Finish(r) PROVE RequestsTyped'
<1>1. /\ pc[r] = "writing" /\ part' = [part EXCEPT ![r] = part[r] + 1]
      /\ file' = [file EXCEPT ![r] = NoFile] /\ UNCHANGED <<job, home>>
  BY DEF Finish
<1>2. PICK s \in {"serving", "ok"} : Goto(r, s) /\ (s = "serving" => part[r] < Len(job[r].names))
  BY DEF Finish
<1>3. part[r] + 1 \in 1 .. Len(Sizes) + 1 /\ part[r] \in Nat
  BY <1>1, PartKnown DEF Steps
<1>4. part' \in [Requests -> 1 .. Len(Sizes) + 1] /\ part'[r] = part[r] + 1
      /\ \A q \in Requests : q # r => part'[q] = part[q]
  BY <1>1, <1>3 DEF RequestsTyped
<1>5. file' \in [Requests -> FileType] /\ file'[r] = NoFile
      /\ \A q \in Requests : q # r => file'[q] = file[q]
  BY <1>1 DEF RequestsTyped, FileType, NoFile
<1>6. Len(job[r].names) \in Nat /\ job[r] # NoJob
  BY <1>1, JobKnown DEF RequestsTyped, Doing
<1>7. s = "serving" => part[r] + 1 <= Len(job[r].names)
  BY <1>2, <1>3, <1>6
<1>8. pc'[r] = s
  BY <1>2 DEF Goto, RequestsTyped
<1>9. Doing(r)'
  BY <1>1, <1>4, <1>5, <1>6, <1>7, <1>8 DEF Doing, Steps
<1>10. QED
  BY <1>1, <1>2, <1>4, <1>5, <1>9, OneRequest DEF RequestsTyped, Steps, FileType

LEMMA UploadFailsRequests ==
  ASSUME RequestsTyped, NEW r \in Requests, UploadFails(r) PROVE RequestsTyped'
<1>1. /\ pc[r] \in Steps /\ Goto(r, "error")
      /\ file' = [file EXCEPT ![r] = NoFile] /\ UNCHANGED <<job, home, part>>
  BY DEF UploadFails
<1>2. file' \in [Requests -> FileType] /\ file'[r] = NoFile
      /\ \A q \in Requests : q # r => file'[q] = file[q]
  BY <1>1 DEF RequestsTyped, FileType, NoFile
<1>3. job[r] # NoJob /\ pc'[r] = "error"
  BY <1>1 DEF RequestsTyped, Doing, Goto, Steps
<1>4. Doing(r)'
  BY <1>1, <1>2, <1>3 DEF Doing, Steps
<1>5. QED
  BY <1>1, <1>2, <1>4, OneRequest DEF RequestsTyped, FileType

LEMMA ServeRequests ==
  ASSUME RequestsTyped, TreeShape, NEW r \in Requests, Serve(r) PROVE RequestsTyped'
<1>1. CASE Mkdir(r) \/ Rename(r) \/ Chmod(r) \/ Refuse(r) \/ RemoveFails(r)
  <2>1. PICK s \in {"ok", "error"} : Goto(r, s) /\ UNCHANGED <<job, home, part, file>>
    BY <1>1 DEF Mkdir, Rename, Chmod, Refuse, RemoveFails, Answer
  <2>2. pc[r] = "serving"
    BY <1>1 DEF Mkdir, Rename, Chmod, Refuse, RemoveFails, At
  <2>3. QED
    BY <2>1, <2>2, AnswerRequests
<1>2. CASE \E q \in Paths : RemoveOne(r, q)
  BY <1>2 DEF RemoveOne, requestVars, RequestsTyped, Doing
<1>3. QED
  BY <1>1, <1>2, RemovedRequests, OpenRequests, WriteRequests, FinishRequests, UploadFailsRequests
  DEF Serve

-----------------------------------------------------------------------------
(* Files: the tree                                                         *)

\* Every path but the root is one of an entry in a directory.
LEMMA PathShape ==
  /\ Paths \subseteq Seq(Names) /\ Dirs \subseteq Paths /\ Root \in Dirs
  /\ \A d \in Seq(Names), n \in Names :
       /\ Append(d, n) \in Seq(Names) /\ Append(d, n) # Root
       /\ SubSeq(Append(d, n), 1, Len(Append(d, n)) - 1) = d
  /\ \A d \in Dirs, n \in Names : Append(d, n) \in Paths
  /\ \A p \in Paths : p # Root => \E d \in Dirs, n \in Names : p = Append(d, n)
<1>1. Dirs \subseteq Seq(Names) /\ Root \in Dirs
  <2>1. (\A n \in Names : <<n>> \in Seq(Names)) /\ Root \in Seq(Names)
    BY DEF Root
  <2>2. QED
    BY <2>1 DEF Dirs
<1>2. ASSUME NEW d \in Seq(Names), NEW n \in Names
      PROVE  /\ Append(d, n) \in Seq(Names) /\ Append(d, n) # Root
             /\ SubSeq(Append(d, n), 1, Len(Append(d, n)) - 1) = d
  <2>1. Append(d, n) \in Seq(Names) /\ Len(Append(d, n)) = Len(d) + 1 /\ Len(d) \in Nat
    BY AppendProperties
  <2>2. SubSeq(Append(d, n), 1, Len(d)) = d
    BY <2>1
  <2>3. QED
    BY <2>1, <2>2 DEF Root
<1>3. ASSUME NEW p \in Paths, p # Root PROVE \E d \in Dirs, n \in Names : p = Append(d, n)
  <2>1. CASE p \in Dirs
    <3>1. PICK n \in Names : p = <<n>>
      BY <1>3, <2>1 DEF Dirs
    <3>2. p = Append(Root, n)
      BY <3>1 DEF Root
    <3>3. QED
      BY <1>1, <3>2
  <2>2. CASE p \notin Dirs
    BY <2>2 DEF Paths
  <2>3. QED
    BY <2>1, <2>2
<1>4. Paths \subseteq Seq(Names) /\ Dirs \subseteq Paths
  BY <1>1, <1>2 DEF Paths
<1>5. \A d \in Dirs, n \in Names : Append(d, n) \in Paths
  BY DEF Paths
<1>6. QED
  BY <1>1, <1>2, <1>3, <1>4, <1>5

\* TreeClosed says what FilesTypeOK says of parents.
LEMMA ParentsAreFolders ==
  ASSUME DOMAIN tree \subseteq Paths
  PROVE  (\A p \in (DOMAIN tree) \ {Root} : IsFolder(SubSeq(p, 1, Len(p) - 1))) <=> TreeClosed
<1> DEFINE Up(p) == SubSeq(p, 1, Len(p) - 1)
<1>1. \A d \in Dirs, n \in Names : Append(d, n) # Root /\ Up(Append(d, n)) = d
  BY PathShape
<1>2. \A p \in (DOMAIN tree) \ {Root} : \E d \in Dirs, n \in Names : p = Append(d, n)
  BY PathShape
<1>3. (\A p \in (DOMAIN tree) \ {Root} : IsFolder(Up(p))) <=> TreeClosed
  <2> HIDE DEF Up
  <2>1. ASSUME \A p \in (DOMAIN tree) \ {Root} : IsFolder(Up(p)),
               NEW d \in Dirs, NEW n \in Names, Append(d, n) \in DOMAIN tree
        PROVE  IsFolder(d)
    BY <1>1, <2>1
  <2>2. ASSUME TreeClosed, NEW p \in (DOMAIN tree) \ {Root} PROVE IsFolder(Up(p))
    <3>1. PICK d \in Dirs, n \in Names : p = Append(d, n)
      BY <1>2
    <3>2. Up(p) = d /\ IsFolder(d)
      BY <1>1, <2>2, <3>1 DEF TreeClosed, Exists
    <3>3. QED
      BY <3>2
  <2>3. QED
    BY <2>1, <2>2 DEF TreeClosed, Exists
<1>4. QED
  BY <1>3

\* Sequences, and what is below an entry.
LEMMA UnderLonger ==
  ASSUME NEW S, NEW p \in Seq(S), NEW q \in Seq(S), NEW a \in Seq(S),
         Len(a) = Len(q) + 1, \A k \in 1 .. Len(q) : a[k] = q[k]
  PROVE  Under(p, a) <=> Under(p, q) \/ p = a
<1>1. Len(p) \in Nat /\ Len(q) \in Nat /\ Len(a) \in Nat /\ DOMAIN p = 1 .. Len(p)
  OBVIOUS
<1>2. p = a => Under(p, a)
  BY DEF Under
<1>3. Under(p, q) => Under(p, a)
  BY <1>1 DEF Under
<1>4. ASSUME Under(p, a), ~Under(p, q) PROVE p = a
  <2>1. Len(p) <= Len(a) /\ \A k \in 1 .. Len(p) : p[k] = a[k]
    BY <1>1, <1>4 DEF Under
  <2>2. ~(Len(p) <= Len(q))
    <3>1. SUFFICES ASSUME Len(p) <= Len(q) PROVE Under(p, q)
      BY <1>4
    <3>2. QED
    BY <1>1, <2>1, <3>1 DEF Under
  <2>3. Len(p) = Len(a)
    <3>1. PICK k, m : k = Len(p) /\ m = Len(q)
      OBVIOUS
    <3>2. k \in Nat /\ m \in Nat /\ k <= m + 1 /\ ~(k <= m)
      BY <1>1, <2>1, <2>2, <3>1
    <3>3. k = m + 1
      BY <3>2
    <3>4. QED
      BY <3>1, <3>3
  <2>4. QED
    BY <2>1, <2>3, SeqEqual
<1>5. QED
  BY <1>2, <1>3, <1>4

\* How the path of what is below an entry changes when the entry is renamed.
LEMMA SubSeqAppend ==
  ASSUME NEW S, NEW d \in Seq(S), NEW n \in S, NEW k \in Nat, k <= Len(d)
  PROVE SubSeq(Append(d, n), k + 1, Len(d) + 1) = Append(SubSeq(d, k+1, Len(d)), n)
<1>1. Len(d) \in Nat /\ Append(d,n) \in Seq(S) /\ Len(Append(d, n)) = Len(d) + 1
      /\ Append(d,n)[Len(d)+1] = n /\ \A j \in 1 .. Len(d) : Append(d, n)[j] = d[j]
  BY AppendProperties
<1> PICK a \in Seq(S) : a = Append(d, n)
  BY <1>1
<1> PICK m \in Nat : m = Len(d)
  BY <1>1
<1>2. Len(a) = m + 1 /\ (\A j \in 1 .. m+1 : a[j] \in S) /\ a[m+1] = n /\ (\A j \in 1 .. m : a[j] = d[j] /\ d[j] \in S)
  BY <1>1
<1>3. SubSeq(a, k+1, m+1) \in Seq(S) /\ Len(SubSeq(a, k+1, m+1)) = m+1-k
   /\ \A i \in 1 .. m+1-k : SubSeq(a, k+1, m+1)[i] = a[k+i]
  <2>1. k + 1 \in Int /\ m + 1 \in Int /\ k+1 <= m+1 /\ (m+1)-(k+1)+1 = m+1-k /\ \A i \in (k+1)..(m+1) : a[i] \in S
    BY <1>1, <1>2
  <2>2. \A i \in 1 .. m+1-k : (k+1)+i-1 = k+i
    OBVIOUS
  <2>3. QED
    BY <2>1, <2>2, SubSeqProperties
<1> PICK u : u = SubSeq(d, k+1, m)
  OBVIOUS
<1>4. u \in Seq(S) /\ Len(u) = m - k /\ \A i \in 1 .. m - k : u[i] = d[k+i]
  <2>1. k + 1 \in Int /\ m \in Int /\ (k+1 <= m => m-(k+1)+1 = m-k) /\ (~(k+1 <= m) => m - k = 0) /\ \A i \in (k+1)..m : d[i] \in S
    BY <1>1, <1>2
  <2>2. \A i \in 1 .. m-k : (k+1)+i-1 = k+i
    OBVIOUS
  <2>3. QED
    BY <2>1, <2>2, SubSeqProperties
<1>5. Append(u, n) \in Seq(S) /\ Len(Append(u, n)) = m + 1 - k /\ Append(u, n)[m-k+1] = n
    /\ \A i \in 1 .. m-k : Append(u, n)[i] = u[i]
  BY <1>4, AppendProperties
<1> PICK b : b = SubSeq(a, k + 1, m + 1)
  OBVIOUS
<1> PICK c : c = Append(u, n)
  OBVIOUS
<1>6. ASSUME NEW i \in 1 .. m + 1 - k PROVE b[i] = c[i]
  <2>1. CASE i \in 1 .. m - k
    BY <1>2, <1>3, <1>4, <1>5, <2>1
  <2>2. CASE i = m + 1 - k
    <3>1. k + i = m + 1
      BY <2>2
    <3>2. QED
      BY <1>2, <1>3, <1>5, <2>2, <3>1
  <2>3. i \in 1 .. m - k \/ i = m + 1 - k
    BY <1>1
  <2>4. QED
    BY <2>1, <2>2, <2>3
<1>7. b = c
  <2>1. b \in Seq(S) /\ c \in Seq(S) /\ Len(b) = m + 1 - k /\ Len(c) = m + 1 - k
    BY <1>3, <1>5
  <2>2. QED
    BY <1>6, <2>1, SeqEqual
<1>8. QED
  BY <1>7

LEMMA ConcatAppend ==
  ASSUME NEW S, NEW s \in Seq(S), NEW u \in Seq(S), NEW n \in S
  PROVE s \o Append(u, n) = Append(s \o u, n)
<1> PICK w : w = <<n>>
  OBVIOUS
<1>1. Append(u, n) = u \o w /\ w \in Seq(S) /\ s \o u \in Seq(S)
  BY AppendIsConcat, ConcatProperties
<1>2. Append(s \o u, n) = (s \o u) \o w
  BY <1>1, AppendIsConcat
<1>3. (s \o u) \o w = s \o (u \o w)
  BY <1>1, ConcatAssociative
<1>4. QED BY <1>1, <1>2, <1>3

LEMMA UnderAppend ==
  ASSUME NEW p \in Seq(Names), NEW q \in Seq(Names), NEW n \in Names
  PROVE  Under(p, Append(q, n)) <=> Under(p, q) \/ p = Append(q, n)
<1>1. \A a \in Seq(Names) : Len(a) = Len(q) + 1 /\ (\A k \in 1 .. Len(q) : a[k] = q[k])
        => (Under(p, a) <=> Under(p, q) \/ p = a)
  BY UnderLonger
<1>2. Append(q, n) \in Seq(Names) /\ Len(Append(q, n)) = Len(q) + 1
      /\ \A k \in 1 .. Len(q) : Append(q, n)[k] = q[k]
  BY AppendProperties
<1>3. QED
  BY <1>1, <1>2, Zenon

LEMMA UnderRoot ==
  ASSUME NEW d \in Seq(Names), NEW n \in Names PROVE ~Under(Append(d, n), Root)
BY AppendProperties DEF Under, Root

LEMMA TargetType ==
  ASSUME RequestsTyped, NEW r \in Requests, pc[r] \in Steps
  PROVE  /\ job[r].dir \in Dirs /\ job[r].names[part[r]] \in Names
         /\ Target(r) = Append(job[r].dir, job[r].names[part[r]])
         /\ Target(r) \in Paths /\ Target(r) # Root
<1>1. job[r].dir \in Dirs /\ job[r].names[part[r]] \in Names
  BY JobKnown, PartKnown DEF Steps
<1>2. Append(job[r].dir, job[r].names[part[r]]) \in Paths
  BY <1>1, PathShape
<1>3. QED
  BY <1>1, <1>2, PathShape, Zenon DEF Target

\* A step brings no inode into the tree.
NothingNew == \A p \in DOMAIN tree' : tree'[p] = Folder \/ \E q \in DOMAIN tree : tree'[p] = tree[q]

\* No step leaves an entry without its directory: MkdirAll makes the parents,
LEMMA MkdirTree ==
  ASSUME RequestsTyped, TreeShape, NEW r \in Requests, Mkdir(r)
  PROVE  TreeShape' /\ NothingNew
<1>0. pc[r] = "serving"
  BY DEF Mkdir, At
<1>0a. Target(r) \in Paths /\ job[r].dir \in Paths
  BY <1>0, TargetType, PathShape DEF Steps
<1> PICK t, chain :
      /\ t \in Paths
      /\ chain = {q \in Paths : Under(q, t)}
      /\ \A q \in chain : Exists(q) => IsFolder(q)
      /\ tree' = [q \in DOMAIN tree \cup chain |-> IF Exists(q) THEN tree[q] ELSE Folder]
  BY <1>0a DEF Mkdir
<1>1. /\ \A q \in chain : Exists(q) => IsFolder(q)
      /\ tree' = [q \in DOMAIN tree \cup chain |-> IF Exists(q) THEN tree[q] ELSE Folder]
  OBVIOUS
<1>2. t \in Paths
  OBVIOUS
<1>3. /\ DOMAIN tree' = DOMAIN tree \cup chain
      /\ \A q \in DOMAIN tree : tree'[q] = tree[q]
      /\ \A q \in chain : tree'[q] = Folder
  BY <1>1 DEF Exists, IsFolder
<1>4. ASSUME NEW d \in Dirs, NEW n \in Names, Append(d, n) \in DOMAIN tree'
      PROVE  d \in DOMAIN tree' /\ tree'[d] = Folder
  <2>1. CASE Append(d, n) \in DOMAIN tree
    <3>1. d \in DOMAIN tree /\ tree[d] = Folder
      BY <2>1 DEF TreeShape, TreeClosed, Exists, IsFolder
    <3>2. QED
      BY <1>3, <3>1
  <2>2. CASE Append(d, n) \in chain
    <3>1. Under(Append(d, n), t)
      BY <2>2
    <3>2. Under(d, t)
      <4>1. d \in Seq(Names) /\ t \in Seq(Names)
        BY <1>2, PathShape
      <4>2. /\ Len(Append(d, n)) = Len(d) + 1 /\ Len(d) \in Nat /\ Len(t) \in Nat
            /\ \A k \in 1 .. Len(d) : Append(d, n)[k] = d[k]
            /\ DOMAIN d = 1 .. Len(d) /\ DOMAIN Append(d, n) = 1 .. Len(d) + 1
        BY <4>1, AppendProperties
      <4>3. Len(t) >= Len(d)
        BY <3>1, <4>2 DEF Under
      <4>4. \A k \in DOMAIN d : d[k] = t[k]
        BY <3>1, <4>2 DEF Under
      <4>5. QED
        BY <4>3, <4>4 DEF Under
    <3>3. d \in chain
      BY <3>2, PathShape
    <3>4. QED
      BY <1>3, <3>3, Zenon
  <2>3. Append(d, n) \in DOMAIN tree \/ Append(d, n) \in chain
    BY <1>3, <1>4, Zenon
  <2>4. QED
    BY <2>1, <2>2, <2>3
<1>5. Root \in DOMAIN tree /\ tree[Root] = Folder /\ DOMAIN tree \subseteq Paths
      /\ \A q \in DOMAIN tree : tree[q] \in Kinds
  BY DEF TreeShape, IsFolder, Exists
<1>6. TreeClosed'
  BY <1>4, Zenon DEF TreeClosed, IsFolder, Exists
<1>7. IsFolder(Root)'
  BY <1>3, <1>5 DEF IsFolder, Exists
<1>8. DOMAIN tree' \subseteq Paths /\ \A q \in DOMAIN tree' : tree'[q] \in Kinds
  BY <1>3, <1>5 DEF Kinds
<1>9. NothingNew
  BY <1>3, Zenon DEF NothingNew
<1>10. QED
  BY <1>6, <1>7, <1>8, <1>9 DEF TreeShape

\* os.Rename takes along what is below, and replaces nothing that has entries,
LEMMA RenameTree ==
  ASSUME RequestsTyped, TreeShape, NEW r \in Requests, Rename(r)
  PROVE  TreeShape' /\ NothingNew
<1> DEFINE dir == job[r].dir
           n1 == job[r].names[1]
           n2 == job[r].names[2]
           src == Append(dir, n1)
           to == job[r].to
           dst == Append(to, n2)
           Origin(q) == IF Under(dst, q) THEN src \o SubSeq(q, Len(dst) + 1, Len(q)) ELSE q
           D == {p \in Paths : ~Under(src, p) /\ Exists(Origin(p))}
<1>1. /\ pc[r] = "serving" /\ job[r].op = "rename" /\ Exists(src) /\ IsFolder(to)
      /\ tree' = [q \in D |-> tree[Origin(q)]]
  BY DEF Rename, At
<1>2. dir \in Dirs /\ to \in Dirs /\ n1 \in Names /\ n2 \in Names
  <2>1. dir \in Dirs /\ to \in Dirs /\ job[r].names \in Seq(Names) /\ Len(job[r].names) = 2
    BY <1>1, JobKnown
  <2>2. QED
    BY <2>1
<1>3. /\ dir \in Seq(Names) /\ to \in Seq(Names) /\ src \in Seq(Names) /\ dst \in Seq(Names)
      /\ Dirs \subseteq Seq(Names) /\ Dirs \subseteq Paths
      /\ DOMAIN tree \subseteq Paths /\ \A q \in DOMAIN tree : tree[q] \in Kinds
      /\ Root \in DOMAIN tree /\ tree[Root] = Folder
  BY <1>2, PathShape DEF TreeShape, IsFolder, Exists
<1>4. DOMAIN tree' = D /\ (\A q \in D : tree'[q] = tree[Origin(q)] /\ Origin(q) \in DOMAIN tree)
  BY <1>1 DEF Exists
<1>5. \A d \in Dirs, n \in Names : Append(d, n) \in DOMAIN tree => d \in DOMAIN tree /\ tree[d] = Folder
  BY DEF TreeShape, TreeClosed, Exists, IsFolder
\* What is below the new name comes from below the old one.
<1>6. ASSUME NEW d \in Dirs, NEW n \in Names, Under(dst, d)
      PROVE  Origin(Append(d, n)) = Append(Origin(d), n) /\ Origin(d) \in Seq(Names)
  <2>1. Under(dst, Append(d, n)) /\ d \in Seq(Names)
    BY <1>3, <1>6, UnderAppend
  <2>2. PICK k : k = Len(dst)
    OBVIOUS
  <2>3. k \in Nat /\ k <= Len(d) /\ Len(d) \in Nat
    BY <1>3, <1>6, <2>1, <2>2 DEF Under
  <2>4. PICK u : u = SubSeq(d, k + 1, Len(d))
    OBVIOUS
  <2>5. u \in Seq(Names) /\ Len(Append(d, n)) = Len(d) + 1
    BY <2>1, <2>3, <2>4, SubSeqProperties, AppendProperties
  <2>6. SubSeq(Append(d, n), k + 1, Len(d) + 1) = Append(u, n)
    BY <2>1, <2>3, <2>4, SubSeqAppend
  <2>7. src \o Append(u, n) = Append(src \o u, n)
    <3>1. \A s \in Seq(Names) : s \o Append(u, n) = Append(s \o u, n)
      BY <2>5, ConcatAppend
    <3>2. QED
      BY <1>3, <3>1, Zenon
  <2>8. Origin(d) = src \o u
    BY <1>6, <2>2, <2>4
  <2>9. Origin(Append(d, n)) = src \o Append(u, n)
    BY <2>1, <2>2, <2>5, <2>6
  <2>10. src \o u \in Seq(Names)
    BY <1>3, <2>5, ConcatProperties
  <2>11. QED
    BY <2>7, <2>8, <2>9, <2>10
<1>7. ASSUME NEW d \in Dirs, NEW n \in Names, Append(d, n) \in D
      PROVE  d \in D /\ tree'[d] = Folder
  <2>1. d \in Seq(Names) /\ d \in Paths /\ ~Under(src, Append(d, n)) /\ Origin(Append(d, n)) \in DOMAIN tree
    BY <1>3, <1>4, <1>7
  <2>2. ~Under(src, d)
    BY <1>3, <2>1, UnderAppend
  <2>3. Origin(d) \in DOMAIN tree /\ tree[Origin(d)] = Folder
    <3>1. CASE Under(dst, d)
      <4>1. PICK o : o = Origin(d)
        OBVIOUS
      <4>2. o \in Seq(Names) /\ Append(o, n) \in DOMAIN tree
        BY <1>6, <2>1, <3>1, <4>1
      <4>3. Append(o, n) \in Paths /\ Append(o, n) # Root
        BY <1>3, <4>2, PathShape
      <4>4. PICK e \in Dirs, m \in Names : Append(o, n) = Append(e, m)
        BY <4>3, PathShape
      <4>5. o = e
        <5>1. e \in Seq(Names)
          BY <1>3
        <5>2. SubSeq(Append(o, n), 1, Len(Append(o, n)) - 1) = o
              /\ SubSeq(Append(e, m), 1, Len(Append(e, m)) - 1) = e
          BY <4>2, <5>1, PathShape
        <5>3. QED
          BY <4>4, <5>2, Zenon
      <4>6. QED
        BY <1>5, <4>1, <4>2, <4>5
    <3>2. CASE ~Under(dst, d) /\ Append(d, n) = dst
      <4>1. d = to
        <5>1. SubSeq(Append(d, n), 1, Len(Append(d, n)) - 1) = d
              /\ SubSeq(Append(to, n2), 1, Len(Append(to, n2)) - 1) = to
          BY <1>2, <1>3, <2>1, PathShape
        <5>2. QED
          BY <3>2, <5>1, Zenon
      <4>2. to \in DOMAIN tree /\ tree[to] = Folder
        BY <1>1 DEF IsFolder, Exists
      <4>3. QED
        BY <3>2, <4>1, <4>2
    <3>3. CASE ~Under(dst, d) /\ Append(d, n) # dst
      <4>1. ~Under(dst, Append(d, n))
        BY <1>3, <2>1, <3>3, UnderAppend
      <4>2. Append(d, n) \in DOMAIN tree
        BY <2>1, <4>1
      <4>3. QED
        BY <1>5, <3>3, <4>2
    <3>4. QED
      BY <3>1, <3>2, <3>3
  <2>4. QED
    BY <1>4, <2>1, <2>2, <2>3 DEF Exists
<1>8. Root \in D /\ tree'[Root] = Folder
  <2>1. ~Under(src, Root) /\ ~Under(dst, Root)
    BY <1>2, <1>3, UnderRoot
  <2>2. Root \in Paths
    BY PathShape
  <2>3. QED
    BY <1>3, <1>4, <2>1, <2>2 DEF Exists
<1>9. DOMAIN tree' \subseteq Paths /\ \A q \in DOMAIN tree' : tree'[q] \in Kinds
  BY <1>3, <1>4
<1>10. NothingNew
  BY <1>4 DEF NothingNew
<1>11. TreeClosed'
  BY <1>4, <1>7, Zenon DEF TreeClosed, IsFolder, Exists
<1>12. IsFolder(Root)'
  BY <1>4, <1>8 DEF IsFolder, Exists
<1>13. QED
  BY <1>9, <1>10, <1>11, <1>12 DEF TreeShape

\* os.RemoveAll removes from the leaves up,
LEMMA RemoveTree ==
  ASSUME RequestsTyped, TreeShape, NEW r \in Requests, NEW q \in Paths, RemoveOne(r, q)
  PROVE  TreeShape' /\ NothingNew
<1>1. /\ pc[r] = "serving" /\ Under(Target(r), q) /\ Children(q) = {}
      /\ tree' = [p \in (DOMAIN tree) \ {q} |-> tree[p]]
  BY DEF RemoveOne, At
<1>2. DOMAIN tree' = (DOMAIN tree) \ {q} /\ \A p \in (DOMAIN tree) \ {q} : tree'[p] = tree[p]
  BY <1>1
<1>3. q # Root
  <2>1. Target(r) = Append(job[r].dir, job[r].names[part[r]])
        /\ job[r].dir \in Seq(Names) /\ job[r].names[part[r]] \in Names
    BY <1>1, TargetType, PathShape DEF Steps
  <2>2. QED
    BY <1>1, <2>1, UnderRoot
<1>4. \A d \in Dirs, n \in Names : Append(d, n) \in DOMAIN tree => d \in DOMAIN tree /\ tree[d] = Folder
  BY DEF TreeShape, TreeClosed, Exists, IsFolder
<1>5. \A n \in Names : Append(q, n) \notin DOMAIN tree
  BY <1>1 DEF Children, Exists
<1>6. TreeClosed'
  <2>1. ASSUME NEW d \in Dirs, NEW n \in Names, Append(d, n) \in DOMAIN tree'
        PROVE  d \in DOMAIN tree' /\ tree'[d] = Folder
    BY <1>2, <1>4, <1>5, <2>1
  <2>2. QED
    BY <2>1, Zenon DEF TreeClosed, IsFolder, Exists
<1>7. DOMAIN tree' \subseteq Paths /\ (\A p \in DOMAIN tree' : tree'[p] \in Kinds) /\ IsFolder(Root)'
  BY <1>2, <1>3 DEF TreeShape, IsFolder, Exists
<1>8. NothingNew
  BY <1>2 DEF NothingNew
<1>9. QED
  BY <1>6, <1>7, <1>8 DEF TreeShape

\* The inode that an upload opens: the one at its path, or a new one.
Opened(r) == IF Exists(Target(r)) THEN tree[Target(r)] ELSE <<r, part[r]>>

\* and a file is created in a directory that exists.
LEMMA OpenTree ==
  ASSUME RequestsTyped, TreeShape, NEW r \in Requests, Open(r)
  PROVE  /\ TreeShape' /\ Opened(r) \in Inodes
         /\ \A p \in DOMAIN tree' : tree'[p] = Opened(r) \/ (p \in DOMAIN tree /\ tree'[p] = tree[p])
<1> DEFINE t == Target(r)
<1> PICK i : i = Opened(r)
  OBVIOUS
<1>1. /\ pc[r] = "serving" /\ IsFolder(job[r].dir) /\ ~IsFolder(t)
      /\ tree' = [q \in DOMAIN tree \cup {t} |-> IF q = t THEN i ELSE tree[q]]
  BY DEF Open, At, Opened
<1>2. t \in Paths /\ t # Root /\ t = Append(job[r].dir, job[r].names[part[r]])
      /\ job[r].dir \in Dirs /\ job[r].names[part[r]] \in Names
  BY <1>1, TargetType DEF Steps
<1>3. i \in Inodes
  <2>1. <<r, part[r]>> \in Inodes
    BY <1>1, PartKnown DEF Steps
  <2>2. Exists(t) => tree[t] \in Inodes
    BY <1>1 DEF TreeShape, IsFolder, Exists, Kinds
  <2>3. QED
    BY <2>1, <2>2 DEF Opened
<1>4. DOMAIN tree' = DOMAIN tree \cup {t} /\ tree'[t] = i
      /\ \A q \in DOMAIN tree : q # t => tree'[q] = tree[q]
  BY <1>1
<1>5. \A d \in Dirs, n \in Names : Append(d, n) \in DOMAIN tree => d \in DOMAIN tree /\ tree[d] = Folder
  BY DEF TreeShape, TreeClosed, Exists, IsFolder
<1>6. ASSUME NEW d \in Dirs, NEW n \in Names, Append(d, n) \in DOMAIN tree'
      PROVE  d \in DOMAIN tree' /\ tree'[d] = Folder
  <2>1. d \in DOMAIN tree /\ tree[d] = Folder
    <3>1. CASE Append(d, n) \in DOMAIN tree
      BY <1>5, <3>1
    <3>2. CASE Append(d, n) = t
      <4>1. d = job[r].dir
        <5>1. SubSeq(Append(d, n), 1, Len(Append(d, n)) - 1) = d
          BY PathShape
        <5>2. SubSeq(t, 1, Len(t) - 1) = job[r].dir
          BY <1>2, PathShape
        <5>3. QED
          BY <3>2, <5>1, <5>2, Zenon
      <4>2. QED
        BY <1>1, <4>1 DEF IsFolder, Exists
    <3>3. QED
      BY <1>4, <1>6, <3>1, <3>2
  <2>2. d # t
    BY <1>1, <2>1 DEF IsFolder, Exists
  <2>3. QED
    BY <1>4, <2>1, <2>2
<1>7. TreeClosed'
  BY <1>6, Zenon DEF TreeClosed, IsFolder, Exists
<1>8. DOMAIN tree' \subseteq Paths /\ (\A p \in DOMAIN tree' : tree'[p] \in Kinds) /\ IsFolder(Root)'
  BY <1>2, <1>3, <1>4 DEF TreeShape, IsFolder, Exists, Kinds
<1>9. QED
  BY <1>3, <1>4, <1>7, <1>8 DEF TreeShape

-----------------------------------------------------------------------------
(* Files: data, views and events                                           *)

DataType == [by: Inodes, chunks: SUBSET (Chunks \X Inodes)]
DataTyped == data \in [Inodes -> DataType] /\ mixed \subseteq Inodes

LoadType == [stage: {"none", "sent", "answered"}, dir: Dirs, fresh: BOOLEAN]
TableType == [dir: Dirs, fresh: BOOLEAN]
ViewsTyped ==
  /\ path \in [Views -> Dirs]
  /\ shown \in [Views -> TableType]
  /\ loads \in [Views -> [Slots -> LoadType]]
  /\ disturbed \in [Views -> BOOLEAN]
EventsTyped ==
  /\ events \in [Views -> Seq({"bytes", "done"})]
  /\ bar \in [Views -> BOOLEAN] /\ missed \in [Views -> BOOLEAN]

\* The types, in the parts that steps disturb.
LEMMA TypeParts ==
  FilesTypeOK /\ (\A r \in Requests : Doing(r))
    <=> RequestsTyped /\ TreeShape /\ DataTyped /\ ViewsTyped /\ EventsTyped
<1>1. (DOMAIN tree \subseteq Paths)
      => ((\A p \in (DOMAIN tree) \ {Root} : IsFolder(SubSeq(p, 1, Len(p) - 1))) <=> TreeClosed)
  BY ParentsAreFolders
<1>2. QED
  BY <1>1, Zenon DEF FilesTypeOK, RequestsTyped, TreeShape, DataTyped, DataType, ViewsTyped, LoadType, TableType,
    EventsTyped, Kinds

LEMMA NoLoadType == NoLoad \in LoadType /\ Root \in Dirs
BY DEF NoLoad, LoadType, Dirs

-----------------------------------------------------------------------------
(* What was listed                                                         *)

\* Compare takes freshness away and does nothing else.
LEMMA CompareViews ==
  ASSUME ViewsTyped, Compare, UNCHANGED disturbed
  PROVE  /\ ViewsTyped'
         /\ \A v \in Views, s \in Slots : loads[v][s] = NoLoad => loads'[v][s] = NoLoad
<1>1. PICK same : /\ shown' = [v \in Views |-> [shown[v] EXCEPT !.fresh = shown[v].fresh /\ shown[v].dir \in same]]
                  /\ loads' = [v \in Views |-> [s \in Slots |->
                       [loads[v][s] EXCEPT !.fresh = loads[v][s].fresh /\ loads[v][s].dir \in same]]]
                  /\ UNCHANGED path
  BY DEF Compare
<1>2. ASSUME NEW l \in LoadType, NEW x \in BOOLEAN
      PROVE  [l EXCEPT !.fresh = x] \in LoadType
  BY DEF LoadType
<1>3. \A v \in Views, s \in Slots : loads[v][s] \in LoadType
  BY DEF ViewsTyped
<1>4. \A v \in Views, s \in Slots :
        [loads[v][s] EXCEPT !.fresh = loads[v][s].fresh /\ loads[v][s].dir \in same] \in LoadType
  BY <1>2, <1>3
<1>5. loads' \in [Views -> [Slots -> LoadType]]
  BY <1>1, <1>4
<1>6. ASSUME NEW l \in TableType, NEW x \in BOOLEAN
      PROVE  [l EXCEPT !.fresh = x] \in TableType
  BY DEF TableType
<1>7. \A v \in Views : [shown[v] EXCEPT !.fresh = shown[v].fresh /\ shown[v].dir \in same] \in TableType
  BY <1>6 DEF ViewsTyped
<1>8. shown' \in [Views -> TableType]
  BY <1>1, <1>7
<1>9. ASSUME NEW v \in Views, NEW s \in Slots, loads[v][s] = NoLoad
      PROVE  loads'[v][s] = NoLoad
  <2>1. loads'[v][s] = [NoLoad EXCEPT !.fresh = NoLoad.fresh /\ NoLoad.dir \in same]
    BY <1>1, <1>9
  <2>2. QED
    BY <2>1 DEF NoLoad
<1>10. QED
  BY <1>1, <1>5, <1>8, <1>9 DEF ViewsTyped

\* A step that changes neither the tree nor the data leaves what is shown as fresh.
LEMMA CompareSame ==
  ASSUME ViewsTyped, Compare, UNCHANGED <<tree, data>>
  PROVE  UNCHANGED <<path, shown, loads>>
<1>1. \A d \in Dirs : Listing(d)' = Listing(d)
  BY Zenon DEF Listing, Children, Exists, Filled
<1>2. PICK same : /\ same = {d \in Dirs : Listing(d)' = Listing(d)}
                  /\ shown' = [v \in Views |-> [shown[v] EXCEPT !.fresh = shown[v].fresh /\ shown[v].dir \in same]]
                  /\ loads' = [v \in Views |-> [s \in Slots |->
                       [loads[v][s] EXCEPT !.fresh = loads[v][s].fresh /\ loads[v][s].dir \in same]]]
                  /\ UNCHANGED path
  BY DEF Compare
<1>3. Dirs \subseteq same
  BY <1>1, <1>2, Zenon
<1>4. ASSUME NEW l \in LoadType PROVE [l EXCEPT !.fresh = l.fresh /\ l.dir \in same] = l
  BY <1>3 DEF LoadType
<1>5. ASSUME NEW t \in TableType PROVE [t EXCEPT !.fresh = t.fresh /\ t.dir \in same] = t
  BY <1>3 DEF TableType
<1>6. shown' = shown
  BY <1>2, <1>5 DEF ViewsTyped
<1>7. loads' = loads
  <2>1. \A v \in Views : [s \in Slots |->
          [loads[v][s] EXCEPT !.fresh = loads[v][s].fresh /\ loads[v][s].dir \in same]] = loads[v]
    BY <1>4 DEF ViewsTyped
  <2>2. loads' = [v \in Views |-> loads[v]]
    BY <1>2, <2>1
  <2>3. QED
    BY <2>2 DEF ViewsTyped
<1>8. QED
  BY <1>2, <1>6, <1>7

-----------------------------------------------------------------------------
(* Types of what a view keeps                                              *)

LEMMA LoadKeeps ==
  ASSUME ViewsTyped, NEW v \in Views, NEW d \in Dirs, Load(v, d)
  PROVE  loads' \in [Views -> [Slots -> LoadType]]
<1>1. PICK s \in Slots : loads' = [loads EXCEPT ![v][s] = [NoLoad EXCEPT !.stage = "sent", !.dir = d]]
  BY DEF Load
<1>2. [NoLoad EXCEPT !.stage = "sent", !.dir = d] \in LoadType
  BY DEF NoLoad, LoadType
<1>3. QED
  BY <1>1, <1>2 DEF ViewsTyped

LEMMA SlotKeeps ==
  ASSUME ViewsTyped, NEW v \in Views, NEW s \in Slots, NEW l \in LoadType,
         loads' = [loads EXCEPT ![v][s] = l]
  PROVE  loads' \in [Views -> [Slots -> LoadType]]
BY DEF ViewsTyped

LEMMA ViewTypes ==
  ASSUME ViewsTyped, EventsTyped, NEW v \in Views, View(v)
  PROVE  ViewsTyped' /\ EventsTyped'
<1>1. ASSUME NEW d \in Tour, Walk(v, d) PROVE ViewsTyped' /\ EventsTyped'
  <2>1. d \in Dirs
    BY MenuAssumption
  <2>2. loads' \in [Views -> [Slots -> LoadType]]
    BY <1>1, <2>1, LoadKeeps DEF Walk
  <2>3. path' \in [Views -> Dirs] /\ disturbed' \in [Views -> BOOLEAN] /\ shown' = shown
    <3>1. (~Quiet(v) \/ Active # {}) \in BOOLEAN
      OBVIOUS
    <3> QED
      BY <1>1, <2>1, <3>1 DEF Walk, ViewsTyped
  <2>4. UNCHANGED <<events, bar, missed>>
    BY <1>1 DEF Walk, eventVars
  <2>5. QED
    BY <2>2, <2>3, <2>4 DEF ViewsTyped, EventsTyped
<1>2. ASSUME NEW s \in Slots, ServeLoad(v, s) PROVE ViewsTyped' /\ EventsTyped'
  <2>1. PICK l \in LoadType : l = loads[v][s]
    BY DEF ViewsTyped
  <2>2. [l EXCEPT !.stage = "answered", !.fresh = TRUE] \in LoadType
    BY DEF LoadType
  <2>3. loads' = [loads EXCEPT ![v][s] = [l EXCEPT !.stage = "answered", !.fresh = TRUE]]
        /\ UNCHANGED <<path, shown, disturbed, events, bar, missed>>
    BY <1>2, <2>1 DEF ServeLoad, eventVars
  <2>4. loads' \in [Views -> [Slots -> LoadType]]
    BY <2>2, <2>3, SlotKeeps
  <2>5. QED
    BY <2>3, <2>4 DEF ViewsTyped, EventsTyped
<1>3. ASSUME NEW s \in Slots, ShowLoad(v, s) PROVE ViewsTyped' /\ EventsTyped'
  <2>1. PICK l \in LoadType : l = loads[v][s]
    BY DEF ViewsTyped
  <2>2. [dir |-> l.dir, fresh |-> l.fresh] \in TableType
    BY DEF LoadType, TableType
  <2>3. loads' = [loads EXCEPT ![v][s] = NoLoad] /\ shown' = [shown EXCEPT ![v] = [dir |-> l.dir, fresh |-> l.fresh]]
        /\ UNCHANGED <<path, disturbed, events, bar, missed>>
    BY <1>3, <2>1 DEF ShowLoad, eventVars
  <2>4. loads' \in [Views -> [Slots -> LoadType]]
    BY <2>3, NoLoadType, SlotKeeps
  <2>5. QED
    BY <2>2, <2>3, <2>4 DEF ViewsTyped, EventsTyped
<1>4. ASSUME NEW s \in Slots, LoadFails(v, s) PROVE ViewsTyped' /\ EventsTyped'
  <2>1. loads' = [loads EXCEPT ![v][s] = NoLoad] /\ disturbed' = [disturbed EXCEPT ![v] = TRUE]
        /\ UNCHANGED <<path, shown, events, bar, missed>>
    BY <1>4 DEF LoadFails, eventVars
  <2>2. loads' \in [Views -> [Slots -> LoadType]]
    BY <2>1, NoLoadType, SlotKeeps
  <2>3. QED
    BY <2>1, <2>2 DEF ViewsTyped, EventsTyped
<1>5. ASSUME Notice(v) PROVE ViewsTyped' /\ EventsTyped'
  <2>1. /\ events[v] # <<>> /\ bar' = [bar EXCEPT ![v] = Head(events[v]) = "bytes"]
        /\ events' = [events EXCEPT ![v] = Tail(events[v])]
        /\ UNCHANGED <<path, shown, loads, disturbed, missed>>
    BY <1>5 DEF Notice, viewVars
  <2>2. Tail(events[v]) \in Seq({"bytes", "done"})
    BY <2>1, HeadTailProperties DEF EventsTyped
  <2>3. events' \in [Views -> Seq({"bytes", "done"})]
    BY <2>1, <2>2 DEF EventsTyped
  <2>4. (Head(events[v]) = "bytes") \in BOOLEAN
    OBVIOUS
  <2>5. bar' \in [Views -> BOOLEAN]
    BY <2>1, <2>4 DEF EventsTyped
  <2>6. QED
    BY <2>1, <2>3, <2>5 DEF ViewsTyped, EventsTyped
<1>6. QED
  BY <1>1, <1>2, <1>3, <1>4, <1>5 DEF View

LEMMA AnnounceKeeps ==
  ASSUME EventsTyped, NEW e \in {"bytes", "done"}, Announce(e) PROVE EventsTyped'
<1>1. PICK lost \in SUBSET Views :
        /\ missed' = [v \in Views |-> missed[v] \/ v \in lost]
        /\ events' = [v \in Views |->
             IF missed[v] \/ v \in lost THEN <<>>
             ELSE IF e = "bytes" /\ events[v] # <<>> /\ events[v][Len(events[v])] = "bytes"
             THEN events[v] ELSE Append(events[v], e)]
        /\ UNCHANGED bar
  BY DEF Announce
<1>2. \A v \in Views : /\ events[v] \in Seq({"bytes", "done"})
                       /\ Append(events[v], e) \in Seq({"bytes", "done"})
                       /\ <<>> \in Seq({"bytes", "done"})
  BY AppendProperties DEF EventsTyped
<1>3. events' \in [Views -> Seq({"bytes", "done"})]
  BY <1>1, <1>2
<1>4. missed' \in [Views -> BOOLEAN]
  BY <1>1 DEF EventsTyped
<1>5. QED
  BY <1>1, <1>3, <1>4 DEF EventsTyped

-----------------------------------------------------------------------------
(* Files: types                                                            *)

FilesTyped == RequestsTyped /\ TreeShape /\ DataTyped /\ ViewsTyped /\ EventsTyped

LEMMA TypesInit == FilesInit => FilesTyped
<1> SUFFICES ASSUME FilesInit PROVE FilesTyped
  OBVIOUS
<1>1. RequestsTyped
  BY RequestsInit
<1>2. TreeShape
  <2>1. DOMAIN tree = {Root} \cup {<<n>> : n \in Given} /\ \A p \in DOMAIN tree : tree[p] = Folder
    BY DEF FilesInit
  <2>2. {Root} \cup {<<n>> : n \in Given} \subseteq Paths
    BY FilesAssumption DEF Paths, Dirs
  <2>3. TreeClosed
    <3>1. ASSUME NEW d \in Dirs, NEW n \in Names, Append(d, n) \in DOMAIN tree PROVE d = Root
      <4>1. Append(d, n) # Root /\ d \in Seq(Names)
        BY PathShape
      <4>2. PICK m \in Given : Append(d, n) = <<m>>
        BY <2>1, <3>1, <4>1
      <4>3. Len(Append(d, n)) = Len(d) + 1 /\ Len(d) \in Nat
        BY <4>1, AppendProperties
      <4>4. Len(<<m>>) = 1
        OBVIOUS
      <4>5. Len(d) + 1 = 1
        BY <4>2, <4>3, <4>4, Zenon
      <4>6. Len(d) = 0
        BY <4>3, <4>5
      <4>7. QED
        BY <4>1, <4>6 DEF Root
    <3>2. QED
      BY <2>1, <3>1 DEF TreeClosed, IsFolder, Exists
  <2>4. QED
    BY <2>1, <2>2, <2>3 DEF TreeShape, Kinds, IsFolder, Exists
<1>3. DataTyped
  BY DEF FilesInit, DataTyped, DataType
<1>4. ViewsTyped
  <2>1. Root \in Dirs
    BY NoLoadType
  <2>2. PICK s \in Slots : loads = [v \in Views |-> [t \in Slots |->
          IF t = s THEN [NoLoad EXCEPT !.stage = "sent"] ELSE NoLoad]]
    BY DEF FilesInit
  <2>3. NoLoad \in LoadType /\ [NoLoad EXCEPT !.stage = "sent"] \in LoadType
    BY DEF NoLoad, LoadType, Dirs
  <2>4. loads \in [Views -> [Slots -> LoadType]]
    BY <2>2, <2>3
  <2>5. QED
    BY <2>1, <2>4 DEF FilesInit, ViewsTyped, TableType
<1>5. EventsTyped
  BY DEF FilesInit, EventsTyped
<1>6. QED
  BY <1>1, <1>2, <1>3, <1>4, <1>5 DEF FilesTyped

\* A step of one request that is served.
LEMMA OpenData ==
  ASSUME FilesTyped, NEW r \in Requests, Open(r)
  PROVE  DataTyped' /\ data' = [data EXCEPT ![Opened(r)] = [by |-> <<r, part[r]>>, chunks |-> {}]]
         /\ Opened(r) \in Inodes /\ <<r, part[r]>> \in Inodes
<1> PICK i : i = Opened(r)
  OBVIOUS
<1>1. /\ data' = [data EXCEPT ![i] = [by |-> <<r, part[r]>>, chunks |-> {}]]
      /\ mixed' \in {mixed, mixed \cup {i}} /\ pc[r] = "serving"
  BY DEF Open, Opened, At
<1>2. i \in Inodes /\ <<r, part[r]>> \in Inodes
  BY <1>1, OpenTree, PartKnown DEF FilesTyped, Steps
<1>3. [by |-> <<r, part[r]>>, chunks |-> {}] \in DataType
  BY <1>2 DEF DataType
<1>4. data' \in [Inodes -> DataType] /\ mixed' \subseteq Inodes
  BY <1>1, <1>2, <1>3 DEF FilesTyped, DataTyped
<1>5. QED
  BY <1>1, <1>2, <1>4 DEF DataTyped

LEMMA WriteData ==
  ASSUME FilesTyped, NEW r \in Requests, WriteChunk(r)
  PROVE  DataTyped'
         /\ data' = [data EXCEPT ![file[r].inode].chunks =
              {c \in data[file[r].inode].chunks : c[1] # file[r].next} \cup {<<file[r].next, <<r, part[r]>>>>}]
<1> PICK i, k : i = file[r].inode /\ k = file[r].next
  OBVIOUS
<1>1. i \in Inodes /\ k \in Chunks
  BY WriteRequests DEF FilesTyped
<1>2. data' = [data EXCEPT ![i].chunks = {c \in data[i].chunks : c[1] # k} \cup {<<k, <<r, part[r]>>>>}]
      /\ UNCHANGED mixed /\ pc[r] = "writing"
  BY DEF WriteChunk
<1>3. <<r, part[r]>> \in Inodes
  BY <1>2, PartKnown DEF FilesTyped, Steps
<1>4. PICK f \in DataType : f = data[i]
  BY <1>1 DEF FilesTyped, DataTyped
<1>5. {c \in f.chunks : c[1] # k} \cup {<<k, <<r, part[r]>>>>} \in SUBSET (Chunks \X Inodes)
  BY <1>1, <1>3 DEF DataType
<1>6. PICK g : g = [f EXCEPT !.chunks = {c \in f.chunks : c[1] # k} \cup {<<k, <<r, part[r]>>>>}]
  OBVIOUS
<1>7. g \in DataType
  BY <1>5, <1>6 DEF DataType
<1>8. data' = [data EXCEPT ![i] = g]
  BY <1>1, <1>2, <1>4, <1>6 DEF FilesTyped, DataTyped
<1>9. DataTyped'
  BY <1>1, <1>2, <1>7, <1>8 DEF FilesTyped, DataTyped
<1>10. QED
  BY <1>2, <1>9

\* The types, step by step.
LEMMA ServeTypes ==
  ASSUME FilesTyped, NEW r \in Requests, Serve(r) PROVE FilesTyped'
<1>1. RequestsTyped'
  BY ServeRequests DEF FilesTyped
<1>2. CASE Mkdir(r) \/ Rename(r) \/ Chmod(r) \/ Refuse(r) \/ RemoveFails(r) \/ \E q \in Paths : RemoveOne(r, q)
  <2>1. Compare /\ UNCHANGED <<data, mixed, events, bar, missed, disturbed>>
    BY <1>2 DEF Mkdir, Rename, Chmod, Refuse, RemoveFails, RemoveOne, Answer, eventVars
  <2>2. TreeShape'
    <3>1. CASE Mkdir(r) \/ Rename(r) \/ \E q \in Paths : RemoveOne(r, q)
      BY <3>1, MkdirTree, RenameTree, RemoveTree DEF FilesTyped
    <3>2. CASE Chmod(r) \/ Refuse(r) \/ RemoveFails(r)
      <4>1. UNCHANGED tree
        BY <3>2 DEF Chmod, Refuse, RemoveFails
      <4>2. QED
        BY <4>1 DEF FilesTyped, TreeShape, TreeClosed, IsFolder, Exists
    <3>3. QED
      BY <1>2, <3>1, <3>2
  <2>3. QED
    BY <1>1, <2>1, <2>2, CompareViews DEF FilesTyped, DataTyped, EventsTyped
<1>3. CASE Removed(r)
  <2>1. UNCHANGED <<tree, data, mixed, path, shown, loads, events, bar, missed, disturbed>>
    BY <1>3 DEF Removed, treeVars, viewVars, eventVars
  <2>2. TreeShape'
    BY <2>1 DEF FilesTyped, TreeShape, TreeClosed, IsFolder, Exists
  <2>3. QED
    BY <1>1, <2>1, <2>2 DEF FilesTyped, DataTyped, ViewsTyped, EventsTyped
<1>4. CASE Open(r)
  <2>1. Compare /\ UNCHANGED <<events, bar, missed, disturbed>>
    BY <1>4 DEF Open, eventVars
  <2>2. TreeShape' /\ DataTyped'
    BY <1>4, OpenTree, OpenData DEF FilesTyped
  <2>3. QED
    BY <1>1, <2>1, <2>2, CompareViews DEF FilesTyped, EventsTyped
<1>5. CASE WriteChunk(r)
  <2>1. Compare /\ Announce("bytes") /\ UNCHANGED <<tree, disturbed>>
    BY <1>5 DEF WriteChunk
  <2>2. TreeShape'
    BY <2>1 DEF FilesTyped, TreeShape, TreeClosed, IsFolder, Exists
  <2>3. DataTyped' /\ ViewsTyped' /\ EventsTyped'
    BY <1>5, <2>1, WriteData, CompareViews, AnnounceKeeps DEF FilesTyped
  <2>4. QED
    BY <1>1, <2>2, <2>3 DEF FilesTyped
<1>6. CASE Finish(r)
  <2>1. Announce("done") /\ UNCHANGED <<tree, data, mixed, path, shown, loads, disturbed>>
    BY <1>6 DEF Finish, treeVars, viewVars
  <2>2. TreeShape'
    BY <2>1 DEF FilesTyped, TreeShape, TreeClosed, IsFolder, Exists
  <2>3. EventsTyped'
    BY <2>1, AnnounceKeeps DEF FilesTyped
  <2>4. QED
    BY <1>1, <2>1, <2>2, <2>3 DEF FilesTyped, DataTyped, ViewsTyped
<1>7. CASE UploadFails(r)
  <2>1. UNCHANGED <<tree, data, mixed, path, shown, loads, bar, disturbed>>
    BY <1>7 DEF UploadFails, treeVars, viewVars
  <2>2. TreeShape'
    BY <2>1 DEF FilesTyped, TreeShape, TreeClosed, IsFolder, Exists
  <2>3. EventsTyped'
    <3>1. \/ UNCHANGED <<events, missed>>
          \/ missed' = [v \in Views |-> TRUE] /\ events' = [v \in Views |-> <<>>]
      BY <1>7 DEF UploadFails
    <3>2. CASE UNCHANGED <<events, missed>>
      BY <2>1, <3>2 DEF FilesTyped, EventsTyped
    <3>3. CASE missed' = [v \in Views |-> TRUE] /\ events' = [v \in Views |-> <<>>]
      <4>1. <<>> \in Seq({"bytes", "done"})
        BY EmptySeq
      <4>2. events' \in [Views -> Seq({"bytes", "done"})] /\ missed' \in [Views -> BOOLEAN]
        BY <3>3, <4>1
      <4>3. QED
        BY <2>1, <4>2 DEF FilesTyped, EventsTyped
    <3>4. QED
      BY <3>1, <3>2, <3>3
  <2>4. QED
    BY <1>1, <2>1, <2>2, <2>3 DEF FilesTyped, DataTyped, ViewsTyped
<1>8. QED
  BY <1>2, <1>3, <1>4, <1>5, <1>6, <1>7 DEF Serve

LEMMA ReceiveTypes ==
  ASSUME FilesTyped, NEW r \in Requests, Receive(r) \/ ReceiveError(r) PROVE FilesTyped'
<1>1. /\ pc[r] \in {"ok", "error"} /\ Forget(r) /\ job[r].view # None
      /\ bar' = [bar EXCEPT ![job[r].view] = bar[job[r].view] /\ job[r].op # "upload"]
      /\ UNCHANGED <<tree, data, mixed, part, file, path, shown, events, missed>>
  BY DEF Receive, ReceiveError, treeVars, viewVars
<1>2. RequestsTyped'
  BY <1>1, ForgetRequests DEF FilesTyped
<1>3. job[r].view \in Views /\ home[r] \in Dirs
  BY <1>1, JobKnown DEF FilesTyped, RequestsTyped
<1>4. TreeShape' /\ DataTyped'
  BY <1>1 DEF FilesTyped, TreeShape, TreeClosed, IsFolder, Exists, DataTyped
<1>5. EventsTyped'
  BY <1>1, <1>3 DEF FilesTyped, EventsTyped
<1>6. ViewsTyped'
  <2>1. CASE Receive(r)
    <3>1. Load(job[r].view, home[r]) /\ UNCHANGED disturbed
      BY <2>1 DEF Receive
    <3>2. loads' \in [Views -> [Slots -> LoadType]]
      BY <1>3, <3>1, LoadKeeps DEF FilesTyped
    <3>3. QED
      BY <1>1, <3>1, <3>2 DEF FilesTyped, ViewsTyped
  <2>2. CASE ReceiveError(r)
    <3>1. disturbed' = [disturbed EXCEPT ![job[r].view] =
            disturbed[job[r].view] \/ pc[r] = "ok" \/ job[r].op \in {"mkdir", "remove", "upload"}] /\ UNCHANGED loads
      BY <2>2 DEF ReceiveError, viewVars
    <3>2. QED
      BY <1>1, <3>1 DEF FilesTyped, ViewsTyped
  <2>3. QED
    BY <2>1, <2>2
<1>7. QED
  BY <1>2, <1>4, <1>5, <1>6 DEF FilesTyped

LEMMA AskTypes ==
  ASSUME FilesTyped, NEW r \in Requests, NEW c \in Menu, Ask(r, c) PROVE FilesTyped'
<1>1. RequestsTyped'
  BY AskRequests DEF FilesTyped, ViewsTyped
<1>2. /\ UNCHANGED <<tree, data, mixed, path, shown, loads, events, bar, missed>>
      /\ disturbed' = [v \in Views |-> disturbed[v] \/ v # c.view \/ ~Quiet(v) \/ Active # {}]
  BY DEF Ask, treeVars, viewVars, eventVars
<1>3. disturbed' \in [Views -> BOOLEAN]
  BY <1>2
<1>4. TreeShape' /\ DataTyped'
  BY <1>2 DEF FilesTyped, TreeShape, TreeClosed, IsFolder, Exists, DataTyped
<1>5. QED
  BY <1>1, <1>2, <1>3, <1>4 DEF FilesTyped, ViewsTyped, EventsTyped

LEMMA TypesKept == FilesTyped /\ [FilesNext]_filesVars => FilesTyped'
<1> SUFFICES ASSUME FilesTyped, [FilesNext]_filesVars PROVE FilesTyped'
  OBVIOUS
<1>1. ASSUME NEW v \in Views, View(v) PROVE FilesTyped'
  <2>1. ViewsTyped' /\ EventsTyped'
    BY <1>1, ViewTypes DEF FilesTyped
  <2>2. UNCHANGED <<tree, data, mixed, pc, job, home, part, file>>
    BY <1>1 DEF View, Walk, ServeLoad, ShowLoad, LoadFails, Notice, treeVars, requestVars
  <2>3. RequestsTyped'
    BY <2>2 DEF FilesTyped, RequestsTyped, Doing
  <2>4. TreeShape' /\ DataTyped'
    BY <2>2 DEF FilesTyped, TreeShape, TreeClosed, IsFolder, Exists, DataTyped
  <2>5. QED
    BY <2>1, <2>3, <2>4 DEF FilesTyped
<1>2. CASE UNCHANGED filesVars
  <2>1. RequestsTyped'
    BY <1>2 DEF filesVars, requestVars, FilesTyped, RequestsTyped, Doing
  <2>2. TreeShape' /\ DataTyped'
    BY <1>2 DEF filesVars, treeVars, FilesTyped, TreeShape, TreeClosed, IsFolder, Exists, DataTyped
  <2>3. ViewsTyped' /\ EventsTyped'
    BY <1>2 DEF filesVars, viewVars, eventVars, FilesTyped, ViewsTyped, EventsTyped
  <2>4. QED
    BY <2>1, <2>2, <2>3 DEF FilesTyped
<1>3. QED
  BY <1>1, <1>2, ServeTypes, ReceiveTypes, AskTypes DEF FilesNext

-----------------------------------------------------------------------------
(* Files: uploads                                                          *)

\* A file that was created by a part that is saved, or was open when it ended.
Used(i) ==
  \/ i[2] < part[i[1]]
  \/ i[2] = part[i[1]] /\ pc[i[1]] \in {"writing", "error", "seen"}

\* Every inode comes from a part that was opened.
InodesUsed ==
  /\ \A p \in DOMAIN tree : tree[p] # Folder => Used(tree[p])
  /\ \A r \in Requests : pc[r] = "writing" => Used(file[r].inode)

\* Who has a file open that was not mixed has it alone, and it holds what it wrote.
OpenAlone ==
  \A r \in Requests : pc[r] = "writing" /\ file[r].inode \notin mixed =>
    /\ \A q \in Requests : file[q].inode = file[r].inode => q = r
    /\ data[file[r].inode] =
         [by |-> <<r, part[r]>>, chunks |-> {<<k, <<r, part[r]>>>> : k \in 1 .. file[r].next - 1}]

\* A file holds data of the part that opened it last: this part has it open, was
\* cut off, or is saved.
Ended(i) ==
  LET by == data[i].by IN
  /\ \A c \in data[i].chunks : c[2] = by
  /\ \/ by[2] = part[by[1]] /\ (file[by[1]].inode = i \/ pc[by[1]] \in {"error", "seen"})
     \/ by[2] < part[by[1]] /\ Filled(i) = 1 .. Sizes[by[2]]
FilesWhole == \A p \in DOMAIN tree : tree[p] \notin mixed \cup {Folder} => Ended(tree[p])

UploadsInv == InodesUsed /\ OpenAlone /\ FilesWhole

\* What is known of inodes and of their data.
LEMMA InodeShape ==
  ASSUME NEW i \in Inodes
  PROVE  i # Folder /\ i # Closed /\ i[1] \in Requests /\ i[2] \in Parts /\ i[2] \in Nat
<1>1. PICK q \in Requests, k \in Parts : i = <<q, k>>
  BY DEF Inodes
<1>2. <<q, k>> # <<>> /\ k \in Nat
  BY SizesType DEF Parts
<1>3. QED
  BY <1>1, <1>2 DEF Closed, Folder

LEMMA PartNumber ==
  ASSUME RequestsTyped PROVE \A r \in Requests : part[r] \in Nat
BY SizesType DEF RequestsTyped

LEMMA DataShape ==
  ASSUME DataTyped, NEW i \in Inodes
  PROVE  data[i].by \in Inodes /\ data[i].chunks \in SUBSET (Chunks \X Inodes)
<1>1. data[i] \in DataType
  BY DEF DataTyped
<1>2. QED
  BY <1>1 DEF DataType

\* Steps that open, write and end no file.
LEMMA OtherSteps ==
  ASSUME FilesTyped, FilesTyped', UploadsInv, NothingNew, UNCHANGED <<data, mixed, file>>,
         \A q \in Requests :
           /\ part'[q] >= part[q]
           /\ pc[q] \in {"writing", "error", "seen"} => part'[q] = part[q]
           /\ pc[q] = "writing" <=> pc'[q] = "writing"
           /\ pc[q] \in {"error", "seen"} => pc'[q] \in {"error", "seen"}
  PROVE  UploadsInv'
<1>0. \A q \in Requests : part[q] \in Nat /\ part'[q] \in Nat
  BY SizesType DEF FilesTyped, RequestsTyped
<1>1. ASSUME NEW i \in Inodes, Used(i) PROVE Used(i)'
  <2>1. i[1] \in Requests /\ i[2] \in Nat
    BY InodeShape
  <2>2. QED
    BY <1>0, <1>1, <2>1 DEF Used
<1>2. \A r \in Requests : pc[r] = "writing" => file[r].inode \in Inodes
  <2>1. ASSUME NEW r \in Requests, pc[r] = "writing" PROVE file[r].inode \in Inodes
    BY <2>1 DEF FilesTyped, RequestsTyped, Doing
  <2>2. QED
    BY <2>1
<1>3. ASSUME NEW p \in DOMAIN tree', tree'[p] # Folder
      PROVE  \E q \in DOMAIN tree : tree[q] = tree'[p] /\ tree[q] \in Inodes
  BY <1>3 DEF NothingNew, FilesTyped, TreeShape, Kinds
<1>4. InodesUsed'
  <2>1. ASSUME NEW p \in DOMAIN tree', tree'[p] # Folder PROVE Used(tree[p])'
    <3>1. PICK q \in DOMAIN tree : tree[q] = tree'[p] /\ tree[q] \in Inodes
      BY <1>3, <2>1
    <3>2. PICK i : i = tree'[p]
      OBVIOUS
    <3>3. Used(i)'
      BY <1>1, <2>1, <3>1, <3>2 DEF UploadsInv, InodesUsed
    <3>4. QED
      BY <3>2, <3>3 DEF Used
  <2>2. ASSUME NEW r \in Requests, pc'[r] = "writing" PROVE Used(file[r].inode)'
    <3>1. PICK i : i = file[r].inode /\ i = file'[r].inode
      OBVIOUS
    <3>2. Used(i)'
      BY <1>1, <1>2, <2>2, <3>1 DEF UploadsInv, InodesUsed
    <3>3. QED
      BY <3>1, <3>2 DEF Used
  <2>3. QED
    BY <2>1, <2>2 DEF InodesUsed
<1>5. OpenAlone'
  BY DEF UploadsInv, OpenAlone
<1>6. ASSUME NEW i \in Inodes, Ended(i) PROVE Ended(i)'
  <2> PICK by : by = data[i].by
    OBVIOUS
  <2>1. by[1] \in Requests /\ by[2] \in Nat
    BY DataShape, InodeShape DEF FilesTyped
  <2>2. file[by[1]].inode = i => pc[by[1]] = "writing"
    <3>1. pc[by[1]] # "writing" => file[by[1]].inode = Closed
      BY <2>1 DEF FilesTyped, RequestsTyped, Doing, NoFile
    <3>2. QED
      BY <3>1, InodeShape
  <2>3. Filled(i)' = Filled(i)
    BY DEF Filled
  <2>4. QED
    BY <1>0, <1>6, <2>1, <2>2, <2>3 DEF Ended
<1>7. FilesWhole'
  <2>1. ASSUME NEW p \in DOMAIN tree', tree'[p] \notin mixed' \cup {Folder} PROVE Ended(tree[p])'
    <3>1. PICK q \in DOMAIN tree : tree[q] = tree'[p] /\ tree[q] \in Inodes
      BY <1>3, <2>1
    <3>2. PICK i : i = tree'[p]
      OBVIOUS
    <3>3. Ended(i)'
      BY <1>6, <2>1, <3>1, <3>2 DEF UploadsInv, FilesWhole
    <3>4. QED
      BY <3>2, <3>3 DEF Ended, Filled
  <2>2. QED
    BY <2>1 DEF FilesWhole
<1>8. QED
  BY <1>4, <1>5, <1>7 DEF UploadsInv

\* An upload that opens a file truncates it; who has it open already is mixed.
LEMMA OpenUploads ==
  ASSUME FilesTyped, UploadsInv, NEW r \in Requests, Open(r) PROVE UploadsInv'
<1> PICK i : i = Opened(r)
  OBVIOUS
<1> PICK u : u = <<r, part[r]>>
  OBVIOUS
<1>1. /\ pc[r] = "serving" /\ Goto(r, "writing") /\ UNCHANGED part
      /\ file' = [file EXCEPT ![r] = [inode |-> i, next |-> 1]]
      /\ mixed' = IF \E q \in Requests : file[q].inode = i THEN mixed \cup {i} ELSE mixed
  BY DEF Open, At, Opened
<1>2. /\ i \in Inodes /\ u \in Inodes
      /\ data' = [data EXCEPT ![i] = [by |-> u, chunks |-> {}]]
      /\ \A p \in DOMAIN tree' : tree'[p] = i \/ (p \in DOMAIN tree /\ tree'[p] = tree[p])
  BY OpenTree, OpenData DEF FilesTyped
<1>3. /\ pc'[r] = "writing" /\ \A q \in Requests : q # r => pc'[q] = pc[q]
      /\ file'[r] = [inode |-> i, next |-> 1]
      /\ \A q \in Requests : q # r => file'[q] = file[q]
      /\ \A q \in Requests : part'[q] = part[q] /\ part[q] \in Nat
  BY <1>1, PartNumber DEF Goto, FilesTyped, RequestsTyped
<1>4. /\ data'[i] = [by |-> u, chunks |-> {}]
      /\ \A j \in Inodes : j # i => data'[j] = data[j]
  BY <1>2 DEF FilesTyped, DataTyped
<1>5. u[1] = r /\ u[2] = part[r]
  OBVIOUS
<1>6. ASSUME NEW j \in Inodes, Used(j) PROVE Used(j)'
  <2>1. j[1] \in Requests
    BY InodeShape
  <2>2. QED
    BY <1>1, <1>3, <1>6, <2>1 DEF Used
<1>7. Used(i)'
  <2>1. CASE Exists(Target(r))
    <3>1. Used(i)
      BY <1>2, <2>1, InodeShape DEF Opened, Exists, UploadsInv, InodesUsed
    <3>2. QED
      BY <1>2, <1>6, <3>1
  <2>2. CASE ~Exists(Target(r))
    <3>1. i = u
      BY <2>2 DEF Opened
    <3>2. QED
      BY <1>3, <1>5, <3>1 DEF Used
  <2>3. QED
    BY <2>1, <2>2
<1>8. \A p \in DOMAIN tree : tree[p] = Folder \/ tree[p] \in Inodes
  BY DEF FilesTyped, TreeShape, Kinds
<1>9. \A q \in Requests : pc[q] = "writing" => file[q].inode \in Inodes
  <2>1. ASSUME NEW q \in Requests, pc[q] = "writing" PROVE file[q].inode \in Inodes
    BY <2>1 DEF FilesTyped, RequestsTyped, Doing
  <2>2. QED
    BY <2>1
<1>10. InodesUsed'
  <2>1. ASSUME NEW p \in DOMAIN tree', tree'[p] # Folder PROVE Used(tree[p])'
    <3>1. PICK j : j = tree'[p]
      OBVIOUS
    <3>2. Used(j)'
      BY <1>2, <1>6, <1>7, <1>8, <2>1, <3>1 DEF UploadsInv, InodesUsed
    <3>3. QED
      BY <3>1, <3>2 DEF Used
  <2>2. ASSUME NEW q \in Requests, pc'[q] = "writing" PROVE Used(file[q].inode)'
    <3>1. PICK j : j = file'[q].inode
      OBVIOUS
    <3>2. Used(j)'
      BY <1>3, <1>6, <1>7, <1>9, <2>2, <3>1 DEF UploadsInv, InodesUsed
    <3>3. QED
      BY <3>1, <3>2 DEF Used
  <2>3. QED
    BY <2>1, <2>2 DEF InodesUsed
\* If the file was open already it is mixed from now on.
<1>11. i \notin mixed' => \A q \in Requests : file[q].inode # i
  BY <1>1
<1>12. mixed \subseteq mixed'
  BY <1>1
<1>13. OpenAlone'
  <2>1. ASSUME i \notin mixed'
        PROVE  /\ \A q \in Requests : file'[q].inode = file'[r].inode => q = r
               /\ data'[file'[r].inode] =
                    [by |-> <<r, part'[r]>>, chunks |-> {<<k, <<r, part'[r]>>>> : k \in 1 .. file'[r].next - 1}]
    <3>1. \A q \in Requests : file'[q].inode = file'[r].inode => q = r
      BY <1>3, <1>11, <2>1
    <3>2. file'[r].inode = i /\ file'[r].next = 1 /\ part'[r] = part[r]
      BY <1>3
    <3>3. {<<k, u>> : k \in 1 .. 1 - 1} = {}
      OBVIOUS
    <3>4. QED
      BY <1>4, <3>1, <3>2, <3>3
  <2>2. ASSUME NEW q \in Requests, q # r, pc'[q] = "writing", file'[q].inode \notin mixed'
        PROVE  /\ \A s \in Requests : file'[s].inode = file'[q].inode => s = q
               /\ data'[file'[q].inode] =
                    [by |-> <<q, part'[q]>>, chunks |-> {<<k, <<q, part'[q]>>>> : k \in 1 .. file'[q].next - 1}]
    <3>1. pc[q] = "writing" /\ file'[q] = file[q] /\ part'[q] = part[q] /\ file[q].inode \notin mixed
          /\ file[q].inode \in Inodes
      BY <1>3, <1>9, <1>12, <2>2
    <3>2. file[q].inode # i
      BY <1>11, <2>2, <3>1
    <3>3. /\ \A s \in Requests : file[s].inode = file[q].inode => s = q
          /\ data[file[q].inode] =
               [by |-> <<q, part[q]>>, chunks |-> {<<k, <<q, part[q]>>>> : k \in 1 .. file[q].next - 1}]
      BY <3>1 DEF UploadsInv, OpenAlone
    <3>4. data'[file[q].inode] = data[file[q].inode]
      BY <1>4, <3>1, <3>2
    <3>5. \A s \in Requests : file'[s].inode = file'[q].inode => s = q
      BY <1>3, <3>1, <3>2, <3>3
    <3>6. QED
      BY <3>1, <3>3, <3>4, <3>5
  <2>3. file'[r].inode = i
    BY <1>3
  <2>4. ASSUME NEW q \in Requests, pc'[q] = "writing", file'[q].inode \notin mixed'
        PROVE  /\ \A s \in Requests : file'[s].inode = file'[q].inode => s = q
               /\ data'[file'[q].inode] =
                    [by |-> <<q, part'[q]>>, chunks |-> {<<k, <<q, part'[q]>>>> : k \in 1 .. file'[q].next - 1}]
    <3>1. CASE q = r
      <4>1. i \notin mixed'
        BY <2>3, <2>4, <3>1, Zenon
      <4>2. QED
        BY <2>1, <3>1, <4>1, Zenon
    <3>2. CASE q # r
      BY <2>2, <2>4, <3>2, Zenon
    <3>3. QED
      BY <3>1, <3>2
  <2>5. QED
    BY <2>4, Zenon DEF OpenAlone
<1>14. ASSUME NEW j \in Inodes, j # i, Ended(j) PROVE Ended(j)'
  <2> PICK by : by = data[j].by
    OBVIOUS
  <2>1. by[1] \in Requests /\ by[2] \in Nat /\ data'[j] = data[j]
    BY <1>4, <1>14, DataShape, InodeShape DEF FilesTyped
  <2>2. file[r].inode # j
    BY <1>1, InodeShape DEF FilesTyped, RequestsTyped, Doing, NoFile
  <2>3. Filled(j)' = Filled(j)
    BY <2>1 DEF Filled
  <2>4. QED
    BY <1>1, <1>3, <1>14, <2>1, <2>2, <2>3 DEF Ended
<1>15. Ended(i)'
  <2>1. data'[i].by = u /\ data'[i].chunks = {} /\ file'[u[1]].inode = i /\ u[2] = part'[u[1]]
    BY <1>3, <1>4, <1>5
  <2>2. QED
    BY <2>1 DEF Ended
<1>16. FilesWhole'
  <2>1. ASSUME NEW p \in DOMAIN tree', tree'[p] \notin mixed' \cup {Folder} PROVE Ended(tree[p])'
    <3>1. PICK j : j = tree'[p]
      OBVIOUS
    <3>2. j # i => Ended(j) /\ j \in Inodes
      BY <1>2, <1>8, <1>12, <2>1, <3>1 DEF UploadsInv, FilesWhole
    <3>3. Ended(j)'
      BY <1>14, <1>15, <3>2
    <3>4. QED
      BY <3>1, <3>3 DEF Ended, Filled
  <2>2. QED
    BY <2>1 DEF FilesWhole
<1>17. QED
  BY <1>10, <1>13, <1>16 DEF UploadsInv

\* A chunk goes to the file that its part has open.
LEMMA WriteUploads ==
  ASSUME FilesTyped, UploadsInv, NEW r \in Requests, WriteChunk(r) PROVE UploadsInv'
<1> PICK i, k : i = file[r].inode /\ k = file[r].next
  OBVIOUS
<1> PICK u : u = <<r, part[r]>>
  OBVIOUS
<1>1. /\ pc[r] = "writing" /\ UNCHANGED <<tree, mixed, pc, part>>
      /\ i \in Inodes /\ k \in Nat \ {0} /\ k \in Chunks
      /\ file'[r] = [inode |-> i, next |-> k + 1]
      /\ \A q \in Requests : q # r => file'[q] = file[q]
  BY WriteRequests DEF WriteChunk, FilesTyped
<1>2. \A q \in Requests : file'[q].inode = file[q].inode
  BY <1>1
<1>3. u \in Inodes /\ u[1] = r /\ u[2] = part[r]
  BY <1>1, PartKnown DEF FilesTyped, Steps
<1>4. PICK f \in DataType : f = data[i]
  BY <1>1 DEF FilesTyped, DataTyped
<1> PICK C : C = {c \in f.chunks : c[1] # k} \cup {<<k, u>>}
  OBVIOUS
<1>5. PICK g : g = [by |-> f.by, chunks |-> C]
  OBVIOUS
<1>6. data' = [data EXCEPT ![i] = g]
  <2>1. data' = [data EXCEPT ![i].chunks = {c \in data[i].chunks : c[1] # k} \cup {<<k, u>>}]
    <3>1. data' = [data EXCEPT ![i].chunks = {c \in data[i].chunks : c[1] # k} \cup {<<k, <<r, part[r]>>>>}]
      BY DEF WriteChunk
    <3>2. QED
      BY <3>1
  <2>2. data' = [data EXCEPT ![i].chunks = C]
    BY <1>4, <2>1
  <2>3. [f EXCEPT !.chunks = C] = g
    BY <1>5 DEF DataType
  <2>4. QED
    BY <1>1, <1>4, <2>2, <2>3 DEF FilesTyped, DataTyped
<1>7. data'[i] = g /\ \A j \in Inodes : j # i => data'[j] = data[j]
  BY <1>1, <1>6 DEF FilesTyped, DataTyped
<1>8. InodesUsed'
  <2>1. InodesUsed
    BY DEF UploadsInv
  <2>2. QED
    BY <1>1, <1>2, <2>1 DEF InodesUsed, Used
<1>9. i \notin mixed => /\ \A q \in Requests : file[q].inode = i => q = r
                       /\ f = [by |-> u, chunks |-> {<<m, u>> : m \in 1 .. k - 1}]
  BY <1>1, <1>4 DEF UploadsInv, OpenAlone
<1>10. OpenAlone'
  <2>1. ASSUME NEW q \in Requests, pc'[q] = "writing", file'[q].inode \notin mixed'
        PROVE  /\ \A s \in Requests : file'[s].inode = file'[q].inode => s = q
               /\ data'[file'[q].inode] =
                    [by |-> <<q, part'[q]>>, chunks |-> {<<m, <<q, part'[q]>>>> : m \in 1 .. file'[q].next - 1}]
    <3>1. file[q].inode \notin mixed /\ pc[q] = "writing" /\ part'[q] = part[q]
      BY <1>1, <1>2, <2>1
    <3>2. file[q].inode \in Inodes
      BY <3>1 DEF FilesTyped, RequestsTyped, Doing
    <3>3. /\ \A s \in Requests : file[s].inode = file[q].inode => s = q
          /\ data[file[q].inode] =
               [by |-> <<q, part[q]>>, chunks |-> {<<m, <<q, part[q]>>>> : m \in 1 .. file[q].next - 1}]
      BY <3>1 DEF UploadsInv, OpenAlone
    <3>4. \A s \in Requests : file'[s].inode = file'[q].inode => s = q
      BY <1>2, <3>3
    <3>5. CASE q = r
      <4>1. f = [by |-> u, chunks |-> {<<m, u>> : m \in 1 .. k - 1}]
        BY <1>9, <3>1, <3>5
      <4>2. {c \in {<<m, u>> : m \in 1 .. k - 1} : c[1] # k} \cup {<<k, u>>} = {<<m, u>> : m \in 1 .. (k + 1) - 1}
        <5>1. \A m \in 1 .. k - 1 : m # k /\ m \in 1 .. (k + 1) - 1
          BY <1>1
        <5>2. k \in 1 .. (k + 1) - 1 /\ \A m \in 1 .. (k + 1) - 1 : m \in 1 .. k - 1 \/ m = k
          BY <1>1
        <5>3. \A m : <<m, u>>[1] = m
          OBVIOUS
        <5>4. QED
          BY <5>1, <5>2, <5>3
      <4>3. g = [by |-> u, chunks |-> {<<m, u>> : m \in 1 .. (k + 1) - 1}]
        BY <1>5, <4>1, <4>2
      <4>4. data'[i] = g /\ file'[q].inode = i /\ file'[q].next = k + 1 /\ <<q, part'[q]>> = u
        BY <1>1, <1>7, <3>1, <3>5
      <4>5. QED
        BY <3>4, <4>3, <4>4
    <3>6. CASE q # r
      <4>1. file[q].inode # i
        BY <3>3, <3>6
      <4>2. data'[file[q].inode] = data[file[q].inode] /\ file'[q] = file[q]
        BY <1>1, <1>7, <3>2, <3>6, <4>1
      <4>3. QED
        BY <3>1, <3>3, <3>4, <4>2
    <3>7. QED
      BY <3>5, <3>6
  <2>2. QED
    BY <2>1, Zenon DEF OpenAlone
<1>11. ASSUME NEW j \in Inodes, j # i, Ended(j) PROVE Ended(j)'
  <2> PICK by : by = data[j].by
    OBVIOUS
  <2>1. by[1] \in Requests /\ data'[j] = data[j]
    BY <1>7, <1>11, DataShape, InodeShape DEF FilesTyped
  <2>2. Filled(j)' = Filled(j)
    BY <2>1 DEF Filled
  <2>3. QED
    BY <1>1, <1>2, <1>11, <2>1, <2>2 DEF Ended
<1>12. ASSUME i \notin mixed PROVE Ended(i)'
  <2>1. f.by = u /\ \A c \in f.chunks : c[2] = u
    BY <1>9, <1>12
  <2>2. g.by = u /\ \A c \in g.chunks : c[2] = u
    BY <1>5, <2>1
  <2>3. data'[i].by = u /\ (\A c \in data'[i].chunks : c[2] = u)
        /\ u[2] = part'[u[1]] /\ file'[u[1]].inode = i
    BY <1>1, <1>3, <1>7, <2>2
  <2>4. QED
    BY <2>3 DEF Ended
<1>13. FilesWhole'
  <2>1. ASSUME NEW p \in DOMAIN tree', tree'[p] \notin mixed' \cup {Folder} PROVE Ended(tree[p])'
    <3>1. PICK j : j = tree[p] /\ j = tree'[p]
      BY <1>1
    <3>2. j \in Inodes /\ j \notin mixed /\ Ended(j)
      BY <1>1, <2>1, <3>1 DEF FilesTyped, TreeShape, Kinds, UploadsInv, FilesWhole
    <3>3. Ended(j)'
      BY <1>11, <1>12, <3>2
    <3>4. QED
      BY <3>1, <3>3 DEF Ended, Filled
  <2>2. QED
    BY <2>1 DEF FilesWhole
<1>14. QED
  BY <1>8, <1>10, <1>13 DEF UploadsInv

\* The end of a file: it is saved, or cut off.
LEMMA FinishUploads ==
  ASSUME FilesTyped, UploadsInv, NEW r \in Requests, Finish(r) PROVE UploadsInv'
<1> PICK u : u = <<r, part[r]>>
  OBVIOUS
<1>1. /\ pc[r] = "writing" /\ file[r].next > Sizes[part[r]] /\ UNCHANGED <<tree, data, mixed>>
      /\ file' = [file EXCEPT ![r] = NoFile] /\ part' = [part EXCEPT ![r] = part[r] + 1]
      /\ \E s \in {"serving", "ok"} : Goto(r, s)
  BY DEF Finish, treeVars
<1>2. /\ u \in Inodes /\ u[1] = r /\ u[2] = part[r] /\ Sizes[part[r]] \in Nat \ {0}
      /\ \A q \in Requests : part[q] \in Nat
  BY <1>1, PartKnown, PartNumber DEF FilesTyped, Steps
<1>3. /\ file'[r].inode = Closed /\ \A q \in Requests : q # r => file'[q] = file[q]
      /\ part'[r] = part[r] + 1 /\ \A q \in Requests : q # r => part'[q] = part[q]
      /\ pc'[r] \in {"serving", "ok"} /\ \A q \in Requests : q # r => pc'[q] = pc[q]
  BY <1>1 DEF FilesTyped, RequestsTyped, Goto, NoFile
<1>4. ASSUME NEW j \in Inodes, Used(j) PROVE Used(j)'
  <2>1. j[1] \in Requests /\ j[2] \in Nat
    BY InodeShape
  <2>2. QED
    BY <1>2, <1>3, <1>4, <2>1 DEF Used
<1>5. \A p \in DOMAIN tree : tree[p] = Folder \/ tree[p] \in Inodes
  BY DEF FilesTyped, TreeShape, Kinds
<1>6. InodesUsed'
  <2>1. ASSUME NEW p \in DOMAIN tree', tree'[p] # Folder PROVE Used(tree[p])'
    <3>1. PICK j : j = tree'[p] /\ j = tree[p]
      BY <1>1
    <3>2. Used(j)'
      BY <1>1, <1>4, <1>5, <2>1, <3>1 DEF UploadsInv, InodesUsed
    <3>3. QED
      BY <3>1, <3>2 DEF Used
  <2>2. ASSUME NEW q \in Requests, pc'[q] = "writing" PROVE Used(file[q].inode)'
    <3>1. PICK j : j = file'[q].inode
      OBVIOUS
    <3>2. q # r /\ pc[q] = "writing" /\ j = file[q].inode
      BY <1>3, <2>2, <3>1
    <3>3. j \in Inodes
      BY <3>2 DEF FilesTyped, RequestsTyped, Doing
    <3>4. Used(j)'
      BY <1>4, <3>2, <3>3 DEF UploadsInv, InodesUsed
    <3>5. QED
      BY <3>1, <3>4 DEF Used
  <2>3. QED
    BY <2>1, <2>2 DEF InodesUsed
<1>7. \A q \in Requests : pc'[q] = "writing" =>
        q # r /\ pc[q] = "writing" /\ file'[q] = file[q] /\ part'[q] = part[q] /\ file[q].inode # Closed
  BY <1>3 DEF FilesTyped, RequestsTyped, Doing
<1>8. OpenAlone'
  <2>1. OpenAlone /\ UNCHANGED <<data, mixed>>
    BY <1>1 DEF UploadsInv
  <2>2. QED
    BY <1>3, <1>7, <2>1 DEF OpenAlone
<1>9. ASSUME NEW j \in Inodes, j \notin mixed, Ended(j) PROVE Ended(j)'
  <2> PICK by : by = data[j].by
    OBVIOUS
  <2>1. by[1] \in Requests /\ by[2] \in Nat /\ by \in Inodes
    BY DataShape, InodeShape DEF FilesTyped
  <2>2. Filled(j)' = Filled(j) /\ data'[j] = data[j]
    BY <1>1 DEF Filled
  <2>3. CASE by[1] # r
    BY <1>3, <1>9, <2>1, <2>2, <2>3 DEF Ended
  <2>4. CASE by[1] = r /\ by[2] < part[r]
    BY <1>2, <1>3, <1>9, <2>1, <2>2, <2>4 DEF Ended
  <2>5. CASE by[1] = r /\ ~(by[2] < part[r])
    <3>1. by[2] = part[r] /\ file[r].inode = j
      BY <1>1, <1>9, <2>5 DEF Ended
    <3>2. data[j].chunks = {<<k, u>> : k \in 1 .. file[r].next - 1}
      <4>1. data[file[r].inode] =
              [by |-> <<r, part[r]>>, chunks |-> {<<k, <<r, part[r]>>>> : k \in 1 .. file[r].next - 1}]
        BY <1>1, <1>9, <3>1 DEF UploadsInv, OpenAlone
      <4>2. data[j].chunks = {<<k, <<r, part[r]>>>> : k \in 1 .. file[r].next - 1}
        BY <3>1, <4>1
      <4>3. QED
        BY <4>2, Zenon
    <3>3. file[r].next - 1 = Sizes[part[r]]
      <4>1. file[r].next \in Nat /\ file[r].next <= Sizes[part[r]] + 1
        <5>1. file[r].next \in {1} \cup {k + 1 : k \in Chunks} /\ file[r].next <= Sizes[part[r]] + 1
          BY <1>1 DEF FilesTyped, RequestsTyped, Doing
        <5>2. Chunks \subseteq Nat
          BY SizesType DEF Chunks
        <5>3. {1} \cup {k + 1 : k \in Chunks} \subseteq Nat
          BY <5>2
        <5>4. QED
          BY <5>1, <5>3
      <4>2. PICK n, m : n = file[r].next /\ m = Sizes[part[r]]
        OBVIOUS
      <4>3. n \in Nat /\ m \in Nat /\ n > m /\ n <= m + 1
        BY <1>1, <1>2, <4>1, <4>2
      <4>4. QED
        BY <4>2, <4>3
    <3>4. Filled(j) = 1 .. Sizes[part[r]]
      <4>1. PICK n : n = Sizes[part[r]]
        OBVIOUS
      <4>2. data[j].chunks = {<<k, u>> : k \in 1 .. n}
        BY <3>2, <3>3, <4>1
      <4>3. {c[1] : c \in {<<k, u>> : k \in 1 .. n}} = 1 .. n
        <5>1. PICK C : C = {<<k, u>> : k \in 1 .. n}
          OBVIOUS
        <5>2. (\A c \in C : c[1] \in 1 .. n) /\ \A k \in 1 .. n : <<k, u>> \in C /\ <<k, u>>[1] = k
          BY <5>1
        <5>3. {c[1] : c \in C} = 1 .. n
          BY <5>2
        <5>4. QED
          BY <5>1, <5>3
      <4>4. QED
        BY <4>1, <4>2, <4>3 DEF Filled
    <3>5. by[2] < part'[by[1]]
      BY <1>2, <1>3, <2>5, <3>1
    <3>6. QED
      BY <1>9, <2>2, <2>5, <3>1, <3>4, <3>5 DEF Ended
  <2>6. QED
    BY <2>3, <2>4, <2>5
<1>10. FilesWhole'
  <2>1. ASSUME NEW p \in DOMAIN tree', tree'[p] \notin mixed' \cup {Folder} PROVE Ended(tree[p])'
    <3>1. PICK j : j = tree[p] /\ j = tree'[p]
      BY <1>1
    <3>2. j \in Inodes /\ j \notin mixed /\ Ended(j)
      BY <1>1, <1>5, <2>1, <3>1 DEF UploadsInv, FilesWhole
    <3>3. Ended(j)'
      BY <1>9, <3>2
    <3>4. QED
      BY <3>1, <3>3 DEF Ended, Filled
  <2>2. QED
    BY <2>1 DEF FilesWhole
<1>11. QED
  BY <1>6, <1>8, <1>10 DEF UploadsInv

\* What was written stays.
LEMMA CutUploads ==
  ASSUME FilesTyped, UploadsInv, NEW r \in Requests, UploadFails(r) PROVE UploadsInv'
<1>1. /\ pc[r] \in Steps /\ Goto(r, "error") /\ UNCHANGED <<tree, data, mixed, part>>
      /\ file' = [file EXCEPT ![r] = NoFile]
  BY DEF UploadFails, treeVars
<1>2. /\ file'[r].inode = Closed /\ \A q \in Requests : q # r => file'[q] = file[q]
      /\ pc'[r] = "error" /\ \A q \in Requests : q # r => pc'[q] = pc[q]
  BY <1>1 DEF FilesTyped, RequestsTyped, Goto, NoFile
<1>3. ASSUME NEW j \in Inodes, Used(j) PROVE Used(j)'
  <2>1. j[1] \in Requests
    BY InodeShape
  <2>2. QED
    BY <1>1, <1>2, <1>3, <2>1 DEF Used
<1>4. \A p \in DOMAIN tree : tree[p] = Folder \/ tree[p] \in Inodes
  BY DEF FilesTyped, TreeShape, Kinds
<1>5. InodesUsed'
  <2>1. ASSUME NEW p \in DOMAIN tree', tree'[p] # Folder PROVE Used(tree[p])'
    <3>1. PICK j : j = tree'[p] /\ j = tree[p]
      BY <1>1
    <3>2. Used(j)'
      BY <1>1, <1>3, <1>4, <2>1, <3>1 DEF UploadsInv, InodesUsed
    <3>3. QED
      BY <3>1, <3>2 DEF Used
  <2>2. ASSUME NEW q \in Requests, pc'[q] = "writing" PROVE Used(file[q].inode)'
    <3>1. PICK j : j = file'[q].inode
      OBVIOUS
    <3>2. q # r /\ pc[q] = "writing" /\ j = file[q].inode
      BY <1>2, <2>2, <3>1
    <3>3. j \in Inodes
      BY <3>2 DEF FilesTyped, RequestsTyped, Doing
    <3>4. Used(j)'
      BY <1>3, <3>2, <3>3 DEF UploadsInv, InodesUsed
    <3>5. QED
      BY <3>1, <3>4 DEF Used
  <2>3. QED
    BY <2>1, <2>2 DEF InodesUsed
<1>6. \A q \in Requests : pc'[q] = "writing" =>
        q # r /\ pc[q] = "writing" /\ file'[q] = file[q] /\ file[q].inode # Closed
  BY <1>2 DEF FilesTyped, RequestsTyped, Doing
<1>7. OpenAlone'
  <2>1. OpenAlone /\ UNCHANGED <<data, mixed, part>>
    BY <1>1 DEF UploadsInv
  <2>2. QED
    BY <1>2, <1>6, <2>1 DEF OpenAlone
<1>8. ASSUME NEW j \in Inodes, Ended(j) PROVE Ended(j)'
  <2> PICK by : by = data[j].by
    OBVIOUS
  <2>1. by[1] \in Requests
    BY DataShape, InodeShape DEF FilesTyped
  <2>2. Filled(j)' = Filled(j) /\ data'[j] = data[j]
    BY <1>1 DEF Filled
  <2>3. QED
    BY <1>1, <1>2, <1>8, <2>1, <2>2 DEF Ended
<1>9. FilesWhole'
  <2>1. ASSUME NEW p \in DOMAIN tree', tree'[p] \notin mixed' \cup {Folder} PROVE Ended(tree[p])'
    <3>1. PICK j : j = tree[p] /\ j = tree'[p]
      BY <1>1
    <3>2. j \in Inodes /\ Ended(j)
      BY <1>1, <1>4, <2>1, <3>1 DEF UploadsInv, FilesWhole
    <3>3. Ended(j)'
      BY <1>8, <3>2
    <3>4. QED
      BY <3>1, <3>3 DEF Ended, Filled
  <2>2. QED
    BY <2>1 DEF FilesWhole
<1>10. QED
  BY <1>5, <1>7, <1>9 DEF UploadsInv

LEMMA UploadsInit == FilesInit => UploadsInv
<1> SUFFICES ASSUME FilesInit PROVE UploadsInv
  OBVIOUS
<1>1. (\A p \in DOMAIN tree : tree[p] = Folder) /\ \A r \in Requests : pc[r] = "new"
  BY DEF FilesInit
<1>2. QED
  BY <1>1 DEF UploadsInv, InodesUsed, OpenAlone, FilesWhole

\* The other steps, and all.
LEMMA UploadsKept ==
  ASSUME FilesTyped, UploadsInv, [FilesNext]_filesVars PROVE UploadsInv'
<1>1. FilesTyped'
  BY TypesKept
<1>2. \A q \in Requests : part[q] \in Nat
  BY PartNumber DEF FilesTyped
<1>3. UNCHANGED tree => NothingNew
  BY DEF NothingNew
<1>4. CASE UNCHANGED filesVars \/ \E v \in Views : View(v)
  <2>1. UNCHANGED <<tree, data, mixed, pc, part, file>>
    BY <1>4 DEF filesVars, treeVars, requestVars, View, Walk, ServeLoad, ShowLoad, LoadFails, Notice
  <2>2. QED
    BY <1>1, <1>2, <1>3, <2>1, OtherSteps
<1>5. ASSUME NEW r \in Requests, NEW s, Goto(r, s), UNCHANGED <<data, mixed, file, part>>, NothingNew,
             \/ pc[r] \in {"new", "serving", "ok"} /\ s # "writing"
             \/ pc[r] = "error" /\ s = "seen"
      PROVE  UploadsInv'
  <2>1. pc'[r] = s /\ \A q \in Requests : q # r => pc'[q] = pc[q]
    BY <1>5 DEF Goto, FilesTyped, RequestsTyped
  <2>2. \A q \in Requests :
           /\ part'[q] >= part[q]
           /\ pc[q] \in {"writing", "error", "seen"} => part'[q] = part[q]
           /\ pc[q] = "writing" <=> pc'[q] = "writing"
           /\ pc[q] \in {"error", "seen"} => pc'[q] \in {"error", "seen"}
    BY <1>2, <1>5, <2>1
  <2>3. QED
    BY <1>1, <1>5, <2>2, OtherSteps
<1>6. ASSUME NEW r \in Requests, NEW c \in Menu, Ask(r, c) PROVE UploadsInv'
  <2>1. Goto(r, "serving") /\ pc[r] = "new" /\ UNCHANGED <<tree, data, mixed, file, part>>
    BY <1>6 DEF Ask, treeVars
  <2>2. QED
    BY <1>3, <1>5, <2>1
<1>7. ASSUME NEW r \in Requests, Receive(r) \/ ReceiveError(r) PROVE UploadsInv'
  <2>1. Goto(r, "seen") /\ pc[r] \in {"ok", "error"} /\ UNCHANGED <<tree, data, mixed, file, part>>
    BY <1>7 DEF Receive, ReceiveError, Forget, treeVars
  <2>2. QED
    BY <1>3, <1>5, <2>1
<1>8. ASSUME NEW r \in Requests, Mkdir(r) \/ Rename(r) \/ Chmod(r) \/ Refuse(r) \/ RemoveFails(r) PROVE UploadsInv'
  <2>1. PICK s \in {"ok", "error"} : Goto(r, s) /\ UNCHANGED <<data, mixed, file, part>>
    BY <1>8 DEF Mkdir, Rename, Chmod, Refuse, RemoveFails, Answer
  <2>2. pc[r] = "serving"
    BY <1>8 DEF Mkdir, Rename, Chmod, Refuse, RemoveFails, At
  <2>3. NothingNew
    <3>1. CASE Mkdir(r) \/ Rename(r)
      BY <3>1, MkdirTree, RenameTree DEF FilesTyped
    <3>2. CASE Chmod(r) \/ Refuse(r) \/ RemoveFails(r)
      BY <1>3, <3>2 DEF Chmod, Refuse, RemoveFails
    <3>3. QED
      BY <1>8, <3>1, <3>2
  <2>4. QED
    BY <1>5, <2>1, <2>2, <2>3
<1>9. ASSUME NEW r \in Requests, NEW q \in Paths, RemoveOne(r, q) PROVE UploadsInv'
  <2>1. NothingNew
    BY <1>9, RemoveTree DEF FilesTyped
  <2>2. UNCHANGED <<data, mixed, pc, part, file>>
    BY <1>9 DEF RemoveOne, requestVars
  <2>3. QED
    BY <1>1, <1>2, <2>1, <2>2, OtherSteps
<1>10. ASSUME NEW r \in Requests, Removed(r) PROVE UploadsInv'
  <2>1. UNCHANGED <<tree, data, mixed, file>> /\ pc[r] = "serving"
    BY <1>10 DEF Removed, At, treeVars
  <2>2. CASE UNCHANGED part /\ Goto(r, "ok")
    BY <1>3, <1>5, <2>1, <2>2
  <2>3. CASE part' = [part EXCEPT ![r] = part[r] + 1] /\ UNCHANGED pc
    <3>1. part'[r] = part[r] + 1 /\ \A q \in Requests : q # r => part'[q] = part[q]
      BY <2>3 DEF FilesTyped, RequestsTyped
    <3>2. \A q \in Requests :
           /\ part'[q] >= part[q]
           /\ pc[q] \in {"writing", "error", "seen"} => part'[q] = part[q]
      BY <1>2, <2>1, <3>1
    <3>3. QED
      BY <1>1, <1>3, <2>1, <2>3, <3>2, OtherSteps
  <2>4. QED
    BY <1>10, <2>2, <2>3 DEF Removed
<1>11. ASSUME NEW r \in Requests, Serve(r) PROVE UploadsInv'
  BY <1>8, <1>9, <1>10, <1>11, OpenUploads, WriteUploads, FinishUploads, CutUploads DEF Serve
<1>12. QED
  BY <1>4, <1>6, <1>7, <1>11 DEF FilesNext

LEMMA UploadsWhole == ASSUME FilesTyped, UploadsInv PROVE LoneUploadsAreWhole
<1>1. ASSUME NEW p \in DOMAIN tree, ~IsFolder(p), tree[p] \notin mixed
      PROVE  LET f == data[tree[p]] IN
             /\ \A c \in f.chunks : c[2] = f.by
             /\ Saved(f.by) => Filled(tree[p]) = 1 .. Sizes[f.by[2]]
  <2> PICK i, by : i = tree[p] /\ by = data[i].by
    OBVIOUS
  <2>1. i \in Inodes /\ Ended(i)
    BY <1>1 DEF IsFolder, Exists, FilesTyped, TreeShape, Kinds, UploadsInv, FilesWhole
  <2>2. by[1] \in Requests /\ by[2] \in Nat /\ part[by[1]] \in Nat
    BY <2>1, DataShape, InodeShape, PartNumber DEF FilesTyped
  <2>3. Saved(by) => ~(by[2] = part[by[1]])
    BY <2>2 DEF Saved
  <2>4. (\A c \in data[i].chunks : c[2] = by) /\ (Saved(by) => Filled(i) = 1 .. Sizes[by[2]])
    BY <2>1, <2>3 DEF Ended
  <2>5. QED
    BY <2>4
<1>2. QED
  BY <1>1, Zenon DEF LoneUploadsAreWhole

-----------------------------------------------------------------------------
(* Progress bars                                                           *)

\* What the bar of a view shows when its events have come.
BarAhead(v) == IF events[v] = <<>> THEN bar[v] ELSE events[v][Len(events[v])] = "bytes"
BarsEnd == \A v \in Views : ~missed[v] /\ BarAhead(v) => \E r \in Requests : pc[r] = "writing"

LEMMA BarsInit == FilesInit => BarsEnd
<1> SUFFICES ASSUME FilesInit, NEW v \in Views PROVE ~BarAhead(v)
  BY DEF BarsEnd
<1> QED
  BY DEF FilesInit, BarAhead

\* An event that is noticed leaves the last one last.
LEMMA NoticeBar ==
  ASSUME EventsTyped, NEW v \in Views, Notice(v), NEW w \in Views, BarAhead(w)'
  PROVE  BarAhead(w)
<1>1. /\ events[v] # <<>> /\ bar' = [bar EXCEPT ![v] = Head(events[v]) = "bytes"]
      /\ events' = [events EXCEPT ![v] = Tail(events[v])]
  BY DEF Notice
<1>2. CASE w # v
  BY <1>1, <1>2 DEF BarAhead, EventsTyped
<1>3. CASE w = v
  <2>1. PICK e \in Seq({"bytes", "done"}) : e = events[v]
    BY DEF EventsTyped
  <2>2. PICK t \in Seq({"bytes", "done"}) : t = Tail(e)
    BY <1>1, <2>1, HeadTailProperties
  <2>3. e # <<>> /\ Len(t) = Len(e) - 1 /\ Len(e) \in Nat \ {0} /\ Head(e) = e[1]
        /\ \A i \in 1 .. Len(t) : t[i] = e[i + 1]
    BY <1>1, <2>1, <2>2, HeadTailProperties, EmptySeq
  <2>4. events'[v] = t /\ bar'[v] = (e[1] = "bytes")
    BY <1>1, <2>1, <2>2, <2>3 DEF EventsTyped
  <2>5. CASE t = <<>>
    <3>1. Len(t) = 0
      BY <2>5
    <3>2. Len(e) = 1
      BY <2>3, <3>1
    <3>3. QED
      BY <1>3, <2>1, <2>3, <2>4, <2>5, <3>2 DEF BarAhead
  <2>6. CASE t # <<>>
    <3>1. Len(t) \in Nat \ {0}
      BY <2>6, EmptySeq
    <3>2. t[Len(t)] = e[Len(e)]
      BY <2>3, <3>1
    <3>3. QED
      BY <1>3, <2>1, <2>3, <2>4, <2>6, <3>2 DEF BarAhead
  <2>7. QED
    BY <2>5, <2>6
<1>4. QED
  BY <1>2, <1>3

\* "bytes" comes only from an upload that writes, and "done" ends what it began.
LEMMA BarsKept ==
  ASSUME FilesTyped, BarsEnd, [FilesNext]_filesVars PROVE BarsEnd'
<1>1. ASSUME NEW r \in Requests, pc'[r] = "writing" PROVE BarsEnd'
  BY <1>1 DEF BarsEnd
<1>2. ASSUME \A v \in Views : BarAhead(v)' => BarAhead(v), UNCHANGED missed,
             \A r \in Requests : pc[r] = "writing" => pc'[r] = "writing"
      PROVE  BarsEnd'
  BY <1>2 DEF BarsEnd
<1>3. UNCHANGED <<events, bar>> => \A v \in Views : BarAhead(v)' => BarAhead(v)
  BY DEF BarAhead
<1>4. CASE UNCHANGED filesVars
  BY <1>2, <1>3, <1>4 DEF filesVars, eventVars, requestVars
<1>5. ASSUME NEW v \in Views, View(v) PROVE BarsEnd'
  <2>1. UNCHANGED <<pc, missed>>
    BY <1>5 DEF View, Walk, ServeLoad, ShowLoad, LoadFails, Notice, requestVars, eventVars
  <2>2. \A w \in Views : BarAhead(w)' => BarAhead(w)
    <3>1. CASE Notice(v)
      BY <3>1, NoticeBar DEF FilesTyped
    <3>2. CASE ~Notice(v)
      BY <1>3, <1>5, <3>2 DEF View, Walk, ServeLoad, ShowLoad, LoadFails, eventVars
    <3>3. QED
      BY <3>1, <3>2
  <2>3. QED
    BY <1>2, <2>1, <2>2
<1>6. ASSUME NEW r \in Requests, NEW s, Goto(r, s), pc[r] # "writing" PROVE
             \A q \in Requests : pc[q] = "writing" => pc'[q] = "writing"
  BY <1>6 DEF Goto, FilesTyped, RequestsTyped
<1>7. ASSUME NEW r \in Requests, NEW c \in Menu, Ask(r, c) PROVE BarsEnd'
  <2>1. Goto(r, "serving") /\ pc[r] = "new" /\ UNCHANGED <<events, bar, missed>>
    BY <1>7 DEF Ask, eventVars
  <2>2. QED
    BY <1>2, <1>3, <1>6, <2>1
<1>8. ASSUME NEW r \in Requests, Receive(r) \/ ReceiveError(r) PROVE BarsEnd'
  <2>1. Goto(r, "seen") /\ pc[r] \in {"ok", "error"} /\ UNCHANGED <<events, missed>>
        /\ bar' = [bar EXCEPT ![job[r].view] = bar[job[r].view] /\ job[r].op # "upload"]
    BY <1>8 DEF Receive, ReceiveError, Forget
  <2>2. \A v \in Views : bar'[v] => bar[v]
    BY <2>1 DEF FilesTyped, EventsTyped
  <2>3. \A v \in Views : BarAhead(v)' => BarAhead(v)
    BY <2>1, <2>2 DEF BarAhead
  <2>4. QED
    BY <1>2, <1>6, <2>1, <2>3
<1>9. ASSUME NEW r \in Requests,
             \/ Mkdir(r) \/ Rename(r) \/ Chmod(r) \/ Refuse(r) \/ RemoveFails(r)
             \/ Removed(r) \/ \E q \in Paths : RemoveOne(r, q)
      PROVE  BarsEnd'
  <2>1. UNCHANGED <<events, bar, missed>> /\ pc[r] = "serving"
    BY <1>9 DEF Mkdir, Rename, Chmod, Refuse, RemoveFails, Removed, RemoveOne, Answer, At, eventVars
  <2>2. (\E s \in {"ok", "error"} : Goto(r, s)) \/ UNCHANGED pc
    BY <1>9 DEF Mkdir, Rename, Chmod, Refuse, RemoveFails, Removed, RemoveOne, Answer, requestVars
  <2>3. \A q \in Requests : pc[q] = "writing" => pc'[q] = "writing"
    BY <1>6, <2>1, <2>2
  <2>4. QED
    BY <1>2, <1>3, <2>1, <2>3
<1>10. ASSUME NEW r \in Requests, Open(r) \/ WriteChunk(r) PROVE BarsEnd'
  <2>1. pc'[r] = "writing"
    BY <1>10 DEF Open, WriteChunk, Goto, FilesTyped, RequestsTyped
  <2>2. QED
    BY <1>1, <2>1
<1>11. ASSUME NEW r \in Requests, Finish(r) PROVE BarsEnd'
  <2>1. Announce("done")
    BY <1>11 DEF Finish
  <2>2. PICK lost \in SUBSET Views :
          /\ missed' = [v \in Views |-> missed[v] \/ v \in lost]
          /\ events' = [v \in Views |->
               IF missed[v] \/ v \in lost THEN <<>> ELSE Append(events[v], "done")]
    BY <2>1 DEF Announce
  <2>3. ASSUME NEW v \in Views, ~missed'[v] PROVE ~BarAhead(v)'
    <3>1. events'[v] = Append(events[v], "done")
      BY <2>2, <2>3
    <3>2. PICK e : e = events'[v]
      OBVIOUS
    <3>3. e # <<>> /\ e[Len(e)] = "done"
      <4>1. PICK d \in Seq({"bytes", "done"}) : d = events[v]
        BY DEF FilesTyped, EventsTyped
      <4>2. Append(d, "done") # <<>> /\ Len(Append(d, "done")) = Len(d) + 1
            /\ Append(d, "done")[Len(d) + 1] = "done"
        BY AppendProperties
      <4>3. QED
        BY <3>1, <3>2, <4>1, <4>2
    <3>4. QED
      BY <3>2, <3>3 DEF BarAhead
  <2>4. QED
    BY <2>3 DEF BarsEnd
<1>12. ASSUME NEW r \in Requests, UploadFails(r) PROVE BarsEnd'
  <2>1. CASE pc[r] = "writing"
    <3>1. \A v \in Views : missed'[v]
      BY <1>12, <2>1 DEF UploadFails
    <3>2. QED
      BY <3>1 DEF BarsEnd
  <2>2. CASE pc[r] # "writing"
    BY <1>2, <1>3, <1>6, <1>12, <2>2 DEF UploadFails
  <2>3. QED
    BY <2>1, <2>2
<1>13. QED
  BY <1>4, <1>5, <1>7, <1>8, <1>9, <1>10, <1>11, <1>12 DEF FilesNext, Serve

LEMMA BarsDown == ASSUME BarsEnd PROVE ProgressEnds
<1> SUFFICES ASSUME NEW v \in Views, Active = {}, events[v] = <<>>, ~missed[v] PROVE ~bar[v]
  BY DEF ProgressEnds
<1>1. \A r \in Requests : pc[r] # "writing"
  BY DEF Active, Steps
<1>2. QED
  BY <1>1 DEF BarsEnd, BarAhead

-----------------------------------------------------------------------------
(* Files: calm views                                                       *)

Fresh(v) == shown[v] = [dir |-> path[v], fresh |-> TRUE]
NoLoads(v) == \A s \in Slots : loads[v][s] = NoLoad
Unasked(v) == \A r \in Requests : job[r].view # v

\* A calm view shows its directory,
Shows(v) == NoLoads(v) /\ Unasked(v) /\ Active = {} /\ Fresh(v)
\* or it loads it and nobody changes anything,
LoadsAt(v, s) ==
  /\ \A t \in Slots : t # s => loads[v][t] = NoLoad
  /\ loads[v][s].dir = path[v]
  /\ \/ loads[v][s].stage = "sent"
     \/ loads[v][s].stage = "answered" /\ loads[v][s].fresh
Loads(v) == (\E s \in Slots : LoadsAt(v, s)) /\ Unasked(v) /\ Active = {}
\* or it waits for the answer to its only request, which alone is served.  Until
\* the answer is an error a rename or a chmod has changed nothing.
AsksBy(v, r) ==
  /\ job[r].view = v /\ home[r] = path[v]
  /\ \A q \in Requests : job[q].view = v => q = r
  /\ Active \subseteq {r}
  /\ pc[r] \in {"serving", "error"} /\ job[r].op \notin {"mkdir", "remove", "upload"} => Fresh(v)
Asks(v) == NoLoads(v) /\ \E r \in Requests : AsksBy(v, r)

Calm(v) == ~disturbed[v] => Shows(v) \/ Loads(v) \/ Asks(v)
CalmViews == \A v \in Views : Calm(v)

LEMMA QuietParts == \A v : Quiet(v) <=> NoLoads(v) /\ Unasked(v)
BY DEF Quiet, NoLoads, Unasked

LEMMA LoadsSome == ASSUME NEW v, NEW s \in Slots, LoadsAt(v, s) PROVE loads[v][s] # NoLoad
BY DEF LoadsAt, NoLoad

LEMMA CalmUpToDate == ASSUME CalmViews PROVE CalmViewIsUpToDate
<1> SUFFICES ASSUME NEW v \in Views, Quiet(v), ~disturbed[v]
             PROVE  Fresh(v)
  BY DEF CalmViewIsUpToDate, Fresh
<1>1. NoLoads(v) /\ Unasked(v)
  BY QuietParts
<1>2. ~Loads(v)
  BY <1>1, LoadsSome DEF Loads, NoLoads
<1>3. ~Asks(v)
  BY <1>1 DEF Asks, AsksBy, Unasked
<1>4. QED
  BY <1>2, <1>3 DEF CalmViews, Calm, Shows

LEMMA CalmInit == FilesInit => CalmViews
<1> SUFFICES ASSUME FilesInit, NEW v \in Views PROVE Loads(v)
  BY DEF CalmViews, Calm
<1>1. PICK s \in Slots : loads = [w \in Views |-> [t \in Slots |->
        IF t = s THEN [NoLoad EXCEPT !.stage = "sent"] ELSE NoLoad]]
  BY DEF FilesInit
<1>2. loads[v][s] = [NoLoad EXCEPT !.stage = "sent"] /\ \A t \in Slots : t # s => loads[v][t] = NoLoad
  BY <1>1
<1>3. loads[v][s].dir = Root /\ loads[v][s].stage = "sent"
  BY <1>2 DEF NoLoad
<1>4. Unasked(v) /\ Active = {} /\ path[v] = Root
  BY FilesAssumption DEF FilesInit, Unasked, NoJob, Active, Steps
<1>5. QED
  BY <1>2, <1>3, <1>4 DEF Loads, LoadsAt

\* A step of another view, or a stutter.
LEMMA ApartCalm ==
  ASSUME NEW v \in Views, Calm(v), UNCHANGED <<pc, job, home>>,
         path'[v] = path[v], shown'[v] = shown[v], loads'[v] = loads[v], disturbed'[v] = disturbed[v]
  PROVE  Calm(v)'
<1>1. (NoLoads(v)' <=> NoLoads(v)) /\ (Unasked(v)' <=> Unasked(v)) /\ (Fresh(v)' <=> Fresh(v)) /\ Active' = Active
  BY DEF NoLoads, Unasked, Fresh, Active
<1>2. \A s \in Slots : LoadsAt(v, s)' <=> LoadsAt(v, s)
  BY DEF LoadsAt
<1>3. \A r \in Requests : AsksBy(v, r) => AsksBy(v, r)'
  BY <1>1 DEF AsksBy
<1>4. QED
  BY <1>1, <1>2, <1>3 DEF Calm, Shows, Loads, Asks

\* The steps of the view itself: a walk begins to load, the load is shown.
LEMMA ViewCalm ==
  ASSUME FilesTyped, CalmViews, NEW v \in Views, View(v) PROVE Calm(v)'
<1>0. UNCHANGED <<pc, job, home>>
  BY DEF View, Walk, ServeLoad, ShowLoad, LoadFails, Notice, requestVars
<1>1. (Unasked(v)' <=> Unasked(v)) /\ Active' = Active
  BY <1>0 DEF Unasked, Active
<1>2. ASSUME NEW d \in Tour, Walk(v, d), ~disturbed'[v] PROVE Loads(v)'
  <2>1. Quiet(v) /\ Active = {} /\ Load(v, d) /\ path'[v] = d
    BY <1>2 DEF Walk, FilesTyped, ViewsTyped
  <2>2. PICK s \in Slots : loads' = [loads EXCEPT ![v][s] = [NoLoad EXCEPT !.stage = "sent", !.dir = d]]
    BY <2>1 DEF Load
  <2>3. loads'[v][s] = [NoLoad EXCEPT !.stage = "sent", !.dir = d]
        /\ \A t \in Slots : t # s => loads'[v][t] = loads[v][t]
    BY <2>2 DEF FilesTyped, ViewsTyped
  <2>4. loads'[v][s].dir = d /\ loads'[v][s].stage = "sent"
    BY <2>3 DEF NoLoad
  <2>5. NoLoads(v) /\ Unasked(v)
    BY <2>1, QuietParts
  <2>6. LoadsAt(v, s)'
    BY <2>1, <2>3, <2>4, <2>5 DEF LoadsAt, NoLoads
  <2>7. QED
    BY <1>1, <2>1, <2>5, <2>6 DEF Loads
\* The load that is under way is the one that brings the view up to date.
<1>3. ASSUME NEW s \in Slots, loads[v][s] # NoLoad, ~disturbed[v]
      PROVE  LoadsAt(v, s) /\ Unasked(v) /\ Active = {}
  <2>1. ~NoLoads(v)
    BY <1>3 DEF NoLoads
  <2>2. PICK t \in Slots : LoadsAt(v, t) /\ Unasked(v) /\ Active = {}
    BY <1>3, <2>1 DEF CalmViews, Calm, Shows, Asks, Loads
  <2>3. t = s
    BY <1>3, <2>2 DEF LoadsAt
  <2>4. QED
    BY <2>2, <2>3
<1>4. ASSUME NEW s \in Slots, ServeLoad(v, s) PROVE Calm(v)'
  <2>1. PICK l \in LoadType : l = loads[v][s]
    BY DEF FilesTyped, ViewsTyped
  <2>2. /\ l.stage = "sent" /\ UNCHANGED <<path, shown, disturbed>>
        /\ loads' = [loads EXCEPT ![v][s] = [l EXCEPT !.stage = "answered", !.fresh = TRUE]]
    BY <1>4, <2>1 DEF ServeLoad
  <2>3. loads'[v][s] = [l EXCEPT !.stage = "answered", !.fresh = TRUE]
        /\ \A t \in Slots : t # s => loads'[v][t] = loads[v][t]
    BY <2>2 DEF FilesTyped, ViewsTyped
  <2>4. loads'[v][s].dir = l.dir /\ loads'[v][s].stage = "answered" /\ loads'[v][s].fresh
    BY <2>3 DEF LoadType
  <2>5. loads[v][s] # NoLoad
    BY <2>1, <2>2 DEF NoLoad
  <2>6. ASSUME ~disturbed'[v] PROVE Loads(v)'
    <3>1. LoadsAt(v, s) /\ Unasked(v) /\ Active = {}
      BY <1>3, <2>2, <2>5, <2>6
    <3>2. LoadsAt(v, s)'
      BY <2>1, <2>2, <2>3, <2>4, <3>1 DEF LoadsAt
    <3>3. QED
      BY <1>1, <3>1, <3>2 DEF Loads
  <2>7. QED
    BY <2>6 DEF Calm
<1>5. ASSUME NEW s \in Slots, ShowLoad(v, s) PROVE Calm(v)'
  <2>1. PICK l \in LoadType : l = loads[v][s]
    BY DEF FilesTyped, ViewsTyped
  <2>2. /\ l.stage = "answered" /\ UNCHANGED <<path, disturbed>>
        /\ loads' = [loads EXCEPT ![v][s] = NoLoad]
        /\ shown' = [shown EXCEPT ![v] = [dir |-> l.dir, fresh |-> l.fresh]]
    BY <1>5, <2>1 DEF ShowLoad
  <2>3. loads'[v][s] = NoLoad /\ (\A t \in Slots : t # s => loads'[v][t] = loads[v][t])
        /\ shown'[v] = [dir |-> l.dir, fresh |-> l.fresh]
    BY <2>2 DEF FilesTyped, ViewsTyped
  <2>4. loads[v][s] # NoLoad
    BY <2>1, <2>2 DEF NoLoad
  <2>5. ASSUME ~disturbed'[v] PROVE Shows(v)'
    <3>1. LoadsAt(v, s) /\ Unasked(v) /\ Active = {}
      BY <1>3, <2>2, <2>4, <2>5
    <3>2. NoLoads(v)'
      BY <2>3, <3>1 DEF LoadsAt, NoLoads
    <3>3. l.dir = path[v] /\ l.fresh
      BY <2>1, <2>2, <3>1 DEF LoadsAt
    <3>4. l.fresh = TRUE
      BY <3>3 DEF LoadType
    <3>5. Fresh(v)'
      BY <2>2, <2>3, <3>3, <3>4 DEF Fresh
    <3>6. QED
      BY <1>1, <3>1, <3>2, <3>5 DEF Shows
  <2>6. QED
    BY <2>5 DEF Calm
<1>6. ASSUME NEW s \in Slots, LoadFails(v, s) PROVE Calm(v)'
  <2>1. disturbed'[v] = TRUE
    BY <1>6 DEF LoadFails, FilesTyped, ViewsTyped
  <2>2. QED
    BY <2>1 DEF Calm
<1>7. ASSUME Notice(v) PROVE Calm(v)'
  <2>1. UNCHANGED <<path, shown, loads, disturbed>>
    BY <1>7 DEF Notice, viewVars
  <2>2. QED
    BY <1>0, <2>1, ApartCalm DEF CalmViews
<1>8. QED
  BY <1>2, <1>4, <1>5, <1>6, <1>7 DEF View, Calm

LEMMA OtherViews ==
  ASSUME FilesTyped, CalmViews, NEW v \in Views, View(v), NEW w \in Views, w # v PROVE Calm(w)'
<1>1. UNCHANGED <<pc, job, home>>
  BY DEF View, Walk, ServeLoad, ShowLoad, LoadFails, Notice, requestVars
<1>2. path'[w] = path[w] /\ shown'[w] = shown[w] /\ disturbed'[w] = disturbed[w]
  BY DEF View, Walk, ServeLoad, ShowLoad, LoadFails, Notice, viewVars, FilesTyped, ViewsTyped
<1>3. loads'[w] = loads[w]
  BY DEF View, Walk, Load, ServeLoad, ShowLoad, LoadFails, Notice, viewVars, FilesTyped, ViewsTyped
<1>4. QED
  BY <1>1, <1>2, <1>3, ApartCalm DEF CalmViews

\* Who asks while all is quiet waits for the answer, alone.
LEMMA AskCalm ==
  ASSUME FilesTyped, CalmViews, NEW r \in Requests, NEW c \in Menu, Ask(r, c), NEW v \in Views
  PROVE  Calm(v)'
<1>1. /\ pc[r] = "new" /\ Goto(r, "serving") /\ UNCHANGED <<path, shown, loads>>
      /\ job' = [job EXCEPT ![r] = c]
      /\ home' = [home EXCEPT ![r] = IF c.view = None THEN Root ELSE path[c.view]]
      /\ disturbed' = [w \in Views |-> disturbed[w] \/ w # c.view \/ ~Quiet(w) \/ Active # {}]
  BY DEF Ask, viewVars
<1>2. SUFFICES ASSUME ~disturbed'[v] PROVE Asks(v)'
  BY DEF Calm
<1>3. ~disturbed[v] /\ v = c.view /\ Quiet(v) /\ Active = {}
  BY <1>1, <1>2
<1>4. NoLoads(v) /\ Unasked(v)
  BY <1>3, QuietParts
<1>5. Fresh(v)
  <2>1. ~Loads(v)
    BY <1>4, LoadsSome DEF Loads, NoLoads
  <2>2. ~Asks(v)
    BY <1>4 DEF Asks, AsksBy, Unasked
  <2>3. QED
    BY <1>3, <2>1, <2>2 DEF CalmViews, Calm, Shows
<1>6. /\ job'[r] = c /\ \A q \in Requests : q # r => job'[q] = job[q]
      /\ pc'[r] = "serving" /\ \A q \in Requests : q # r => pc'[q] = pc[q]
      /\ home'[r] = IF c.view = None THEN Root ELSE path[c.view]
  BY <1>1 DEF Goto, FilesTyped, RequestsTyped
<1>7. home'[r] = path[v]
  BY <1>3, <1>6, FilesAssumption
<1>8. Active' \subseteq {r}
  BY <1>3, <1>6 DEF Active
<1>9. AsksBy(v, r)'
  BY <1>1, <1>3, <1>4, <1>5, <1>6, <1>7, <1>8 DEF AsksBy, Unasked, Fresh
<1>10. QED
  BY <1>1, <1>4, <1>9 DEF Asks, NoLoads

\* An answer of another view's request.
LEMMA ForgetApart ==
  ASSUME FilesTyped, NEW v \in Views, Calm(v), NEW r \in Requests, pc[r] \in {"ok", "error"}, Forget(r),
         job[r].view # v, path'[v] = path[v], shown'[v] = shown[v], loads'[v] = loads[v],
         disturbed'[v] = disturbed[v]
  PROVE  Calm(v)'
<1>1. /\ job'[r] = NoJob /\ \A q \in Requests : q # r => job'[q] = job[q] /\ home'[q] = home[q]
      /\ pc'[r] = "seen" /\ \A q \in Requests : q # r => pc'[q] = pc[q]
  BY DEF Forget, Goto, FilesTyped, RequestsTyped
<1>2. NoJob.view # v
  BY FilesAssumption DEF NoJob
<1>3. Active' = Active
  BY <1>1 DEF Active, Steps
<1>4. (NoLoads(v) => NoLoads(v)') /\ (Unasked(v) => Unasked(v)') /\ (Fresh(v) => Fresh(v)')
  BY <1>1, <1>2 DEF NoLoads, Unasked, Fresh
<1>5. \A s \in Slots : LoadsAt(v, s) => LoadsAt(v, s)'
  BY DEF LoadsAt
<1>6. ASSUME NEW q \in Requests, AsksBy(v, q) PROVE AsksBy(v, q)'
  <2>1. q # r
    BY <1>6 DEF AsksBy
  <2>2. job'[q] = job[q] /\ home'[q] = home[q] /\ pc'[q] = pc[q]
    BY <1>1, <2>1
  <2>3. \A s \in Requests : job'[s].view = v => s = q
    BY <1>1, <1>2, <1>6 DEF AsksBy
  <2>4. QED
    BY <1>3, <1>4, <1>6, <2>2, <2>3 DEF AsksBy
<1>7. QED
  BY <1>3, <1>4, <1>5, <1>6 DEF Calm, Shows, Loads, Asks

\* The answer of the view's own request.
LEMMA ForgetOwn ==
  ASSUME FilesTyped, NEW v \in Views, Calm(v), ~disturbed[v], NEW r \in Requests,
         pc[r] \in {"ok", "error"}, Forget(r), job[r].view = v
  PROVE  /\ NoLoads(v) /\ AsksBy(v, r) /\ Unasked(v)' /\ Active' = {}
<1>1. /\ job'[r] = NoJob /\ \A q \in Requests : q # r => job'[q] = job[q]
      /\ pc'[r] = "seen" /\ \A q \in Requests : q # r => pc'[q] = pc[q]
  BY DEF Forget, Goto, FilesTyped, RequestsTyped
<1>2. NoJob.view # v
  BY FilesAssumption DEF NoJob
<1>3. Asks(v)
  BY DEF Calm, Shows, Loads, Unasked
<1>4. NoLoads(v) /\ AsksBy(v, r)
  BY <1>3 DEF Asks, AsksBy
<1>5. Unasked(v)'
  BY <1>1, <1>2, <1>4 DEF Unasked, AsksBy
<1>6. Active' = {}
  BY <1>1, <1>4 DEF Active, AsksBy, Steps
<1>7. QED
  BY <1>4, <1>5, <1>6

\* The answer: the view loads, or is sure that nothing changed.
LEMMA ReceiveCalm ==
  ASSUME FilesTyped, CalmViews, NEW r \in Requests, Receive(r), NEW v \in Views PROVE Calm(v)'
<1>1. /\ pc[r] = "ok" /\ Forget(r) /\ Load(job[r].view, home[r]) /\ UNCHANGED <<path, shown, disturbed>>
  BY DEF Receive
<1>2. PICK s \in Slots : loads' = [loads EXCEPT ![job[r].view][s] = [NoLoad EXCEPT !.stage = "sent", !.dir = home[r]]]
  BY <1>1 DEF Load
<1>3. CASE job[r].view # v
  <2>1. loads'[v] = loads[v]
    BY <1>2, <1>3 DEF FilesTyped, ViewsTyped
  <2>2. QED
    BY <1>1, <1>3, <2>1, ForgetApart DEF CalmViews
<1>4. CASE job[r].view = v
  <2>1. SUFFICES ASSUME ~disturbed'[v] PROVE Loads(v)'
    BY DEF Calm
  <2>2. NoLoads(v) /\ AsksBy(v, r) /\ Unasked(v)' /\ Active' = {}
    BY <1>1, <1>4, <2>1, ForgetOwn DEF CalmViews
  <2>3. loads'[v][s] = [NoLoad EXCEPT !.stage = "sent", !.dir = home[r]]
        /\ \A t \in Slots : t # s => loads'[v][t] = loads[v][t]
    BY <1>2, <1>4 DEF FilesTyped, ViewsTyped
  <2>4. loads'[v][s].dir = home[r] /\ loads'[v][s].stage = "sent"
    BY <2>3 DEF NoLoad
  <2>5. LoadsAt(v, s)'
    BY <1>1, <2>2, <2>3, <2>4 DEF LoadsAt, NoLoads, AsksBy
  <2>6. QED
    BY <2>2, <2>5 DEF Loads
<1>5. QED
  BY <1>3, <1>4

LEMMA ErrorCalm ==
  ASSUME FilesTyped, CalmViews, NEW r \in Requests, ReceiveError(r), NEW v \in Views PROVE Calm(v)'
<1>1. /\ pc[r] \in {"ok", "error"} /\ Forget(r) /\ UNCHANGED <<path, shown, loads>>
      /\ disturbed' = [disturbed EXCEPT
           ![job[r].view] = disturbed[job[r].view] \/ pc[r] = "ok" \/ job[r].op \in {"mkdir", "remove", "upload"}]
  BY DEF ReceiveError, viewVars
<1>2. CASE job[r].view # v
  <2>1. disturbed'[v] = disturbed[v]
    BY <1>1, <1>2 DEF FilesTyped, ViewsTyped
  <2>2. QED
    BY <1>1, <1>2, <2>1, ForgetApart DEF CalmViews
<1>3. CASE job[r].view = v
  <2>1. SUFFICES ASSUME ~disturbed'[v] PROVE Shows(v)'
    BY DEF Calm
  <2>2. ~disturbed[v] /\ pc[r] = "error" /\ job[r].op \notin {"mkdir", "remove", "upload"}
    BY <1>1, <1>3, <2>1 DEF FilesTyped, ViewsTyped
  <2>3. NoLoads(v) /\ AsksBy(v, r) /\ Unasked(v)' /\ Active' = {}
    BY <1>1, <1>3, <2>2, ForgetOwn DEF CalmViews
  <2>4. Fresh(v)
    BY <2>2, <2>3 DEF AsksBy
  <2>5. NoLoads(v)' /\ Fresh(v)'
    BY <1>1, <2>3, <2>4 DEF NoLoads, Fresh
  <2>6. QED
    BY <2>3, <2>5 DEF Shows
<1>4. QED
  BY <1>2, <1>3

\* A step of a request that is served: no calm view but its own can be about.
LEMMA ServedCalm ==
  ASSUME FilesTyped, NEW v \in Views, Calm(v), NEW r \in Requests, pc[r] \in Steps,
         UNCHANGED <<job, home, path, disturbed>>,
         \A q \in Requests : q # r => pc'[q] = pc[q],
         NoLoads(v) => NoLoads(v)',
         pc'[r] \in {"serving", "error"} /\ job[r].op \notin {"mkdir", "remove", "upload"}
           => pc[r] = "serving" /\ shown' = shown
  PROVE  Calm(v)'
<1>1. SUFFICES ASSUME ~disturbed[v] PROVE Asks(v)'
  BY DEF Calm
<1>2. r \in Active
  BY DEF Active
<1>3. Asks(v)
  BY <1>1, <1>2 DEF Calm, Shows, Loads
<1>4. PICK q \in Requests : AsksBy(v, q)
  BY <1>3 DEF Asks
<1>5. q = r
  BY <1>2, <1>4 DEF AsksBy
<1>6. Active' \subseteq {r}
  BY <1>4, <1>5 DEF Active, AsksBy
<1>7. AsksBy(v, r)'
  BY <1>4, <1>5, <1>6 DEF AsksBy, Fresh
<1>8. QED
  BY <1>3, <1>7 DEF Asks

LEMMA ServeCalm ==
  ASSUME FilesTyped, CalmViews, NEW r \in Requests, Serve(r), NEW v \in Views PROVE Calm(v)'
<1>1. UNCHANGED <<job, home, disturbed>>
  BY DEF Serve, Mkdir, Rename, Chmod, Refuse, RemoveOne, Removed, RemoveFails, Open, WriteChunk, Finish,
    UploadFails, Answer, requestVars
<1>2. pc[r] \in Steps
  BY DEF Serve, Mkdir, Rename, Chmod, Refuse, RemoveOne, Removed, RemoveFails, Open, WriteChunk, Finish,
    UploadFails, At, Steps
<1>3. (\E s : Goto(r, s)) \/ UNCHANGED pc
  BY DEF Serve, Mkdir, Rename, Chmod, Refuse, RemoveOne, Removed, RemoveFails, Open, WriteChunk, Finish,
    UploadFails, Answer, requestVars
<1>4. \A q \in Requests : q # r => pc'[q] = pc[q]
  BY <1>3 DEF Goto, FilesTyped, RequestsTyped
<1>5. Compare \/ UNCHANGED <<path, shown, loads>>
  BY DEF Serve, Mkdir, Rename, Chmod, Refuse, RemoveOne, Removed, RemoveFails, Open, WriteChunk, Finish,
    UploadFails, Answer, viewVars
<1>6. UNCHANGED path /\ (NoLoads(v) => NoLoads(v)')
  <2>1. CASE Compare
    BY <1>1, <2>1, CompareViews DEF FilesTyped, NoLoads, Compare
  <2>2. CASE UNCHANGED <<path, shown, loads>>
    BY <2>2 DEF NoLoads
  <2>3. QED
    BY <1>5, <2>1, <2>2
<1>7. ASSUME pc'[r] \in {"serving", "error"}, job[r].op \notin {"mkdir", "remove", "upload"}
      PROVE  pc[r] = "serving" /\ shown' = shown
  <2>1. /\ ~Open(r) /\ ~Removed(r) /\ ~RemoveFails(r) /\ ~UploadFails(r) /\ ~Mkdir(r)
        /\ ~ \E q \in Paths : RemoveOne(r, q)
    BY <1>7 DEF Open, Removed, RemoveFails, UploadFails, RemoveOne, Mkdir, At
  <2>2. ~WriteChunk(r) /\ ~Finish(r)
    BY <1>7 DEF WriteChunk, Finish, FilesTyped, RequestsTyped, Doing
  <2>3. ~Rename(r) /\ ~Chmod(r)
    BY <1>7 DEF Rename, Chmod, Answer, Goto, FilesTyped, RequestsTyped
  <2>4. Refuse(r)
    BY <2>1, <2>2, <2>3 DEF Serve
  <2>5. pc[r] = "serving" /\ Compare /\ UNCHANGED <<tree, data>>
    BY <2>4 DEF Refuse, Answer
  <2>6. QED
    BY <2>5, CompareSame DEF FilesTyped
<1>8. QED
  BY <1>1, <1>2, <1>4, <1>6, <1>7, ServedCalm DEF CalmViews

LEMMA CalmKept ==
  ASSUME FilesTyped, CalmViews, [FilesNext]_filesVars PROVE CalmViews'
<1> SUFFICES ASSUME NEW v \in Views PROVE Calm(v)'
  BY DEF CalmViews
<1>1. CASE UNCHANGED filesVars
  BY <1>1, ApartCalm DEF filesVars, requestVars, viewVars, CalmViews
<1>2. ASSUME NEW w \in Views, View(w) PROVE Calm(v)'
  BY <1>2, ViewCalm, OtherViews
<1>3. QED
  BY <1>1, <1>2, AskCalm, ReceiveCalm, ErrorCalm, ServeCalm DEF FilesNext

-----------------------------------------------------------------------------
(* Files: theorems                                                         *)

\* The inductive invariant: what each variable is and what a request is at, where
\* the data of an inode comes from, what a bar will show, and why a calm view is calm.
FilesInv == FilesTyped /\ UploadsInv /\ BarsEnd /\ CalmViews

\* Whatever requests are served at a time, in whatever order answers and events
\* come, and wherever the users walk.
THEOREM FilesInvariance == FilesSpec => []FilesInv
<1>1. FilesInit => FilesInv
  BY TypesInit, UploadsInit, BarsInit, CalmInit DEF FilesInv
<1>2. FilesInv /\ [FilesNext]_filesVars => FilesInv'
  BY TypesKept, UploadsKept, BarsKept, CalmKept DEF FilesInv
<1>3. QED
  BY <1>1, <1>2, PTL DEF FilesSpec

\* Every entry of the tree is in a directory, also while entries are created,
\* renamed and removed concurrently (filemgr.go Mkdir, Rename, Remove, Save).
THEOREM FilesTypeCorrect == FilesSpec => []FilesTypeOK
<1>1. FilesInv => FilesTypeOK
  BY TypeParts DEF FilesInv, FilesTyped
<1>2. QED
  BY <1>1, FilesInvariance, PTL

\* A file that no two uploads had open at a time holds data of one part only, and
\* all of it once that part is saved (filemgr.go Save, handlers.go upload).
THEOREM UploadsAreWhole == FilesSpec => []LoneUploadsAreWhole
<1>1. FilesInv => LoneUploadsAreWhole
  BY UploadsWhole DEF FilesInv
<1>2. QED
  BY <1>1, FilesInvariance, PTL

\* No progress bar is left when no upload is under way, unless one was cut off in a
\* file or events were lost (handlers.go upload, app.js FilesView).
THEOREM NoBarIsLeft == FilesSpec => []ProgressEnds
<1>1. FilesInv => ProgressEnds
  BY BarsDown DEF FilesInv
<1>2. QED
  BY <1>1, FilesInvariance, PTL

\* A view with nothing under way that nothing disturbed shows the entries that its
\* directory has (app.js FilesView load and its callers).
THEOREM CalmViewShows == FilesSpec => []CalmViewIsUpToDate
<1>1. FilesInv => CalmViewIsUpToDate
  BY CalmUpToDate DEF FilesInv
<1>2. QED
  BY <1>1, FilesInvariance, PTL
=============================================================================
