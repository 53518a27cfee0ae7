--------------------------- MODULE ChannelProofs ---------------------------
(***************************************************************************)
(* The encrypted connection of Channel.tla is an ordered channel in both   *)
(* directions (Fifo.tla), for segments, buffers, messages and packages of  *)
(* any size and number.                                                    *)
(*                                                                         *)
(* The invariant follows the bytes: what was delivered and what is still   *)
(* in the sender's hands are together the bytes of the messages that were  *)
(* taken from the queue, and those that were not are in it, in order.  It  *)
(* is about a connection that is up.  When it is gone nothing is delivered *)
(* any more.                                                               *)
(***************************************************************************)
EXTENDS Channel, SequenceTheorems, WellFoundedInduction, TLAPS

---------------------------------------------------------------------------
(* Sequences, and sequences of sequences.  A recursive function is unique,  *)
(* and what holds of all sequences of sequences is shown for the shortest   *)
(* that it might fail for.                                                  *)

\* Numbers are well-founded: what a set has, it has a least of.
LEMMA LeastNumber ==
  ASSUME NEW T, T \subseteq Nat, T # {}
  PROVE  \E n \in T : \A m \in T : n <= m
<1>1. \E n \in T : \A m \in T : ~ (<<m, n>> \in OpToRel(<, Nat))
  BY WFMin, NatLessThanWellFounded
<1>2. PICK n \in T : \A m \in T : ~ (<<m, n>> \in OpToRel(<, Nat))
  BY <1>1
<1>3. ASSUME NEW m \in T
      PROVE  n <= m
  <2>1. m \in Nat /\ n \in Nat /\ <<m, n>> \in Nat \X Nat
    OBVIOUS
  <2>2. ~ (<<m, n>>[1] < <<m, n>>[2])
    BY <1>2, <2>1, Zenon DEF OpToRel
  <2> QED
    BY <2>1, <2>2
<1> QED
  BY <1>3

\* The function in FlattenSeq, of ss.
Flattening(f, ss) ==
  f = [i \in 1 .. Len(ss) |-> IF i = 1 THEN ss[i] ELSE f[i - 1] \o ss[i]]

\* What it says at a place.
LEMMA FlatteningAt ==
  ASSUME NEW f, NEW ss, Flattening(f, ss), NEW i \in 1 .. Len(ss)
  PROVE  f[i] = IF i = 1 THEN ss[i] ELSE f[i - 1] \o ss[i]
<1> DEFINE r == [j \in 1 .. Len(ss) |-> IF j = 1 THEN ss[j] ELSE f[j - 1] \o ss[j]]
<1>1. f = r
  BY DEF Flattening
<1>2. r[i] = IF i = 1 THEN ss[i] ELSE f[i - 1] \o ss[i]
  OBVIOUS
<1> QED
  BY <1>1, <1>2

\* There is one for every sequence of sequences.
LEMMA FlatteningExists ==
  ASSUME NEW S, NEW ss \in Seq(Seq(S))
  PROVE  \E f \in [1 .. Len(ss) -> Seq(S)] : Flattening(f, ss)
<1> DEFINE Has(n) == \A s \in Seq(Seq(S)) :
                       Len(s) = n => \E f \in [1 .. Len(s) -> Seq(S)] : Flattening(f, s)
           T == {n \in Nat : ~ Has(n)}
<1> HIDE DEF Has
<1>1. SUFFICES T = {}
  <2>1. Len(ss) \in Nat
    BY LenProperties
  <2>2. Has(Len(ss))
    BY <1>1, <2>1
  <2> QED
    BY <2>2 DEF Has
<1>2. SUFFICES ASSUME T # {}
               PROVE  FALSE
  OBVIOUS
<1>3. PICK n \in T : \A m \in T : n <= m
  <2>1. T \subseteq Nat
    OBVIOUS
  <2> QED
    BY <1>2, <2>1, LeastNumber
<1>4. PICK s \in Seq(Seq(S)) : /\ Len(s) = n
                               /\ ~ \E f \in [1 .. Len(s) -> Seq(S)] : Flattening(f, s)
  BY <1>3 DEF Has
<1>5. n # 0
  <2>1. SUFFICES ASSUME n = 0
                 PROVE  FALSE
    OBVIOUS
  <2> DEFINE f == [i \in 1 .. Len(s) |-> <<>>]
  <2>2. f \in [1 .. Len(s) -> Seq(S)] /\ Flattening(f, s)
    BY <1>4, <2>1 DEF Flattening
  <2> QED
    BY <1>4, <2>2
<1>6. n \in Nat \ {0} /\ n - 1 \in Nat /\ Has(n - 1)
  BY <1>3, <1>5
<1> DEFINE t == SubSeq(s, 1, n - 1)
<1>7. t \in Seq(Seq(S)) /\ Len(t) = n - 1 /\ \A i \in 1 .. n - 1 : t[i] = s[i]
  BY <1>4, <1>6
<1> HIDE DEF t
<1>8. PICK g \in [1 .. Len(t) -> Seq(S)] : Flattening(g, t)
  BY <1>6, <1>7 DEF Has
<1> DEFINE last == IF n = 1 THEN s[n] ELSE g[n - 1] \o s[n]
           f == [i \in 1 .. Len(s) |-> IF i = n THEN last ELSE g[i]]
<1>9. last \in Seq(S)
  <2>1. s[n] \in Seq(S)
    BY <1>4, <1>6, ElementOfSeq
  <2>2. n # 1 => g[n - 1] \in Seq(S)
    BY <1>6, <1>7, <1>8
  <2> QED
    BY <2>1, <2>2, ConcatProperties
<1> HIDE DEF last
<1>10. f \in [1 .. Len(s) -> Seq(S)]
  BY <1>4, <1>6, <1>7, <1>8, <1>9
<1>11. ASSUME NEW i \in 1 .. Len(s)
       PROVE  f[i] = IF i = 1 THEN s[i] ELSE f[i - 1] \o s[i]
  <2>1. CASE i = n
    BY <2>1, <1>4, <1>6, <1>7 DEF last
  <2>2. CASE i # n
    <3>1. f[i] = g[i] /\ i \in 1 .. Len(t) /\ t[i] = s[i] /\ (i # 1 => f[i - 1] = g[i - 1])
      BY <2>2, <1>4, <1>6, <1>7
    <3>2. g[i] = IF i = 1 THEN t[i] ELSE g[i - 1] \o t[i]
      BY <3>1, <1>8 DEF Flattening
    <3> QED
      BY <3>1, <3>2
  <2> QED
    BY <2>1, <2>2
<1>12. Flattening(f, s)
  BY <1>10, <1>11 DEF Flattening
<1> QED
  BY <1>4, <1>10, <1>12

\* As far as two sequences are the same, so are their flattenings.
LEMMA FlatteningUnique ==
  ASSUME NEW ss, NEW tt, NEW f, NEW g, Flattening(f, ss), Flattening(g, tt),
         Len(ss) \in Nat, Len(tt) \in Nat,
         NEW k \in 1 .. Len(ss), k <= Len(tt), \A i \in 1 .. k : ss[i] = tt[i]
  PROVE  f[k] = g[k]
<1> DEFINE T == {i \in 1 .. k : f[i] # g[i]}
<1>1. SUFFICES ASSUME T # {}
               PROVE  FALSE
  <2>1. k \in 1 .. k
    OBVIOUS
  <2> QED
    BY <2>1
<1>2. PICK i \in T : \A j \in T : i <= j
  <2>1. T \subseteq Nat
    OBVIOUS
  <2> QED
    BY <1>1, <2>1, LeastNumber
<1>3. i # 1 => f[i - 1] = g[i - 1]
  BY <1>2
<1>4. i \in 1 .. k /\ i \in 1 .. Len(ss) /\ i \in 1 .. Len(tt)
  BY <1>2
<1>5. f[i] = IF i = 1 THEN ss[i] ELSE f[i - 1] \o ss[i]
  BY <1>4, FlatteningAt
<1>6. g[i] = IF i = 1 THEN tt[i] ELSE g[i - 1] \o tt[i]
  BY <1>4, FlatteningAt
<1> QED
  BY <1>2, <1>3, <1>4, <1>5, <1>6

\* FlattenSeq is what its definition says.
LEMMA FlattenSeqIs ==
  ASSUME NEW S, NEW ss \in Seq(Seq(S)), Len(ss) # 0
  PROVE  \E f \in [1 .. Len(ss) -> Seq(S)] : Flattening(f, ss) /\ FlattenSeq(ss) = f[Len(ss)]
<1> DEFINE F == CHOOSE f : Flattening(f, ss)
<1>1. FlattenSeq(ss) = F[Len(ss)]
  BY DEF FlattenSeq, Flattening
<1>2. PICK g : g \in [1 .. Len(ss) -> Seq(S)] /\ Flattening(g, ss)
  BY FlatteningExists
<1>3. Flattening(F, ss)
  BY <1>2
<1> HIDE DEF F
<1>4. Len(ss) \in Nat
  BY LenProperties
<1>5. Len(ss) \in 1 .. Len(ss)
  BY <1>4
<1>6. F[Len(ss)] = g[Len(ss)]
  <2>1. Flattening(g, ss) /\ Len(ss) <= Len(ss) /\ \A i \in 1 .. Len(ss) : ss[i] = ss[i]
    BY <1>2, <1>4
  <2> QED
    BY <1>3, <1>4, <1>5, <2>1, FlatteningUnique
<1> QED
  BY <1>1, <1>2, <1>5, <1>6

\* What is flattened has the elements of its parts.
LEMMA FlattenType ==
  ASSUME NEW S, NEW ss \in Seq(Seq(S))
  PROVE  FlattenSeq(ss) \in Seq(S)
<1>1. CASE Len(ss) = 0
  BY <1>1, EmptySeq DEF FlattenSeq
<1>2. CASE Len(ss) # 0
  <2>1. PICK f \in [1 .. Len(ss) -> Seq(S)] :
          Flattening(f, ss) /\ FlattenSeq(ss) = f[Len(ss)]
    BY <1>2, FlattenSeqIs
  <2>2. Len(ss) \in Nat
    BY LenProperties
  <2>3. Len(ss) \in 1 .. Len(ss)
    BY <1>2, <2>2
  <2>4. f[Len(ss)] \in Seq(S)
    BY <2>3
  <2> QED
    BY <2>1, <2>4
<1> QED
  BY <1>1, <1>2

\* Of nothing it is nothing.
LEMMA FlattenEmpty == FlattenSeq(<<>>) = <<>>
  BY DEF FlattenSeq

\* One sequence more at the end ...
LEMMA FlattenAppend ==
  ASSUME NEW S, NEW ss \in Seq(Seq(S)), NEW s \in Seq(S)
  PROVE  FlattenSeq(Append(ss, s)) = FlattenSeq(ss) \o s
<1>1. PICK tt : tt \in Seq(Seq(S)) /\ tt = Append(ss, s)
  BY AppendProperties
<1>2. PICK n \in Nat : n = Len(ss)
  BY LenProperties
<1>3. Len(tt) = n + 1 /\ tt[n + 1] = s /\ \A i \in 1 .. n : tt[i] = ss[i]
  BY <1>1, <1>2, AppendProperties
<1>4. PICK g : Flattening(g, tt) /\ FlattenSeq(tt) = g[Len(tt)]
  <2>1. Len(tt) # 0
    BY <1>3
  <2> QED
    BY <1>1, <2>1, FlattenSeqIs
<1>5. g[n + 1] = IF n + 1 = 1 THEN tt[n + 1] ELSE g[n + 1 - 1] \o tt[n + 1]
  <2>1. n + 1 \in 1 .. Len(tt)
    BY <1>3
  <2> QED
    BY <1>4, <2>1, FlatteningAt
<1>6. CASE n = 0
  <2>1. ss = <<>>
    BY <1>2, <1>6, EmptySeq
  <2> QED
    BY <1>1, <1>3, <1>4, <1>5, <1>6, <2>1, FlattenEmpty, ConcatEmptySeq
<1>7. CASE n # 0
  <2>1. PICK f : Flattening(f, ss) /\ FlattenSeq(ss) = f[n]
    BY <1>2, <1>7, FlattenSeqIs
  <2>2. f[n] = g[n]
    <3>1. Len(ss) \in Nat /\ Len(tt) \in Nat /\ n \in 1 .. Len(ss) /\ n <= Len(tt)
      BY <1>2, <1>3, <1>7
    <3>2. Flattening(f, ss) /\ Flattening(g, tt)
      BY <1>4, <2>1
    <3>3. \A i \in 1 .. n : ss[i] = tt[i]
      BY <1>3
    <3> QED
      BY <3>1, <3>2, <3>3, FlatteningUnique
  <2>3. g[n + 1] = g[n] \o s
    BY <1>3, <1>5, <1>7
  <2> QED
    BY <1>1, <1>3, <1>4, <2>1, <2>2, <2>3
<1> QED
  BY <1>6, <1>7

\* ... and at the beginning.
LEMMA FlattenPrepend ==
  ASSUME NEW S, NEW h \in Seq(S), NEW ss \in Seq(Seq(S))
  PROVE  FlattenSeq(<<h>> \o ss) = h \o FlattenSeq(ss)
<1> DEFINE Holds(s) == FlattenSeq(<<h>> \o s) = h \o FlattenSeq(s)
           Has(n) == \A s \in Seq(Seq(S)) : Len(s) = n => Holds(s)
           T == {n \in Nat : ~ Has(n)}
<1> HIDE DEF Has, Holds
<1>1. SUFFICES T = {}
  <2>1. Len(ss) \in Nat
    BY LenProperties
  <2>2. Has(Len(ss))
    BY <1>1, <2>1
  <2> QED
    BY <2>2 DEF Has, Holds
<1>2. SUFFICES ASSUME T # {}
               PROVE  FALSE
  OBVIOUS
<1>3. PICK n \in T : \A m \in T : n <= m
  <2>1. T \subseteq Nat
    OBVIOUS
  <2> QED
    BY <1>2, <2>1, LeastNumber
<1>4. PICK s \in Seq(Seq(S)) : Len(s) = n /\ ~ Holds(s)
  BY <1>3 DEF Has
<1>5. <<h>> \in Seq(Seq(S)) /\ <<>> \in Seq(Seq(S)) /\ <<>> \in Seq(S)
  OBVIOUS
<1>6. CASE n = 0
  <2>1. s = <<>>
    BY <1>4, <1>6, EmptySeq
  <2>2. <<h>> \o s = Append(<<>>, h)
    BY <2>1, <1>5
  <2>3. FlattenSeq(Append(<<>>, h)) = FlattenSeq(<<>>) \o h
    BY <1>5, FlattenAppend
  <2>4. <<>> \o h = h /\ h \o <<>> = h
    BY ConcatEmptySeq
  <2> QED
    BY <1>4, <2>1, <2>2, <2>3, <2>4, FlattenEmpty DEF Holds
<1>7. CASE n # 0
  <2>1. s # <<>>
    BY <1>4, <1>7, EmptySeq
  <2>2. PICK u \in Seq(Seq(S)), e \in Seq(S) : s = Append(u, e)
    BY <2>1, SequenceEmptyOrAppend
  <2>3. Len(u) = n - 1 /\ n - 1 \in Nat
    BY <1>3, <1>4, <2>2, AppendProperties, LenProperties
  <2>4. Holds(u)
    <3>1. n - 1 \notin T
      BY <1>3, <2>3
    <3> QED
      BY <2>3, <3>1 DEF Has
  <2>5. <<h>> \o s = Append(<<h>> \o u, e) /\ <<h>> \o u \in Seq(Seq(S))
    BY <1>5, <2>2
  <2>6. FlattenSeq(<<h>> \o s) = FlattenSeq(<<h>> \o u) \o e
    BY <2>5, FlattenAppend
  <2>7. FlattenSeq(s) = FlattenSeq(u) \o e /\ FlattenSeq(u) \in Seq(S)
    BY <2>2, FlattenAppend, FlattenType
  <2>8. (h \o FlattenSeq(u)) \o e = h \o (FlattenSeq(u) \o e)
    <3>1. FlattenSeq(u) \in Seq(S)
      BY <2>7
    <3> QED
      BY <3>1, ConcatAssociative
  <2> QED
    BY <1>4, <2>4, <2>6, <2>7, <2>8 DEF Holds
<1> QED
  BY <1>6, <1>7

---------------------------------------------------------------------------
(* The invariant.                                                           *)

Byte == Nat \X Nat
Piece == [nonce : Nat, bytes : Seq(Byte)]
Entry == [kind : {"data", "flush", "close", "reject"}, message : Nat]

SenderTypeOK ==
  /\ messages \in Seq([kind : {"data", "pause", "resume"}, size : Nat])
  /\ promise \in Seq({"pending", "resolved", "rejected"}) /\ Len(promise) = Len(messages)
  /\ queue \in Seq(Entry)
  /\ loop \in {"waiting", "writing", "ended"} /\ purpose \in {"full", "flush", "close"}
  /\ rest \in Seq(Byte) /\ buffer \in Seq(Byte) /\ segment \in Seq(Byte)
  /\ nonce \in Nat /\ wire \in Seq(Piece) /\ up \in BOOLEAN
  /\ readNonce \in Nat /\ read \in Seq(Byte)

ReaderTypeOK ==
  /\ packages \in Seq(Nat) /\ incoming \in Seq(Piece) /\ buffers \in Seq(Piece)
  /\ receiverNonce \in Nat /\ plain \in Seq(Byte) /\ consumed \in Seq(Byte)

\* The bytes of a message, and of the first m messages.
Message(n, size) == [k \in 1 .. size |-> <<n, k>>]
Flow(sizes, m) == FlattenSeq([n \in 1 .. m |-> Message(n, sizes[n])])

\* What has left the queue and has not been handed over to the server.
Pending == IF loop = "writing" THEN segment \o rest ELSE buffer

\* Only the writing of a full segment leaves something over.
SenderShape ==
  /\ loop = "writing" => buffer = <<>>
  /\ loop # "writing" => rest = <<>> /\ Len(buffer) < SegSize
  /\ rest # <<>> => purpose = "full"

\* In the queue are the messages after the first taken, up to the last.
Queued(q, taken, last) ==
  /\ \A i \in 1 .. Len(q) : q[i].kind = "data" => q[i].message \in taken + 1 .. last
  /\ \A i, j \in 1 .. Len(q) :
       i < j /\ q[i].kind = "data" /\ q[j].kind = "data" => q[i].message < q[j].message
  /\ \A n \in taken + 1 .. last : \E i \in 1 .. Len(q) : q[i] = Data(n)

\* The sender has taken so many messages, and what of their bytes has not been handed
\* over is in its hands; what is left of one is of the last.
Taken(taken) ==
  /\ up => Delivered \o Pending = Flow(WrittenSizes, taken)
  /\ callbacks \subseteq 1 .. taken
  /\ \A i \in 1 .. Len(rest) : rest[i][1] = taken /\ taken > 0
  /\ Queued(queue, taken, Len(messages))

Numbered ==
  /\ nonce = readNonce + Len(wire)
  /\ \A i \in 1 .. Len(wire) : wire[i].nonce = readNonce + i - 1

ToServerInv == (up => Numbered) /\ \E taken \in 0 .. Len(messages) : Taken(taken)

\* What is under way to the browser are the packages it has not opened, in order.
Package(sizes, m) == [nonce |-> m - 1, bytes |-> Message(m, sizes[m])]
ToBrowserInv ==
  up => /\ receiverNonce + Len(buffers) + Len(incoming) = Len(packages)
        /\ \A i \in 1 .. Len(buffers) : buffers[i] = Package(packages, receiverNonce + i)
        /\ \A i \in 1 .. Len(incoming) :
             incoming[i] = Package(packages, receiverNonce + Len(buffers) + i)
        /\ consumed \o plain = Flow(packages, receiverNonce)

BeginsWith(bytes, first) == \E more \in Seq(Byte) : bytes = first \o more

ServerHasPrefix == BeginsWith(Flow(WrittenSizes, Len(messages)), Delivered)
BrowserHasPrefix == BeginsWith(Flow(packages, Len(packages)), consumed)

ServerInv == SenderTypeOK /\ SenderShape /\ ToServerInv /\ ServerHasPrefix
BrowserInv == ReaderTypeOK /\ ToBrowserInv /\ BrowserHasPrefix

IInv == ServerInv /\ BrowserInv

---------------------------------------------------------------------------
(* The bytes of messages.                                                   *)

\* A message is its bytes, in order.
LEMMA MessageType ==
  ASSUME NEW n \in Nat, NEW size \in Nat
  PROVE  /\ Message(n, size) \in Seq(Byte) /\ Len(Message(n, size)) = size
         /\ \A k \in 1 .. size : Message(n, size)[k] = <<n, k>>
<1>1. \A k \in 1 .. size : <<n, k>> \in Byte
  BY DEF Byte
<1> HIDE DEF Byte
<1> QED
  BY <1>1 DEF Message

\* The messages themselves, before they are put together.
LEMMA MessagesType ==
  ASSUME NEW sizes \in Seq(Nat), NEW m \in 0 .. Len(sizes)
  PROVE  /\ [n \in 1 .. m |-> Message(n, sizes[n])] \in Seq(Seq(Byte))
         /\ Len([n \in 1 .. m |-> Message(n, sizes[n])]) = m
<1>1. \A n \in 1 .. m : Message(n, sizes[n]) \in Seq(Byte)
  BY MessageType
<1>2. m \in Nat
  OBVIOUS
<1> QED
  BY <1>1, <1>2

\* A flow of messages is a sequence of bytes, and of none it is empty.
LEMMA FlowType ==
  ASSUME NEW sizes \in Seq(Nat), NEW m \in 0 .. Len(sizes)
  PROVE  Flow(sizes, m) \in Seq(Byte)
  BY MessagesType, FlattenType DEF Flow

\* The flow of no messages is empty.
LEMMA FlowEmpty == ASSUME NEW sizes PROVE Flow(sizes, 0) = <<>>
<1>1. [n \in 1 .. 0 |-> Message(n, sizes[n])] = <<>>
  OBVIOUS
<1> QED
  BY <1>1, FlattenEmpty DEF Flow

\* One message more ...
LEMMA FlowNext ==
  ASSUME NEW sizes \in Seq(Nat), NEW m \in 0 .. Len(sizes), m < Len(sizes)
  PROVE  Flow(sizes, m + 1) = Flow(sizes, m) \o Message(m + 1, sizes[m + 1])
<1> DEFINE upTo(k) == [n \in 1 .. k |-> Message(n, sizes[n])]
<1>1. m \in Nat /\ m + 1 \in 0 .. Len(sizes) /\ m + 1 \in 1 .. Len(sizes)
  BY LenProperties
<1>2. upTo(m) \in Seq(Seq(Byte)) /\ Len(upTo(m)) = m
  BY MessagesType
<1>3. upTo(m + 1) \in Seq(Seq(Byte)) /\ Len(upTo(m + 1)) = m + 1
  BY <1>1, MessagesType
<1>4. Message(m + 1, sizes[m + 1]) \in Seq(Byte)
  BY <1>1, MessageType
<1>5. \A n \in 1 .. m : upTo(m + 1)[n] = upTo(m)[n]
  BY <1>1
<1>6. upTo(m + 1)[m + 1] = Message(m + 1, sizes[m + 1])
  BY <1>1
<1> HIDE DEF upTo
<1>7. upTo(m + 1) = Append(upTo(m), Message(m + 1, sizes[m + 1]))
  BY <1>1, <1>2, <1>3, <1>4, <1>5, <1>6
<1> QED
  BY <1>2, <1>4, <1>7, FlattenAppend DEF Flow, upTo

\* ... and the messages that come after do not matter.
LEMMA FlowSame ==
  ASSUME NEW sizes, NEW more, NEW m \in Nat, \A n \in 1 .. m : more[n] = sizes[n]
  PROVE  Flow(more, m) = Flow(sizes, m)
<1>1. [n \in 1 .. m |-> Message(n, more[n])] = [n \in 1 .. m |-> Message(n, sizes[n])]
  OBVIOUS
<1> QED
  BY <1>1 DEF Flow

\* Beginning with is a preorder.
LEMMA BeginsWithSelf == ASSUME NEW s \in Seq(Byte) PROVE BeginsWith(s, s)
<1>1. s = s \o <<>> /\ <<>> \in Seq(Byte)
  BY ConcatEmptySeq
<1> QED
  BY <1>1 DEF BeginsWith

\* What begins with s begins with all that s begins with.
LEMMA BeginsWithTransitive ==
  ASSUME NEW s \in Seq(Byte), NEW t, NEW u, BeginsWith(t, s), BeginsWith(u, t)
  PROVE  BeginsWith(u, s)
<1>1. PICK p \in Seq(Byte) : t = s \o p
  BY DEF BeginsWith
<1>2. PICK q \in Seq(Byte) : u = t \o q
  BY DEF BeginsWith
<1>3. u = s \o (p \o q) /\ p \o q \in Seq(Byte)
  BY <1>1, <1>2, ConcatAssociative, ConcatProperties
<1> QED
  BY <1>3 DEF BeginsWith

\* The first messages are where all of them begin.
LEMMA FlowBegins ==
  ASSUME NEW sizes \in Seq(Nat), NEW m \in 0 .. Len(sizes)
  PROVE  BeginsWith(Flow(sizes, Len(sizes)), Flow(sizes, m))
<1> DEFINE T == {n \in Nat : n \in m .. Len(sizes)
                             /\ ~ BeginsWith(Flow(sizes, n), Flow(sizes, m))}
<1>1. Len(sizes) \in Nat /\ m \in Nat
  BY LenProperties
<1>2. SUFFICES ASSUME T # {}
               PROVE  FALSE
  <2>1. Len(sizes) \in m .. Len(sizes)
    BY <1>1
  <2> QED
    BY <1>1, <2>1
<1>3. PICK n \in T : \A k \in T : n <= k
  <2>1. T \subseteq Nat
    OBVIOUS
  <2> QED
    BY <1>2, <2>1, LeastNumber
<1>4. n # m
  BY <1>3, FlowType, BeginsWithSelf
<1>5. n - 1 \in m .. Len(sizes) /\ n - 1 \in Nat /\ n - 1 \in 0 .. Len(sizes)
      /\ n - 1 < Len(sizes) /\ (n - 1) + 1 = n /\ n \in 1 .. Len(sizes)
  BY <1>1, <1>3, <1>4
<1>6. BeginsWith(Flow(sizes, n - 1), Flow(sizes, m))
  BY <1>3, <1>5
<1>7. Flow(sizes, n) = Flow(sizes, n - 1) \o Message(n, sizes[n])
  <2>1. Flow(sizes, (n - 1) + 1)
          = Flow(sizes, n - 1) \o Message((n - 1) + 1, sizes[(n - 1) + 1])
    BY <1>5, FlowNext
  <2> QED
    BY <1>5, <2>1
<1>8. Message(n, sizes[n]) \in Seq(Byte)
  BY <1>5, MessageType
<1>9. BeginsWith(Flow(sizes, n), Flow(sizes, n - 1))
  BY <1>7, <1>8 DEF BeginsWith
<1>10. BeginsWith(Flow(sizes, n), Flow(sizes, m))
  BY <1>6, <1>9, FlowType, BeginsWithTransitive
<1> QED
  BY <1>3, <1>10

\* Every byte of the messages is in it.
LEMMA FlowHolds ==
  ASSUME NEW sizes \in Seq(Nat), NEW m \in 0 .. Len(sizes), NEW n \in 1 .. m,
         NEW k \in 1 .. sizes[n]
  PROVE  \E i \in 1 .. Len(Flow(sizes, m)) : Flow(sizes, m)[i] = <<n, k>>
<1>1. Len(sizes) \in Nat /\ n \in 1 .. Len(sizes) /\ n \in Nat /\ n - 1 \in 0 .. Len(sizes)
      /\ n - 1 < Len(sizes) /\ (n - 1) + 1 = n /\ sizes[n] \in Nat /\ n \in 0 .. Len(sizes)
  BY LenProperties
<1>2. Flow(sizes, n) = Flow(sizes, n - 1) \o Message(n, sizes[n])
  <2>1. Flow(sizes, (n - 1) + 1)
          = Flow(sizes, n - 1) \o Message((n - 1) + 1, sizes[(n - 1) + 1])
    BY <1>1, FlowNext
  <2> QED
    BY <1>1, <2>1
<1>3. PICK more \in Seq(Byte) : Flow(sizes, m) = Flow(sizes, n) \o more
  <2> DEFINE first == SubSeq(sizes, 1, m)
  <2>1. first \in Seq(Nat) /\ Len(first) = m /\ \A j \in 1 .. m : first[j] = sizes[j]
    <3>1. m \in Nat /\ m <= Len(sizes)
      BY <1>1
    <3>2. first \in Seq(Nat)
      BY <3>1
    <3>3. Len(first) = m
      BY <3>1
    <3>4. \A j \in 1 .. m : first[j] = sizes[j]
      BY <3>1
    <3> QED
      BY <3>2, <3>3, <3>4
  <2> HIDE DEF first
  <2>2. BeginsWith(Flow(first, m), Flow(first, n))
    BY <1>1, <2>1, FlowBegins
  <2>3. Flow(first, m) = Flow(sizes, m) /\ Flow(first, n) = Flow(sizes, n)
    <3>1. m \in Nat /\ n \in Nat /\ \A j \in 1 .. n : first[j] = sizes[j]
      BY <1>1, <2>1
    <3>2. Flow(first, m) = Flow(sizes, m)
      BY <2>1, <3>1, FlowSame
    <3>3. Flow(first, n) = Flow(sizes, n)
      BY <3>1, FlowSame
    <3> QED
      BY <3>2, <3>3
  <2> QED
    BY <2>2, <2>3 DEF BeginsWith
<1> DEFINE b == Flow(sizes, n - 1)
           c == Message(n, sizes[n])
<1>4. b \in Seq(Byte) /\ c \in Seq(Byte) /\ Len(c) = sizes[n] /\ c[k] = <<n, k>>
  BY <1>1, FlowType, MessageType
<1>5. Flow(sizes, m) = (b \o c) \o more
  BY <1>2, <1>3
<1> HIDE DEF b, c
<1>6. Len(b) \in Nat /\ k \in 1 .. Len(c) /\ Len(b \o c) = Len(b) + Len(c)
      /\ b \o c \in Seq(Byte) /\ Len(c) \in Nat
  BY <1>1, <1>4, ConcatProperties, LenProperties
<1>7. Len(b) + k \in 1 .. Len((b \o c) \o more) /\ Len(b) + k \in 1 .. Len(b \o c)
  BY <1>6, ConcatProperties
<1>8. ((b \o c) \o more)[Len(b) + k] = (b \o c)[Len(b) + k]
  BY <1>6, <1>7, ConcatProperties
<1>9. (b \o c)[Len(b) + k] = c[k]
  <2>1. Len(b) + k \in 1 .. Len(b) + Len(c) /\ ~ (Len(b) + k <= Len(b))
        /\ (Len(b) + k) - Len(b) = k
    BY <1>6
  <2> QED
    BY <1>4, <2>1, ConcatProperties
<1> QED
  BY <1>4, <1>5, <1>7, <1>8, <1>9

---------------------------------------------------------------------------
(* What the operations do to it.                                            *)

\* Fill loses nothing: what it is given is behind what was there, and only a full
\* segment leaves something over.
LEMMA FillEffect ==
  ASSUME SenderTypeOK, NEW bytes \in Seq(Byte), Len(buffer) < SegSize, Fill(bytes)
  PROVE  /\ rest' \in Seq(Byte) /\ buffer' \in Seq(Byte) /\ segment' \in Seq(Byte)
         /\ loop' \in {"waiting", "writing"} /\ purpose' \in {"full", "flush", "close"}
         /\ SenderShape'
         /\ Pending' = buffer \o bytes
         /\ \A i \in 1 .. Len(rest') : \E j \in 1 .. Len(bytes) : rest'[i] = bytes[j]
<1> DEFINE room == SegSize - Len(buffer)
           n == IF Len(bytes) < room THEN Len(bytes) ELSE room
           fits == SubSeq(bytes, 1, n)
           over == SubSeq(bytes, n + 1, Len(bytes))
           filled == buffer \o fits
<1>1. SegSize \in Nat /\ Len(buffer) \in Nat /\ Len(bytes) \in Nat /\ buffer \in Seq(Byte)
  BY SenderAssumption DEF SenderTypeOK
<1>2. room \in Nat \ {0} /\ n \in 0 .. Len(bytes) /\ n <= room
  BY <1>1
<1>3. fits \in Seq(Byte) /\ Len(fits) = n
  BY <1>1, <1>2
<1>4. /\ rest' = over
      /\ IF Len(filled) = SegSize THEN Write(filled, "full")
         ELSE buffer' = filled /\ loop' = "waiting" /\ UNCHANGED <<segment, purpose, requests>>
  BY <1>3 DEF Fill
<1>5. n < room => n = Len(bytes)
  BY <1>1
<1> HIDE DEF n
<1>6. /\ over \in Seq(Byte) /\ Len(over) = Len(bytes) - n
      /\ \A i \in 1 .. Len(over) : over[i] = bytes[i + n] /\ i + n \in 1 .. Len(bytes)
  BY <1>1, <1>2
<1>7. fits \o over = bytes
  <2>1. 1 \in 1 .. Len(bytes) + 1 /\ n \in 1 - 1 .. Len(bytes) /\ Len(bytes) \in n .. Len(bytes)
    BY <1>1, <1>2
  <2>2. fits \o over = SubSeq(bytes, 1, Len(bytes))
    BY <2>1, ConcatAdjacentSubSeq
  <2> QED
    BY <2>2, SubSeqFull
<1> HIDE DEF fits, over
<1>8. filled \in Seq(Byte) /\ Len(filled) = Len(buffer) + n
  BY <1>1, <1>3, ConcatProperties
<1>9. filled \o over = buffer \o bytes
  <2>1. (buffer \o fits) \o over = buffer \o (fits \o over)
    <3>1. buffer \in Seq(Byte) /\ fits \in Seq(Byte) /\ over \in Seq(Byte)
      BY <1>1, <1>3, <1>6
    <3> QED
      BY <3>1, ConcatAssociative
  <2> QED
    BY <1>7, <2>1
<1>10. n < room => over = <<>>
  BY <1>1, <1>5, <1>6, EmptySeq
<1> HIDE DEF filled
<1>11. \A i \in 1 .. Len(rest') : \E j \in 1 .. Len(bytes) : rest'[i] = bytes[j]
  BY <1>4, <1>6
<1>12. CASE Len(filled) = SegSize
  <2>1. /\ segment' = filled /\ purpose' = "full" /\ buffer' = <<>> /\ loop' = "writing"
    BY <1>4, <1>12 DEF Write
  <2>2. Pending' = filled \o over
    BY <1>4, <2>1 DEF Pending
  <2>3. SenderShape'
    BY <2>1 DEF SenderShape
  <2>4. buffer' \in Seq(Byte)
    BY <2>1, EmptySeq
  <2> QED
    BY <1>4, <1>6, <1>8, <1>9, <1>11, <2>1, <2>2, <2>3, <2>4
<1>13. CASE Len(filled) # SegSize
  <2>1. buffer' = filled /\ loop' = "waiting" /\ segment' = segment /\ purpose' = purpose
    BY <1>4, <1>13
  <2>2. n < room /\ Len(filled) < SegSize
    <3>1. room = SegSize - Len(buffer) /\ n \in Nat /\ Len(filled) = Len(buffer) + n /\ n <= room
      BY <1>2, <1>8
    <3> HIDE DEF room
    <3> QED
      BY <1>1, <1>13, <3>1
  <2>3. over = <<>> /\ filled = buffer \o bytes
    BY <1>8, <1>9, <1>10, <2>2, ConcatEmptySeq
  <2>4. Pending' = buffer \o bytes
    BY <2>1, <2>3 DEF Pending
  <2>5. SenderShape'
    BY <1>4, <2>1, <2>2, <2>3 DEF SenderShape
  <2>6. segment \in Seq(Byte) /\ purpose \in {"full", "flush", "close"}
    BY DEF SenderTypeOK
  <2> QED
    BY <1>4, <1>6, <1>8, <1>11, <2>1, <2>4, <2>5, <2>6
<1> QED
  BY <1>12, <1>13

\* What is on the wire is opened to bytes, under whatever number.
LEMMA OpenedType ==
  ASSUME NEW w \in Seq(Piece), NEW count \in Nat
  PROVE  /\ [i \in DOMAIN w |-> Opened(w[i], count + i - 1)] \in Seq(Seq(Byte))
         /\ Len([i \in DOMAIN w |-> Opened(w[i], count + i - 1)]) = Len(w)
<1>1. Len(w) \in Nat /\ DOMAIN w = 1 .. Len(w)
  BY LenProperties
<1>2. \A i \in 1 .. Len(w) : Opened(w[i], count + i - 1) \in Seq(Byte)
  <2>1. <<Garbage>> \in Seq(Byte)
    BY DEF Garbage, Byte
  <2>2. \A i \in 1 .. Len(w) : w[i].bytes \in Seq(Byte)
    <3>1. \A i \in 1 .. Len(w) : w[i] \in Piece
      BY <1>1, ElementOfSeq
    <3> QED
      BY <3>1 DEF Piece
  <2> QED
    BY <2>1, <2>2 DEF Opened
<1> QED
  BY <1>1, <1>2

\* What has been handed over are bytes.
LEMMA DeliveredType ==
  ASSUME SenderTypeOK
  PROVE  Segments \in Seq(Seq(Byte)) /\ Len(Segments) = Len(wire)
         /\ FlattenSeq(Segments) \in Seq(Byte) /\ Delivered \in Seq(Byte)
<1>1. wire \in Seq(Piece) /\ readNonce \in Nat /\ read \in Seq(Byte)
  BY DEF SenderTypeOK
<1>2. Segments \in Seq(Seq(Byte)) /\ Len(Segments) = Len(wire)
  BY <1>1, OpenedType DEF Segments
<1> QED
  BY <1>1, <1>2, FlattenType, ConcatProperties DEF Delivered

\* Under its number a segment is opened as it was sealed.
LEMMA SegmentsOpen ==
  ASSUME SenderTypeOK, Numbered
  PROVE  \A i \in 1 .. Len(wire) : Segments[i] = wire[i].bytes
<1>1. DOMAIN wire = 1 .. Len(wire)
  BY DEF SenderTypeOK
<1> QED
  BY <1>1 DEF Segments, Opened, Numbered

\* What the messages are made of.
LEMMA SizesOf ==
  ASSUME NEW ms \in Seq([kind : {"data", "pause", "resume"}, size : Nat])
  PROVE  /\ [n \in DOMAIN ms |-> ms[n].size] \in Seq(Nat)
         /\ Len([n \in DOMAIN ms |-> ms[n].size]) = Len(ms) /\ Len(ms) \in Nat
         /\ \A n \in 1 .. Len(ms) : [k \in DOMAIN ms |-> ms[k].size][n] = ms[n].size
<1>1. Len(ms) \in Nat /\ DOMAIN ms = 1 .. Len(ms)
  BY LenProperties
<1>2. \A n \in 1 .. Len(ms) : ms[n].size \in Nat
  <2>1. \A n \in 1 .. Len(ms) : ms[n] \in [kind : {"data", "pause", "resume"}, size : Nat]
    BY <1>1, ElementOfSeq
  <2> QED
    BY <2>1
<1> QED
  BY <1>1, <1>2

\* The sizes that were written are those of the messages.
LEMMA SizesType ==
  ASSUME SenderTypeOK
  PROVE  /\ WrittenSizes \in Seq(Nat) /\ Len(WrittenSizes) = Len(messages)
         /\ Len(messages) \in Nat
         /\ \A n \in 1 .. Len(messages) : WrittenSizes[n] = messages[n].size
         /\ \A n \in 1 .. Len(messages) : BytesOf(n) = Message(n, WrittenSizes[n])
<1>1. messages \in Seq([kind : {"data", "pause", "resume"}, size : Nat])
  BY DEF SenderTypeOK
<1>2. /\ WrittenSizes \in Seq(Nat) /\ Len(WrittenSizes) = Len(messages) /\ Len(messages) \in Nat
      /\ \A n \in 1 .. Len(messages) : WrittenSizes[n] = messages[n].size
  BY <1>1, SizesOf DEF WrittenSizes
<1> QED
  BY <1>2 DEF BytesOf, Message

---------------------------------------------------------------------------
(* The queue.                                                               *)

\* The entries of the queue are of their kinds.
LEMMA EntryType ==
  /\ \A n \in Nat : Data(n) \in Entry /\ Data(n).kind = "data" /\ Data(n).message = n
  /\ \A k \in {"flush", "close", "reject"} : Flush(k) \in Entry /\ Flush(k).kind = k
  BY DEF Data, Flush, Entry

\* One more message in the queue is the next one ...
LEMMA QueuedData ==
  ASSUME NEW q \in Seq(Entry), NEW taken \in Nat, NEW last \in Nat, taken <= last,
         Queued(q, taken, last)
  PROVE  Queued(Append(q, Data(last + 1)), taken, last + 1)
<1> DEFINE e == Data(last + 1)
           r == Append(q, e)
<1>1. e \in Entry /\ e.kind = "data" /\ e.message = last + 1
  BY EntryType
<1>2. /\ Len(r) = Len(q) + 1 /\ Len(q) \in Nat
      /\ r[Len(q) + 1] = e /\ \A i \in 1 .. Len(q) : r[i] = q[i]
  BY <1>1, AppendProperties
<1> HIDE DEF r, e
<1>3. \A i \in 1 .. Len(r) : r[i].kind = "data" => r[i].message \in taken + 1 .. last + 1
  BY <1>1, <1>2 DEF Queued
<1>4. \A i, j \in 1 .. Len(r) :
        i < j /\ r[i].kind = "data" /\ r[j].kind = "data" => r[i].message < r[j].message
  <2> SUFFICES ASSUME NEW i \in 1 .. Len(r), NEW j \in 1 .. Len(r), i < j,
                      r[i].kind = "data", r[j].kind = "data"
               PROVE  r[i].message < r[j].message
    OBVIOUS
  <2>1. i \in 1 .. Len(q) /\ r[i] = q[i] /\ q[i].message \in taken + 1 .. last
    BY <1>2 DEF Queued
  <2>2. CASE j = Len(q) + 1
    BY <1>1, <1>2, <2>1, <2>2
  <2>3. CASE j # Len(q) + 1
    <3>1. j \in 1 .. Len(q) /\ r[j] = q[j]
      BY <1>2, <2>3
    <3> QED
      BY <2>1, <3>1 DEF Queued
  <2> QED
    BY <2>2, <2>3
<1>5. \A n \in taken + 1 .. last + 1 : \E i \in 1 .. Len(r) : r[i] = Data(n)
  <2> SUFFICES ASSUME NEW n \in taken + 1 .. last + 1
               PROVE  \E i \in 1 .. Len(r) : r[i] = Data(n)
    OBVIOUS
  <2>1. CASE n = last + 1
    BY <1>2, <2>1 DEF e
  <2>2. CASE n # last + 1
    <3>1. PICK i \in 1 .. Len(q) : q[i] = Data(n)
      BY <2>2 DEF Queued
    <3> QED
      BY <1>2, <3>1
  <2> QED
    BY <2>1, <2>2
<1> QED
  BY <1>3, <1>4, <1>5 DEF Queued, r, e

\* ... and what is no message does not disturb their order.
LEMMA QueuedOther ==
  ASSUME NEW q \in Seq(Entry), NEW taken, NEW last, Queued(q, taken, last),
         NEW k \in {"flush", "close", "reject"}
  PROVE  Queued(Append(q, Flush(k)), taken, last)
<1> DEFINE e == Flush(k)
           r == Append(q, e)
<1>1. e \in Entry /\ e.kind # "data"
  BY EntryType
<1>2. /\ Len(r) = Len(q) + 1 /\ Len(q) \in Nat
      /\ r[Len(q) + 1] = e /\ \A i \in 1 .. Len(q) : r[i] = q[i]
  BY <1>1, AppendProperties
<1> HIDE DEF r, e
<1>3. \A i \in 1 .. Len(r) : r[i].kind = "data" => i \in 1 .. Len(q) /\ r[i] = q[i]
  BY <1>1, <1>2
<1>4. \A i \in 1 .. Len(r) : r[i].kind = "data" => r[i].message \in taken + 1 .. last
  BY <1>3 DEF Queued
<1>5. \A i, j \in 1 .. Len(r) :
        i < j /\ r[i].kind = "data" /\ r[j].kind = "data" => r[i].message < r[j].message
  BY <1>3 DEF Queued
<1>6. \A n \in taken + 1 .. last : \E i \in 1 .. Len(r) : r[i] = Data(n)
  <2> SUFFICES ASSUME NEW n \in taken + 1 .. last
               PROVE  \E i \in 1 .. Len(r) : r[i] = Data(n)
    OBVIOUS
  <2>1. PICK i \in 1 .. Len(q) : q[i] = Data(n)
    BY DEF Queued
  <2> QED
    BY <1>2, <2>1
<1> QED
  BY <1>4, <1>5, <1>6 DEF Queued, r, e

\* The entry that is taken is the next message, or none.
LEMMA QueuedHead ==
  ASSUME NEW q \in Seq(Entry), q # <<>>, NEW taken \in Nat, NEW last \in Nat,
         Queued(q, taken, last)
  PROVE  IF Head(q).kind = "data"
           THEN /\ Head(q).message = taken + 1 /\ taken + 1 <= last
                /\ Queued(Tail(q), taken + 1, last)
           ELSE Queued(Tail(q), taken, last)
<1> DEFINE t == Tail(q)
<1>1. /\ Len(q) \in Nat /\ Len(t) = Len(q) - 1 /\ 1 \in 1 .. Len(q) /\ Head(q) = q[1]
      /\ \A i \in 1 .. Len(t) : t[i] = q[i + 1] /\ i + 1 \in 1 .. Len(q)
  <2>1. Len(q) \in Nat /\ Len(q) # 0
    BY EmptySeq, LenProperties
  <2>2. Len(t) = Len(q) - 1 /\ \A i \in 1 .. Len(t) : t[i] = q[i + 1]
    BY HeadTailProperties
  <2> HIDE DEF t
  <2> QED
    BY <2>1, <2>2
<1> HIDE DEF t
<1>2. \A i, j \in 1 .. Len(t) :
        i < j /\ t[i].kind = "data" /\ t[j].kind = "data" => t[i].message < t[j].message
  <2> SUFFICES ASSUME NEW i \in 1 .. Len(t), NEW j \in 1 .. Len(t), i < j,
                      t[i].kind = "data", t[j].kind = "data"
               PROVE  t[i].message < t[j].message
    OBVIOUS
  <2>1. /\ i + 1 \in 1 .. Len(q) /\ j + 1 \in 1 .. Len(q) /\ i + 1 < j + 1
        /\ t[i] = q[i + 1] /\ t[j] = q[j + 1]
    BY <1>1
  <2> QED
    BY <2>1 DEF Queued
<1>3. CASE Head(q).kind = "data"
  <2>1. q[1].message \in taken + 1 .. last
    BY <1>1, <1>3 DEF Queued
  <2>2. PICK i \in 1 .. Len(q) : q[i] = Data(taken + 1)
    BY <2>1 DEF Queued
  <2>3. q[i].kind = "data" /\ q[i].message = taken + 1
    BY <2>2, EntryType
  <2>4. i = 1
    <3>1. SUFFICES ASSUME 1 < i
                   PROVE  FALSE
      BY <1>1
    <3>2. q[1].message < q[i].message
      BY <1>1, <1>3, <2>3, <3>1 DEF Queued
    <3> QED
      BY <2>1, <2>3, <3>2
  <2>5. \A j \in 1 .. Len(t) : t[j].kind = "data" => t[j].message \in taken + 1 + 1 .. last
    <3> SUFFICES ASSUME NEW j \in 1 .. Len(t), t[j].kind = "data"
                 PROVE  t[j].message \in taken + 1 + 1 .. last
      OBVIOUS
    <3>1. j + 1 \in 1 .. Len(q) /\ t[j] = q[j + 1] /\ 1 < j + 1
      BY <1>1
    <3>2. q[j + 1].message \in taken + 1 .. last
      BY <3>1 DEF Queued
    <3>3. q[1].message < q[j + 1].message
      BY <1>1, <1>3, <3>1 DEF Queued
    <3> QED
      BY <2>3, <2>4, <3>1, <3>2, <3>3
  <2>6. \A n \in taken + 1 + 1 .. last : \E j \in 1 .. Len(t) : t[j] = Data(n)
    <3> SUFFICES ASSUME NEW n \in taken + 1 + 1 .. last
                 PROVE  \E j \in 1 .. Len(t) : t[j] = Data(n)
      OBVIOUS
    <3>1. PICK j \in 1 .. Len(q) : q[j] = Data(n)
      BY DEF Queued
    <3>2. j # 1
      <4>1. q[j].message = n
        BY <3>1, EntryType
      <4> QED
        BY <2>3, <2>4, <4>1
    <3>3. j - 1 \in 1 .. Len(t) /\ t[j - 1] = q[j]
      BY <1>1, <3>2
    <3> QED
      BY <3>1, <3>3
  <2>7. Queued(t, taken + 1, last)
    BY <1>2, <2>5, <2>6 DEF Queued
  <2> QED
    BY <1>1, <1>3, <2>1, <2>3, <2>4, <2>7 DEF t
<1>4. CASE Head(q).kind # "data"
  <2>1. \A j \in 1 .. Len(t) : t[j].kind = "data" => t[j].message \in taken + 1 .. last
    BY <1>1 DEF Queued
  <2>2. \A n \in taken + 1 .. last : \E j \in 1 .. Len(t) : t[j] = Data(n)
    <3> SUFFICES ASSUME NEW n \in taken + 1 .. last
                 PROVE  \E j \in 1 .. Len(t) : t[j] = Data(n)
      OBVIOUS
    <3>1. PICK j \in 1 .. Len(q) : q[j] = Data(n)
      BY DEF Queued
    <3>2. j # 1
      <4>1. q[j].kind = "data"
        BY <3>1, EntryType
      <4> QED
        BY <1>1, <1>4, <4>1
    <3>3. j - 1 \in 1 .. Len(t) /\ t[j - 1] = q[j]
      BY <1>1, <3>2
    <3> QED
      BY <3>1, <3>3
  <2>3. Queued(t, taken, last)
    BY <1>2, <2>1, <2>2 DEF Queued
  <2> QED
    BY <1>4, <2>3 DEF t
<1> QED
  BY <1>3, <1>4

---------------------------------------------------------------------------
(* The way to the server, one operation after the other.                    *)

\* What a step promises of the way to the server: Fifo!Next, byte by byte.
Promised ==
  /\ Len(messages) <= Len(messages')
  /\ \A n \in 1 .. Len(messages) : messages'[n] = messages[n]
  /\ BeginsWith(Delivered', Delivered)
  /\ \A n \in 1 .. Len(promise) : promise[n] = "resolved" => promise'[n] = "resolved"
  /\ up' \in {up, FALSE}
  /\ ~up => Delivered' = Delivered
  /\ up => \A n \in 1 .. Len(promise') :
             promise'[n] = "resolved" => \/ n <= Len(promise) /\ promise[n] = "resolved"
                                         \/ \A k \in 1 .. messages'[n].size :
                                              \E i \in 1 .. Len(Delivered') : Delivered'[i] = <<n, k>>

\* What is delivered depends on what was read and on what is on the wire.
LEMMA DeliveredStays ==
  ASSUME UNCHANGED <<read, readNonce, wire>>
  PROVE  Delivered' = Delivered /\ Segments' = Segments
  BY DEF Delivered, Segments

\* Nothing has happened to what was delivered and to the promises.
LEMMA PromisedQuietly ==
  ASSUME SenderTypeOK, UNCHANGED <<messages, promise, read, readNonce, wire>>, up' \in {up, FALSE}
  PROVE  Promised
<1>1. Delivered' = Delivered /\ BeginsWith(Delivered', Delivered)
  BY DeliveredStays, DeliveredType, BeginsWithSelf
<1>2. Len(promise) \in Nat /\ Len(messages) \in Nat
  BY DEF SenderTypeOK
<1>3. \A n \in 1 .. Len(promise') :
        promise'[n] = "resolved" => n <= Len(promise) /\ promise[n] = "resolved"
  BY <1>2
<1>4. Len(messages) <= Len(messages')
  BY <1>2
<1> QED
  BY <1>1, <1>3, <1>4, Zenon DEF Promised

\* The bytes of the messages that there are stay, when others come.
LEMMA SizesGrow ==
  ASSUME SenderTypeOK, SenderTypeOK', Len(messages) <= Len(messages'),
         \A n \in 1 .. Len(messages) : messages'[n] = messages[n]
  PROVE  /\ \A n \in 0 .. Len(messages) : Flow(WrittenSizes', n) = Flow(WrittenSizes, n)
         /\ BeginsWith(Flow(WrittenSizes', Len(messages')), Flow(WrittenSizes, Len(messages)))
<1>1. /\ WrittenSizes \in Seq(Nat) /\ Len(WrittenSizes) = Len(messages) /\ Len(messages) \in Nat
      /\ \A n \in 1 .. Len(messages) : WrittenSizes[n] = messages[n].size
  BY SizesType
<1>2. /\ WrittenSizes' \in Seq(Nat) /\ Len(WrittenSizes') = Len(messages') /\ Len(messages') \in Nat
      /\ \A n \in 1 .. Len(messages') : WrittenSizes'[n] = messages'[n].size
  <2>1. messages' \in Seq([kind : {"data", "pause", "resume"}, size : Nat])
    BY DEF SenderTypeOK
  <2> QED
    BY <2>1, SizesOf DEF WrittenSizes
<1>3. \A n \in 1 .. Len(messages) : WrittenSizes'[n] = WrittenSizes[n]
  BY <1>1, <1>2
<1>4. ASSUME NEW n \in 0 .. Len(messages)
      PROVE  Flow(WrittenSizes', n) = Flow(WrittenSizes, n)
  <2>1. n \in Nat /\ \A k \in 1 .. n : WrittenSizes'[k] = WrittenSizes[k]
    BY <1>1, <1>3
  <2> QED
    BY <2>1, FlowSame
<1>5. Len(messages) \in 0 .. Len(WrittenSizes')
  BY <1>1, <1>2
<1>6. BeginsWith(Flow(WrittenSizes', Len(messages')), Flow(WrittenSizes', Len(messages)))
  BY <1>2, <1>5, FlowBegins
<1> QED
  BY <1>1, <1>4, <1>6

\* Sender.send: a message more, behind all others.
LEMMA SendKeeps ==
  ASSUME ServerInv, NEW kind \in {"data", "pause", "resume"}, NEW size \in Nat,
         Send(kind, size), UNCHANGED <<readNonce, read>>
  PROVE  ServerInv' /\ Promised
<1> DEFINE n == Len(messages) + 1
<1>1. SenderTypeOK /\ SenderShape /\ ToServerInv /\ ServerHasPrefix /\ Len(messages) \in Nat
  BY DEF ServerInv, SenderTypeOK
<1>2. /\ messages' = Append(messages, [kind |-> kind, size |-> size])
      /\ promise' = Append(promise, "pending")
      /\ queue' = queue \o IF requests + 1 >= MaxBuffered THEN <<Data(n), Flush("flush")>>
                           ELSE <<Data(n)>>
      /\ UNCHANGED <<loop, callbacks, rest, buffer, segment, purpose, nonce, wire, up>>
  BY DEF Send
<1>3. queue \in Seq(Entry) /\ Data(n) \in Entry /\ Flush("flush") \in Entry
  BY <1>1, EntryType DEF SenderTypeOK
<1>4. \/ queue' = Append(Append(queue, Data(n)), Flush("flush"))
      \/ queue' = Append(queue, Data(n))
  BY <1>2, <1>3
<1>5. queue' \in Seq(Entry)
  <2>1. Append(queue, Data(n)) \in Seq(Entry)
    BY <1>3
  <2>2. Append(Append(queue, Data(n)), Flush("flush")) \in Seq(Entry)
    BY <1>3, <2>1, AppendProperties
  <2> QED
    BY <1>4, <2>1, <2>2
<1>6. /\ messages' \in Seq([kind : {"data", "pause", "resume"}, size : Nat])
      /\ Len(messages') = n /\ \A k \in 1 .. Len(messages) : messages'[k] = messages[k]
  BY <1>1, <1>2 DEF SenderTypeOK
<1>7. /\ promise' \in Seq({"pending", "resolved", "rejected"}) /\ Len(promise') = n
      /\ Len(promise) = Len(messages)
      /\ promise'[n] = "pending" /\ \A k \in 1 .. Len(promise) : promise'[k] = promise[k]
  BY <1>1, <1>2 DEF SenderTypeOK
<1>8. SenderTypeOK'
  BY <1>1, <1>2, <1>5, <1>6, <1>7 DEF SenderTypeOK
<1>9. SenderShape'
  BY <1>1, <1>2 DEF SenderShape
<1>10. Delivered' = Delivered /\ Pending' = Pending
  BY <1>2, DeliveredStays DEF Pending
<1>11. /\ \A k \in 0 .. Len(messages) : Flow(WrittenSizes', k) = Flow(WrittenSizes, k)
       /\ BeginsWith(Flow(WrittenSizes', Len(messages')), Flow(WrittenSizes, Len(messages)))
  BY <1>1, <1>6, <1>8, SizesGrow
<1>12. ToServerInv'
  <2>1. up' => Numbered'
    BY <1>1, <1>2 DEF ToServerInv, Numbered
  <2>2. PICK taken \in 0 .. Len(messages) : Taken(taken)
    BY <1>1 DEF ToServerInv
  <2>3. taken \in Nat /\ taken <= Len(messages) /\ taken \in 0 .. Len(messages')
    BY <1>1, <1>6
  <2>4. Queued(Append(queue, Data(n)), taken, n)
    BY <1>1, <1>3, <2>2, <2>3, QueuedData DEF Taken
  <2>5. Queued(queue', taken, n)
    <3>1. Append(queue, Data(n)) \in Seq(Entry)
      BY <1>3
    <3>2. Queued(Append(Append(queue, Data(n)), Flush("flush")), taken, n)
      BY <2>4, <3>1, QueuedOther
    <3> QED
      BY <1>4, <2>4, <3>2
  <2>6. Taken(taken)'
    BY <1>2, <1>6, <1>10, <1>11, <2>2, <2>5 DEF Taken
  <2> QED
    BY <2>1, <2>3, <2>6 DEF ToServerInv
<1>13. ServerHasPrefix'
  <2>1. Delivered \in Seq(Byte)
    BY <1>1, DeliveredType
  <2> QED
    BY <1>1, <1>10, <1>11, <2>1, BeginsWithTransitive DEF ServerHasPrefix
<1>14. Promised
  <2>1. BeginsWith(Delivered', Delivered)
    BY <1>1, <1>10, DeliveredType, BeginsWithSelf
  <2>2. \A k \in 1 .. Len(promise') : promise'[k] = "resolved" => k <= Len(promise) /\ promise[k] = "resolved"
    BY <1>1, <1>7
  <2>3. \A k \in 1 .. Len(promise) : promise[k] = "resolved" => promise'[k] = "resolved"
    BY <1>7
  <2>4. Len(messages) <= Len(messages')
    BY <1>1, <1>6
  <2> QED
    BY <1>2, <1>6, <1>10, <2>1, <2>2, <2>3, <2>4 DEF Promised
<1> QED
  BY <1>8, <1>9, <1>12, <1>13, <1>14 DEF ServerInv

\* A flush is put behind everything: DelayFires, Close, CloseEnds.
LEMMA FlushKeeps ==
  ASSUME ServerInv, NEW k \in {"flush", "close", "reject"}, queue' = Append(queue, Flush(k)),
         UNCHANGED <<messages, promise, loop, callbacks, rest, buffer, segment, purpose,
                     nonce, wire, up, readNonce, read>>
  PROVE  ServerInv' /\ Promised
<1>1. SenderTypeOK /\ SenderShape /\ ToServerInv /\ ServerHasPrefix
  BY DEF ServerInv
<1>2. queue \in Seq(Entry) /\ queue' \in Seq(Entry)
  BY <1>1, EntryType, AppendProperties DEF SenderTypeOK
<1>3. SenderTypeOK'
  BY <1>1, <1>2 DEF SenderTypeOK
<1>4. SenderShape'
  BY <1>1 DEF SenderShape
<1>5. Delivered' = Delivered /\ Pending' = Pending /\ WrittenSizes' = WrittenSizes
  BY DeliveredStays DEF Pending, WrittenSizes
<1>6. ToServerInv'
  <2>1. up' => Numbered'
    BY <1>1 DEF ToServerInv, Numbered
  <2>2. PICK taken \in 0 .. Len(messages) : Taken(taken)
    BY <1>1 DEF ToServerInv
  <2>3. Queued(queue', taken, Len(messages))
    BY <1>2, <2>2, QueuedOther DEF Taken
  <2>4. Taken(taken)'
    BY <1>5, <2>2, <2>3 DEF Taken
  <2> QED
    BY <2>1, <2>4 DEF ToServerInv
<1>7. ServerHasPrefix'
  BY <1>1, <1>5 DEF ServerHasPrefix
<1>8. Promised
  BY <1>1, PromisedQuietly
<1> QED
  BY <1>3, <1>4, <1>6, <1>7, <1>8 DEF ServerInv

\* What is no message is taken from the queue: TakeFlush, TakeRejection.
LEMMA OtherKeeps ==
  ASSUME ServerInv, queue # <<>>, Head(queue).kind # "data", queue' = Tail(queue),
         UNCHANGED <<messages, promise, callbacks, rest, nonce, wire, up, readNonce, read>>,
         loop' \in {"waiting", "writing", "ended"}, purpose' \in {"full", "flush", "close"},
         buffer' \in Seq(Byte), segment' \in Seq(Byte), SenderShape', Pending' = Pending
  PROVE  ServerInv' /\ Promised
<1>1. SenderTypeOK /\ SenderShape /\ ToServerInv /\ ServerHasPrefix
  BY DEF ServerInv
<1>2. queue \in Seq(Entry) /\ queue' \in Seq(Entry) /\ Len(messages) \in Nat
  BY <1>1, HeadTailProperties DEF SenderTypeOK
<1>3. SenderTypeOK'
  BY <1>1, <1>2 DEF SenderTypeOK
<1>4. Delivered' = Delivered /\ WrittenSizes' = WrittenSizes
  BY DeliveredStays DEF WrittenSizes
<1>5. ToServerInv'
  <2>1. up' => Numbered'
    BY <1>1 DEF ToServerInv, Numbered
  <2>2. PICK taken \in 0 .. Len(messages) : Taken(taken)
    BY <1>1 DEF ToServerInv
  <2>3. Queued(queue', taken, Len(messages))
    <3>1. taken \in Nat
      BY <1>2
    <3> QED
      BY <1>2, <2>2, <3>1, QueuedHead DEF Taken
  <2>4. Taken(taken)'
    BY <1>4, <2>2, <2>3 DEF Taken
  <2> QED
    BY <2>1, <2>4 DEF ToServerInv
<1>6. ServerHasPrefix'
  BY <1>1, <1>4 DEF ServerHasPrefix
<1>7. Promised
  BY <1>1, PromisedQuietly
<1> QED
  BY <1>3, <1>5, <1>6, <1>7 DEF ServerInv

\* The end of a delay is taken from the queue.
LEMMA TakeFlushKeeps ==
  ASSUME ServerInv, TakeFlush, UNCHANGED <<readNonce, read>>
  PROVE  ServerInv' /\ Promised
<1>1. /\ loop = "waiting" /\ queue # <<>> /\ Head(queue).kind \in {"flush", "close"}
      /\ Head(queue).kind # "data" /\ queue' = Tail(queue)
      /\ UNCHANGED <<messages, promise, callbacks, rest, nonce, wire, up, readNonce, read>>
  BY DEF TakeFlush
<1>2. /\ rest = <<>> /\ rest' = <<>> /\ Len(buffer) < SegSize
      /\ buffer \in Seq(Byte) /\ segment \in Seq(Byte) /\ purpose \in {"full", "flush", "close"}
  BY <1>1 DEF ServerInv, SenderShape, SenderTypeOK
<1>3. CASE buffer # <<>>
  <2>1. segment' = buffer /\ purpose' = Head(queue).kind /\ buffer' = <<>> /\ loop' = "writing"
    BY <1>3 DEF TakeFlush, Write
  <2>2. Pending' = Pending
    BY <1>1, <1>2, <2>1, ConcatEmptySeq DEF Pending
  <2>3. SenderShape'
    BY <1>2, <2>1 DEF SenderShape
  <2>4. buffer' \in Seq(Byte) /\ purpose' \in {"full", "flush", "close"}
    BY <1>1, <2>1, EmptySeq
  <2> QED
    BY <1>1, <1>2, <2>1, <2>2, <2>3, <2>4, OtherKeeps
<1>4. CASE buffer = <<>>
  <2>1. UNCHANGED <<loop, buffer, segment, purpose>>
    BY <1>4 DEF TakeFlush
  <2>2. Pending' = Pending /\ SenderShape'
    BY <1>1, <1>2, <2>1 DEF Pending, SenderShape
  <2> QED
    BY <1>1, <1>2, <2>1, <2>2, OtherKeeps
<1> QED
  BY <1>3, <1>4

\* The sender is rejected.
LEMMA TakeRejectionKeeps ==
  ASSUME ServerInv, TakeRejection, UNCHANGED <<readNonce, read>>
  PROVE  ServerInv' /\ Promised
<1>1. /\ loop = "waiting" /\ queue # <<>> /\ Head(queue).kind # "data" /\ queue' = Tail(queue)
      /\ loop' = "ended"
      /\ UNCHANGED <<messages, promise, callbacks, rest, buffer, segment, purpose, nonce, wire,
                     up, readNonce, read>>
  BY DEF TakeRejection
<1>2. Pending' = Pending /\ SenderShape'
  BY <1>1 DEF Pending, SenderShape, ServerInv
<1>3. buffer' \in Seq(Byte) /\ segment' \in Seq(Byte) /\ purpose' \in {"full", "flush", "close"}
  BY <1>1 DEF ServerInv, SenderTypeOK
<1> QED
  BY <1>1, <1>2, <1>3, OtherKeeps

\* The next message is taken.
LEMMA TakeDataKeeps ==
  ASSUME ServerInv, TakeData, UNCHANGED <<readNonce, read>>
  PROVE  ServerInv' /\ Promised
<1>0. PICK n : n = Head(queue).message
  OBVIOUS
<1>1. SenderTypeOK /\ SenderShape /\ ToServerInv /\ ServerHasPrefix
  BY DEF ServerInv
<1>2. /\ loop = "waiting" /\ queue # <<>> /\ Head(queue).kind = "data" /\ queue' = Tail(queue)
      /\ callbacks' = callbacks \cup {n} /\ Fill(BytesOf(n))
      /\ UNCHANGED <<messages, promise, nonce, wire, up, readNonce, read>>
  BY <1>0 DEF TakeData
<1>3. queue \in Seq(Entry) /\ queue' \in Seq(Entry) /\ Len(messages) \in Nat
      /\ buffer \in Seq(Byte) /\ Len(buffer) < SegSize
  BY <1>1, <1>2, HeadTailProperties DEF SenderTypeOK, SenderShape
<1>4. PICK taken \in 0 .. Len(messages) : Taken(taken)
  BY <1>1 DEF ToServerInv
<1>5. n = taken + 1 /\ n \in 1 .. Len(messages) /\ Queued(queue', n, Len(messages))
      /\ taken \in Nat
  <2>1. taken \in Nat
    BY <1>3
  <2>2. n = taken + 1 /\ taken + 1 <= Len(messages) /\ Queued(Tail(queue), taken + 1, Len(messages))
    BY <1>0, <1>2, <1>3, <1>4, <2>1, QueuedHead DEF Taken
  <2> QED
    BY <1>2, <1>3, <2>1, <2>2
<1>6. /\ WrittenSizes \in Seq(Nat) /\ Len(WrittenSizes) = Len(messages)
      /\ WrittenSizes[n] \in Nat /\ BytesOf(n) = Message(n, WrittenSizes[n])
  BY <1>1, <1>5, SizesType
<1>7. /\ BytesOf(n) \in Seq(Byte)
      /\ \A k \in 1 .. Len(BytesOf(n)) : BytesOf(n)[k][1] = n
  <2>1. n \in Nat
    BY <1>5
  <2>2. /\ Message(n, WrittenSizes[n]) \in Seq(Byte)
        /\ Len(Message(n, WrittenSizes[n])) = WrittenSizes[n]
        /\ \A k \in 1 .. WrittenSizes[n] : Message(n, WrittenSizes[n])[k] = <<n, k>>
    BY <1>6, <2>1, MessageType
  <2> QED
    BY <1>6, <2>2
<1>8. /\ rest' \in Seq(Byte) /\ buffer' \in Seq(Byte) /\ segment' \in Seq(Byte)
      /\ loop' \in {"waiting", "writing"} /\ purpose' \in {"full", "flush", "close"}
      /\ SenderShape' /\ Pending' = buffer \o BytesOf(n)
      /\ \A i \in 1 .. Len(rest') : \E j \in 1 .. Len(BytesOf(n)) : rest'[i] = BytesOf(n)[j]
  BY <1>1, <1>2, <1>3, <1>7, FillEffect
<1>9. SenderTypeOK'
  BY <1>1, <1>2, <1>3, <1>8 DEF SenderTypeOK
<1>10. Delivered' = Delivered /\ WrittenSizes' = WrittenSizes /\ Delivered \in Seq(Byte)
  BY <1>1, <1>2, DeliveredStays, DeliveredType DEF WrittenSizes
<1>11. up => Delivered \o (buffer \o BytesOf(n)) = Flow(WrittenSizes, n)
  <2>1. Flow(WrittenSizes, taken + 1)
          = Flow(WrittenSizes, taken) \o Message(taken + 1, WrittenSizes[taken + 1])
    <3>1. taken \in 0 .. Len(WrittenSizes) /\ taken < Len(WrittenSizes)
      BY <1>3, <1>5, <1>6
    <3> QED
      BY <1>6, <3>1, FlowNext
  <2>2. up => Delivered \o buffer = Flow(WrittenSizes, taken)
    BY <1>2, <1>4 DEF Taken, Pending
  <2>3. (Delivered \o buffer) \o BytesOf(n) = Delivered \o (buffer \o BytesOf(n))
    BY <1>3, <1>7, <1>10, ConcatAssociative
  <2> QED
    BY <1>5, <1>6, <2>1, <2>2, <2>3
<1>12. ToServerInv'
  <2>1. up' => Numbered'
    BY <1>1, <1>2 DEF ToServerInv, Numbered
  <2>2. callbacks' \subseteq 1 .. n
    BY <1>2, <1>4, <1>5 DEF Taken
  <2>3. \A i \in 1 .. Len(rest') : rest'[i][1] = n /\ n > 0
    <3>1. n > 0
      BY <1>5
    <3> QED
      BY <1>7, <1>8, <3>1
  <2>4. up' => Delivered' \o Pending' = Flow(WrittenSizes', n)
    BY <1>2, <1>8, <1>10, <1>11
  <2>5. Taken(n)'
    BY <1>2, <1>5, <2>2, <2>3, <2>4 DEF Taken
  <2>6. n \in 0 .. Len(messages')
    BY <1>2, <1>3, <1>5
  <2> QED
    BY <2>1, <2>5, <2>6 DEF ToServerInv
<1>13. ServerHasPrefix'
  BY <1>1, <1>2, <1>10 DEF ServerHasPrefix
<1>14. Promised
  BY <1>1, <1>2, PromisedQuietly
<1> QED
  BY <1>8, <1>9, <1>12, <1>13, <1>14 DEF ServerInv

\* After a write there is in the sender's hands what was left over.
LEMMA AfterWriteEffect ==
  ASSUME SenderTypeOK, SenderShape, loop = "writing", AfterWrite
  PROVE  /\ rest' \in Seq(Byte) /\ buffer' \in Seq(Byte) /\ segment' \in Seq(Byte)
         /\ loop' \in {"waiting", "writing"} /\ purpose' \in {"full", "flush", "close"}
         /\ SenderShape' /\ Pending' = rest
         /\ callbacks' = IF rest # <<>> THEN {rest[1][1]} ELSE {}
         /\ \A i \in 1 .. Len(rest') : \E j \in 1 .. Len(rest) : rest'[i] = rest[j]
<1>1. /\ rest \in Seq(Byte) /\ buffer = <<>> /\ segment \in Seq(Byte)
      /\ purpose \in {"full", "flush", "close"} /\ (rest # <<>> => purpose = "full")
  BY DEF SenderTypeOK, SenderShape
<1>2. Len(buffer) < SegSize
  BY <1>1, SenderAssumption
<1>3. CASE rest # <<>>
  <2>1. callbacks' = {rest[1][1]} /\ Fill(rest)
    BY <1>1, <1>3 DEF AfterWrite
  <2>2. buffer \o rest = rest
    BY <1>1, ConcatEmptySeq
  <2>3. /\ rest' \in Seq(Byte) /\ buffer' \in Seq(Byte) /\ segment' \in Seq(Byte)
        /\ loop' \in {"waiting", "writing"} /\ purpose' \in {"full", "flush", "close"}
        /\ SenderShape'
        /\ Pending' = buffer \o rest
        /\ \A i \in 1 .. Len(rest') : \E j \in 1 .. Len(rest) : rest'[i] = rest[j]
    BY <1>1, <1>2, <2>1, FillEffect
  <2> QED
    BY <1>3, <2>1, <2>2, <2>3
<1>4. CASE rest = <<>>
  <2>1. /\ callbacks' = {} /\ loop' = "waiting"
        /\ UNCHANGED <<rest, buffer, segment, purpose>>
    BY <1>4 DEF AfterWrite
  <2>2. Pending' = rest /\ SenderShape'
    BY <1>1, <1>2, <1>4, <2>1 DEF Pending, SenderShape
  <2> QED
    BY <1>1, <1>4, <2>1, <2>2
<1> QED
  BY <1>3, <1>4

\* Of the messages that are not left over in part, every byte has been handed over.
LEMMA SentIsDelivered ==
  ASSUME NEW sizes \in Seq(Nat), NEW taken \in 0 .. Len(sizes), NEW D \in Seq(Byte),
         NEW over \in Seq(Byte), D \o over = Flow(sizes, taken),
         \A i \in 1 .. Len(over) : over[i][1] = taken,
         NEW n \in 1 .. taken, over # <<>> => n # taken,
         NEW k \in 1 .. sizes[n]
  PROVE  \E i \in 1 .. Len(D) : D[i] = <<n, k>>
<1>1. PICK i \in 1 .. Len(D \o over) : (D \o over)[i] = <<n, k>>
  BY FlowHolds
<1>2. Len(D) \in Nat /\ Len(over) \in Nat /\ Len(D \o over) = Len(D) + Len(over)
  BY LenProperties, ConcatProperties
<1>3. CASE i <= Len(D)
  <2>1. i \in 1 .. Len(D)
    BY <1>2, <1>3
  <2>2. (D \o over)[i] = D[i]
    BY <1>1, <1>2, <1>3, ConcatProperties
  <2> QED
    BY <1>1, <2>1, <2>2
<1>4. CASE ~ (i <= Len(D))
  <2>1. i - Len(D) \in 1 .. Len(over) /\ i \in 1 .. Len(D) + Len(over)
    BY <1>1, <1>2, <1>4
  <2>2. (D \o over)[i] = over[i - Len(D)]
    BY <1>2, <1>4, <2>1, ConcatProperties
  <2>3. over # <<>>
    BY <1>2, <2>1
  <2>4. over[i - Len(D)][1] = taken
    BY <2>1
  <2>5. <<n, k>>[1] = n
    OBVIOUS
  <2> QED
    BY <1>1, <2>2, <2>3, <2>4, <2>5
<1> QED
  BY <1>3, <1>4

\* A segment more on the wire is handed over behind all others.
LEMMA WireGrows ==
  ASSUME SenderTypeOK, SenderTypeOK', Numbered, nonce' = nonce + 1,
         wire' = Append(wire, [nonce |-> nonce, bytes |-> segment]), UNCHANGED <<read, readNonce>>
  PROVE  Numbered' /\ Delivered' = Delivered \o segment
<1> DEFINE piece == [nonce |-> nonce, bytes |-> segment]
<1>1. /\ wire \in Seq(Piece) /\ segment \in Seq(Byte) /\ nonce \in Nat /\ readNonce \in Nat
      /\ read \in Seq(Byte)
  BY DEF SenderTypeOK
<1>2. piece \in Piece /\ piece.nonce = nonce /\ piece.bytes = segment
  BY <1>1 DEF Piece
<1> HIDE DEF piece
<1>3. wire' = Append(wire, piece)
  BY DEF piece
<1>4. /\ wire' \in Seq(Piece) /\ Len(wire') = Len(wire) + 1 /\ Len(wire) \in Nat
      /\ wire'[Len(wire) + 1] = piece /\ \A i \in 1 .. Len(wire) : wire'[i] = wire[i]
  BY <1>1, <1>2, <1>3, AppendProperties, LenProperties
<1>5. Numbered'
  <2>1. nonce' = readNonce' + Len(wire')
    BY <1>1, <1>4 DEF Numbered
  <2>2. ASSUME NEW i \in 1 .. Len(wire')
        PROVE  wire'[i].nonce = readNonce' + i - 1
    <3>1. CASE i = Len(wire) + 1
      BY <1>1, <1>2, <1>4, <3>1 DEF Numbered
    <3>2. CASE i # Len(wire) + 1
      BY <1>1, <1>4, <3>2 DEF Numbered
    <3> QED
      BY <3>1, <3>2
  <2> QED
    BY <2>1, <2>2 DEF Numbered
<1>6. Segments \in Seq(Seq(Byte)) /\ Len(Segments) = Len(wire) /\ FlattenSeq(Segments) \in Seq(Byte)
  BY DeliveredType
<1>7. Segments' \in Seq(Seq(Byte)) /\ Len(Segments') = Len(wire')
  <2>1. wire' \in Seq(Piece) /\ readNonce' \in Nat
    BY <1>1, <1>4
  <2> QED
    BY <2>1, OpenedType DEF Segments
<1>8. \A i \in 1 .. Len(wire) : Segments[i] = wire[i].bytes
  BY SegmentsOpen
<1>9. ASSUME NEW i \in 1 .. Len(wire')
      PROVE  Segments'[i] = wire'[i].bytes
  <2>1. i \in DOMAIN wire'
    BY <1>4
  <2> QED
    BY <1>5, <2>1 DEF Segments, Opened, Numbered
<1>10. Segments' = Append(Segments, segment)
  <2>1. /\ Append(Segments, segment) \in Seq(Seq(Byte))
        /\ Len(Append(Segments, segment)) = Len(wire) + 1
        /\ Append(Segments, segment)[Len(wire) + 1] = segment
        /\ \A i \in 1 .. Len(wire) : Append(Segments, segment)[i] = Segments[i]
    BY <1>1, <1>6, AppendProperties
  <2>2. ASSUME NEW i \in 1 .. Len(wire')
        PROVE  Segments'[i] = Append(Segments, segment)[i]
    <3>1. CASE i = Len(wire) + 1
      BY <1>2, <1>4, <1>9, <2>1, <3>1
    <3>2. CASE i # Len(wire) + 1
      BY <1>4, <1>8, <1>9, <2>1, <3>2
    <3> QED
      BY <3>1, <3>2
  <2> QED
    BY <1>4, <1>7, <2>1, <2>2, SeqEqual
<1>11. Delivered' = read \o (FlattenSeq(Segments) \o segment)
  BY <1>1, <1>6, <1>10, FlattenAppend DEF Delivered
<1>12. Delivered' = Delivered \o segment
  <2>1. PICK all : all = FlattenSeq(Segments)
    OBVIOUS
  <2>2. read \o (all \o segment) = (read \o all) \o segment
    <3>1. read \in Seq(Byte) /\ all \in Seq(Byte) /\ segment \in Seq(Byte)
      BY <1>1, <1>6, <2>1
    <3> QED
      BY <3>1, ConcatAssociative
  <2> QED
    BY <1>11, <2>1, <2>2 DEF Delivered
<1> QED
  BY <1>5, <1>12

\* Only those who are told something hear of it, and only once.
LEMMA SettleEffect ==
  ASSUME SenderTypeOK, NEW ns, NEW outcome \in {"resolved", "rejected"}, Settle(ns, outcome)
  PROVE  /\ promise' \in Seq({"pending", "resolved", "rejected"}) /\ Len(promise') = Len(promise)
         /\ \A n \in 1 .. Len(promise) : promise[n] = "resolved" => promise'[n] = "resolved"
         /\ \A n \in 1 .. Len(promise) :
              promise'[n] = "resolved" => promise[n] = "resolved" \/ (n \in ns /\ outcome = "resolved")
<1>1. /\ promise \in Seq({"pending", "resolved", "rejected"}) /\ Len(promise) \in Nat
      /\ DOMAIN promise = 1 .. Len(promise)
      /\ \A n \in 1 .. Len(promise) : promise[n] \in {"pending", "resolved", "rejected"}
  BY LenProperties, ElementOfSeq DEF SenderTypeOK
<1>2. promise' = [n \in 1 .. Len(promise) |->
                    IF n \in ns /\ promise[n] = "pending" THEN outcome ELSE promise[n]]
  BY <1>1 DEF Settle
<1>3. \A n \in 1 .. Len(promise) :
        promise'[n] = IF n \in ns /\ promise[n] = "pending" THEN outcome ELSE promise[n]
  BY <1>2
<1>4. promise' \in Seq({"pending", "resolved", "rejected"}) /\ Len(promise') = Len(promise)
  BY <1>1, <1>2
<1> QED
  BY <1>3, <1>4

\* A segment has been written: the messages that went with it whole are the ones whose
\* promises are resolved.
LEMMA WriteSucceedsKeeps ==
  ASSUME ServerInv, WriteSucceeds, UNCHANGED <<readNonce, read>>
  PROVE  ServerInv' /\ Promised
<1>1. SenderTypeOK /\ SenderShape /\ ToServerInv /\ ServerHasPrefix
  BY DEF ServerInv
<1>2. /\ loop = "writing" /\ nonce' = nonce + 1
      /\ wire' = IF up THEN Append(wire, [nonce |-> nonce, bytes |-> segment]) ELSE wire
      /\ Settle(SentWhole, "resolved") /\ AfterWrite
      /\ UNCHANGED <<messages, queue, timer, up>>
  BY DEF WriteSucceeds, IncreaseNonce
<1>3. /\ rest' \in Seq(Byte) /\ buffer' \in Seq(Byte) /\ segment' \in Seq(Byte)
      /\ loop' \in {"waiting", "writing"} /\ purpose' \in {"full", "flush", "close"}
      /\ SenderShape' /\ Pending' = rest
      /\ callbacks' = IF rest # <<>> THEN {rest[1][1]} ELSE {}
      /\ \A i \in 1 .. Len(rest') : \E j \in 1 .. Len(rest) : rest'[i] = rest[j]
  BY <1>1, <1>2, AfterWriteEffect
<1>4. /\ promise' \in Seq({"pending", "resolved", "rejected"}) /\ Len(promise') = Len(promise)
      /\ \A n \in 1 .. Len(promise) : promise[n] = "resolved" => promise'[n] = "resolved"
      /\ \A n \in 1 .. Len(promise) :
           promise'[n] = "resolved" => promise[n] = "resolved" \/ n \in SentWhole
  BY <1>1, <1>2, SettleEffect
<1>5. /\ wire \in Seq(Piece) /\ segment \in Seq(Byte) /\ nonce \in Nat /\ rest \in Seq(Byte)
      /\ Len(messages) \in Nat /\ Len(promise) = Len(messages) /\ Len(promise) \in Nat
      /\ buffer = <<>> /\ (rest # <<>> => purpose = "full")
  BY <1>1, <1>2 DEF SenderTypeOK, SenderShape
<1>6. nonce' \in Nat /\ wire' \in Seq(Piece)
  <2>1. [nonce |-> nonce, bytes |-> segment] \in Piece
    BY <1>5 DEF Piece
  <2> QED
    BY <1>2, <1>5, <2>1, AppendProperties
<1>7. SenderTypeOK'
  BY <1>1, <1>2, <1>3, <1>4, <1>6 DEF SenderTypeOK
<1>8. /\ WrittenSizes' = WrittenSizes /\ WrittenSizes \in Seq(Nat)
      /\ Len(WrittenSizes) = Len(messages)
      /\ \A n \in 1 .. Len(messages) : WrittenSizes[n] = messages[n].size
  BY <1>1, <1>2, SizesType DEF WrittenSizes
<1>9. Delivered \in Seq(Byte)
  BY <1>1, DeliveredType
<1>10. ~ up => Delivered' = Delivered
  BY <1>2, DeliveredStays
<1>11. up => Numbered' /\ Delivered' = Delivered \o segment
  BY <1>1, <1>2, <1>7, WireGrows DEF ToServerInv
<1>12. Delivered' \in Seq(Byte) /\ BeginsWith(Delivered', Delivered)
  <2>1. CASE up
    BY <1>5, <1>9, <1>11, <2>1, ConcatProperties DEF BeginsWith
  <2>2. CASE ~ up
    BY <1>9, <1>10, <2>2, BeginsWithSelf
  <2> QED
    BY <2>1, <2>2
<1>13. PICK taken \in 0 .. Len(messages) : Taken(taken)
  BY <1>1 DEF ToServerInv
<1>14. up => Delivered' \o rest = Flow(WrittenSizes, taken)
  <2>1. Delivered \o (segment \o rest) = (Delivered \o segment) \o rest
    BY <1>5, <1>9, ConcatAssociative
  <2>2. Pending = segment \o rest
    BY <1>2 DEF Pending
  <2> QED
    BY <1>11, <1>13, <2>1, <2>2 DEF Taken
<1>15. ToServerInv'
  <2>1. up' => Numbered'
    BY <1>2, <1>11
  <2>2. \A i \in 1 .. Len(rest') : rest'[i][1] = taken /\ taken > 0
    BY <1>3, <1>13 DEF Taken
  <2>3. callbacks' \subseteq 1 .. taken
    <3>1. CASE rest # <<>>
      <4>1. 1 \in 1 .. Len(rest)
        BY <1>5, <3>1, EmptySeq, LenProperties
      <4>2. rest[1][1] = taken /\ taken > 0
        BY <1>13, <4>1 DEF Taken
      <4> QED
        BY <1>3, <1>5, <3>1, <4>2
    <3>2. CASE rest = <<>>
      BY <1>3, <3>2
    <3> QED
      BY <3>1, <3>2
  <2>4. up' => Delivered' \o Pending' = Flow(WrittenSizes', taken)
    BY <1>2, <1>3, <1>8, <1>14
  <2>5. Taken(taken)'
    BY <1>2, <1>13, <2>2, <2>3, <2>4 DEF Taken
  <2> QED
    BY <1>2, <2>1, <2>5 DEF ToServerInv
<1>16. ServerHasPrefix'
  <2>1. SUFFICES BeginsWith(Flow(WrittenSizes, Len(messages)), Delivered')
    BY <1>2, <1>8 DEF ServerHasPrefix
  <2>2. CASE up
    <3>1. BeginsWith(Flow(WrittenSizes, taken), Delivered')
      BY <1>5, <1>14, <2>2 DEF BeginsWith
    <3>2. BeginsWith(Flow(WrittenSizes, Len(messages)), Flow(WrittenSizes, taken))
      BY <1>8, FlowBegins
    <3> QED
      BY <1>12, <3>1, <3>2, BeginsWithTransitive
  <2>3. CASE ~ up
    BY <1>1, <1>10, <2>3 DEF ServerHasPrefix
  <2> QED
    BY <2>2, <2>3
<1>17. ASSUME up, NEW n \in 1 .. Len(promise'), promise'[n] = "resolved", promise[n] # "resolved",
              NEW k \in 1 .. messages'[n].size
       PROVE  \E i \in 1 .. Len(Delivered') : Delivered'[i] = <<n, k>>
  <2>1. n \in SentWhole /\ n \in 1 .. Len(messages)
    BY <1>4, <1>5, <1>17
  <2>2. n \in 1 .. taken /\ (rest # <<>> => n # taken)
    <3>1. n \in callbacks
      BY <2>1 DEF SentWhole
    <3>2. ASSUME rest # <<>>
          PROVE  n # taken
      <4>1. 1 \in 1 .. Len(rest)
        BY <1>5, <3>2, EmptySeq, LenProperties
      <4>2. rest[1][1] = taken
        BY <1>13, <4>1 DEF Taken
      <4> QED
        BY <1>5, <2>1, <3>2, <4>2 DEF SentWhole
    <3> QED
      BY <1>13, <3>1, <3>2 DEF Taken
  <2>3. k \in 1 .. WrittenSizes[n]
    BY <1>2, <1>8, <1>17, <2>1
  <2>4. \A i \in 1 .. Len(rest) : rest[i][1] = taken
    BY <1>13 DEF Taken
  <2>5. taken \in 0 .. Len(WrittenSizes) /\ Delivered' \o rest = Flow(WrittenSizes, taken)
    BY <1>8, <1>14, <1>17
  <2> HIDE DEF Delivered
  <2>6. PICK D : D = Delivered'
    OBVIOUS
  <2>7. D \in Seq(Byte) /\ D \o rest = Flow(WrittenSizes, taken)
    BY <1>12, <2>5, <2>6
  <2>8. \E i \in 1 .. Len(D) : D[i] = <<n, k>>
    BY <1>5, <1>8, <2>2, <2>3, <2>4, <2>5, <2>7, SentIsDelivered
  <2> QED
    BY <2>6, <2>8
<1>18. Promised
  <2>1. up => \A n \in 1 .. Len(promise') :
                promise'[n] = "resolved" => \/ n <= Len(promise) /\ promise[n] = "resolved"
                                            \/ \A k \in 1 .. messages'[n].size :
                                                 \E i \in 1 .. Len(Delivered') : Delivered'[i] = <<n, k>>
    <3>1. \A n \in 1 .. Len(promise') : n <= Len(promise)
      BY <1>4, <1>5
    <3> QED
      BY <1>17, <3>1, Zenon
  <2>2. Len(messages) <= Len(messages')
    BY <1>2, <1>5
  <2> QED
    BY <1>2, <1>4, <1>10, <1>12, <2>1, <2>2 DEF Promised
<1> QED
  BY <1>3, <1>7, <1>15, <1>16, <1>18 DEF ServerInv

\* Nobody is told that a write was successful that was not.
LEMMA WriteFailsKeeps ==
  ASSUME ServerInv, WriteFails, UNCHANGED <<readNonce, read>>
  PROVE  ServerInv' /\ Promised
<1>1. SenderTypeOK /\ SenderShape /\ ToServerInv /\ ServerHasPrefix
  BY DEF ServerInv
<1>2. /\ loop = "writing" /\ up' = FALSE /\ Settle(callbacks, "rejected") /\ AfterWrite
      /\ UNCHANGED <<messages, queue, timer, nonce, wire>>
  BY DEF WriteFails
<1>3. /\ rest' \in Seq(Byte) /\ buffer' \in Seq(Byte) /\ segment' \in Seq(Byte)
      /\ loop' \in {"waiting", "writing"} /\ purpose' \in {"full", "flush", "close"}
      /\ SenderShape'
      /\ callbacks' = IF rest # <<>> THEN {rest[1][1]} ELSE {}
      /\ \A i \in 1 .. Len(rest') : \E j \in 1 .. Len(rest) : rest'[i] = rest[j]
  BY <1>1, <1>2, AfterWriteEffect
<1>4. /\ promise' \in Seq({"pending", "resolved", "rejected"}) /\ Len(promise') = Len(promise)
      /\ \A n \in 1 .. Len(promise) : promise[n] = "resolved" => promise'[n] = "resolved"
      /\ \A n \in 1 .. Len(promise) : promise'[n] = "resolved" => promise[n] = "resolved"
  BY <1>1, <1>2, SettleEffect
<1>5. Len(messages) \in Nat /\ Len(promise) = Len(messages) /\ rest \in Seq(Byte) /\ up \in BOOLEAN
  BY <1>1 DEF SenderTypeOK
<1>6. up' \in BOOLEAN
  BY <1>2, Zenon
<1>7. SenderTypeOK'
  BY <1>1, <1>2, <1>3, <1>4, <1>6 DEF SenderTypeOK
<1>8. Delivered' = Delivered /\ WrittenSizes' = WrittenSizes
  BY <1>2, DeliveredStays DEF WrittenSizes
<1>9. ToServerInv'
  <2>1. PICK taken \in 0 .. Len(messages) : Taken(taken)
    BY <1>1 DEF ToServerInv
  <2>2. \A i \in 1 .. Len(rest') : rest'[i][1] = taken /\ taken > 0
    BY <1>3, <2>1 DEF Taken
  <2>3. callbacks' \subseteq 1 .. taken
    <3>1. CASE rest # <<>>
      <4>1. 1 \in 1 .. Len(rest)
        BY <1>5, <3>1, EmptySeq, LenProperties
      <4>2. rest[1][1] = taken /\ taken > 0
        BY <2>1, <4>1 DEF Taken
      <4> QED
        BY <1>3, <1>5, <3>1, <4>2
    <3>2. CASE rest = <<>>
      BY <1>3, <3>2
    <3> QED
      BY <3>1, <3>2
  <2>4. Taken(taken)'
    BY <1>2, <2>1, <2>2, <2>3 DEF Taken
  <2> QED
    BY <1>2, <2>4 DEF ToServerInv
<1>10. ServerHasPrefix'
  BY <1>1, <1>2, <1>8 DEF ServerHasPrefix
<1>11. Promised
  <2>1. BeginsWith(Delivered', Delivered)
    BY <1>1, <1>8, DeliveredType, BeginsWithSelf
  <2>2. Len(messages) <= Len(messages')
    BY <1>2, <1>5
  <2>4. up' \in {up, FALSE}
    BY <1>2, Zenon
  <2>3. \A n \in 1 .. Len(promise') :
          promise'[n] = "resolved" => n <= Len(promise) /\ promise[n] = "resolved"
    BY <1>4, <1>5
  <2> QED
    BY <1>2, <1>4, <1>8, <2>1, <2>2, <2>3, <2>4, Zenon DEF Promised
<1> QED
  BY <1>3, <1>7, <1>9, <1>10, <1>11 DEF ServerInv

\* The connection breaks, or something happens elsewhere.
LEMMA RestKeeps ==
  ASSUME ServerInv, up' \in {up, FALSE},
         UNCHANGED <<messages, promise, queue, loop, callbacks, rest, buffer, segment, purpose,
                     nonce, wire, readNonce, read>>
  PROVE  ServerInv' /\ Promised
<1>1. SenderTypeOK /\ SenderShape /\ ToServerInv /\ ServerHasPrefix
  BY DEF ServerInv
<1>2. up \in BOOLEAN
  BY <1>1 DEF SenderTypeOK
<1>3. up' \in BOOLEAN
  BY <1>2, Zenon
<1>4. SenderTypeOK'
  BY <1>1, <1>3 DEF SenderTypeOK
<1>5. SenderShape'
  BY <1>1 DEF SenderShape
<1>6. Delivered' = Delivered /\ WrittenSizes' = WrittenSizes /\ Pending' = Pending
  BY DeliveredStays DEF WrittenSizes, Pending
<1>7. up' => up
  BY Zenon
<1>8. ToServerInv'
  <2>1. up' => Numbered'
    BY <1>1, <1>7 DEF ToServerInv, Numbered
  <2>2. PICK taken \in 0 .. Len(messages) : Taken(taken)
    BY <1>1 DEF ToServerInv
  <2>3. Taken(taken)'
    BY <1>6, <1>7, <2>2 DEF Taken
  <2> QED
    BY <2>1, <2>3 DEF ToServerInv
<1>9. ServerHasPrefix'
  BY <1>1, <1>6 DEF ServerHasPrefix
<1>10. Promised
  BY <1>1, PromisedQuietly
<1> QED
  BY <1>4, <1>5, <1>8, <1>9, <1>10 DEF ServerInv

\* The server reads a segment: from the wire to what it has read.
LEMMA ServerReadsKeeps ==
  ASSUME ServerInv, ServerReads
  PROVE  ServerInv' /\ Promised
<1>1. SenderTypeOK /\ SenderShape /\ ToServerInv /\ ServerHasPrefix
  BY DEF ServerInv
<1>2. /\ up /\ wire # <<>> /\ wire' = Tail(wire) /\ readNonce' = readNonce + 1
      /\ read' = read \o Opened(Head(wire), readNonce)
      /\ UNCHANGED <<messages, promise, queue, loop, callbacks, rest, buffer, segment, purpose,
                     nonce, up>>
  BY DEF ServerReads
<1>3. wire \in Seq(Piece) /\ readNonce \in Nat /\ read \in Seq(Byte) /\ nonce \in Nat /\ Numbered
      /\ Len(messages) \in Nat
  BY <1>1, <1>2 DEF SenderTypeOK, ToServerInv
<1>4. /\ Len(wire) \in Nat /\ Len(wire') = Len(wire) - 1 /\ 1 \in 1 .. Len(wire) /\ Head(wire) = wire[1]
      /\ wire' \in Seq(Piece)
      /\ \A i \in 1 .. Len(wire') : wire'[i] = wire[i + 1] /\ i + 1 \in 1 .. Len(wire)
  <2> DEFINE t == Tail(wire)
  <2>1. Len(wire) \in Nat /\ Len(wire) # 0
    BY <1>2, <1>3, EmptySeq, LenProperties
  <2>2. /\ Len(t) = Len(wire) - 1 /\ t \in Seq(Piece) /\ Head(wire) = wire[1]
        /\ \A i \in 1 .. Len(t) : t[i] = wire[i + 1]
    BY <1>2, <1>3, HeadTailProperties
  <2> HIDE DEF t
  <2>3. wire' = t
    BY <1>2 DEF t
  <2> QED
    BY <2>1, <2>2, <2>3
<1>5. Segments \in Seq(Seq(Byte)) /\ Len(Segments) = Len(wire)
  BY <1>1, DeliveredType
<1>6. Segments' \in Seq(Seq(Byte)) /\ Len(Segments') = Len(wire')
  <2>1. readNonce' \in Nat
    BY <1>2, <1>3
  <2> QED
    BY <1>4, <2>1, OpenedType DEF Segments
<1>7. PICK h : h = Opened(Head(wire), readNonce)
  OBVIOUS
<1>8. Segments[1] = h /\ h \in Seq(Byte)
  <2>1. Segments[1] = Opened(wire[1], readNonce + 1 - 1)
    BY <1>3, <1>4 DEF Segments
  <2>2. readNonce + 1 - 1 = readNonce
    BY <1>3
  <2>3. Segments[1] = h
    BY <1>4, <1>7, <2>1, <2>2
  <2>4. Segments[1] \in Seq(Byte)
    BY <1>4, <1>5, ElementOfSeq
  <2> QED
    BY <2>3, <2>4
<1>9. PICK tt : tt = Segments'
  OBVIOUS
<1>10. \A i \in 1 .. Len(tt) : tt[i] = Segments[i + 1]
  <2> SUFFICES ASSUME NEW i \in 1 .. Len(tt)
               PROVE  tt[i] = Segments[i + 1]
    OBVIOUS
  <2>1. i \in 1 .. Len(wire') /\ i \in Nat
    BY <1>4, <1>6, <1>9
  <2>2. tt[i] = Opened(wire'[i], readNonce' + i - 1)
    BY <1>4, <1>9, <2>1 DEF Segments
  <2>3. Segments[i + 1] = Opened(wire[i + 1], readNonce + (i + 1) - 1)
    BY <1>3, <1>4, <2>1 DEF Segments
  <2>4. readNonce' + i - 1 = readNonce + (i + 1) - 1
    BY <1>2, <1>3, <2>1
  <2> QED
    BY <1>4, <2>1, <2>2, <2>3, <2>4
<1>11. Segments = <<h>> \o tt
  <2>1. PICK ss : ss = Segments
    OBVIOUS
  <2>2. /\ ss \in Seq(Seq(Byte)) /\ tt \in Seq(Seq(Byte)) /\ Len(ss) = Len(tt) + 1 /\ ss[1] = h
        /\ Len(tt) \in Nat /\ \A i \in 1 .. Len(tt) : tt[i] = ss[i + 1]
    BY <1>4, <1>5, <1>6, <1>8, <1>9, <1>10, <2>1, LenProperties
  <2>3. <<h>> \in Seq(Seq(Byte)) /\ Len(<<h>>) = 1 /\ <<h>>[1] = h
    BY <1>8
  <2>4. /\ <<h>> \o tt \in Seq(Seq(Byte)) /\ Len(<<h>> \o tt) = 1 + Len(tt)
        /\ \A i \in 1 .. 1 + Len(tt) :
             (<<h>> \o tt)[i] = IF i <= 1 THEN <<h>>[i] ELSE tt[i - 1]
    BY <2>2, <2>3, ConcatProperties
  <2>5. ASSUME NEW i \in 1 .. Len(ss)
        PROVE  ss[i] = (<<h>> \o tt)[i]
    <3>1. i \in 1 .. 1 + Len(tt) /\ (i # 1 => i - 1 \in 1 .. Len(tt) /\ i - 1 + 1 = i)
      BY <2>2
    <3>2. CASE i = 1
      BY <2>2, <2>3, <2>4, <3>1, <3>2
    <3>3. CASE i # 1
      <4>1. (<<h>> \o tt)[i] = tt[i - 1]
        BY <2>4, <3>1, <3>3
      <4>2. tt[i - 1] = ss[i]
        <5>1. PICK j \in 1 .. Len(tt) : j = i - 1 /\ j + 1 = i
          BY <3>1, <3>3
        <5>2. tt[j] = ss[j + 1]
          BY <2>2
        <5> QED
          BY <5>1, <5>2
      <4> QED
        BY <4>1, <4>2
    <3> QED
      BY <3>2, <3>3
  <2>6. Len(ss) = Len(<<h>> \o tt)
    BY <2>2, <2>4
  <2> QED
    BY <2>1, <2>2, <2>4, <2>5, <2>6, SeqEqual
<1>12. tt \in Seq(Seq(Byte)) /\ FlattenSeq(tt) \in Seq(Byte)
  BY <1>6, <1>9, FlattenType
<1>13. Delivered' = Delivered
  <2>1. FlattenSeq(Segments) = h \o FlattenSeq(tt)
    BY <1>8, <1>11, <1>12, FlattenPrepend
  <2>2. Delivered' = (read \o h) \o FlattenSeq(tt)
    BY <1>2, <1>7, <1>9 DEF Delivered
  <2>3. (read \o h) \o FlattenSeq(tt) = read \o (h \o FlattenSeq(tt))
    BY <1>3, <1>8, <1>12, ConcatAssociative
  <2> QED
    BY <2>1, <2>2, <2>3 DEF Delivered
<1>14. SenderTypeOK'
  <2>1. read' \in Seq(Byte) /\ readNonce' \in Nat
    BY <1>2, <1>3, <1>7, <1>8, ConcatProperties
  <2> QED
    BY <1>1, <1>2, <1>4, <2>1 DEF SenderTypeOK
<1>15. SenderShape'
  BY <1>1, <1>2 DEF SenderShape
<1>16. WrittenSizes' = WrittenSizes /\ Pending' = Pending
  BY <1>2 DEF WrittenSizes, Pending
<1>17. ToServerInv'
  <2>1. Numbered'
    <3>1. nonce' = readNonce' + Len(wire')
      BY <1>2, <1>3, <1>4 DEF Numbered
    <3>2. \A i \in 1 .. Len(wire') : wire'[i].nonce = readNonce' + i - 1
      BY <1>2, <1>3, <1>4 DEF Numbered
    <3> QED
      BY <3>1, <3>2 DEF Numbered
  <2>2. PICK taken \in 0 .. Len(messages) : Taken(taken)
    BY <1>1 DEF ToServerInv
  <2>3. Taken(taken)'
    BY <1>2, <1>13, <1>16, <2>2 DEF Taken
  <2> QED
    BY <1>2, <2>1, <2>3 DEF ToServerInv
<1>18. ServerHasPrefix'
  BY <1>1, <1>2, <1>13, <1>16 DEF ServerHasPrefix
<1>19. Promised
  <2>1. BeginsWith(Delivered', Delivered)
    BY <1>1, <1>13, DeliveredType, BeginsWithSelf
  <2>2. Len(messages) <= Len(messages')
    BY <1>2, <1>3
  <2>3. \A n \in 1 .. Len(promise') :
          promise'[n] = "resolved" => n <= Len(promise) /\ promise[n] = "resolved"
    BY <1>1, <1>2 DEF SenderTypeOK
  <2> QED
    BY <1>2, <1>13, <2>1, <2>2, <2>3, Zenon DEF Promised
<1> QED
  BY <1>14, <1>15, <1>17, <1>18, <1>19 DEF ServerInv

---------------------------------------------------------------------------
(* The way to the browser.                                                  *)

\* What a step promises of it.
PromisedToBrowser ==
  /\ Len(packages) <= Len(packages')
  /\ \A n \in 1 .. Len(packages) : packages'[n] = packages[n]
  /\ BeginsWith(consumed', consumed)
  /\ ~up => consumed' = consumed

\* What is read is where the packages begin.
LEMMA BrowserPrefix ==
  ASSUME ReaderTypeOK, ToBrowserInv, up
  PROVE  BrowserHasPrefix
<1>1. /\ packages \in Seq(Nat) /\ Len(packages) \in Nat /\ receiverNonce \in Nat
      /\ Len(buffers) \in Nat /\ Len(incoming) \in Nat
      /\ plain \in Seq(Byte) /\ consumed \in Seq(Byte)
  BY DEF ReaderTypeOK
<1>2. receiverNonce + Len(buffers) + Len(incoming) = Len(packages)
  BY DEF ToBrowserInv
<1>3. receiverNonce \in 0 .. Len(packages)
  BY <1>1, <1>2
<1>4. BeginsWith(Flow(packages, receiverNonce), consumed)
  BY <1>1 DEF ToBrowserInv, BeginsWith
<1>5. BeginsWith(Flow(packages, Len(packages)), Flow(packages, receiverNonce))
  BY <1>1, <1>3, FlowBegins
<1> QED
  BY <1>1, <1>4, <1>5, BeginsWithTransitive DEF BrowserHasPrefix

\* Nothing happens here, or the connection is gone and its readers are closed.
LEMMA ReadersKeep ==
  ASSUME BrowserInv, UNCHANGED <<packages, receiverNonce, consumed>>, up' \in {up, FALSE},
         \/ up' = up /\ UNCHANGED <<incoming, buffers, plain>>
         \/ up' = FALSE /\ incoming' \in {<<>>, incoming} /\ buffers' \in {<<>>, buffers}
                        /\ plain' \in {<<>>, plain}
  PROVE  BrowserInv' /\ PromisedToBrowser
<1>1. ReaderTypeOK /\ ToBrowserInv /\ BrowserHasPrefix
  BY DEF BrowserInv
<1>2. incoming \in Seq(Piece) /\ buffers \in Seq(Piece) /\ plain \in Seq(Byte)
  BY <1>1 DEF ReaderTypeOK
<1>3. incoming' \in Seq(Piece) /\ buffers' \in Seq(Piece) /\ plain' \in Seq(Byte)
  <2>1. incoming' \in {<<>>, incoming} /\ buffers' \in {<<>>, buffers} /\ plain' \in {<<>>, plain}
    BY Zenon
  <2> QED
    BY <1>2, <2>1, EmptySeq
<1>4. ReaderTypeOK'
  BY <1>1, <1>3 DEF ReaderTypeOK
<1>5. ToBrowserInv'
  <2>1. CASE up' = up /\ UNCHANGED <<incoming, buffers, plain>>
    BY <1>1, <2>1 DEF ToBrowserInv, Package
  <2>2. CASE up' = FALSE
    BY <2>2, Zenon DEF ToBrowserInv
  <2> QED
    BY <2>1, <2>2, Zenon
<1>6. BrowserHasPrefix'
  BY <1>1 DEF BrowserHasPrefix
<1>7. PromisedToBrowser
  <2>1. Len(packages) \in Nat /\ consumed \in Seq(Byte)
    BY <1>1 DEF ReaderTypeOK
  <2>2. BeginsWith(consumed', consumed) /\ Len(packages) <= Len(packages')
    BY <2>1, BeginsWithSelf
  <2> QED
    BY <2>2, Zenon DEF PromisedToBrowser
<1> QED
  BY <1>4, <1>5, <1>6, <1>7 DEF BrowserInv

\* A package more, behind all others.
LEMMA ServerWritesKeeps ==
  ASSUME BrowserInv, ServerWrites
  PROVE  BrowserInv' /\ PromisedToBrowser
<1>1. ReaderTypeOK /\ ToBrowserInv /\ BrowserHasPrefix
  BY DEF BrowserInv
<1>2. PICK n : n = Len(packages) + 1
  OBVIOUS
<1>3. PICK size \in PackageSizes :
        /\ packages' = Append(packages, size)
        /\ incoming' = Append(incoming, [nonce |-> n - 1, bytes |-> Message(n, size)])
  BY <1>2 DEF ServerWrites, Message
<1>4. up /\ UNCHANGED <<up, buffers, receiverNonce, plain, consumed>>
  BY DEF ServerWrites, senderVars
<1>5. /\ packages \in Seq(Nat) /\ Len(packages) \in Nat /\ receiverNonce \in Nat
      /\ incoming \in Seq(Piece) /\ buffers \in Seq(Piece)
      /\ Len(buffers) \in Nat /\ Len(incoming) \in Nat
      /\ plain \in Seq(Byte) /\ consumed \in Seq(Byte) /\ size \in Nat /\ n \in Nat
      /\ n - 1 \in Nat
  BY <1>1, <1>2, ChannelAssumption DEF ReaderTypeOK
<1>6. PICK piece : piece = [nonce |-> n - 1, bytes |-> Message(n, size)]
  OBVIOUS
<1>7. piece \in Piece
  BY <1>5, <1>6, MessageType DEF Piece
<1>8. /\ packages' \in Seq(Nat) /\ Len(packages') = n /\ packages'[n] = size
      /\ \A m \in 1 .. Len(packages) : packages'[m] = packages[m]
  BY <1>2, <1>3, <1>5, AppendProperties
<1>9. /\ incoming' \in Seq(Piece) /\ Len(incoming') = Len(incoming) + 1
      /\ incoming'[Len(incoming) + 1] = piece
      /\ \A i \in 1 .. Len(incoming) : incoming'[i] = incoming[i]
  BY <1>3, <1>5, <1>6, <1>7, AppendProperties
<1>10. ReaderTypeOK'
  BY <1>1, <1>4, <1>8, <1>9 DEF ReaderTypeOK
<1>11. \A m \in 1 .. Len(packages) : Package(packages', m) = Package(packages, m)
  BY <1>8 DEF Package
<1>12. /\ receiverNonce + Len(buffers) + Len(incoming) = Len(packages)
       /\ \A i \in 1 .. Len(buffers) : buffers[i] = Package(packages, receiverNonce + i)
       /\ \A i \in 1 .. Len(incoming) :
            incoming[i] = Package(packages, receiverNonce + Len(buffers) + i)
       /\ consumed \o plain = Flow(packages, receiverNonce)
  BY <1>1, <1>4 DEF ToBrowserInv
<1>13. ToBrowserInv'
  <2>0. receiverNonce + Len(buffers) + Len(incoming) = Len(packages)
    BY <1>12
  <2>1. receiverNonce' + Len(buffers') + Len(incoming') = Len(packages')
    BY <1>2, <1>4, <1>5, <1>8, <1>9, <1>12
  <2>2. ASSUME NEW i \in 1 .. Len(buffers')
        PROVE  buffers'[i] = Package(packages', receiverNonce' + i)
    <3>1. receiverNonce + i \in 1 .. Len(packages) /\ i \in 1 .. Len(buffers)
      BY <1>4, <1>5, <1>12
    <3>2. PICK m \in 1 .. Len(packages) : m = receiverNonce + i
      BY <3>1
    <3>3. Package(packages', m) = Package(packages, m) /\ buffers[i] = Package(packages, m)
      BY <1>11, <1>12, <3>1, <3>2
    <3> QED
      BY <1>4, <3>2, <3>3 DEF Package
  <2>3. ASSUME NEW i \in 1 .. Len(incoming')
        PROVE  incoming'[i] = Package(packages', receiverNonce' + Len(buffers') + i)
    <3>1. CASE i = Len(incoming) + 1
      <4>1. receiverNonce' + Len(buffers') + i = n
        <5>1. receiverNonce + Len(buffers) + (Len(incoming) + 1) = n
          BY <1>2, <1>5, <2>0
        <5> QED
          BY <1>4, <3>1, <5>1
      <4>2. Package(packages', n) = piece
        BY <1>6, <1>8 DEF Package
      <4> QED
        BY <1>9, <3>1, <4>1, <4>2 DEF Package
    <3>2. CASE i # Len(incoming) + 1
      <4>1. receiverNonce + Len(buffers) + i \in 1 .. Len(packages) /\ i \in 1 .. Len(incoming)
        <5>1. i \in 1 .. Len(incoming)
          BY <1>5, <1>9, <3>2
        <5> QED
          BY <1>5, <2>0, <5>1
      <4>2. PICK m \in 1 .. Len(packages) : m = receiverNonce + Len(buffers) + i
        BY <4>1
      <4>3. Package(packages', m) = Package(packages, m) /\ incoming[i] = Package(packages, m)
        BY <1>11, <1>12, <4>1, <4>2
      <4> QED
        BY <1>4, <1>9, <4>1, <4>2, <4>3 DEF Package
    <3> QED
      BY <3>1, <3>2
  <2>4. Flow(packages', receiverNonce) = Flow(packages, receiverNonce)
    <3>1. \A m \in 1 .. receiverNonce : packages'[m] = packages[m]
      BY <1>5, <1>8, <1>12
    <3> QED
      BY <1>5, <3>1, FlowSame
  <2> QED
    BY <1>4, <1>12, <2>1, <2>2, <2>3, <2>4 DEF ToBrowserInv, Package
<1>14. BrowserHasPrefix'
  <2>1. packages' \in Seq(Nat) /\ Len(packages) \in 0 .. Len(packages')
    BY <1>2, <1>5, <1>8
  <2>2. BeginsWith(Flow(packages', Len(packages')), Flow(packages', Len(packages)))
    BY <2>1, FlowBegins
  <2>3. Flow(packages', Len(packages)) = Flow(packages, Len(packages))
    BY <1>5, <1>8, FlowSame
  <2> QED
    BY <1>1, <1>4, <1>5, <2>2, <2>3, BeginsWithTransitive DEF BrowserHasPrefix
<1>15. PromisedToBrowser
  <2>1. BeginsWith(consumed', consumed) /\ Len(packages) <= Len(packages')
    BY <1>2, <1>4, <1>5, <1>8, BeginsWithSelf
  <2> QED
    BY <1>4, <1>8, <2>1 DEF PromisedToBrowser
<1> QED
  BY <1>10, <1>13, <1>14, <1>15 DEF BrowserInv

\* Nothing was sent and nothing read, and it is all there as it should be.
LEMMA PackagesStay ==
  ASSUME BrowserInv, up, UNCHANGED <<packages, up>>, ReaderTypeOK', ToBrowserInv',
         BeginsWith(consumed', consumed)
  PROVE  BrowserInv' /\ PromisedToBrowser
<1>1. up'
  OBVIOUS
<1>2. BrowserHasPrefix'
  BY <1>1, BrowserPrefix, PTL
<1>3. Len(packages) <= Len(packages')
  BY DEF BrowserInv, ReaderTypeOK
<1>4. PromisedToBrowser
  BY <1>3 DEF PromisedToBrowser
<1> QED
  BY <1>2, <1>4 DEF BrowserInv

\* What a queue of packages is without its first one.
LEMMA TailOf ==
  ASSUME NEW S, NEW s \in Seq(S), s # <<>>
  PROVE  /\ Len(s) \in Nat /\ Len(Tail(s)) = Len(s) - 1 /\ 1 \in 1 .. Len(s)
         /\ Head(s) = s[1] /\ Head(s) \in S /\ Tail(s) \in Seq(S)
         /\ \A i \in 1 .. Len(Tail(s)) : Tail(s)[i] = s[i + 1] /\ i + 1 \in 1 .. Len(s)
<1> DEFINE t == Tail(s)
<1>1. Len(s) \in Nat /\ Len(s) # 0
  BY EmptySeq, LenProperties
<1>2. /\ Len(t) = Len(s) - 1 /\ t \in Seq(S) /\ Head(s) = s[1] /\ Head(s) \in S
      /\ \A i \in 1 .. Len(t) : t[i] = s[i + 1]
  BY HeadTailProperties
<1> HIDE DEF t
<1>3. 1 \in 1 .. Len(s) /\ \A i \in 1 .. Len(t) : i + 1 \in 1 .. Len(s)
  BY <1>1, <1>2
<1>4. Len(s) \in Nat /\ Len(t) = Len(s) - 1 /\ 1 \in 1 .. Len(s)
      /\ Head(s) = s[1] /\ Head(s) \in S /\ t \in Seq(S)
      /\ \A i \in 1 .. Len(t) : t[i] = s[i + 1] /\ i + 1 \in 1 .. Len(s)
  BY <1>1, <1>2, <1>3
<1> QED
  BY <1>4 DEF t

\* A package goes from the way to the browser to its buffers.
LEMMA ArrivesKeeps ==
  ASSUME BrowserInv, Arrives
  PROVE  BrowserInv' /\ PromisedToBrowser
<1>1. ReaderTypeOK /\ ToBrowserInv /\ BrowserHasPrefix
  BY DEF BrowserInv
<1>2. /\ up /\ incoming # <<>> /\ incoming' = Tail(incoming)
      /\ buffers' = Append(buffers, Head(incoming))
      /\ UNCHANGED <<up, packages, receiverNonce, plain, consumed>>
  BY DEF Arrives, senderVars, serverVars
<1>3. /\ packages \in Seq(Nat) /\ Len(packages) \in Nat /\ receiverNonce \in Nat
      /\ incoming \in Seq(Piece) /\ buffers \in Seq(Piece) /\ Len(buffers) \in Nat
      /\ consumed \in Seq(Byte)
  BY <1>1 DEF ReaderTypeOK
<1>4. /\ Len(incoming) \in Nat /\ Len(incoming') = Len(incoming) - 1 /\ 1 \in 1 .. Len(incoming)
      /\ Head(incoming) = incoming[1] /\ Head(incoming) \in Piece /\ incoming' \in Seq(Piece)
      /\ \A i \in 1 .. Len(incoming') : incoming'[i] = incoming[i + 1] /\ i + 1 \in 1 .. Len(incoming)
  <2> DEFINE t == Tail(incoming)
  <2>1. /\ Len(incoming) \in Nat /\ Len(t) = Len(incoming) - 1 /\ 1 \in 1 .. Len(incoming)
        /\ Head(incoming) = incoming[1] /\ Head(incoming) \in Piece /\ t \in Seq(Piece)
        /\ \A i \in 1 .. Len(t) : t[i] = incoming[i + 1] /\ i + 1 \in 1 .. Len(incoming)
    BY <1>2, <1>3, TailOf
  <2>2. incoming' = t
    BY <1>2
  <2> HIDE DEF t
  <2> QED
    BY <2>1, <2>2
<1>5. /\ buffers' \in Seq(Piece) /\ Len(buffers') = Len(buffers) + 1
      /\ buffers'[Len(buffers) + 1] = incoming[1]
      /\ \A i \in 1 .. Len(buffers) : buffers'[i] = buffers[i]
  BY <1>2, <1>3, <1>4, AppendProperties
<1>6. /\ receiverNonce + Len(buffers) + Len(incoming) = Len(packages)
      /\ \A i \in 1 .. Len(buffers) : buffers[i] = Package(packages, receiverNonce + i)
      /\ \A i \in 1 .. Len(incoming) :
           incoming[i] = Package(packages, receiverNonce + Len(buffers) + i)
      /\ consumed \o plain = Flow(packages, receiverNonce)
  BY <1>1, <1>2 DEF ToBrowserInv
<1>7. ReaderTypeOK'
  BY <1>1, <1>2, <1>4, <1>5 DEF ReaderTypeOK
<1>8. ToBrowserInv'
  <2>1. receiverNonce + Len(buffers') + Len(incoming') = Len(packages)
    <3>1. receiverNonce + Len(buffers) + Len(incoming) = Len(packages)
      BY <1>6
    <3>2. PICK b \in Nat, i \in Nat, r \in Nat : b = Len(buffers) /\ i = Len(incoming) /\ r = receiverNonce
      BY <1>3, <1>4
    <3>3. Len(buffers') = b + 1 /\ Len(incoming') = i - 1
      BY <1>4, <1>5, <3>2
    <3>4. r + (b + 1) + (i - 1) = r + b + i
      BY <3>2
    <3> QED
      BY <3>1, <3>2, <3>3, <3>4
  <2>2. ASSUME NEW i \in 1 .. Len(buffers')
        PROVE  buffers'[i] = Package(packages, receiverNonce + i)
    <3>1. CASE i = Len(buffers) + 1
      <4>1. incoming[1] = Package(packages, receiverNonce + Len(buffers) + 1)
        BY <1>4, <1>6
      <4>2. receiverNonce + Len(buffers) + 1 = receiverNonce + i
        BY <1>3, <3>1
      <4> QED
        BY <1>5, <3>1, <4>1, <4>2
    <3>2. CASE i # Len(buffers) + 1
      <4>1. i \in 1 .. Len(buffers)
        BY <1>3, <1>5, <3>2
      <4> QED
        BY <1>5, <1>6, <4>1
    <3> QED
      BY <3>1, <3>2
  <2>3. ASSUME NEW i \in 1 .. Len(incoming')
        PROVE  incoming'[i] = Package(packages, receiverNonce + Len(buffers') + i)
    <3>1. incoming'[i] = incoming[i + 1] /\ i + 1 \in 1 .. Len(incoming)
      BY <1>4
    <3>2. incoming[i + 1] = Package(packages, receiverNonce + Len(buffers) + (i + 1))
      BY <1>6, <3>1
    <3>3. receiverNonce + Len(buffers) + (i + 1) = receiverNonce + Len(buffers') + i
      BY <1>3, <1>5
    <3> QED
      BY <3>1, <3>2, <3>3
  <2> QED
    BY <1>2, <1>6, <2>1, <2>2, <2>3 DEF ToBrowserInv
<1> QED
  BY <1>2, <1>3, <1>7, <1>8, BeginsWithSelf, PackagesStay

\* The next package is unpacked: the one whose number the receiver has come to.
LEMMA UnpackKeeps ==
  ASSUME BrowserInv, Unpack
  PROVE  BrowserInv' /\ PromisedToBrowser
<1>1. ReaderTypeOK /\ ToBrowserInv /\ BrowserHasPrefix
  BY DEF BrowserInv
<1>2. /\ up /\ buffers # <<>> /\ plain = <<>> /\ buffers' = Tail(buffers)
      /\ plain' = Opened(Head(buffers), receiverNonce) /\ receiverNonce' = receiverNonce + 1
      /\ UNCHANGED <<packages, incoming, consumed>>
  BY DEF Unpack, IncreaseReceiverNonce, serverVars
<1>3. up' = up
  BY DEF Unpack, FlowControl, Send, senderVars
<1>4. /\ packages \in Seq(Nat) /\ Len(packages) \in Nat /\ receiverNonce \in Nat
      /\ incoming \in Seq(Piece) /\ buffers \in Seq(Piece) /\ Len(incoming) \in Nat
      /\ consumed \in Seq(Byte)
  BY <1>1 DEF ReaderTypeOK
<1>5. /\ Len(buffers) \in Nat /\ Len(buffers') = Len(buffers) - 1 /\ 1 \in 1 .. Len(buffers)
      /\ Head(buffers) = buffers[1] /\ buffers' \in Seq(Piece)
      /\ \A i \in 1 .. Len(buffers') : buffers'[i] = buffers[i + 1] /\ i + 1 \in 1 .. Len(buffers)
  <2> DEFINE t == Tail(buffers)
  <2>1. /\ Len(buffers) \in Nat /\ Len(t) = Len(buffers) - 1 /\ 1 \in 1 .. Len(buffers)
        /\ Head(buffers) = buffers[1] /\ t \in Seq(Piece)
        /\ \A i \in 1 .. Len(t) : t[i] = buffers[i + 1] /\ i + 1 \in 1 .. Len(buffers)
    BY <1>2, <1>4, TailOf
  <2>2. buffers' = t
    BY <1>2
  <2> HIDE DEF t
  <2> QED
    BY <2>1, <2>2
<1>6. /\ receiverNonce + Len(buffers) + Len(incoming) = Len(packages)
      /\ \A i \in 1 .. Len(buffers) : buffers[i] = Package(packages, receiverNonce + i)
      /\ \A i \in 1 .. Len(incoming) :
           incoming[i] = Package(packages, receiverNonce + Len(buffers) + i)
      /\ consumed \o plain = Flow(packages, receiverNonce)
  BY <1>1, <1>2 DEF ToBrowserInv
<1>7. PICK n : n = receiverNonce + 1
  OBVIOUS
<1>8. n \in Nat /\ n \in 1 .. Len(packages) /\ n - 1 = receiverNonce /\ packages[n] \in Nat
      /\ receiverNonce \in 0 .. Len(packages) /\ receiverNonce < Len(packages)
  <2>1. receiverNonce + Len(buffers) + Len(incoming) = Len(packages)
    BY <1>6
  <2>2. n \in 1 .. Len(packages)
    BY <1>4, <1>5, <1>7, <2>1
  <2> QED
    BY <1>4, <1>7, <2>2, ElementOfSeq
<1>9. plain' = Message(n, packages[n]) /\ plain' \in Seq(Byte)
  <2>1. Head(buffers) = Package(packages, n)
    BY <1>5, <1>6, <1>7
  <2>2. Head(buffers).nonce = receiverNonce /\ Head(buffers).bytes = Message(n, packages[n])
    BY <1>8, <2>1 DEF Package
  <2>3. plain' = Message(n, packages[n])
    BY <1>2, <2>2 DEF Opened
  <2> QED
    BY <1>8, <2>3, MessageType
<1>10. ReaderTypeOK'
  BY <1>1, <1>2, <1>4, <1>5, <1>9 DEF ReaderTypeOK
<1>11. ToBrowserInv'
  <2>1. receiverNonce' + Len(buffers') + Len(incoming') = Len(packages')
    <3>1. receiverNonce + Len(buffers) + Len(incoming) = Len(packages)
      BY <1>6
    <3> QED
      BY <1>2, <1>4, <1>5, <3>1
  <2>2. ASSUME NEW i \in 1 .. Len(buffers')
        PROVE  buffers'[i] = Package(packages, receiverNonce' + i)
    <3>1. buffers'[i] = buffers[i + 1] /\ i + 1 \in 1 .. Len(buffers)
      BY <1>5
    <3>2. buffers[i + 1] = Package(packages, receiverNonce + (i + 1))
      BY <1>6, <3>1
    <3>3. receiverNonce + (i + 1) = receiverNonce' + i
      BY <1>2, <1>4
    <3> QED
      BY <3>1, <3>2, <3>3
  <2>3. ASSUME NEW i \in 1 .. Len(incoming)
        PROVE  incoming[i] = Package(packages, receiverNonce' + Len(buffers') + i)
    <3>1. incoming[i] = Package(packages, receiverNonce + Len(buffers) + i)
      BY <1>6
    <3>2. receiverNonce + Len(buffers) + i = receiverNonce' + Len(buffers') + i
      BY <1>2, <1>4, <1>5
    <3> QED
      BY <3>1, <3>2
  <2>4. consumed \o plain' = Flow(packages, receiverNonce')
    <3>1. consumed = Flow(packages, receiverNonce)
      BY <1>2, <1>4, <1>6, ConcatEmptySeq
    <3>2. Flow(packages, receiverNonce + 1)
            = Flow(packages, receiverNonce) \o Message(receiverNonce + 1, packages[receiverNonce + 1])
      BY <1>4, <1>8, FlowNext
    <3> QED
      BY <1>2, <1>7, <1>9, <3>1, <3>2
  <2> QED
    BY <1>2, <2>1, <2>2, <2>3, <2>4 DEF ToBrowserInv
<1> QED
  BY <1>2, <1>3, <1>4, <1>10, <1>11, BeginsWithSelf, PackagesStay

\* Some of what is unpacked is read.
LEMMA ExportKeeps ==
  ASSUME BrowserInv, Export
  PROVE  BrowserInv' /\ PromisedToBrowser
<1>1. ReaderTypeOK /\ ToBrowserInv /\ BrowserHasPrefix
  BY DEF BrowserInv
<1>2. PICK n \in {1, Len(plain)} : /\ consumed' = consumed \o SubSeq(plain, 1, n)
                                   /\ plain' = SubSeq(plain, n + 1, Len(plain))
  BY DEF Export
<1>3. /\ up /\ plain # <<>>
      /\ UNCHANGED <<up, packages, incoming, buffers, receiverNonce>>
  BY DEF Export, senderVars, serverVars
<1>4. plain \in Seq(Byte) /\ consumed \in Seq(Byte) /\ Len(plain) \in Nat \ {0} /\ packages \in Seq(Nat)
  BY <1>1, <1>3, EmptySeq, LenProperties DEF ReaderTypeOK
<1>5. n \in 1 .. Len(plain)
  BY <1>4
<1>6. PICK first : first = SubSeq(plain, 1, n)
  OBVIOUS
<1>7. first \in Seq(Byte) /\ plain' \in Seq(Byte)
  BY <1>2, <1>4, <1>5, <1>6
<1>8. first \o plain' = plain
  <2>1. 1 \in 1 .. Len(plain) + 1 /\ n \in 1 - 1 .. Len(plain) /\ Len(plain) \in n .. Len(plain)
    BY <1>4, <1>5
  <2>2. SubSeq(plain, 1, n) \o SubSeq(plain, n + 1, Len(plain)) = SubSeq(plain, 1, Len(plain))
    BY <1>4, <2>1, ConcatAdjacentSubSeq
  <2> QED
    BY <1>2, <1>4, <1>6, <2>2, SubSeqFull
<1>9. consumed' = consumed \o first /\ consumed' \in Seq(Byte)
  BY <1>2, <1>4, <1>6, <1>7, ConcatProperties
<1>10. ReaderTypeOK'
  BY <1>1, <1>3, <1>7, <1>9 DEF ReaderTypeOK
<1>11. consumed' \o plain' = consumed \o plain
  <2>1. PICK left : left = plain' /\ left \in Seq(Byte)
    BY <1>7
  <2>2. (consumed \o first) \o left = consumed \o (first \o left)
    BY <1>4, <1>7, <2>1, ConcatAssociative
  <2> QED
    BY <1>8, <1>9, <2>1, <2>2
<1>12. ToBrowserInv'
  BY <1>1, <1>3, <1>11 DEF ToBrowserInv
<1>13. BeginsWith(consumed', consumed)
  BY <1>7, <1>9 DEF BeginsWith
<1> QED
  BY <1>3, <1>10, <1>12, <1>13, PackagesStay

---------------------------------------------------------------------------
(* All steps.                                                               *)

\* Nothing is written yet, in either direction.
LEMMA InitIsInvariant == Init => IInv
<1> SUFFICES ASSUME Init
             PROVE  IInv
  OBVIOUS
<1>1. /\ messages = <<>> /\ promise = <<>> /\ queue = <<>> /\ loop = "waiting" /\ callbacks = {}
      /\ rest = <<>> /\ buffer = <<>> /\ segment = <<>> /\ purpose = "flush"
      /\ nonce = 0 /\ wire = <<>> /\ up = TRUE /\ readNonce = 0 /\ read = <<>>
  BY DEF Init, SenderInit
<1>2. /\ packages = <<>> /\ incoming = <<>> /\ buffers = <<>> /\ receiverNonce = 0
      /\ plain = <<>> /\ consumed = <<>>
  BY DEF Init
<1>3. Len(<<>>) = 0 /\ \A S : <<>> \in Seq(S)
  BY EmptySeq
<1>4. up \in BOOLEAN
  BY <1>1, Zenon
<1>5. SenderTypeOK
  BY <1>1, <1>3, <1>4 DEF SenderTypeOK
<1>6. SenderShape
  BY <1>1, <1>3, SenderAssumption DEF SenderShape
<1>7. Delivered = <<>> /\ Pending = <<>>
  <2>1. Segments = <<>>
    BY <1>1 DEF Segments
  <2>2. <<>> \o <<>> = <<>>
    BY <1>3, ConcatEmptySeq
  <2> QED
    BY <1>1, <2>1, <2>2, FlattenEmpty DEF Delivered, Pending
<1>8. \A sizes : Flow(sizes, 0) = <<>>
  BY FlowEmpty
<1>9. <<>> \o <<>> = <<>> /\ BeginsWith(<<>>, <<>>)
  <2>1. <<>> \o <<>> = <<>>
    BY <1>3, ConcatEmptySeq
  <2> QED
    BY <1>3, <2>1, BeginsWithSelf
<1>10. ToServerInv
  <2>1. Numbered
    BY <1>1, <1>3 DEF Numbered
  <2>2. Queued(queue, 0, Len(messages))
    BY <1>1, <1>3 DEF Queued
  <2>3. Taken(0)
    BY <1>1, <1>3, <1>7, <1>8, <1>9, <2>2 DEF Taken
  <2>4. 0 \in 0 .. Len(messages)
    BY <1>1, <1>3
  <2> QED
    BY <2>1, <2>3, <2>4 DEF ToServerInv
<1>11. ServerHasPrefix
  BY <1>1, <1>3, <1>7, <1>8, <1>9 DEF ServerHasPrefix
<1>12. ReaderTypeOK
  BY <1>2, <1>3 DEF ReaderTypeOK
<1>13. ToBrowserInv
  BY <1>2, <1>3, <1>8, <1>9 DEF ToBrowserInv
<1>14. BrowserHasPrefix
  BY <1>2, <1>3, <1>8, <1>9 DEF BrowserHasPrefix
<1> QED
  BY <1>5, <1>6, <1>10, <1>11, <1>12, <1>13, <1>14 DEF IInv, ServerInv, BrowserInv

\* What the sender does by itself.
LEMMA SendingKeeps ==
  ASSUME ServerInv, Sending, UNCHANGED <<readNonce, read>>
  PROVE  ServerInv' /\ Promised
<1>1. CASE DelayFires
  <2>1. /\ queue' = Append(queue, Flush("flush"))
        /\ UNCHANGED <<messages, promise, loop, callbacks, rest, buffer, segment, purpose,
                       nonce, wire, up>>
    BY <1>1 DEF DelayFires
  <2> QED
    BY <2>1, FlushKeeps
<1>2. CASE TakeData
  BY <1>2, TakeDataKeeps
<1>3. CASE TakeFlush
  BY <1>3, TakeFlushKeeps
<1>4. CASE TakeRejection
  BY <1>4, TakeRejectionKeeps
<1>5. CASE WriteSucceeds
  BY <1>5, WriteSucceedsKeeps
<1>6. CASE WriteFails
  BY <1>6, WriteFailsKeeps
<1>7. CASE CloseEnds
  <2>1. /\ queue' = Append(queue, Flush("reject"))
        /\ UNCHANGED <<messages, promise, loop, callbacks, rest, buffer, segment, purpose,
                       nonce, wire, up>>
    BY <1>7 DEF CloseEnds
  <2> QED
    BY <2>1, FlushKeeps
<1> QED
  BY <1>1, <1>2, <1>3, <1>4, <1>5, <1>6, <1>7 DEF Sending

\* Every step keeps the invariant, and keeps what was promised in both directions.
LEMMA StepKeeps ==
  ASSUME IInv, [Next]_vars
  PROVE  IInv' /\ Promised /\ PromisedToBrowser
<1>1. ServerInv /\ BrowserInv
  BY DEF IInv
<1>2. up \in BOOLEAN
  BY <1>1 DEF ServerInv, SenderTypeOK
<1>3. SUFFICES (ServerInv' /\ Promised) /\ (BrowserInv' /\ PromisedToBrowser)
  BY Zenon DEF IInv
<1>4. CASE StreamSends
  <2>1. PICK size \in Sizes : Send("data", size)
    BY <1>4 DEF StreamSends
  <2>2. UNCHANGED <<readNonce, read, packages, incoming, buffers, receiverNonce, plain, consumed>>
    BY <1>4 DEF StreamSends, serverVars, readerVars
  <2>3. size \in Nat /\ up' = up
    BY <2>1, ChannelAssumption DEF Send
  <2>4. ServerInv' /\ Promised
    BY <1>1, <2>1, <2>2, <2>3, SendKeeps
  <2>5. BrowserInv' /\ PromisedToBrowser
    BY <1>1, <2>2, <2>3, ReadersKeep
  <2> QED
    BY <2>4, <2>5
<1>5. CASE SenderStep
  <2>1. /\ Sending /\ UNCHANGED <<readNonce, read, packages>>
        /\ IF up /\ ~up' THEN CloseReaders ELSE UNCHANGED <<readerVars, flowVars>>
    BY <1>5 DEF SenderStep, serverVars
  <2>2. ServerInv' /\ Promised
    BY <1>1, <2>1, SendingKeeps
  <2>3. up' \in {up, FALSE}
    BY <2>2, Zenon DEF Promised
  <2>4. CASE up /\ ~up'
    <3>1. /\ incoming' = <<>> /\ buffers' = <<>> /\ plain' = <<>>
          /\ UNCHANGED <<receiverNonce, consumed>>
      BY <2>1, <2>4 DEF CloseReaders
    <3>2. up' = FALSE
      BY <2>3, <2>4, Zenon
    <3> QED
      BY <1>1, <2>1, <2>2, <2>3, <3>1, <3>2, ReadersKeep
  <2>5. CASE ~ (up /\ ~up')
    <3>1. UNCHANGED <<incoming, buffers, receiverNonce, plain, consumed>>
      BY <2>1, <2>5 DEF readerVars
    <3>2. up' = up
      BY <1>2, <2>3, <2>5, Zenon
    <3> QED
      BY <1>1, <2>1, <2>2, <2>3, <3>1, <3>2, ReadersKeep
  <2> QED
    BY <2>4, <2>5
<1>6. CASE Clear
  <2>1. /\ queue' = Append(queue, Flush("close"))
        /\ UNCHANGED <<messages, promise, loop, callbacks, rest, buffer, segment, purpose,
                       nonce, wire, up>>
    BY <1>6 DEF Clear, Close, FlushFirst
  <2>2. UNCHANGED <<readNonce, read, packages, incoming, buffers, receiverNonce, plain, consumed>>
    BY <1>6 DEF Clear, serverVars, readerVars
  <2>3. ServerInv' /\ Promised
    BY <1>1, <2>1, <2>2, FlushKeeps
  <2>4. BrowserInv' /\ PromisedToBrowser
    BY <1>1, <2>1, <2>2, ReadersKeep
  <2> QED
    BY <2>3, <2>4
<1>7. CASE Cleared \/ Break
  <2>1. Down
    BY <1>7 DEF Cleared, Break
  <2>2. /\ up' = FALSE /\ incoming' = <<>> /\ buffers' = <<>> /\ plain' = <<>>
        /\ UNCHANGED <<receiverNonce, consumed, messages, promise, queue, loop, callbacks, rest,
                       buffer, segment, purpose, nonce, wire, readNonce, read, packages>>
    BY <2>1 DEF Down, CloseReaders, serverVars
  <2>3. up' \in {up, FALSE}
    BY <2>2, Zenon
  <2>4. ServerInv' /\ Promised
    BY <1>1, <2>2, <2>3, RestKeeps
  <2>5. BrowserInv' /\ PromisedToBrowser
    BY <1>1, <2>2, <2>3, ReadersKeep
  <2> QED
    BY <2>4, <2>5
<1>8. CASE ServerReads
  <2>1. UNCHANGED <<up, packages, incoming, buffers, receiverNonce, plain, consumed>>
    BY <1>8 DEF ServerReads, readerVars
  <2>2. ServerInv' /\ Promised
    BY <1>1, <1>8, ServerReadsKeeps
  <2>3. BrowserInv' /\ PromisedToBrowser
    BY <1>1, <2>1, ReadersKeep
  <2> QED
    BY <2>2, <2>3
<1>9. CASE ServerWrites \/ Arrives \/ Export
  <2>1. UNCHANGED <<senderVars, readNonce, read>>
    BY <1>9 DEF ServerWrites, Arrives, Export, serverVars
  <2>2. ServerInv' /\ Promised
    BY <1>1, <2>1, RestKeeps DEF senderVars
  <2>3. BrowserInv' /\ PromisedToBrowser
    BY <1>1, <1>9, ServerWritesKeeps, ArrivesKeeps, ExportKeeps
  <2> QED
    BY <2>2, <2>3
<1>10. CASE Unpack
  <2>1. UNCHANGED <<readNonce, read>>
    BY <1>10 DEF Unpack, serverVars
  <2>2. UNCHANGED senderVars \/ \E kind \in {"pause", "resume"} : Send(kind, 1)
    BY <1>10 DEF Unpack, FlowControl
  <2>3. ServerInv' /\ Promised
    <3>1. CASE UNCHANGED senderVars
      BY <1>1, <2>1, <3>1, RestKeeps DEF senderVars
    <3>2. CASE \E kind \in {"pause", "resume"} : Send(kind, 1)
      BY <1>1, <2>1, <3>2, SendKeeps
    <3> QED
      BY <2>2, <3>1, <3>2
  <2>4. BrowserInv' /\ PromisedToBrowser
    BY <1>1, <1>10, UnpackKeeps
  <2> QED
    BY <2>3, <2>4
<1>11. CASE UNCHANGED vars
  <2>1. UNCHANGED <<senderVars, readNonce, read, packages, incoming, buffers, receiverNonce, plain,
                    consumed>>
    BY <1>11 DEF vars, serverVars, readerVars
  <2>2. ServerInv' /\ Promised
    BY <1>1, <2>1, RestKeeps DEF senderVars
  <2>3. BrowserInv' /\ PromisedToBrowser
    BY <1>1, <2>1, ReadersKeep DEF senderVars
  <2> QED
    BY <2>2, <2>3
<1> QED
  BY <1>4, <1>5, <1>6, <1>7, <1>8, <1>9, <1>10, <1>11 DEF Next

\* What the sender holds and the server has read are the bytes of the messages in their
\* order; what is under way to the browser are the server's packages.
THEOREM Invariance == Spec => []IInv
<1>1. IInv /\ [Next]_vars => IInv'
  BY StepKeeps
<1> QED
  BY <1>1, InitIsInvariant, PTL DEF Spec

---------------------------------------------------------------------------
(* The channel that Fifo.tla describes.                                     *)

\* Its bytes are the flow of all messages.
LEMMA AllBytes ==
  ASSUME NEW sizes \in Seq(Nat)
  PROVE  FlattenSeq([n \in DOMAIN sizes |-> [k \in 1 .. sizes[n] |-> <<n, k>>]])
           = Flow(sizes, Len(sizes))
<1>1. DOMAIN sizes = 1 .. Len(sizes)
  OBVIOUS
<1> QED
  BY <1>1 DEF Flow, Message

\* Where a sequence begins with another, that is its first part.
LEMMA FirstPart ==
  ASSUME NEW s \in Seq(Byte), NEW t, BeginsWith(t, s)
  PROVE  Len(s) <= Len(t) /\ s = SubSeq(t, 1, Len(s))
<1>1. PICK more \in Seq(Byte) : t = s \o more
  BY DEF BeginsWith
<1>2. /\ t \in Seq(Byte) /\ Len(t) = Len(s) + Len(more) /\ Len(s) \in Nat /\ Len(more) \in Nat
      /\ \A i \in 1 .. Len(s) : t[i] = s[i]
  BY <1>1, ConcatProperties, LenProperties
<1>3. SubSeq(t, 1, Len(s)) \in Seq(Byte) /\ Len(SubSeq(t, 1, Len(s))) = Len(s)
      /\ \A i \in 1 .. Len(s) : SubSeq(t, 1, Len(s))[i] = t[i]
  BY <1>2
<1> HIDE DEF BeginsWith
<1>4. s = SubSeq(t, 1, Len(s))
  BY <1>2, <1>3, SeqEqual
<1> QED
  BY <1>2, <1>4

\* More messages, none of them changed; more bytes, in the order of the messages.
LEMMA KeptInOrder ==
  ASSUME NEW sizes \in Seq(Nat), NEW more \in Seq(Nat), Len(sizes) <= Len(more),
         \A n \in 1 .. Len(sizes) : more[n] = sizes[n],
         NEW d \in Seq(Byte), NEW e \in Seq(Byte), BeginsWith(e, d),
         BeginsWith(Flow(more, Len(more)), e)
  PROVE  /\ Len(sizes) <= Len(more) /\ SubSeq(more, 1, Len(sizes)) = sizes
         /\ Len(d) <= Len(e) /\ Len(e) <= Len(Flow(more, Len(more)))
         /\ e = SubSeq(Flow(more, Len(more)), 1, Len(e))
<1>1. Len(sizes) \in Nat /\ Len(more) \in Nat
  BY LenProperties
<1>2. SubSeq(more, 1, Len(sizes)) \in Seq(Nat) /\ Len(SubSeq(more, 1, Len(sizes))) = Len(sizes)
      /\ \A i \in 1 .. Len(sizes) : SubSeq(more, 1, Len(sizes))[i] = more[i]
  BY <1>1
<1>3. SubSeq(more, 1, Len(sizes)) = sizes
  BY <1>2, SeqEqual
<1> QED
  BY <1>3, FirstPart

\* A step on the way to the server is one of the channel.
LEMMA ToServerSteps ==
  ASSUME ServerInv, ServerInv', Promised
  PROVE  ToServer!Next
<1>1. SenderTypeOK /\ SenderTypeOK' /\ ServerHasPrefix'
  BY DEF ServerInv
<1>2. PICK sizes : sizes = WrittenSizes
  OBVIOUS
<1>3. PICK more : more = WrittenSizes'
  OBVIOUS
<1>4. PICK d : d = Delivered
  OBVIOUS
<1>5. PICK e : e = Delivered'
  OBVIOUS
<1>6. /\ sizes \in Seq(Nat) /\ Len(sizes) = Len(messages) /\ Len(messages) \in Nat
      /\ \A n \in 1 .. Len(messages) : sizes[n] = messages[n].size
  BY <1>1, <1>2, SizesType
<1>7. /\ more \in Seq(Nat) /\ Len(more) = Len(messages') /\ Len(messages') \in Nat
      /\ \A n \in 1 .. Len(messages') : more[n] = messages'[n].size
  <2>1. messages' \in Seq([kind : {"data", "pause", "resume"}, size : Nat])
    BY <1>1 DEF SenderTypeOK
  <2> QED
    BY <1>3, <2>1, SizesOf DEF WrittenSizes
<1>8. d \in Seq(Byte) /\ e \in Seq(Byte)
  <2>1. wire' \in Seq(Piece) /\ readNonce' \in Nat /\ read' \in Seq(Byte)
    BY <1>1 DEF SenderTypeOK
  <2>2. Segments' \in Seq(Seq(Byte))
    BY <2>1, OpenedType DEF Segments
  <2>3. FlattenSeq(Segments') \in Seq(Byte)
    BY <2>2, FlattenType
  <2>4. Delivered' \in Seq(Byte)
    BY <2>1, <2>3, ConcatProperties DEF Delivered
  <2> QED
    BY <1>1, <1>4, <1>5, <2>4, DeliveredType
<1>9. /\ Len(promise) \in Nat /\ Len(promise') \in Nat
      /\ DOMAIN promise = 1 .. Len(promise) /\ DOMAIN promise' = 1 .. Len(promise')
      /\ Len(promise) = Len(messages) /\ Len(promise') = Len(messages')
  BY <1>1 DEF SenderTypeOK
<1>10. /\ Len(sizes) <= Len(more) /\ SubSeq(more, 1, Len(sizes)) = sizes
       /\ Len(d) <= Len(e) /\ Len(e) <= Len(Flow(more, Len(more)))
       /\ e = SubSeq(Flow(more, Len(more)), 1, Len(e))
  <2>1. Len(sizes) <= Len(more) /\ \A n \in 1 .. Len(sizes) : more[n] = sizes[n]
    BY <1>6, <1>7 DEF Promised
  <2>2. BeginsWith(e, d)
    BY <1>4, <1>5 DEF Promised
  <2>3. BeginsWith(Flow(more, Len(more)), e)
    BY <1>1, <1>3, <1>5, <1>7 DEF ServerHasPrefix
  <2> QED
    BY <1>6, <1>7, <1>8, <2>1, <2>2, <2>3, KeptInOrder
<1>11. FlattenSeq([n \in DOMAIN more |-> [k \in 1 .. more[n] |-> <<n, k>>]]) = Flow(more, Len(more))
  BY <1>7, AllBytes
<1>12. ToServer!InOrder
  <2>1. ToServer!Bytes' = Flow(more, Len(more))
    <3>1. ToServer!Bytes'
            = ToServer!FlattenSeq([n \in DOMAIN more |-> [k \in 1 .. more[n] |-> <<n, k>>]])
      BY <1>3 DEF ToServer!Bytes, ToServer!Place
    <3>2. \A ss : ToServer!FlattenSeq(ss) = FlattenSeq(ss)
      BY DEF ToServer!FlattenSeq, FlattenSeq
    <3> QED
      BY <1>11, <3>1, <3>2
  <2> QED
    BY <1>2, <1>3, <1>4, <1>5, <1>10, <2>1 DEF ToServer!InOrder
<1>13. Resolved \subseteq Resolved'
  <2>1. SUFFICES ASSUME NEW n \in 1 .. Len(promise), promise[n] = "resolved"
                 PROVE  n \in 1 .. Len(promise') /\ promise'[n] = "resolved"
    BY <1>9 DEF Resolved
  <2> QED
    BY <1>9, <2>1 DEF Promised
<1>14. ASSUME up, NEW n \in Resolved' \ Resolved
       PROVE  ToServer!HandedOver(n)'
  <2>1. n \in 1 .. Len(promise') /\ promise'[n] = "resolved"
        /\ ~ (n <= Len(promise) /\ promise[n] = "resolved")
    BY <1>9, <1>14 DEF Resolved
  <2>2. \A k \in 1 .. messages'[n].size : \E i \in 1 .. Len(e) : e[i] = <<n, k>>
    BY <1>5, <1>14, <2>1 DEF Promised
  <2>3. more[n] = messages'[n].size /\ DOMAIN e = 1 .. Len(e)
    BY <1>7, <1>8, <1>9, <2>1
  <2>4. \A k \in 1 .. more[n] : \E i \in DOMAIN e : e[i] = <<n, k>>
    BY <2>2, <2>3
  <2> QED
    BY <1>3, <1>5, <2>4 DEF ToServer!HandedOver, ToServer!Place
<1>15. up' \in {up, FALSE} /\ (~up => Delivered' = Delivered)
  BY Zenon DEF Promised
<1> QED
  BY <1>12, <1>13, <1>14, <1>15, Zenon DEF ToServer!Next

\* A step on the way to the browser is one of the channel.
LEMMA ToBrowserSteps ==
  ASSUME BrowserInv, BrowserInv', PromisedToBrowser, up' \in {up, FALSE}
  PROVE  ToBrowser!Next
<1>1. PICK sizes : sizes = packages
  OBVIOUS
<1>2. PICK more : more = packages'
  OBVIOUS
<1>3. PICK d : d = consumed
  OBVIOUS
<1>4. PICK e : e = consumed'
  OBVIOUS
<1>5. /\ sizes \in Seq(Nat) /\ more \in Seq(Nat) /\ d \in Seq(Byte) /\ e \in Seq(Byte)
      /\ BeginsWith(Flow(more, Len(more)), e)
  BY <1>1, <1>2, <1>3, <1>4 DEF BrowserInv, ReaderTypeOK, BrowserHasPrefix
<1>6. Len(sizes) <= Len(more) /\ (\A n \in 1 .. Len(sizes) : more[n] = sizes[n]) /\ BeginsWith(e, d)
  BY <1>1, <1>2, <1>3, <1>4 DEF PromisedToBrowser
<1>7. /\ Len(sizes) <= Len(more) /\ SubSeq(more, 1, Len(sizes)) = sizes
      /\ Len(d) <= Len(e) /\ Len(e) <= Len(Flow(more, Len(more)))
      /\ e = SubSeq(Flow(more, Len(more)), 1, Len(e))
  BY <1>5, <1>6, KeptInOrder
<1>8. FlattenSeq([n \in DOMAIN more |-> [k \in 1 .. more[n] |-> <<n, k>>]]) = Flow(more, Len(more))
  BY <1>5, AllBytes
<1>9. ToBrowser!InOrder
  <2>1. ToBrowser!Bytes' = Flow(more, Len(more))
    <3>1. ToBrowser!Bytes'
            = ToBrowser!FlattenSeq([n \in DOMAIN more |-> [k \in 1 .. more[n] |-> <<n, k>>]])
      BY <1>2 DEF ToBrowser!Bytes, ToBrowser!Place
    <3>2. \A ss : ToBrowser!FlattenSeq(ss) = FlattenSeq(ss)
      BY DEF ToBrowser!FlattenSeq, FlattenSeq
    <3> QED
      BY <1>8, <3>1, <3>2
  <2> QED
    BY <1>1, <1>2, <1>3, <1>4, <1>7, <2>1 DEF ToBrowser!InOrder
<1>10. ~up => consumed' = consumed
  BY DEF PromisedToBrowser
<1> QED
  BY <1>9, <1>10 DEF ToBrowser!Next

\* However messages are gathered, cut into segments and flushed, and whatever fails, in
\* both directions what arrives is what was written, whole and in order, and a promise is
\* resolved only when every byte of its message is on the way (Sender.sending,
\* socket.js's nonces).
THEOREM ArrivesInOrder == Spec => BothWaysInOrder
<1>1. Init => ToServer!Init /\ ToBrowser!Init
  <2> SUFFICES ASSUME Init
               PROVE  ToServer!Init /\ ToBrowser!Init
    OBVIOUS
  <2>1. /\ messages = <<>> /\ promise = <<>> /\ wire = <<>> /\ read = <<>> /\ up = TRUE
        /\ packages = <<>> /\ consumed = <<>>
    BY DEF Init, SenderInit
  <2>2. WrittenSizes = <<>> /\ Resolved = {}
    BY <2>1 DEF WrittenSizes, Resolved
  <2>3. Delivered = <<>>
    <3>1. Segments = <<>>
      BY <2>1 DEF Segments
    <3>2. <<>> \o <<>> = <<>>
      BY EmptySeq, ConcatEmptySeq
    <3> QED
      BY <2>1, <3>1, <3>2, FlattenEmpty DEF Delivered
  <2>4. ToServer!Init
    BY <2>1, <2>2, <2>3, Zenon DEF ToServer!Init
  <2>5. ToBrowser!Init
    BY <2>1, Zenon DEF ToBrowser!Init
  <2> QED
    BY <2>4, <2>5
<1>2. IInv /\ [Next]_vars /\ IInv' => ToServer!Next /\ ToBrowser!Next
  <2> SUFFICES ASSUME IInv, [Next]_vars, IInv'
               PROVE  ToServer!Next /\ ToBrowser!Next
    OBVIOUS
  <2>1. Promised /\ PromisedToBrowser
    BY StepKeeps
  <2>2. up' \in {up, FALSE}
    BY <2>1, Zenon DEF Promised
  <2>3. ServerInv /\ ServerInv' /\ BrowserInv /\ BrowserInv'
    BY DEF IInv
  <2> QED
    BY <2>1, <2>2, <2>3, ToServerSteps, ToBrowserSteps
<1> QED
  BY <1>1, <1>2, Invariance, PTL
  DEF Spec, BothWaysInOrder, ToServer!Spec, ToBrowser!Spec
============================================================================
