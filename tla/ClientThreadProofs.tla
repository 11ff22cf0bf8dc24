------------------------- MODULE ClientThreadProofs -------------------------
(***************************************************************************)
(* The message queue and the TCP framing of ClientThread, proved for any   *)
(* messages and any packets.                                               *)
(***************************************************************************)
EXTENDS ClientThread, NaturalsInduction, WellFoundedInduction,
        SequenceTheorems, TLAPS

------------------------------------------------------------------------------
(* The stream *)

(* A set of naturals that is not empty has a least element.                *)
LEMMA LeastNatural ==
    ASSUME NEW I, I \subseteq Nat, I # {}
    PROVE  \E n \in I : n = 0 \/ n - 1 \in Nat \ I
<1> DEFINE R == OpToRel(<, Nat)
<1>1. \E n \in I : \A m \in I : ~(<<m, n>> \in R)
  BY NatLessThanWellFounded, WFMin, Zenon
<1>2. PICK n \in I : \A m \in I : ~(<<m, n>> \in R)
  BY <1>1, Zenon
<1>3. \A u, v \in Nat : u < v => <<u, v>> \in R
  BY DEF OpToRel
<1> HIDE DEF R
<1>4. n # 0 => n - 1 \in Nat /\ n - 1 < n
  OBVIOUS
<1> QED
  BY <1>2, <1>3, <1>4, Zenon

N == Len(Packets)

Byte == [packet : 1 .. N, part : {"length", "body"}, at : 1 .. 4]

(* A packet's bytes.                                                       *)
LEMMA BytesOfPacket ==
    ASSUME NEW k \in 1 .. N
    PROVE  /\ Packets[k] \in {"small", "large", "oversized"}
           /\ BodySize[Packets[k]] \in 1 .. 2
           /\ Bytes(k) \in Seq(Byte)
           /\ Len(Bytes(k)) = 2 + BodySize[Packets[k]]
           /\ Bytes(k)[1] = [packet |-> k, part |-> "length", at |-> 1]
           /\ Bytes(k)[3] = [packet |-> k, part |-> "body", at |-> 3]
<1>1. Packets[k] \in {"small", "large", "oversized"}
  BY ClientThreadAssumption DEF N
<1>2. BodySize[Packets[k]] \in 1 .. 2
  BY <1>1 DEF BodySize
<1> DEFINE n == 2 + BodySize[Packets[k]]
<1>3. n \in 3 .. 4
  BY <1>2
<1>4. Bytes(k) = [i \in 1 .. n |-> [packet |-> k,
                                    part |-> IF i <= 2 THEN "length" ELSE "body",
                                    at |-> i]]
  BY DEF Bytes
<1> HIDE DEF n
<1>5. Bytes(k) \in [1 .. n -> Byte]
  BY <1>3, <1>4 DEF Byte
<1>6. Bytes(k) \in Seq(Byte) /\ Len(Bytes(k)) = n
  BY <1>3, <1>5
<1>7. /\ Bytes(k)[1] = [packet |-> k, part |-> "length", at |-> 1]
      /\ Bytes(k)[3] = [packet |-> k, part |-> "body", at |-> 3]
  BY <1>3, <1>4
<1> QED
  BY <1>1, <1>2, <1>6, <1>7 DEF n

(* The recursive definition of the stream has a solution.                  *)
LEMMA StreamUpToDef ==
    StreamUpTo = [k \in 0 .. N |->
                      IF k = 0 THEN << >> ELSE StreamUpTo[k - 1] \o Bytes(k)]
<1> DEFINE Good(f, n) ==
        f = [k \in 0 .. n |-> IF k = 0 THEN << >> ELSE f[k - 1] \o Bytes(k)]
    I == {n \in 0 .. N : ~ \E f : Good(f, n)}
<1>1. N \in Nat
  BY ClientThreadAssumption DEF N
<1>2. /\ I \subseteq 0 .. N
      /\ \A n \in I : ~ \E f : Good(f, n)
      /\ \A n \in (0 .. N) \ I : \E f : Good(f, n)
  <2> HIDE DEF Good
  <2> QED
    BY Zenon
<1> HIDE DEF I
<1>3. I = {}
  <2> SUFFICES ASSUME I # {} PROVE FALSE
    OBVIOUS
  <2>1. PICK n \in I : n = 0 \/ n - 1 \in Nat \ I
    <3> HIDE DEF Good
    <3>1. I \subseteq Nat
      BY <1>2
    <3> QED
      BY <3>1, LeastNatural, Zenon
  <2>2. CASE n = 0
    <3>1. Good([k \in 0 .. 0 |-> << >>], 0)
      OBVIOUS
    <3> HIDE DEF Good
    <3> QED
      BY <1>2, <2>2, <3>1
  <2>3. CASE n # 0
    <3>1. n - 1 \in 0 .. N /\ n \in Nat
      BY <1>2, <1>1, <2>1, <2>3
    <3>2. PICK f : Good(f, n - 1)
      <4> HIDE DEF Good
      <4> QED
        BY <1>2, <2>1, <2>3, <3>1
    <3> DEFINE g == [k \in 0 .. n |->
                         IF k = n THEN f[n - 1] \o Bytes(n) ELSE f[k]]
    <3>3. ASSUME NEW k \in 0 .. n
          PROVE  g[k] = IF k = 0 THEN << >> ELSE g[k - 1] \o Bytes(k)
      <4>1. CASE k = n
        <5>1. n - 1 \in 0 .. n /\ n - 1 # n
          BY <3>1
        <5>2. g[n] = f[n - 1] \o Bytes(n) /\ g[n - 1] = f[n - 1]
          BY <3>1, <5>1
        <5> QED
          BY <4>1, <5>2, <2>3, Zenon
      <4>2. CASE k # n
        <5>1. k \in 0 .. n - 1 /\ g[k] = f[k]
          BY <4>2, <3>1
        <5>2. f[k] = IF k = 0 THEN << >> ELSE f[k - 1] \o Bytes(k)
          BY <3>2, <5>1, Zenon
        <5>3. k # 0 => g[k - 1] = f[k - 1]
          BY <3>1, <5>1
        <5> QED
          BY <5>1, <5>2, <5>3
      <4> QED
        BY <4>1, <4>2
    <3>4. Good(g, n)
      BY <3>3
    <3> HIDE DEF Good
    <3> QED
      BY <1>2, <3>4
  <2> QED
    BY <2>2, <2>3
<1>4. \E f : Good(f, N)
  <2> HIDE DEF Good
  <2> QED
    BY <1>2, <1>1, <1>3
<1>5. StreamUpTo = CHOOSE f : Good(f, N)
  BY DEF StreamUpTo, N
<1> QED
  BY <1>4, <1>5, Zenon

(* What the definition says of one more packet.                            *)
LEMMA OneMorePacket ==
    /\ N \in Nat /\ StreamUpTo[0] = << >>
    /\ \A k \in 1 .. N : StreamUpTo[k] = StreamUpTo[k - 1] \o Bytes(k)
<1>1. N \in Nat
  BY ClientThreadAssumption DEF N
<1>2. \A k \in 0 .. N : StreamUpTo[k] = IF k = 0 THEN << >>
                                        ELSE StreamUpTo[k - 1] \o Bytes(k)
  BY StreamUpToDef, Zenon
<1>3. StreamUpTo[0] = << >>
  BY <1>1, <1>2
<1>4. ASSUME NEW k \in 1 .. N
      PROVE  StreamUpTo[k] = StreamUpTo[k - 1] \o Bytes(k)
  <2>1. k \in 0 .. N /\ k # 0
    BY <1>1
  <2> QED
    BY <1>2, <2>1, Zenon
<1> QED
  BY <1>1, <1>3, <1>4

(* What the client's socket sends is a sequence of bytes.                  *)
LEMMA StreamIsBytes == \A k \in 0 .. N : StreamUpTo[k] \in Seq(Byte)
<1> DEFINE I == {k \in 0 .. N : StreamUpTo[k] \notin Seq(Byte)}
<1> SUFFICES ASSUME I # {} PROVE FALSE
  OBVIOUS
<1>1. PICK k \in I : k = 0 \/ k - 1 \in Nat \ I
  <2>1. I \subseteq Nat
    BY OneMorePacket
  <2> QED
    BY <2>1, LeastNatural, Zenon
<1>2. CASE k = 0
  <2>1. << >> \in Seq(Byte)
    OBVIOUS
  <2> QED
    BY <1>1, <1>2, <2>1, OneMorePacket, Zenon
<1>3. CASE k # 0
  <2>1. k \in 1 .. N /\ k - 1 \in 0 .. N
    BY <1>1, <1>3, OneMorePacket
  <2>2. StreamUpTo[k - 1] \in Seq(Byte)
    BY <1>1, <1>3, <2>1
  <2>3. StreamUpTo[k] = StreamUpTo[k - 1] \o Bytes(k)
    BY <2>1, OneMorePacket, Zenon
  <2>4. StreamUpTo[k] \in Seq(Byte)
    BY <2>1, <2>2, <2>3, BytesOfPacket, ConcatProperties, Zenon
  <2> QED
    BY <2>4
<1> QED
  BY <1>2, <1>3

(* Where a packet ends, and that later packets change nothing before it.   *)
LEMMA StreamGrows ==
    ASSUME NEW k \in 1 .. N
    PROVE  /\ StreamUpTo[k - 1] \in Seq(Byte) /\ StreamUpTo[k] \in Seq(Byte)
           /\ Len(StreamUpTo[k])
                  = Len(StreamUpTo[k - 1]) + 2 + BodySize[Packets[k]]
           /\ \A i \in 1 .. Len(StreamUpTo[k - 1]) :
                  StreamUpTo[k][i] = StreamUpTo[k - 1][i]
           /\ \A i \in 1 .. Len(Bytes(k)) :
                  StreamUpTo[k][Len(StreamUpTo[k - 1]) + i] = Bytes(k)[i]
<1> DEFINE s == StreamUpTo[k - 1]
<1>1. k - 1 \in 0 .. N /\ k \in 0 .. N
  BY OneMorePacket
<1>2. s \in Seq(Byte) /\ Bytes(k) \in Seq(Byte) /\ StreamUpTo[k] = s \o Bytes(k)
  BY <1>1, StreamIsBytes, BytesOfPacket, OneMorePacket, Zenon
<1>3. Len(Bytes(k)) = 2 + BodySize[Packets[k]] /\ BodySize[Packets[k]] \in 1 .. 2
  BY BytesOfPacket, Zenon
<1> HIDE DEF s
<1>4. /\ s \o Bytes(k) \in Seq(Byte)
      /\ Len(s \o Bytes(k)) = Len(s) + Len(Bytes(k))
      /\ \A i \in 1 .. Len(s) + Len(Bytes(k)) : (s \o Bytes(k))[i] =
             IF i <= Len(s) THEN s[i] ELSE Bytes(k)[i - Len(s)]
  BY <1>2, ConcatProperties
<1>5. Len(s) \in Nat /\ Len(Bytes(k)) \in Nat
  BY <1>2, LenProperties
<1>6. \A i \in 1 .. Len(s) : (s \o Bytes(k))[i] = s[i]
  BY <1>4, <1>5
<1>7. \A i \in 1 .. Len(Bytes(k)) : (s \o Bytes(k))[Len(s) + i] = Bytes(k)[i]
  BY <1>4, <1>5
<1>8. Len(s \o Bytes(k)) = Len(s) + 2 + BodySize[Packets[k]]
  BY <1>3, <1>4, <1>5
<1> QED
  BY <1>2, <1>4, <1>6, <1>7, <1>8 DEF s

(* The bytes of the first packets stay where they are however many follow. *)
LEMMA StreamExtends ==
    ASSUME NEW j \in 0 .. N
    PROVE  \A k \in j .. N :
               /\ Len(StreamUpTo[j]) <= Len(StreamUpTo[k])
               /\ \A i \in 1 .. Len(StreamUpTo[j]) :
                      StreamUpTo[k][i] = StreamUpTo[j][i]
<1> DEFINE Prefix(k) == /\ Len(StreamUpTo[j]) <= Len(StreamUpTo[k])
                        /\ \A i \in 1 .. Len(StreamUpTo[j]) :
                               StreamUpTo[k][i] = StreamUpTo[j][i]
           I == {k \in j .. N : ~Prefix(k)}
<1>1. N \in Nat /\ j \in Nat
  BY OneMorePacket
<1>2. \A k \in 0 .. N : Len(StreamUpTo[k]) \in Nat
  BY StreamIsBytes, LenProperties
<1>3. Prefix(j)
  BY <1>2
<1>4. ASSUME NEW k \in j .. N, k # j, Prefix(k - 1) PROVE Prefix(k)
  <2>1. k \in 1 .. N /\ k - 1 \in 0 .. N /\ k \in 0 .. N
    BY <1>1, <1>4
  <2>2. /\ Len(StreamUpTo[k])
               = Len(StreamUpTo[k - 1]) + 2 + BodySize[Packets[k]]
        /\ \A i \in 1 .. Len(StreamUpTo[k - 1]) :
               StreamUpTo[k][i] = StreamUpTo[k - 1][i]
        /\ BodySize[Packets[k]] \in 1 .. 2
    BY <2>1, StreamGrows, BytesOfPacket, Zenon
  <2>3. /\ Len(StreamUpTo[k]) \in Nat /\ Len(StreamUpTo[k - 1]) \in Nat
        /\ Len(StreamUpTo[j]) \in Nat
    BY <1>2, <2>1
  <2> QED
    BY <1>4, <2>2, <2>3
<1>5. I \subseteq Nat /\ \A k \in I : k \in j .. N /\ ~Prefix(k)
  BY <1>1
<1>6. \A k \in (j .. N) \ I : Prefix(k)
  OBVIOUS
<1> SUFFICES ASSUME I # {} PROVE FALSE
  BY <1>6
<1> HIDE DEF I, Prefix
<1>7. PICK k \in I : k = 0 \/ k - 1 \in Nat \ I
  BY <1>5, LeastNatural, Zenon
<1>8. k # j /\ k \in j .. N
  BY <1>3, <1>5
<1>9. k - 1 \in (j .. N) \ I
  BY <1>1, <1>7, <1>8
<1> QED
  BY <1>4, <1>5, <1>6, <1>8, <1>9

(* A packet's length and body are where the packets before it end.         *)
LEMMA PacketInStream ==
    ASSUME NEW k \in 1 .. N
    PROVE  LET off == Len(StreamUpTo[k - 1])
           IN  /\ off \in Nat /\ Len(Stream) \in Nat
               /\ Len(StreamUpTo[k]) = off + 2 + BodySize[Packets[k]]
               /\ Len(StreamUpTo[k]) <= Len(Stream)
               /\ Stream[off + 1] = [packet |-> k, part |-> "length", at |-> 1]
               /\ Stream[off + 3] = [packet |-> k, part |-> "body", at |-> 3]
<1> DEFINE off == Len(StreamUpTo[k - 1])
<1>1. k \in 0 .. N /\ N \in k .. N /\ k - 1 \in 0 .. N
  BY OneMorePacket
<1>2. /\ Len(StreamUpTo[k]) <= Len(Stream)
      /\ \A i \in 1 .. Len(StreamUpTo[k]) : Stream[i] = StreamUpTo[k][i]
  BY <1>1, StreamExtends DEF Stream, N
<1>3. off \in Nat /\ Len(Stream) \in Nat
  BY <1>1, StreamIsBytes, LenProperties DEF Stream, N
<1>4. /\ Len(StreamUpTo[k]) = off + 2 + BodySize[Packets[k]]
      /\ \A i \in 1 .. Len(Bytes(k)) : StreamUpTo[k][off + i] = Bytes(k)[i]
  BY StreamGrows
<1>5. /\ BodySize[Packets[k]] \in 1 .. 2
      /\ Len(Bytes(k)) = 2 + BodySize[Packets[k]]
      /\ Bytes(k)[1] = [packet |-> k, part |-> "length", at |-> 1]
      /\ Bytes(k)[3] = [packet |-> k, part |-> "body", at |-> 3]
  BY BytesOfPacket
<1> HIDE DEF off
<1>6. /\ 1 \in 1 .. Len(Bytes(k)) /\ 3 \in 1 .. Len(Bytes(k))
      /\ off + 1 \in 1 .. Len(StreamUpTo[k])
      /\ off + 3 \in 1 .. Len(StreamUpTo[k])
  BY <1>3, <1>4, <1>5
<1>7. Stream[off + 1] = Bytes(k)[1] /\ Stream[off + 3] = Bytes(k)[3]
  BY <1>2, <1>4, <1>6
<1> QED
  BY <1>2, <1>3, <1>4, <1>5, <1>7 DEF off

------------------------------------------------------------------------------
(* The invariant *)

(* A length prefix that was read ended the turn, and the next one starts   *)
(* only when the body has been dealt with; the bytes of a prefix have been *)
(* read.                                                                   *)
TurnEnded ==
    /\ expected # "none" => poll = "check" /\ prefix = 0
    /\ prefix <= position

(* What was pushed is what was handled followed by what is still queued.   *)
InOrder == pushed = received \o queue

(* As long as no bytes were dropped, the next byte to be read is in the    *)
(* length prefix of the packet after the ones handled, or at its body, or  *)
(* the stream has ended.                                                   *)
InPlace ==
    LET k == Len(handled)
    IN  \/ closed /\ position = arrived /\ expected = "none"
        \/ /\ k <= N /\ expected = "none"
           /\ position = Len(StreamUpTo[k]) + prefix
        \/ /\ k < N /\ expected = Packets[k + 1]
           /\ position = Len(StreamUpTo[k]) + 2

ThreadInv ==
    /\ TypeOK /\ TurnEnded /\ NoLostWakeup /\ InOrder
    /\ misread = 0 => MisframingHasCause /\ InPlace

(* The offsets of the packets in the stream, as far as they matter here.   *)
LEMMA Offsets ==
    /\ N \in Nat /\ Len(Stream) \in Nat
    /\ Len(StreamUpTo[0]) = 0
    /\ Len(StreamUpTo[N]) = Len(Stream)
    /\ \A k \in 0 .. N : Len(StreamUpTo[k]) \in Nat
    /\ \A k \in 1 .. N :
          /\ Len(StreamUpTo[k]) = Len(StreamUpTo[k - 1]) + 2 + BodySize[Packets[k]]
          /\ Packets[k] \in {"small", "large", "oversized"}
          /\ Stream[Len(StreamUpTo[k - 1]) + 1]
                 = [packet |-> k, part |-> "length", at |-> 1]
          /\ Stream[Len(StreamUpTo[k - 1]) + 3]
                 = [packet |-> k, part |-> "body", at |-> 3]
<1>1. N \in Nat /\ StreamUpTo[0] = << >>
  BY OneMorePacket
<1>2. \A k \in 0 .. N : Len(StreamUpTo[k]) \in Nat
  BY StreamIsBytes, LenProperties
<1>3. Len(StreamUpTo[N]) = Len(Stream) /\ Len(Stream) \in Nat
  BY <1>1, <1>2 DEF Stream, N
<1> QED
  BY <1>1, <1>2, <1>3, PacketInStream, BytesOfPacket

(* The lengths two bytes can spell.                                        *)
LEMMA LengthKinds ==
    ASSUME NEW p \in 1 .. Len(Stream)
    PROVE  LengthsAt(p) \subseteq {"small", "large", "oversized", "http"}
<1>1. Stream \in Seq(Byte)
  BY StreamIsBytes, Offsets DEF Stream, N
<1>2. Stream[p] \in Byte
  BY <1>1, ElementOfSeq
<1>3. Stream[p].packet \in 1 .. N
  BY <1>2 DEF Byte
<1> QED
  BY <1>3, Offsets, Zenon DEF LengthsAt

(* A step that handles no packet keeps MisframingHasCause.                 *)
LEMMA NothingHandled ==
    ASSUME MisframingHasCause, misread = 0, handled' = handled, closed => closed'
    PROVE  MisframingHasCause'
  BY Zenon DEF MisframingHasCause

(* A step of the queue's side: the stream is not read; what is lost with   *)
(* the dropped future is counted.                                          *)
LEMMA StreamNotRead ==
    ASSUME ThreadInv, UNCHANGED <<expected, streamVars>>,
           \/ UNCHANGED <<prefix, misread>>
           \/ expected = "none" /\ prefix' = 0 /\ misread' = misread + prefix
    PROVE  misread' = 0 => MisframingHasCause' /\ InPlace'
<1> SUFFICES ASSUME misread' = 0 PROVE MisframingHasCause' /\ InPlace'
  OBVIOUS
<1>1. misread = 0 /\ prefix' = prefix
  BY DEF ThreadInv, TypeOK
<1>2. MisframingHasCause'
  BY <1>1, NothingHandled DEF ThreadInv, streamVars
<1>3. InPlace'
  BY <1>1 DEF ThreadInv, InPlace, streamVars
<1> QED
  BY <1>2, <1>3

(* push_new_message adds its message at the end of the queue, before it    *)
(* notifies the thread.                                                    *)
LEMMA PushStep == ASSUME ThreadInv, NEW m \in Message, Push(m) PROVE ThreadInv'
<1>1. TypeOK'
  BY DEF ThreadInv, TypeOK, Push, streamVars
<1>2. TurnEnded' /\ NoLostWakeup'
  BY DEF ThreadInv, TurnEnded, NoLostWakeup, Selecting, Push, streamVars
<1>3. InOrder'
  <2>1. /\ queue \in Seq(Message) /\ received \in Seq(Message)
        /\ pushed' = Append(received \o queue, m)
        /\ received' \o queue' = received \o Append(queue, m)
    BY DEF ThreadInv, TypeOK, InOrder, Push
  <2>2. /\ Append(queue, m) = queue \o <<m>> /\ <<m>> \in Seq(Message)
        /\ Append(received \o queue, m) = (received \o queue) \o <<m>>
    BY <2>1, AppendIsConcat, ConcatProperties
  <2> QED
    BY <2>1, <2>2, ConcatAssociative DEF InOrder
<1>4. misread' = 0 => MisframingHasCause' /\ InPlace'
  BY StreamNotRead DEF Push
<1> QED
  BY <1>1, <1>2, <1>3, <1>4 DEF ThreadInv

(* A message taken off the queue is the oldest one pushed and not handled. *)
LEMMA HandleMessageStep ==
    ASSUME ThreadInv, Selecting, queue # << >>, HandleMessage,
           UNCHANGED <<notify, pushed, pushers, expected, streamVars>>
    PROVE  ThreadInv'
<1>1. TypeOK'
  BY DEF ThreadInv, TypeOK, HandleMessage, EndTurn, streamVars
<1>2. TurnEnded' /\ NoLostWakeup'
  BY DEF ThreadInv, TypeOK, TurnEnded, NoLostWakeup, HandleMessage, EndTurn,
         Selecting, streamVars
<1>3. InOrder'
  BY DEF ThreadInv, TypeOK, InOrder, HandleMessage
<1>4. misread' = 0 => MisframingHasCause' /\ InPlace'
  BY StreamNotRead DEF HandleMessage, EndTurn, Selecting
<1> QED
  BY <1>1, <1>2, <1>3, <1>4 DEF ThreadInv

(* The other steps of poll_for_messages, the timeouts and the pushers.     *)
LEMMA QueueStep ==
    ASSUME ThreadInv,
           \/ CheckQueue \/ Notified \/ PopQueue \/ MicroTimeout \/ Silence
           \/ \E m \in Message : Notify(m)
    PROVE  ThreadInv'
<1>1. CASE queue # << >> /\ (CheckQueue \/ PopQueue)
  BY <1>1, HandleMessageStep DEF CheckQueue, PopQueue
<1>2. CASE ~(queue # << >> /\ (CheckQueue \/ PopQueue))
  <2>1. UNCHANGED <<queue, pushed, received, expected, streamVars>>
    BY <1>2 DEF CheckQueue, PopQueue, Notified, MicroTimeout, Silence, Notify,
                queueVars
  <2>2. TypeOK'
    <3>1. /\ status' \in {"running", "terminated", "disconnected"}
          /\ notify' \in BOOLEAN /\ pushers' \subseteq Message
          /\ poll' \in {"check", "wait", "pop"}
      BY <1>2, Zenon DEF ThreadInv, TypeOK, CheckQueue, PopQueue, Notified,
                  MicroTimeout, Silence, Notify, EndTurn, queueVars
    <3>2. prefix' \in 0 .. 1 /\ misread' \in Nat
      BY <1>2 DEF ThreadInv, TypeOK, CheckQueue, PopQueue, Notified,
                  MicroTimeout, Silence, Notify, EndTurn
    <3> QED
      BY <2>1, <3>1, <3>2 DEF ThreadInv, TypeOK, streamVars
  <2>3. TurnEnded' /\ NoLostWakeup'
    BY <1>2, <2>1 DEF ThreadInv, TypeOK, TurnEnded, NoLostWakeup, Selecting,
                      CheckQueue, PopQueue, Notified, MicroTimeout, Silence,
                      Notify, EndTurn, queueVars, streamVars
  <2>4. InOrder'
    BY <2>1 DEF ThreadInv, InOrder
  <2>5. \/ UNCHANGED <<prefix, misread>>
        \/ expected = "none" /\ prefix' = 0 /\ misread' = misread + prefix
    BY <1>2 DEF CheckQueue, PopQueue, Notified, MicroTimeout, Silence, Notify,
                EndTurn, Selecting
  <2>6. misread' = 0 => MisframingHasCause' /\ InPlace'
    BY <2>1, <2>5, StreamNotRead
  <2> QED
    BY <2>2, <2>3, <2>4, <2>6 DEF ThreadInv
<1> QED
  BY <1>1, <1>2

------------------------------------------------------------------------------
(* The stream's side *)

(* More bytes, or the end of them, change nothing for the reader.          *)
LEMMA ArrivalStep == ASSUME ThreadInv, Arrive \/ Hangup PROVE ThreadInv'
<1>1. TypeOK'
  <2>1. arrived' \in 0 .. Len(Stream) /\ position' \in 0 .. arrived'
    BY Offsets DEF ThreadInv, TypeOK, Arrive, Hangup
  <2>2. closed' \in BOOLEAN
    BY Zenon DEF ThreadInv, TypeOK, Arrive, Hangup
  <2> QED
    BY <2>1, <2>2 DEF ThreadInv, TypeOK, Arrive, Hangup, queueVars
<1>2. TurnEnded' /\ NoLostWakeup' /\ InOrder'
  BY Zenon DEF ThreadInv, TurnEnded, NoLostWakeup, InOrder, Selecting, Arrive, Hangup,
         queueVars
<1>3. ASSUME misread' = 0 PROVE MisframingHasCause' /\ InPlace'
  <2>1. misread = 0 /\ MisframingHasCause /\ InPlace
    BY <1>3 DEF ThreadInv, Arrive, Hangup
  <2>2. MisframingHasCause'
    BY <2>1, NothingHandled DEF Arrive, Hangup
  <2>3. InPlace'
    BY <2>1 DEF InPlace, Arrive, Hangup
  <2> QED
    BY <2>2, <2>3
<1> QED
  BY <1>1, <1>2, <1>3 DEF ThreadInv

(* A reader that has dropped nothing and is not at the end of the stream   *)
(* is in the length prefix of the next packet.                             *)
LEMMA ReadsNextLength ==
    ASSUME ThreadInv, misread = 0, expected = "none", position < arrived
    PROVE  /\ Len(handled) \in Nat /\ Len(handled) <= N
           /\ position = Len(StreamUpTo[Len(handled)]) + prefix
<1>1. Len(handled) \in Nat /\ position \in Nat /\ arrived \in Nat
  BY Offsets DEF ThreadInv, TypeOK
<1>2. ASSUME Len(handled) < N PROVE Packets[Len(handled) + 1] # "none"
  <2>1. Len(handled) + 1 \in 1 .. N
    BY <1>1, <1>2, Offsets
  <2> QED
    BY <2>1, Offsets, Zenon
<1> QED
  BY <1>1, <1>2 DEF ThreadInv, InPlace

(* A byte of a length prefix.                                              *)
LEMMA ReadLengthStep == ASSUME ThreadInv, ReadLength PROVE ThreadInv'
<1>1. /\ position \in Nat /\ arrived \in Nat /\ position < arrived
      /\ arrived <= Len(Stream) /\ prefix \in {0, 1} /\ misread' = misread
      /\ position' = position + 1 /\ expected = "none"
      /\ UNCHANGED <<queueVars, arrived, closed, handled>>
  BY Offsets DEF ThreadInv, TypeOK, ReadLength, Selecting
<1>2. CASE prefix = 0
  <2>1. prefix' = 1 /\ UNCHANGED <<status, poll, expected>>
    BY <1>2 DEF ReadLength
  <2>2. TypeOK'
    BY <1>1, <2>1, Offsets DEF ThreadInv, TypeOK, queueVars
  <2>3. TurnEnded' /\ NoLostWakeup' /\ InOrder'
    BY <1>1, <2>1 DEF ThreadInv, TurnEnded, NoLostWakeup, InOrder, Selecting,
                      queueVars
  <2>4. ASSUME misread' = 0 PROVE MisframingHasCause' /\ InPlace'
    <3>1. misread = 0 /\ MisframingHasCause /\ InPlace
      BY <1>1, <2>4 DEF ThreadInv
    <3>2. MisframingHasCause'
      BY <1>1, <3>1, NothingHandled
    <3>3. /\ Len(handled) \in Nat /\ Len(handled) <= N
          /\ position = Len(StreamUpTo[Len(handled)])
      BY <1>1, <1>2, <3>1, ReadsNextLength, Offsets
    <3>4. InPlace'
      BY <1>1, <2>1, <3>3, Offsets DEF InPlace
    <3> QED
      BY <3>2, <3>4
  <2> QED
    BY <2>2, <2>3, <2>4 DEF ThreadInv
<1>3. CASE prefix = 1
  <2>1. PICK length \in LengthsAt(position) :
            IF length = "http" THEN status' = "terminated" /\ UNCHANGED expected
            ELSE expected' = length /\ UNCHANGED status
    BY <1>3 DEF ReadLength
  <2>2. poll' = "check" /\ prefix' = 0
    BY <1>3 DEF ReadLength, EndTurn
  <2>3. position \in 1 .. Len(Stream)
    BY <1>1, <1>3, Offsets DEF ThreadInv, TurnEnded
  <2>4. length \in {"small", "large", "oversized", "http"}
    BY <2>1, <2>3, LengthKinds
  <2>5. TypeOK'
    BY <1>1, <2>1, <2>2, <2>4, Offsets DEF ThreadInv, TypeOK, queueVars
  <2>6. TurnEnded' /\ NoLostWakeup' /\ InOrder'
    BY <1>1, <2>2 DEF ThreadInv, TurnEnded, NoLostWakeup, InOrder, Selecting,
                      queueVars
  <2>7. ASSUME misread' = 0 PROVE MisframingHasCause' /\ InPlace'
    <3> DEFINE k == Len(handled)
    <3>1. misread = 0 /\ MisframingHasCause /\ InPlace
      BY <1>1, <2>7 DEF ThreadInv
    <3>2. MisframingHasCause'
      BY <1>1, <3>1, NothingHandled
    <3>3. /\ k \in Nat /\ k <= N /\ position = Len(StreamUpTo[k]) + 1
      BY <1>1, <1>3, <3>1, ReadsNextLength
    <3>4. k < N
      BY <1>1, <3>3, Offsets
    <3>5. k + 1 \in 1 .. N /\ (k + 1) - 1 = k
      BY <3>3, <3>4, Offsets
    <3>6. Stream[position] = [packet |-> k + 1, part |-> "length", at |-> 1]
      BY <3>3, <3>5, Offsets, Zenon
    <3>7. length = Packets[k + 1] /\ length # "http"
      <4>1. LengthsAt(position) = {Packets[k + 1]}
        BY <3>6 DEF LengthsAt
      <4> QED
        BY <2>1, <3>5, <4>1, Offsets, Zenon
    <3>8. expected' = Packets[k + 1]
      BY <2>1, <3>7
    <3>9. InPlace'
      BY <1>1, <2>2, <3>3, <3>4, <3>8, Offsets DEF InPlace
    <3> QED
      BY <3>2, <3>9
  <2> QED
    BY <2>5, <2>6, <2>7 DEF ThreadInv
<1> QED
  BY <1>1, <1>2, <1>3

(* The end of the stream inside a length prefix, and a body that is left   *)
(* in the stream.                                                          *)
LEMMA GiveUpStep ==
    ASSUME ThreadInv, ReadLengthFails \/ RejectOversized PROVE ThreadInv'
<1>1. CASE ReadLengthFails
  <2>1. TypeOK'
    BY <1>1 DEF ThreadInv, TypeOK, ReadLengthFails, EndTurn, queueVars,
                streamVars
  <2>2. TurnEnded' /\ NoLostWakeup' /\ InOrder'
    BY <1>1 DEF ThreadInv, TypeOK, TurnEnded, NoLostWakeup, InOrder, Selecting,
                ReadLengthFails, EndTurn, queueVars, streamVars
  <2>3. misread' = 0 => MisframingHasCause'
    BY <1>1, NothingHandled DEF ThreadInv, ReadLengthFails, streamVars
  <2>4. InPlace'
    BY <1>1 DEF InPlace, ReadLengthFails, Selecting, streamVars
  <2> QED
    BY <2>1, <2>2, <2>3, <2>4 DEF ThreadInv
<1>2. CASE RejectOversized
  <2>1. misread' = misread + 2
    BY <1>2 DEF RejectOversized, BodySize
  <2>2. TypeOK'
    BY <1>2, <2>1 DEF ThreadInv, TypeOK, RejectOversized, queueVars, streamVars
  <2>3. TurnEnded' /\ NoLostWakeup' /\ InOrder'
    BY <1>2 DEF ThreadInv, TypeOK, TurnEnded, NoLostWakeup, InOrder, Selecting,
                RejectOversized, queueVars, streamVars
  <2>4. misread' # 0
    BY <2>1 DEF ThreadInv, TypeOK
  <2> QED
    BY <2>2, <2>3, <2>4 DEF ThreadInv
<1> QED
  BY <1>1, <1>2

(* A packet that is handled while no bytes were dropped is the next one    *)
(* that was sent.                                                          *)
LEMMA HandledIsNext ==
    ASSUME ThreadInv, misread = 0, UNCHANGED <<closed, misread, arrived, prefix>>,
           expected \in {"small", "large"},
           NEW n \in 0 .. 2, Receive(n), position + n <= arrived,
           \/ n = BodySize[expected]
           \/ n < BodySize[expected] /\ closed /\ position + n = arrived
    PROVE  MisframingHasCause' /\ InPlace'
<1> DEFINE k == Len(handled)
<1>1. /\ misread = 0 /\ MisframingHasCause /\ InPlace /\ prefix = 0
      /\ position \in Nat /\ arrived \in Nat
      /\ handled \in Seq([length : 1 .. 2, read : 0 .. 2, from : Nat])
  BY Offsets DEF ThreadInv, TypeOK, TurnEnded
<1>2. /\ k \in Nat /\ k < N /\ expected = Packets[k + 1]
      /\ position = Len(StreamUpTo[k]) + 2
  BY <1>1 DEF InPlace
<1>3. k + 1 \in 1 .. N /\ (k + 1) - 1 = k
  BY <1>2, Offsets
<1> DEFINE h == [length |-> BodySize[expected], read |-> n, from |-> position + 1]
<1>4. /\ handled' = Append(handled, h) /\ Len(handled') = k + 1
      /\ handled'[k + 1] = h /\ \A i \in 1 .. k : handled'[i] = handled[i]
      /\ expected' = "none" /\ position' = position + n
  BY <1>1, <1>2 DEF Receive
<1>5. /\ Len(StreamUpTo[k + 1]) = position + BodySize[expected]
      /\ Stream[position + 1] = [packet |-> k + 1, part |-> "body", at |-> 3]
  <2>1. /\ Len(StreamUpTo[k + 1])
               = Len(StreamUpTo[(k + 1) - 1]) + 2 + BodySize[Packets[k + 1]]
        /\ Stream[Len(StreamUpTo[(k + 1) - 1]) + 3]
               = [packet |-> k + 1, part |-> "body", at |-> 3]
    BY <1>3, Offsets, Zenon
  <2>2. Len(StreamUpTo[k]) \in Nat
    BY <1>2, Offsets
  <2>3. Len(StreamUpTo[k]) + 3 = position + 1
    BY <1>2, <2>2
  <2> QED
    BY <1>2, <1>3, <2>1, <2>2, <2>3
<1>6. h.length = BodySize[expected] /\ h.read = n /\ h.from = position + 1
  OBVIOUS
<1> HIDE DEF h, k
<1>7. BodySize[expected] \in 1 .. 2
  BY DEF BodySize
<1>8. ASSUME NEW i \in 1 .. Len(handled')
      PROVE  LET g == handled'[i]
             IN  /\ g.length = BodySize[Packets[i]]
                 /\ g.read > 0 => Stream[g.from] = [packet |-> i, part |-> "body",
                                                    at |-> 3]
                 /\ g.read < g.length => closed'
  <2>1. CASE i = k + 1
    BY <1>2, <1>4, <1>5, <1>6, <1>7, <2>1
  <2>2. CASE i # k + 1
    <3>1. i \in 1 .. k
      BY <1>2, <1>4, <2>2
    <3> QED
      BY <1>1, <1>4, <3>1 DEF MisframingHasCause, k
  <2> QED
    BY <2>1, <2>2
<1>9. MisframingHasCause'
  BY <1>8, Zenon DEF MisframingHasCause
<1>10. InPlace'
  <2>1. CASE n = BodySize[expected]
    <3>1. /\ Len(handled') <= N /\ prefix' = 0
          /\ position' = Len(StreamUpTo[Len(handled')])
      BY <1>1, <1>3, <1>4, <1>5, <2>1, Offsets
    <3>2. position' \in Nat
      BY <1>1, <1>4
    <3> QED
      BY <1>4, <3>1, <3>2 DEF InPlace
  <2>2. CASE closed /\ position + n = arrived
    BY <1>4, <2>2 DEF InPlace
  <2> QED
    BY <2>1, <2>2
<1> QED
  BY <1>9, <1>10

(* The body of a packet, complete, cut short by the end of the stream, or  *)
(* missing.                                                                *)
LEMMA ReceiveStep ==
    ASSUME ThreadInv, ReceiveSmall \/ ReceiveLarge PROVE ThreadInv'
<1>1. /\ expected \in {"small", "large"} /\ BodySize[expected] \in 1 .. 2
      /\ poll = "check" /\ prefix = 0 /\ position \in Nat /\ arrived \in Nat
      /\ position <= arrived
      /\ UNCHANGED <<status, queueVars, poll, prefix, misread, arrived, closed>>
  BY Offsets DEF ThreadInv, TypeOK, TurnEnded, ReceiveSmall, ReceiveLarge,
                 BodySize
<1>2. \/ \E n \in 0 .. 2 :
            /\ Receive(n) /\ position + n <= arrived
            /\ \/ n = BodySize[expected]
               \/ n < BodySize[expected] /\ closed /\ position + n = arrived
      \/ /\ expected' = "none" /\ UNCHANGED <<position, handled>>
         /\ closed /\ position = arrived
  <2>1. CASE ReceiveSmall
    BY <1>1, <2>1 DEF ReceiveSmall, Available, BodySize
  <2>2. CASE ReceiveLarge
    <3>1. CASE Available >= BodySize["large"] /\ Receive(BodySize["large"])
      BY <1>1, <2>2, <3>1 DEF ReceiveLarge, Available, BodySize
    <3>2. CASE closed /\ Available < BodySize["large"] /\ Receive(Available)
      <4>1. /\ Available \in 0 .. 2 /\ Available < BodySize[expected]
            /\ position + Available = arrived
        BY <1>1, <2>2, <3>2 DEF ReceiveLarge, Available, BodySize
      <4> QED
        BY <1>1, <3>2, <4>1
    <3> QED
      BY <2>2, <3>1, <3>2 DEF ReceiveLarge
  <2> QED
    BY <2>1, <2>2
<1>3. NoLostWakeup' /\ InOrder'
  BY <1>1 DEF ThreadInv, NoLostWakeup, InOrder, Selecting, queueVars
<1>4. ASSUME NEW n \in 0 .. 2, Receive(n), position + n <= arrived,
             \/ n = BodySize[expected]
             \/ n < BodySize[expected] /\ closed /\ position + n = arrived
      PROVE  ThreadInv'
  <2>1. /\ expected' = "none" /\ position' = position + n
        /\ handled' \in Seq([length : 1 .. 2, read : 0 .. 2, from : Nat])
    <3>1. /\ handled \in Seq([length : 1 .. 2, read : 0 .. 2, from : Nat])
          /\ [length |-> BodySize[expected], read |-> n, from |-> position + 1]
                 \in [length : 1 .. 2, read : 0 .. 2, from : Nat]
      BY <1>1 DEF ThreadInv, TypeOK
    <3> QED
      BY <1>4, <3>1, AppendProperties DEF Receive
  <2>2. position' \in 0 .. arrived' /\ prefix' <= position'
    BY <1>1, <1>4, <2>1
  <2>3. TypeOK'
    BY <1>1, <2>1, <2>2 DEF ThreadInv, TypeOK, queueVars
  <2>4. TurnEnded'
    BY <2>1, <2>2 DEF TurnEnded
  <2>5. misread' = 0 => MisframingHasCause' /\ InPlace'
    BY <1>1, <1>4, HandledIsNext
  <2> QED
    BY <1>3, <2>3, <2>4, <2>5 DEF ThreadInv
<1>5. ASSUME expected' = "none", UNCHANGED <<position, handled>>,
             closed, position = arrived
      PROVE  ThreadInv'
  <2>1. TypeOK' /\ TurnEnded'
    BY <1>1, <1>5 DEF ThreadInv, TypeOK, TurnEnded, queueVars
  <2>2. misread' = 0 => MisframingHasCause'
    BY <1>1, <1>5, NothingHandled DEF ThreadInv
  <2>3. InPlace'
    BY <1>1, <1>5 DEF InPlace
  <2> QED
    BY <1>3, <2>1, <2>2, <2>3 DEF ThreadInv
<1> QED
  BY <1>2, <1>4, <1>5

------------------------------------------------------------------------------
(* The theorems *)

(* ThreadInv holds in every reachable state of the thread.                 *)
THEOREM ThreadSafety == Spec => []ThreadInv
<1>1. Init => ThreadInv
  <2> SUFFICES ASSUME Init PROVE ThreadInv
    OBVIOUS
  <2>1. TypeOK
    <3>1. /\ arrived \in 0 .. Len(Stream) /\ position \in 0 .. arrived
          /\ prefix \in 0 .. 1 /\ misread \in Nat
      BY Offsets DEF Init
    <3>2. notify \in BOOLEAN /\ closed \in BOOLEAN
      BY Zenon DEF Init
    <3> QED
      BY <3>1, <3>2 DEF Init, TypeOK
  <2>2. TurnEnded /\ NoLostWakeup
    BY DEF Init, TurnEnded, NoLostWakeup
  <2>3. InOrder
    BY ConcatEmptySeq DEF Init, InOrder
  <2>4. MisframingHasCause
    BY DEF Init, MisframingHasCause
  <2>5. InPlace
    BY Offsets DEF Init, InPlace
  <2> QED
    BY <2>1, <2>2, <2>3, <2>4, <2>5 DEF ThreadInv
<1>2. ThreadInv /\ [Next]_vars => ThreadInv'
  <2> SUFFICES ASSUME ThreadInv, [Next]_vars PROVE ThreadInv'
    OBVIOUS
  <2>1. CASE UNCHANGED vars
    BY <2>1 DEF ThreadInv, TypeOK, TurnEnded, NoLostWakeup, Selecting, InOrder,
                MisframingHasCause, InPlace, vars, queueVars, streamVars
  <2>2. CASE Run
    BY <2>2, QueueStep, ReadLengthStep, GiveUpStep, ReceiveStep DEF Run
  <2>3. ASSUME NEW m \in Message, Push(m) \/ Notify(m) PROVE ThreadInv'
    BY <2>3, PushStep, QueueStep
  <2>4. CASE Arrive \/ Hangup
    BY <2>4, ArrivalStep
  <2> QED
    BY <2>1, <2>2, <2>3, <2>4 DEF Next
<1> QED
  BY <1>1, <1>2, PTL DEF Spec

(* The thread never sleeps on message_notify beside a message nobody is    *)
(* about to wake it for, however select! drops poll_for_messages and       *)
(* whichever permit it took (push_new_message, poll_for_messages).         *)
THEOREM NoWakeupIsLost == Spec => []NoLostWakeup
  BY ThreadSafety, PTL DEF ThreadInv

(* Messages are handled in the order they were pushed, none is lost, and   *)
(* none is handled twice: a dropped future never takes a message with it.  *)
THEOREM MessagesInOrder == Spec => []InOrder
  BY ThreadSafety, PTL DEF ThreadInv

(* Whatever packets a client sends and however their bytes arrive, packet  *)
(* boundaries are lost only where a future that had read part of a length  *)
(* was dropped or an oversized body was left (poll_for_tcp_data,           *)
(* recv_and_handle).                                                       *)
THEOREM FramesAreExact == Spec => []MisframingHasCause
<1>1. ThreadInv => MisframingHasCause
  BY Zenon DEF ThreadInv, MisframingHasCause
<1> QED
  BY <1>1, ThreadSafety, PTL
=============================================================================
