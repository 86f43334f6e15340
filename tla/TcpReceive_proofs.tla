--------------------------- MODULE TcpReceive_proofs ---------------------------
(***************************************************************************)
(* What tcp::Update makes of the stream of the peer, for any packets, any  *)
(* sizes of buffers and headers, and wherever recv cuts the stream.        *)
(*                                                                         *)
(* The invariant keeps all the bytes that were ever sent, with where each  *)
(* packet starts; every step of Update moves a position in it, until XNUX  *)
(* clears bytes that were kept.  The sizes of the buffers hold beyond that.*)
(***************************************************************************)
EXTENDS TcpReceive, SequenceLemmas

Byte   == 0 .. Base - 1
Item   == [value : Byte, inner : BOOLEAN]
Packet == [capacity : Nat, bytes : Seq(Byte)]

Types ==
  /\ platform \in Platforms /\ sent \in Seq(Payloads) /\ received \in Seq(Seq(Byte))
  /\ wire \in Seq(Item) /\ buffer \in Seq(Byte) /\ offset \in 0 .. Len(buffer)
  /\ data \in {NoPacket} \cup Packet /\ pc \in {"idle", "loop", "crashed"} /\ wiped \in BOOLEAN

\* Less than a header is kept, and only when no packet is begun.
Idle  == pc = "idle" => offset = 0 /\ (buffer = <<>> \/ (data = NoPacket /\ Len(buffer) < HeadLen))
Sizes == Types /\ Idle /\ BufferFits

\* All the bytes sent, and where each packet starts.
Laid(stream, start) ==
  /\ stream \in Seq(Item) /\ start \in [1 .. Len(sent) + 1 -> Nat]
  /\ start[1] = 0 /\ start[Len(sent) + 1] = Len(stream)
  /\ \A i \in 1 .. Len(sent) :
       /\ start[i + 1] = start[i] + HeadLen + Len(sent[i]) /\ start[i + 1] <= Len(stream)
       /\ \A j \in 1 .. HeadLen + Len(sent[i]) : stream[start[i] + j] = Encode(sent[i])[j]

\* How many of them were received, and how many processed.
Pos(stream)  == Len(stream) - Len(wire)
Processed(stream) == Pos(stream) - (Len(buffer) - offset)
Flows(stream) ==
  /\ Len(wire) <= Len(stream) /\ Len(buffer) - offset <= Pos(stream)
  /\ \A i \in 1 .. Len(wire) : wire[i] = stream[Pos(stream) + i]
  /\ \A i \in 1 .. Len(buffer) - offset : buffer[offset + i] = stream[Processed(stream) + i].value

\* The packet that is begun with these bytes is the next one.
Begins(stream, start, packet, at) ==
  LET next == Len(received) + 1 IN
  /\ next <= Len(sent) /\ packet \in Packet
  /\ packet.capacity = Len(sent[next]) /\ Len(packet.bytes) < packet.capacity
  /\ \A j \in 1 .. Len(packet.bytes) : packet.bytes[j] = sent[next][j]
  /\ at = start[next] + HeadLen + Len(packet.bytes)
Filled(stream, start) ==
  IF data = NoPacket THEN Processed(stream) = start[Len(received) + 1]
                     ELSE Begins(stream, start, data, Processed(stream))

Delivered ==
  /\ Len(received) <= Len(sent)
  /\ \A i \in 1 .. Len(received) : received[i] = sent[i]

\* Whether recv has cut a header, and that Update has crashed only then.
Cut     == wire # <<>> /\ wire[1].inner
Crashed == pc = "crashed" => Cut

Streams(stream, start) == Laid(stream, start) /\ Flows(stream) /\ Filled(stream, start)
Safe == Delivered /\ Crashed /\ \E stream, start : Streams(stream, start)
IInv == Sizes /\ (~ wiped => Safe)

-----------------------------------------------------------------------------

LEMMA Constants ==
  /\ HeadLen \in Nat /\ HeadLen >= 1 /\ BufLen \in Nat
  /\ \A p \in Payloads : p \in Seq(Byte) /\ Len(p) \in Nat /\ Len(p) > 0
  /\ NoPacket \notin Packet
BY TcpReceiveAssumption DEF Byte, Packet

-----------------------------------------------------------------------------
(* Headers: a length reads back from the bytes it was written to.  What a   *)
(* recursive function is follows by induction with a set (Induct).          *)

LEMMA Bounds == HeadLen \in Nat /\ HeadLen >= 1 /\ Base \in Nat \ {0} /\ Base > 1
BY TcpReceiveAssumption

\* A function defined by recursion exists.
Recurs(f, N, a, g) == \A i \in 0 .. N : f[i] = IF i = 0 THEN a ELSE g[<<i, f[i - 1]>>]
LEMMA Recursion ==
  ASSUME NEW N \in Nat, NEW S, NEW a \in S, NEW g \in [(1 .. N) \X S -> S]
  PROVE  \E f \in [0 .. N -> S] : Recurs(f, N, a, g)
<1> DEFINE Rule(f, m) == f \in [0 .. m -> S] /\ \A i \in 0 .. m : f[i] = IF i = 0 THEN a ELSE g[<<i, f[i - 1]>>]
           T == {m \in Nat : \E f : Rule(f, m)}
<1>1. 0 \in T
  <2>1. Rule([i \in {0} |-> a], 0)
    OBVIOUS
  <2> QED BY <2>1
<1>2. ASSUME NEW m \in 0 .. N - 1, m \in T PROVE m + 1 \in T
  <2>1. PICK f : Rule(f, m)
    BY <1>2
  <2>2. m + 1 \in 1 .. N /\ f[m] \in S
    BY <2>1
  <2>3. PICK next \in S : next = g[<<m + 1, f[m]>>]
    BY <2>2
  <2> DEFINE h == [i \in 0 .. m + 1 |-> IF i = m + 1 THEN next ELSE f[i]]
  <2>4. h \in [0 .. m + 1 -> S]
    BY <2>1, <2>3
  <2>5. ASSUME NEW i \in 0 .. m + 1 PROVE h[i] = IF i = 0 THEN a ELSE g[<<i, h[i - 1]>>]
    <3>1. CASE i = m + 1
      <4>1. h[i - 1] = f[m] /\ h[i] = next /\ i # 0
        BY <3>1
      <4> QED BY <2>3, <3>1, <4>1
    <3>2. CASE i # m + 1
      <4>1. i \in 0 .. m /\ h[i] = f[i] /\ (i # 0 => h[i - 1] = f[i - 1])
        BY <3>2
      <4> HIDE DEF h
      <4> QED BY <2>1, <4>1
    <3> QED BY <3>1, <3>2
  <2> HIDE DEF h
  <2>6. Rule(h, m + 1)
    BY <2>4, <2>5
  <2> QED BY <2>6
<1> HIDE DEF T
<1>3. N \in T
  BY <1>1, <1>2, Induct
<1> QED BY <1>3 DEF T, Recurs

\* A set that a function starts in and does not leave has all its values.
LEMMA Stays ==
  ASSUME NEW N \in Nat, NEW S, NEW f, f[0] \in S, \A i \in 1 .. N : f[i - 1] \in S => f[i] \in S
  PROVE  \A i \in 0 .. N : f[i] \in S
<1> DEFINE T == {i \in Nat : f[i] \in S}
<1>1. 0 \in T
  OBVIOUS
<1>2. ASSUME NEW i \in 0 .. N - 1, i \in T PROVE i + 1 \in T
  <2>1. i + 1 \in 1 .. N /\ (i + 1) - 1 = i
    OBVIOUS
  <2> QED BY <1>2, <2>1
<1> HIDE DEF T
<1>3. \A i \in 0 .. N : i \in T
  BY <1>1, <1>2, Induct
<1> QED BY <1>3 DEF T

LEMMA PowerRule ==
  /\ \A k \in 0 .. HeadLen : power[k] = IF k = 0 THEN 1 ELSE Base * power[k - 1]
  /\ \A k \in 0 .. HeadLen : power[k] \in Nat \ {0}
<1> DEFINE S == Nat \ {0}
           g == [x \in (1 .. HeadLen) \X S |-> Base * x[2]]
<1>1. g \in [(1 .. HeadLen) \X S -> S] /\ 1 \in S
  BY Bounds
<1>2. \A k \in 1 .. HeadLen : \A n \in S : g[<<k, n>>] = Base * n
  OBVIOUS
<1> HIDE DEF g
<1>3. PICK f \in [0 .. HeadLen -> S] : Recurs(f, HeadLen, 1, g)
  <2> HIDE DEF S
  <2>1. HeadLen \in Nat
    BY Bounds
  <2> QED BY Zenon, <1>1, <2>1, Recursion
<1>4. \A k \in 0 .. HeadLen : f[k] = IF k = 0 THEN 1 ELSE Base * f[k - 1]
  <2>1. \A k \in 1 .. HeadLen : k - 1 \in 0 .. HeadLen
    BY Bounds
  <2>2. \A k \in 0 .. HeadLen : k # 0 => k \in 1 .. HeadLen
    OBVIOUS
  <2> HIDE DEF S
  <2> QED BY <1>2, <1>3, <2>1, <2>2 DEF Recurs
<1>5. f = [k \in 0 .. HeadLen |-> IF k = 0 THEN 1 ELSE Base * f[k - 1]]
  BY <1>4
<1>6. power = [k \in 0 .. HeadLen |-> IF k = 0 THEN 1 ELSE Base * power[k - 1]]
  BY <1>5 DEF power
<1>7. \A k \in 0 .. HeadLen : power[k] = IF k = 0 THEN 1 ELSE Base * power[k - 1]
  BY <1>6
<1>8. power[0] \in S /\ \A k \in 1 .. HeadLen : power[k - 1] \in S => power[k] \in S
  BY SMTT(60), <1>7, Bounds
<1>9. \A k \in 0 .. HeadLen : power[k] \in S
  <2> HIDE DEF S
  <2> QED BY <1>8, Bounds, Stays
<1> QED BY <1>7, <1>9

LEMMA DivMod ==
  ASSUME NEW b \in Nat \ {0}, NEW n \in Nat
  PROVE  n \div b \in Nat /\ n % b \in 0 .. b - 1 /\ n = (n \div b) * b + (n % b)
OBVIOUS

LEMMA DivLess ==
  ASSUME NEW b \in Nat \ {0}, NEW n \in Nat, NEW c \in Nat, n < b * c
  PROVE  n \div b < c
<1>1. PICK q, r : q = n \div b /\ r = n % b
  OBVIOUS
<1>2. q \in Nat /\ r \in Nat /\ n = q * b + r
  BY <1>1, DivMod
<1>3. ASSUME q >= c PROVE FALSE
  <2>1. q * b >= c * b
    BY <1>2, <1>3
  <2> QED BY <1>2, <2>1
<1> QED BY <1>1, <1>2, <1>3

LEMMA ShiftedRule ==
  ASSUME NEW n \in Nat
  PROVE  /\ \A i \in 0 .. HeadLen : Shifted(n)[i] = IF i = 0 THEN n ELSE Shifted(n)[i - 1] \div Base
         /\ \A i \in 0 .. HeadLen : Shifted(n)[i] \in Nat
<1> DEFINE g == [x \in (1 .. HeadLen) \X Nat |-> x[2] \div Base]
           shifted[i \in 0 .. HeadLen] == IF i = 0 THEN n ELSE shifted[i - 1] \div Base
<1>1. Shifted(n) = shifted
  BY DEF Shifted
<1>2. g \in [(1 .. HeadLen) \X Nat -> Nat]
  BY Bounds, DivMod
<1>3. \A i \in 1 .. HeadLen : \A m \in Nat : g[<<i, m>>] = m \div Base
  OBVIOUS
<1> HIDE DEF g
<1>4. PICK f \in [0 .. HeadLen -> Nat] : Recurs(f, HeadLen, n, g)
  <2>1. HeadLen \in Nat
    BY Bounds
  <2> QED BY Zenon, <1>2, <2>1, Recursion
<1>5. \A i \in 0 .. HeadLen : f[i] = IF i = 0 THEN n ELSE f[i - 1] \div Base
  <2>1. \A i \in 1 .. HeadLen : i - 1 \in 0 .. HeadLen
    BY Bounds
  <2>2. \A i \in 0 .. HeadLen : i # 0 => i \in 1 .. HeadLen
    OBVIOUS
  <2> QED BY <1>3, <1>4, <2>1, <2>2 DEF Recurs
<1>6. f = [i \in 0 .. HeadLen |-> IF i = 0 THEN n ELSE f[i - 1] \div Base]
  BY <1>5
<1>7. shifted = [i \in 0 .. HeadLen |-> IF i = 0 THEN n ELSE shifted[i - 1] \div Base]
  BY <1>6
<1> HIDE DEF shifted
<1>8. \A i \in 0 .. HeadLen : shifted[i] = IF i = 0 THEN n ELSE shifted[i - 1] \div Base
  BY <1>7
<1>9. shifted[0] \in Nat /\ \A i \in 1 .. HeadLen : shifted[i - 1] \in Nat => shifted[i] \in Nat
  <2>1. shifted[0] \in Nat
    BY <1>8, Bounds
  <2>2. ASSUME NEW i \in 1 .. HeadLen, shifted[i - 1] \in Nat PROVE shifted[i] \in Nat
    <3>1. i \in 0 .. HeadLen /\ i # 0
      BY Bounds
    <3>2. shifted[i] = shifted[i - 1] \div Base
      BY <1>8, <3>1
    <3> QED BY <2>2, <3>2, Bounds, DivMod
  <2> QED BY <2>1, <2>2
<1>10. \A i \in 0 .. HeadLen : shifted[i] \in Nat
  BY <1>9, Bounds, Stays
<1> QED BY <1>1, <1>8, <1>10

\* Shifting all the bytes out leaves nothing.
LEMMA ShiftedOut ==
  ASSUME NEW n \in Nat, n < power[HeadLen]
  PROVE  Shifted(n)[HeadLen] = 0
<1> DEFINE T == {i \in 0 .. HeadLen : Shifted(n)[i] < power[HeadLen - i]}
<1>1. 0 \in T
  BY Bounds, ShiftedRule
<1>2. ASSUME NEW i \in 0 .. HeadLen - 1, i \in T PROVE i + 1 \in T
  <2>1. /\ i + 1 \in 0 .. HeadLen /\ (i + 1) - 1 = i /\ i + 1 # 0
        /\ HeadLen - i \in 0 .. HeadLen /\ HeadLen - i # 0 /\ (HeadLen - i) - 1 = HeadLen - (i + 1)
        /\ HeadLen - (i + 1) \in 0 .. HeadLen
    BY Bounds
  <2>2. Shifted(n)[i + 1] = Shifted(n)[i] \div Base /\ Shifted(n)[i] \in Nat
    <3>1. i \in 0 .. HeadLen
      BY Bounds
    <3> QED BY <2>1, <3>1, ShiftedRule
  <2>3. power[HeadLen - i] = Base * power[HeadLen - (i + 1)] /\ power[HeadLen - (i + 1)] \in Nat
    BY <2>1, PowerRule
  <2>4. Shifted(n)[i] < Base * power[HeadLen - (i + 1)]
    BY <1>2, <2>3
  <2>5. Shifted(n)[i] \div Base < power[HeadLen - (i + 1)]
    BY <2>2, <2>3, <2>4, Bounds, DivLess
  <2> QED BY <2>1, <2>2, <2>5
<1> HIDE DEF T
<1>3. HeadLen \in T
  BY <1>1, <1>2, Bounds, Induct
<1>4. Shifted(n)[HeadLen] < power[0] /\ power[0] = 1 /\ Shifted(n)[HeadLen] \in Nat
  <2>1. HeadLen - HeadLen = 0 /\ 0 \in 0 .. HeadLen /\ HeadLen \in 0 .. HeadLen
    BY Bounds
  <2> QED BY <1>3, <2>1, PowerRule, ShiftedRule DEF T
<1> QED BY <1>4

\* A number is read byte by byte.
LEMMA NumberRule ==
  ASSUME NEW bytes \in Seq(Byte)
  PROVE  \E upTo : /\ Number(bytes) = upTo[Len(bytes)]
                   /\ \A i \in 0 .. Len(bytes) : upTo[i] = IF i = 0 THEN 0 ELSE upTo[i - 1] * Base + bytes[i]
                   /\ \A i \in 0 .. Len(bytes) : upTo[i] \in Nat
<1> DEFINE upTo[i \in 0 .. Len(bytes)] == IF i = 0 THEN 0 ELSE upTo[i - 1] * Base + bytes[i]
<1>0. PICK n \in Nat : n = Len(bytes)
  OBVIOUS
<1>1. \A i \in 1 .. n : bytes[i] \in Nat
  BY <1>0, Bounds DEF Byte
<1> DEFINE g == [x \in (1 .. n) \X Nat |-> x[2] * Base + bytes[x[1]]]
<1>2. g \in [(1 .. n) \X Nat -> Nat]
  <2>1. ASSUME NEW i \in 1 .. n, NEW m \in Nat PROVE m * Base + bytes[i] \in Nat
    <3>1. bytes[i] \in Nat /\ Base \in Nat
      BY <1>1, Bounds
    <3>2. \A k, l, q \in Nat : k * l + q \in Nat
      OBVIOUS
    <3> QED BY <3>1, <3>2
  <2>2. \A x \in (1 .. n) \X Nat : x[1] \in 1 .. n /\ x[2] \in Nat
    OBVIOUS
  <2> QED BY <2>1, <2>2
<1>3. \A i \in 1 .. n : \A m \in Nat : g[<<i, m>>] = m * Base + bytes[i]
  OBVIOUS
<1> HIDE DEF g
<1>4. PICK f \in [0 .. n -> Nat] : Recurs(f, n, 0, g)
  <2>1. n \in Nat /\ 0 \in Nat
    OBVIOUS
  <2> QED BY Zenon, <1>2, <2>1, Recursion
<1>5. \A i \in 0 .. n : f[i] = IF i = 0 THEN 0 ELSE f[i - 1] * Base + bytes[i]
  <2>1. \A i \in 1 .. n : i - 1 \in 0 .. n
    OBVIOUS
  <2>2. \A i \in 0 .. n : i # 0 => i \in 1 .. n
    OBVIOUS
  <2> QED BY <1>3, <1>4, <2>1, <2>2 DEF Recurs
<1>6. f = [i \in 0 .. Len(bytes) |-> IF i = 0 THEN 0 ELSE f[i - 1] * Base + bytes[i]]
  BY <1>0, <1>5
<1>7. upTo = [i \in 0 .. Len(bytes) |-> IF i = 0 THEN 0 ELSE upTo[i - 1] * Base + bytes[i]]
  BY <1>6
<1>8. Number(bytes) = upTo[Len(bytes)]
  BY DEF Number
<1> HIDE DEF upTo
<1>9. \A i \in 0 .. n : upTo[i] = IF i = 0 THEN 0 ELSE upTo[i - 1] * Base + bytes[i]
  BY <1>0, <1>7
<1>10. upTo[0] \in Nat /\ \A i \in 1 .. n : upTo[i - 1] \in Nat => upTo[i] \in Nat
  <2>1. upTo[0] \in Nat
    BY <1>9
  <2>2. ASSUME NEW i \in 1 .. n, upTo[i - 1] \in Nat PROVE upTo[i] \in Nat
    <3>1. upTo[i] = upTo[i - 1] * Base + bytes[i]
      BY <1>9
    <3>2. bytes[i] \in Nat /\ Base \in Nat
      BY <1>1, Bounds
    <3>3. \A k, l, q \in Nat : k * l + q \in Nat
      OBVIOUS
    <3> QED BY <2>2, <3>1, <3>2, <3>3
  <2> QED BY <2>1, <2>2
<1>11. \A i \in 0 .. n : upTo[i] \in Nat
  BY <1>10, Stays
<1> QED BY <1>0, <1>8, <1>9, <1>11

LEMMA DecodeInt == \A bytes \in Seq(Byte) : Decode(bytes) \in Int
<1> TAKE bytes \in Seq(Byte)
<1>1. Number(bytes) \in Nat
  <2>1. Len(bytes) \in 0 .. Len(bytes)
    OBVIOUS
  <2> QED BY <2>1, NumberRule
<1>2. power[HeadLen] \in Nat
  BY Bounds, PowerRule
<1> QED BY <1>1, <1>2 DEF Decode

\* The bytes of a header read as the length they were written from.
LEMMA HeaderReads ==
  ASSUME NEW p \in Payloads
  PROVE  /\ Decode([i \in 1 .. HeadLen |-> Encode(p)[i].value]) = Len(p)
         /\ \A i \in 1 .. HeadLen : Encode(p)[i].value \in Byte
<1>1. PICK n \in Nat : n = Len(p)
  BY TcpReceiveAssumption
<1>2. n < power[HeadLen] \div 2 /\ power[HeadLen] \in Nat /\ n < power[HeadLen]
  <2>1. power[HeadLen] \in Nat
    BY Bounds, PowerRule
  <2> QED BY <1>1, <2>1, TcpReceiveAssumption
<1>3. PICK head : head = [i \in 1 .. HeadLen |-> Encode(p)[i].value]
  OBVIOUS
<1>4. \A i \in 1 .. HeadLen : Encode(p)[i].value = Shifted(n)[HeadLen - i] % Base
  <2> TAKE i \in 1 .. HeadLen
  <2>1. i \in 1 .. HeadLen + Len(p) /\ i <= HeadLen
    BY <1>1, Bounds
  <2> QED BY <1>1, <2>1 DEF Encode
<1>5. ASSUME NEW i \in 1 .. HeadLen PROVE Shifted(n)[HeadLen - i] \in Nat /\ Shifted(n)[HeadLen - i] % Base \in Byte
  <2>1. HeadLen - i \in 0 .. HeadLen
    BY Bounds
  <2>2. Shifted(n)[HeadLen - i] \in Nat
    BY <2>1, ShiftedRule
  <2> QED BY <2>2, Bounds, DivMod DEF Byte
<1>6. head \in Seq(Byte) /\ Len(head) = HeadLen /\ \A i \in 1 .. HeadLen : head[i] = Shifted(n)[HeadLen - i] % Base
  <2>1. \A i \in 1 .. HeadLen : Encode(p)[i].value \in Byte
    BY <1>4, <1>5
  <2>2. head \in Seq(Byte) /\ Len(head) = HeadLen
    BY <1>3, <2>1, Bounds
  <2> QED BY <1>3, <1>4, <2>2
<1>7. PICK upTo :
        /\ Number(head) = upTo[HeadLen]
        /\ \A i \in 0 .. HeadLen : upTo[i] = IF i = 0 THEN 0 ELSE upTo[i - 1] * Base + head[i]
  BY <1>6, NumberRule
<1> DEFINE T == {i \in 0 .. HeadLen : upTo[i] = Shifted(n)[HeadLen - i]}
<1>8. 0 \in T
  <2>1. HeadLen - 0 = HeadLen /\ 0 \in 0 .. HeadLen
    BY Bounds
  <2> QED BY <1>2, <1>7, <2>1, ShiftedOut
<1>9. ASSUME NEW i \in 0 .. HeadLen - 1, i \in T PROVE i + 1 \in T
  <2>1. /\ i + 1 \in 1 .. HeadLen /\ i + 1 \in 0 .. HeadLen /\ (i + 1) - 1 = i /\ i + 1 # 0
        /\ HeadLen - i \in 0 .. HeadLen /\ HeadLen - i # 0 /\ (HeadLen - i) - 1 = HeadLen - (i + 1)
    BY Bounds
  <2>2. PICK m \in Nat : m = Shifted(n)[HeadLen - (i + 1)]
    BY <1>5, <2>1
  <2>3. Shifted(n)[HeadLen - i] = m \div Base
    BY <2>1, <2>2, ShiftedRule
  <2>4. upTo[i + 1] = upTo[i] * Base + head[i + 1] /\ head[i + 1] = m % Base
    BY <1>6, <1>7, <2>1, <2>2
  <2>5. upTo[i] = m \div Base
    BY <1>9, <2>3
  <2>6. m = (m \div Base) * Base + (m % Base)
    BY Bounds, DivMod
  <2>7. upTo[i + 1] = m
    BY <2>4, <2>5, <2>6
  <2> QED BY <2>1, <2>2, <2>7
<1> HIDE DEF T
<1>10. HeadLen \in T
  BY <1>8, <1>9, Bounds, Induct
<1>11. Number(head) = n
  <2>1. HeadLen - HeadLen = 0 /\ 0 \in 0 .. HeadLen
    BY Bounds
  <2> QED BY <1>7, <1>10, <2>1, ShiftedRule DEF T
<1>12. Decode(head) = n
  BY <1>2, <1>11 DEF Decode
<1> QED BY <1>1, <1>3, <1>4, <1>5, <1>12

-----------------------------------------------------------------------------

\* What the peer sends of a packet.
LEMMA Encoded ==
  ASSUME NEW p \in Payloads
  PROVE  /\ Encode(p) \in Seq(Item) /\ Len(Encode(p)) = HeadLen + Len(p)
         /\ \A j \in 1 .. HeadLen + Len(p) : Encode(p)[j].inner <=> j \in 2 .. HeadLen
         /\ \A j \in 1 .. Len(p) : Encode(p)[HeadLen + j].value = p[j]
<1> DEFINE n == HeadLen + Len(p)
           val(i) == IF i <= HeadLen THEN Shifted(Len(p))[HeadLen - i] % Base ELSE p[i - HeadLen]
           item(i) == [value |-> val(i), inner |-> i \in 2 .. HeadLen]
           code == [i \in 1 .. n |-> item(i)]
<1>1. HeadLen \in Nat /\ HeadLen >= 1 /\ p \in Seq(Byte) /\ Len(p) \in Nat /\ Len(p) > 0 /\ n \in Nat
  BY Constants
<1>2. Encode(p) = code
  BY DEF Encode
<1>3. \A i : i > HeadLen /\ i \in Int => val(i) = p[i - HeadLen]
  BY <1>1
<1> HIDE DEF val
<1>4. \A i \in 1 .. n : code[i].value = val(i) /\ code[i].inner = (i \in 2 .. HeadLen)
  OBVIOUS
<1>5. ASSUME NEW i \in 1 .. n PROVE val(i) \in Byte
  <2>1. CASE i <= HeadLen
    <3>1. i \in 1 .. HeadLen
      BY <1>1, <2>1
    <3>2. Encode(p)[i].value \in Byte
      BY <3>1, HeaderReads
    <3> QED BY <1>2, <1>4, <3>2
  <2>2. CASE ~ (i <= HeadLen)
    <3>1. i - HeadLen \in 1 .. Len(p)
      BY <1>1, <2>2
    <3>2. p[i - HeadLen] \in Byte
      BY <1>1, <3>1
    <3>3. val(i) = p[i - HeadLen]
      BY <1>1, <1>3, <2>2
    <3> QED BY <3>2, <3>3
  <2> QED BY <2>1, <2>2
<1>6. \A i \in 1 .. n : item(i) \in Item
  BY <1>5 DEF Item
<1> HIDE DEF item
<1>7. code \in Seq(Item) /\ Len(code) = n
  BY <1>1, <1>6
<1>8. \A j \in 1 .. Len(p) : HeadLen + j \in 1 .. n /\ HeadLen + j > HeadLen /\ (HeadLen + j) - HeadLen = j
  BY <1>1
<1>9. ASSUME NEW j \in 1 .. Len(p) PROVE code[HeadLen + j].value = p[j]
  <2>1. code[HeadLen + j].value = val(HeadLen + j)
    BY <1>4, <1>8
  <2>2. HeadLen + j \in Int /\ HeadLen + j > HeadLen
    BY <1>1
  <2> QED BY <1>3, <1>8, <2>1, <2>2
<1> QED BY <1>2, <1>4, <1>7, <1>9

\* Where the bytes of two joined sequences are.
Joins(both, s, t) == both = s \o t
LEMMA Joined ==
  ASSUME NEW S, NEW s \in Seq(S), NEW t \in Seq(S), NEW both, Joins(both, s, t)
  PROVE  /\ both \in Seq(S) /\ Len(both) = Len(s) + Len(t)
         /\ \A i \in 1 .. Len(s) : both[i] = s[i]
         /\ \A i \in 1 .. Len(t) : both[Len(s) + i] = t[i]
<1>1. /\ both \in Seq(S) /\ Len(both) = Len(s) + Len(t)
      /\ \A i \in 1 .. Len(s) + Len(t) : both[i] = IF i <= Len(s) THEN s[i] ELSE t[i - Len(s)]
  BY DEF Joins
<1>2. ASSUME NEW i \in 1 .. Len(t) PROVE both[Len(s) + i] = t[i]
  <2>1. Len(s) + i \in 1 .. Len(s) + Len(t) /\ ~ (Len(s) + i <= Len(s)) /\ (Len(s) + i) - Len(s) = i
    OBVIOUS
  <2> QED BY <1>1, <2>1
<1>3. \A i \in 1 .. Len(s) : i \in 1 .. Len(s) + Len(t)
  OBVIOUS
<1> QED BY <1>1, <1>2, <1>3

-----------------------------------------------------------------------------
(* The sizes of the buffers, whatever the bytes are.                        *)

LEMMA SizesReceive ==
  ASSUME Sizes, NEW n \in Nat, Receive(n)
  PROVE  Sizes'
<1>1. /\ Types /\ Idle /\ wire \in Seq(Item) /\ buffer \in Seq(Byte) /\ Len(wire) \in Nat /\ Len(buffer) \in Nat
      /\ HeadLen \in Nat /\ BufLen \in Nat /\ BufLen >= HeadLen /\ platform \in {"xnux", "win32"}
  BY Constants, TcpReceiveAssumption DEF Sizes, Types
<1>2. PICK taken : taken = [i \in 1 .. n |-> wire[i].value]
  OBVIOUS
<1>3. /\ pc = "idle" /\ n <= Len(wire) /\ n <= Room
      /\ buffer' = Kept \o taken /\ wire' = SubSeq(wire, n + 1, Len(wire)) /\ offset' = 0
      /\ pc' = IF n = 0 \/ Short(Kept \o taken) THEN "idle" ELSE "loop"
      /\ wiped' = (wiped \/ (platform = "xnux" /\ buffer # <<>>))
      /\ platform' = platform /\ sent' = sent /\ data' = data /\ received' = received
  BY <1>2 DEF Receive
<1>4. taken \in Seq(Byte) /\ Len(taken) = n
  <2>1. \A i \in 1 .. n : wire[i] \in Item
    BY <1>1, <1>3
  <2>2. \A i \in 1 .. n : wire[i].value \in Byte
    BY <2>1 DEF Item
  <2> QED BY <1>2, <2>2
<1>5. Kept \in Seq(Byte) /\ Len(Kept) = Len(buffer)
  <2>1. 0 \in Byte
    BY Bounds DEF Byte
  <2>2. [i \in 1 .. Len(buffer) |-> 0] \in Seq(Byte) /\ Len([i \in 1 .. Len(buffer) |-> 0]) = Len(buffer)
    BY <1>1, <2>1
  <2> QED BY <1>1, <2>2 DEF Kept
<1>6. buffer' \in Seq(Byte) /\ Len(buffer') = Len(buffer) + n
  <2>1. Joins(buffer', Kept, taken)
    BY <1>3 DEF Joins
  <2>2. buffer' \in Seq(Byte) /\ Len(buffer') = Len(Kept) + Len(taken)
    BY <1>4, <1>5, <2>1, Joined
  <2> QED BY <1>4, <1>5, <2>2
<1>7. wire' \in Seq(Item)
  BY <1>1, <1>3
<1>8. Types'
  BY <1>1, <1>3, <1>6, <1>7 DEF Types
<1>9. Idle'
  <2> SUFFICES ASSUME pc' = "idle" PROVE buffer' = <<>> \/ (data' = NoPacket /\ Len(buffer') < HeadLen)
    BY <1>3 DEF Idle
  <2>1. CASE n = 0
    <3>1. Len(buffer') = Len(buffer)
      BY <1>1, <1>6, <2>1
    <3>2. buffer = <<>> => Len(buffer') = 0
      BY <3>1
    <3> QED BY <1>1, <1>3, <1>6, <3>1, <3>2 DEF Idle
  <2>2. CASE n # 0
    BY <1>3, <2>2 DEF Short
  <2> QED BY <2>1, <2>2
<1>10. BufferFits'
  <2>1. data # NoPacket => Len(data.bytes) <= data.capacity
    BY DEF Sizes, BufferFits
  <2>2. CASE platform = "xnux"
    <3>1. n <= BufLen
      BY <1>3, <2>2 DEF Room
    <3>2. CASE buffer = <<>>
      BY <1>1, <1>3, <1>6, <2>1, <3>1, <3>2 DEF BufferFits
    <3>3. CASE buffer # <<>>
      <4>1. wiped' = TRUE /\ Len(buffer) < HeadLen
        BY <1>1, <1>3, <2>2, <3>3 DEF Idle
      <4> QED BY <1>1, <1>3, <1>6, <2>1, <2>2, <3>1, <4>1 DEF BufferFits
    <3> QED BY <3>2, <3>3
  <2>3. CASE platform # "xnux"
    BY <1>1, <1>3, <1>6, <2>1, <2>3 DEF Room, BufferFits
  <2> QED BY <2>2, <2>3
<1> QED BY <1>8, <1>9, <1>10 DEF Sizes

LEMMA SizesTurn ==
  ASSUME Sizes, Turn
  PROVE  Sizes'
<1>1. PICK from : from = IF data = NoPacket THEN offset + HeadLen ELSE offset
  OBVIOUS
<1>2. PICK left : left = Len(buffer) - from
  OBVIOUS
<1>3. PICK packet :
        packet = IF data # NoPacket THEN data
                 ELSE [capacity |-> IF left < 0 THEN 0 ELSE Decode(SubSeq(buffer, offset + 1, from)),
                       bytes    |-> <<>>]
  OBVIOUS
<1>4. PICK missing : missing = packet.capacity - Len(packet.bytes)
  OBVIOUS
<1>5. PICK process : process = IF left <= missing THEN left ELSE missing
  OBVIOUS
<1>6. PICK piece : piece = SubSeq(buffer, from + 1, from + process)
  OBVIOUS
<1>7. PICK bytes : bytes = packet.bytes \o piece
  OBVIOUS
<1>8. /\ pc = "loop" /\ offset < Len(buffer)
      /\ platform' = platform /\ sent' = sent /\ wire' = wire /\ wiped' = wiped
      /\ \/ /\ left < 0 \/ missing < 0
            /\ pc' = "crashed" /\ buffer' = buffer /\ offset' = offset /\ data' = data /\ received' = received
         \/ /\ left >= 0 /\ process = 0
            /\ data' = packet /\ buffer' = <<>> /\ offset' = 0 /\ pc' = "idle" /\ received' = received
         \/ /\ process > 0 /\ offset' = from + process /\ buffer' = buffer /\ pc' = pc
            /\ IF process = missing
               THEN data' = NoPacket /\ received' = Append(received, bytes)
               ELSE data' = [packet EXCEPT !.bytes = bytes] /\ received' = received
  BY <1>1, <1>2, <1>3, <1>4, <1>5, <1>6, <1>7 DEF Turn
<1>9. /\ Types /\ buffer \in Seq(Byte) /\ Len(buffer) \in Nat /\ offset \in Nat /\ HeadLen \in Nat /\ BufLen \in Nat
  BY Constants DEF Sizes, Types
<1>10. Len(buffer) <= BufLen \/ (platform = "xnux" /\ wiped /\ Len(buffer) < BufLen + HeadLen)
  BY DEF Sizes, BufferFits
<1>11. CASE left < 0 \/ missing < 0
  <2>1. pc' = "crashed" /\ buffer' = buffer /\ offset' = offset /\ data' = data /\ received' = received
    <3>1. left \in Int
      BY <1>1, <1>2, <1>9
    <3>2. missing \in Int
      <4>1. CASE data # NoPacket
        <5>1. data.capacity \in Nat /\ Len(data.bytes) \in Nat
          BY <1>9, <4>1 DEF Types, Packet
        <5> QED BY <1>3, <1>4, <4>1, <5>1
      <4>2. CASE data = NoPacket
        <5>1. PICK head : head = SubSeq(buffer, offset + 1, from)
          OBVIOUS
        <5>2. left >= 0 => head \in Seq(Byte)
          <6>1. ASSUME left >= 0 PROVE from \in Nat /\ from <= Len(buffer)
            BY <1>1, <1>2, <1>9, <4>2, <6>1
          <6> QED BY <1>1, <1>9, <4>2, <5>1, <6>1
        <5>3. left >= 0 => Decode(head) \in Int
          BY <5>2, DecodeInt
        <5>4. PICK size : size = IF left < 0 THEN 0 ELSE Decode(head)
          OBVIOUS
        <5>5. size \in Int
          BY <3>1, <5>3, <5>4
        <5>6. packet = [capacity |-> size, bytes |-> <<>>]
          BY <1>3, <4>2, <5>1, <5>4
        <5> QED BY <1>4, <5>5, <5>6
      <4> QED BY <4>1, <4>2
    <3>3. process \in Int /\ process < 0
      BY <1>5, <1>11, <3>1, <3>2
    <3> QED BY <1>8, <3>3
  <2> QED BY <1>8, <2>1 DEF Sizes, Types, Idle, BufferFits
<1>12. CASE ~ (left < 0 \/ missing < 0)
  <2>1. left \in Nat /\ from \in Nat /\ from <= Len(buffer)
    BY <1>1, <1>2, <1>9, <1>12
  <2>2. packet \in Packet /\ Len(packet.bytes) <= packet.capacity
    <3>1. CASE data # NoPacket
      <4>1. packet = data
        BY <1>3, <3>1
      <4> QED BY <1>9, <3>1, <4>1 DEF Types, Sizes, BufferFits
    <3>2. CASE data = NoPacket
      <4>1. PICK size : size = Decode(SubSeq(buffer, offset + 1, from))
        OBVIOUS
      <4>2. size \in Int
        <5>1. SubSeq(buffer, offset + 1, from) \in Seq(Byte)
          BY <1>9, <2>1
        <5> QED BY <4>1, <5>1, DecodeInt
      <4>3. packet = [capacity |-> size, bytes |-> <<>>]
        BY <1>3, <1>12, <3>2, <4>1
      <4>4. size >= 0
        BY <1>4, <1>12, <4>2, <4>3
      <4> QED BY <4>2, <4>3, <4>4 DEF Packet
    <3> QED BY <3>1, <3>2
  <2>3. PICK old, size \in Nat : old = Len(packet.bytes) /\ size = packet.capacity /\ packet.bytes \in Seq(Byte)
    BY <2>2 DEF Packet
  <2>4. missing \in Nat /\ missing = size - old
    BY <1>4, <2>2, <2>3
  <2>5. process \in Nat /\ process <= left /\ process <= missing
    BY <1>5, <2>1, <2>4
  <2>6. piece \in Seq(Byte) /\ Len(piece) = process
    <3>1. /\ piece \in Seq(Byte) /\ Len(piece) = (from + process) - (from + 1) + 1
      BY <1>2, <1>6, <1>9, <2>1, <2>5
    <3> QED BY <2>1, <2>5, <3>1
  <2>7. bytes \in Seq(Byte) /\ Len(bytes) = old + process
    BY <1>7, <2>3, <2>6
  <2>8. old + process <= size
    BY <2>3, <2>4, <2>5
  <2>9. CASE process = 0
    <3>1. data' = packet /\ buffer' = <<>> /\ offset' = 0 /\ pc' = "idle" /\ received' = received
      BY <1>8, <1>12, <2>9
    <3> QED BY <1>8, <1>9, <2>2, <3>1 DEF Sizes, Types, Idle, BufferFits
  <2>10. CASE process # 0
    <3>1. /\ offset' = from + process /\ buffer' = buffer /\ pc' = "loop"
          /\ data' = NoPacket \/ data' = [packet EXCEPT !.bytes = bytes]
      BY <1>8, <1>12, <2>10
    <3>2. offset' \in 0 .. Len(buffer)
      BY <1>2, <1>9, <2>1, <2>5, <3>1
    <3>3. data' \in {NoPacket} \cup Packet /\ (data' # NoPacket => Len(data'.bytes) <= data'.capacity)
      <4>1. CASE data' = [packet EXCEPT !.bytes = bytes]
        <5>1. data' \in Packet /\ data'.capacity = size /\ data'.bytes = bytes
          BY <2>2, <2>3, <2>7, <4>1 DEF Packet
        <5> QED BY <2>7, <2>8, <5>1
      <4> QED BY <3>1, <4>1
    <3>4. received' \in Seq(Seq(Byte))
      <4>1. received \in Seq(Seq(Byte))
        BY <1>9 DEF Types
      <4>2. received' = received \/ received' = Append(received, bytes)
        BY <1>8, <1>12, <2>10
      <4> QED BY SMTT(60), <2>7, <4>1, <4>2
    <3>5. Types'
      BY <1>8, <1>9, <3>1, <3>2, <3>3, <3>4 DEF Types
    <3>6. Idle' /\ BufferFits'
      BY <1>8, <1>10, <3>1, <3>3 DEF Idle, BufferFits
    <3> QED BY <3>5, <3>6 DEF Sizes
  <2> QED BY <2>9, <2>10
<1> QED BY <1>11, <1>12

LEMMA SizesNext == Sizes /\ [Next]_vars => Sizes'
<1> SUFFICES ASSUME Sizes, [Next]_vars PROVE Sizes'
  OBVIOUS
<1>1. CASE Turn
  BY <1>1, SizesTurn
<1>2. CASE Done
  BY <1>2, Constants DEF Done, Sizes, Types, Idle, BufferFits
<1>3. CASE \E n \in 1 .. BufLen : Receive(n)
  <2>1. PICK n \in 1 .. BufLen : Receive(n)
    BY <1>3
  <2> QED BY <2>1, SizesReceive
<1>4. CASE Receive(0)
  BY <1>4, SizesReceive
<1>5. ASSUME NEW p \in Payloads, PeerSend(p) PROVE Sizes'
  <2>1. Encode(p) \in Seq(Item)
    BY Encoded
  <2>2. sent' \in Seq(Payloads) /\ wire' \in Seq(Item)
    BY <1>5, <2>1 DEF PeerSend, Sizes, Types
  <2> QED BY <1>5, <2>2 DEF PeerSend, Sizes, Types, Idle, BufferFits
<1>6. CASE UNCHANGED vars
  BY <1>6 DEF vars, Sizes, Types, Idle, BufferFits
<1> QED BY <1>1, <1>2, <1>3, <1>4, <1>5, <1>6 DEF Next, Update

-----------------------------------------------------------------------------
(* The stream.                                                              *)

LEMMA InitInv == Init => IInv
<1> SUFFICES ASSUME Init PROVE IInv
  OBVIOUS
<1>1. Sizes /\ Delivered /\ Crashed
  <2>1. Types
    <3>1. \A S : <<>> \in Seq(S)
      OBVIOUS
    <3>2. offset = 0 /\ buffer = <<>> /\ offset \in 0 .. Len(buffer)
      BY DEF Init
    <3>3. wiped \in BOOLEAN /\ pc \in {"idle", "loop", "crashed"} /\ platform \in Platforms /\ data = NoPacket
      BY DEF Init
    <3>4. sent = <<>> /\ received = <<>> /\ wire = <<>>
      BY DEF Init
    <3> QED BY <3>1, <3>2, <3>3, <3>4 DEF Types
  <2>2. Idle /\ BufferFits
    BY Constants DEF Init, Idle, BufferFits
  <2>3. Delivered /\ Crashed
    BY DEF Init, Delivered, Crashed
  <2> QED BY <2>1, <2>2, <2>3 DEF Sizes
<1> DEFINE start == [i \in 1 .. 1 |-> 0]
<1>2. Len(sent) = 0 /\ Len(received) = 0 /\ Len(wire) = 0 /\ Len(buffer) = 0 /\ offset = 0 /\ data = NoPacket
  BY DEF Init
<1>3. Laid(<<>>, start)
  BY <1>2 DEF Laid
<1>4. Flows(<<>>) /\ Filled(<<>>, start)
  BY <1>2 DEF Flows, Filled, Pos, Processed
<1> QED BY <1>1, <1>3, <1>4 DEF IInv, Safe, Streams

LEMMA Place ==
  ASSUME NEW first \in Nat, NEW pos \in Nat, NEW head \in Nat, NEW size \in Nat,
         first <= pos, pos < first + head + size
  PROVE  /\ pos + 1 - first \in 1 .. head + size /\ first + (pos + 1 - first) = pos + 1
         /\ pos + 1 - first \in 2 .. head <=> first < pos /\ pos < first + head
OBVIOUS

\* Where recv stopped in the packet that is next: whether it cut the header.
LEMMA CutWhere ==
  ASSUME Types, Delivered, NEW stream, NEW start, Laid(stream, start), Flows(stream),
         NEW next, next = Len(received) + 1, NEW pos, pos = Pos(stream), start[next] <= pos
  PROVE  /\ pos = start[next] => ~ Cut
         /\ pos > start[next] => next <= Len(sent)
         /\ next <= Len(sent) /\ pos < start[next] + HeadLen + Len(sent[next])
              => (Cut <=> start[next] < pos /\ pos < start[next] + HeadLen)
<1>1. /\ Len(sent) \in Nat /\ Len(received) \in Nat /\ HeadLen \in Nat /\ HeadLen >= 1 /\ Len(received) <= Len(sent)
      /\ wire \in Seq(Item) /\ Len(wire) \in Nat /\ sent \in Seq(Payloads)
  BY Constants DEF Types, Delivered
<1>2. next \in 1 .. Len(sent) + 1
  BY <1>1
<1>3. PICK first \in Nat : first = start[next]
  BY <1>2 DEF Laid
<1>4. Len(stream) \in Nat /\ start[Len(sent) + 1] = Len(stream)
  BY DEF Laid
<1>5. pos = Len(stream) - Len(wire) /\ pos \in Nat /\ pos <= Len(stream) /\ first <= pos
  BY <1>1, <1>3, <1>4 DEF Pos, Flows
<1>6. pos > first => next <= Len(sent)
  BY <1>1, <1>2, <1>3, <1>4, <1>5
<1>7. ASSUME next = Len(sent) + 1 PROVE ~ Cut
  <2>1. Len(wire) = 0
    BY <1>1, <1>3, <1>4, <1>5, <1>7
  <2> QED BY <1>1, <2>1 DEF Cut
<1>8. ASSUME next <= Len(sent)
      PROVE  /\ pos < first + HeadLen + Len(sent[next]) => (Cut <=> first < pos /\ pos < first + HeadLen)
             /\ first < first + HeadLen + Len(sent[next])
  <2>1. next \in 1 .. Len(sent)
    BY <1>2, <1>8, <1>1
  <2>2. sent[next] \in Payloads
    BY <1>1, <2>1
  <2>3. PICK size \in Nat : size = Len(sent[next]) /\ size > 0
    BY <2>2, Constants
  <2>4. /\ first + HeadLen + size <= Len(stream)
        /\ \A j \in 1 .. HeadLen + size : stream[first + j] = Encode(sent[next])[j]
    BY <1>3, <2>1, <2>3 DEF Laid
  <2>5. ASSUME pos < first + HeadLen + size PROVE Cut <=> first < pos /\ pos < first + HeadLen
    <3>1. PICK j \in 1 .. HeadLen + size :
            first + j = pos + 1 /\ (j \in 2 .. HeadLen <=> first < pos /\ pos < first + HeadLen)
      <4>1. /\ pos + 1 - first \in 1 .. HeadLen + size /\ first + (pos + 1 - first) = pos + 1
            /\ pos + 1 - first \in 2 .. HeadLen <=> first < pos /\ pos < first + HeadLen
        BY <1>1, <1>3, <1>5, <2>3, <2>5, Place
      <4> QED BY <4>1
    <3>2. wire # <<>> /\ 1 \in 1 .. Len(wire)
      <4>1. Len(wire) > 0
        BY SMTT(60), <1>1, <1>3, <1>4, <1>5, <2>3, <2>4, <2>5
      <4> QED BY <1>1, <4>1
    <3>3. wire[1] = stream[pos + 1]
      BY <3>2 DEF Flows
    <3>4. wire[1] = Encode(sent[next])[j]
      BY <2>4, <3>1, <3>3
    <3>5. Cut <=> j \in 2 .. HeadLen
      BY <2>2, <2>3, <3>2, <3>4, Encoded DEF Cut
    <3> QED BY <3>1, <3>5
  <2> QED BY SMTT(60), <1>1, <1>3, <2>3, <2>5
<1>9. pos = first => ~ Cut
  BY SMTT(60), <1>1, <1>2, <1>3, <1>5, <1>7, <1>8
<1> QED BY <1>3, <1>6, <1>8, <1>9

-----------------------------------------------------------------------------

LEMMA PeerSendKeeps ==
  ASSUME Sizes, Safe, NEW p \in Payloads, PeerSend(p)
  PROVE  Safe'
<1>1. PICK stream, start : Laid(stream, start) /\ Flows(stream) /\ Filled(stream, start)
  BY DEF Safe, Streams
<1>a. PICK code : code = Encode(p)
  OBVIOUS
<1>b. PICK last : last = Len(sent) + 1
  OBVIOUS
<1>c. PICK stream2 : stream2 = stream \o code
  OBVIOUS
<1>d. PICK start2 :
        start2 = [i \in 1 .. last + 1 |-> IF i <= last THEN start[i] ELSE Len(stream) + HeadLen + Len(p)]
  OBVIOUS
<1>2. /\ code \in Seq(Item) /\ Len(code) = HeadLen + Len(p) /\ Len(code) \in Nat
      /\ Len(p) \in Nat /\ Len(p) > 0 /\ HeadLen \in Nat
  BY <1>a, Encoded, Constants
<1>3. /\ Types /\ Delivered /\ Len(sent) \in Nat /\ Len(received) \in Nat /\ Len(received) <= Len(sent)
      /\ sent \in Seq(Payloads) /\ wire \in Seq(Item) /\ Len(wire) \in Nat /\ Len(buffer) \in Nat /\ offset \in Nat
      /\ last = Len(sent) + 1
  BY <1>b DEF Sizes, Safe, Types, Delivered
<1>4. /\ sent' = Append(sent, p) /\ wire' = wire \o code /\ buffer' = buffer /\ offset' = offset
      /\ data' = data /\ received' = received /\ pc' = pc /\ platform' = platform
  BY <1>a DEF PeerSend
<1>5. /\ sent' \in Seq(Payloads) /\ Len(sent') = last /\ sent'[last] = p
      /\ \A i \in 1 .. Len(sent) : sent'[i] = sent[i]
  BY <1>3, <1>4, <1>b
<1>6. /\ wire' \in Seq(Item) /\ Len(wire') = Len(wire) + Len(code)
      /\ \A i \in 1 .. Len(wire) : wire'[i] = wire[i]
      /\ \A i \in 1 .. Len(code) : wire'[Len(wire) + i] = code[i]
  <2>1. Joins(wire', wire, code) /\ wire \in Seq(Item) /\ code \in Seq(Item)
    BY <1>2, <1>3, <1>4 DEF Joins
  <2> QED BY SMTT(30), <2>1, Joined
<1>7. stream \in Seq(Item) /\ Len(stream) \in Nat /\ start \in [1 .. last -> Nat]
      /\ start[1] = 0 /\ start[last] = Len(stream)
  BY <1>1, <1>b DEF Laid
<1>8. /\ stream2 \in Seq(Item) /\ Len(stream2) = Len(stream) + Len(code)
      /\ \A i \in 1 .. Len(stream) : stream2[i] = stream[i]
      /\ \A i \in 1 .. Len(code) : stream2[Len(stream) + i] = code[i]
  <2>1. Joins(stream2, stream, code) /\ stream \in Seq(Item) /\ code \in Seq(Item)
    BY <1>2, <1>7, <1>c DEF Joins
  <2> QED BY SMTT(30), <2>1, Joined
<1>9. /\ start2 \in [1 .. last + 1 -> Nat] /\ start2[last + 1] = Len(stream) + HeadLen + Len(p)
      /\ \A i \in 1 .. last : start2[i] = start[i]
  <2>1. last \in Nat /\ Len(stream) + HeadLen + Len(p) \in Nat /\ \A i \in 1 .. last : start[i] \in Nat
    <3>1. \A i \in 1 .. last : start[i] \in Nat
      BY <1>7
    <3> QED BY <1>2, <1>3, <1>7, <3>1
  <2>2. start2 \in [1 .. last + 1 -> Nat]
    BY <1>d, <2>1
  <2>3. last + 1 \in 1 .. last + 1 /\ ~ (last + 1 <= last) /\ \A i \in 1 .. last : i \in 1 .. last + 1 /\ i <= last
    BY <2>1
  <2> QED BY <1>d, <2>2, <2>3
<1>10. Laid(stream2, start2)'
  <2>1. start2[1] = 0 /\ start2[last] = Len(stream)
    <3>1. 1 \in 1 .. last /\ last \in 1 .. last
      BY <1>3
    <3> QED BY <1>7, <1>9, <3>1
  <2>2. ASSUME NEW i \in 1 .. last
        PROVE  /\ start2[i + 1] = start2[i] + HeadLen + Len(sent'[i]) /\ start2[i + 1] <= Len(stream2)
               /\ \A j \in 1 .. HeadLen + Len(sent'[i]) : stream2[start2[i] + j] = Encode(sent'[i])[j]
    <3>1. CASE i = last
      <4>1. start2[i + 1] = start2[i] + HeadLen + Len(sent'[i]) /\ start2[i + 1] <= Len(stream2)
        <5>1. sent'[i] = p /\ start2[i] = Len(stream) /\ start2[i + 1] = Len(stream) + HeadLen + Len(p)
          BY <1>5, <1>9, <2>1, <3>1
        <5> QED BY <1>2, <1>7, <1>8, <5>1
      <4>2. \A j \in 1 .. HeadLen + Len(p) : stream2[start2[i] + j] = code[j]
        BY <1>2, <1>8, <2>1, <3>1
      <4> QED BY <1>5, <3>1, <4>1, <4>2, <1>a
    <3>2. CASE i # last
      <4>1. i \in 1 .. Len(sent) /\ i + 1 \in 1 .. last
        BY <1>3, <3>2
      <4>2. /\ start[i + 1] = start[i] + HeadLen + Len(sent[i]) /\ start[i + 1] <= Len(stream)
            /\ \A j \in 1 .. HeadLen + Len(sent[i]) : stream[start[i] + j] = Encode(sent[i])[j]
        BY <1>1, <4>1 DEF Laid
      <4>3. sent'[i] = sent[i] /\ sent[i] \in Payloads /\ Len(sent[i]) \in Nat
        BY <1>3, <1>5, <4>1
      <4>4. start2[i] = start[i] /\ start2[i + 1] = start[i + 1] /\ start[i] \in Nat
        BY <1>7, <1>9, <4>1
      <4>5. \A j \in 1 .. HeadLen + Len(sent[i]) : start[i] + j \in 1 .. Len(stream)
        <5> TAKE j \in 1 .. HeadLen + Len(sent[i])
        <5>1. PICK first, size : first = start[i] /\ size = Len(sent[i])
          OBVIOUS
        <5>2. first \in Nat /\ size \in Nat /\ first + HeadLen + size <= Len(stream) /\ Len(stream) \in Nat
          BY <1>7, <4>2, <4>3, <4>4, <5>1
        <5>3. j \in 1 .. HeadLen + size
          BY <5>1
        <5>4. j >= 1 /\ j <= HeadLen + size /\ j \in Nat /\ HeadLen \in Nat
          BY <1>2, <5>2, <5>3
        <5>5. first + j \in 1 .. Len(stream)
          BY <5>2, <5>4
        <5> QED BY <5>1, <5>5
      <4>6. \A j \in 1 .. HeadLen + Len(sent[i]) : stream2[start2[i] + j] = Encode(sent'[i])[j]
        BY <1>8, <4>2, <4>3, <4>4, <4>5
      <4> QED BY <1>2, <1>7, <1>8, <4>2, <4>3, <4>4, <4>6
    <3> QED BY <3>1, <3>2
  <2>3. start2[last + 1] = Len(stream2)
    BY <1>2, <1>7, <1>8, <1>9
  <2> QED BY <1>5, <1>8, <1>9, <2>1, <2>2, <2>3 DEF Laid
<1>11. Pos(stream2)' = Pos(stream) /\ Processed(stream2)' = Processed(stream)
       /\ Pos(stream) \in Nat /\ Pos(stream) + Len(wire) = Len(stream)
  BY <1>1, <1>2, <1>3, <1>4, <1>6, <1>7, <1>8 DEF Pos, Processed, Flows
<1>12. Flows(stream2)'
  <2>1. Len(wire') <= Len(stream2)
    BY <1>1, <1>2, <1>3, <1>6, <1>7, <1>8 DEF Flows
  <2>2. ASSUME NEW i \in 1 .. Len(wire') PROVE wire'[i] = stream2[Pos(stream) + i]
    <3>1. CASE i <= Len(wire)
      <4>1. wire[i] = stream[Pos(stream) + i]
        BY <1>1, <3>1 DEF Flows
      <4>2. Pos(stream) + i \in 1 .. Len(stream) /\ i \in 1 .. Len(wire)
        BY <1>3, <1>7, <1>11, <3>1
      <4> QED BY <1>6, <1>8, <4>1, <4>2
    <3>2. CASE i > Len(wire)
      <4>1. i - Len(wire) \in 1 .. Len(code) /\ Len(wire) + (i - Len(wire)) = i
            /\ Pos(stream) + i = Len(stream) + (i - Len(wire))
        <5>1. i \in 1 .. Len(wire) + Len(code) /\ Pos(stream) = Len(stream) - Len(wire)
          BY <1>6 DEF Pos
        <5>2. i - Len(wire) \in 1 .. Len(code) /\ Len(wire) + (i - Len(wire)) = i
          BY <1>2, <1>3, <3>2, <5>1
        <5>3. Len(stream) \in Nat /\ Len(wire) \in Nat
          BY <1>3, <1>7
        <5>4. Pos(stream) + i = Len(stream) + (i - Len(wire))
          BY <5>1, <5>3
        <5> QED BY <5>2, <5>4
      <4> QED BY <1>6, <1>8, <4>1
    <3> QED BY <1>3, <3>1, <3>2
  <2>3. ASSUME NEW i \in 1 .. Len(buffer) - offset
        PROVE  buffer[offset + i] = stream2[Processed(stream) + i].value
    <3>1. buffer[offset + i] = stream[Processed(stream) + i].value
      BY <1>1 DEF Flows
    <3>2. Processed(stream) + i \in 1 .. Len(stream)
      BY SMTT(60), <1>1, <1>3, <1>7, <1>11 DEF Flows, Processed
    <3> QED BY <1>8, <3>1, <3>2
  <2>4. Len(buffer) - offset <= Pos(stream)
    BY <1>1 DEF Flows
  <2> QED BY <1>4, <1>11, <2>1, <2>2, <2>3, <2>4 DEF Flows
<1>13. Filled(stream2, start2)'
  <2>1. Len(received) + 1 \in 1 .. last
    BY <1>3
  <2>2. start2[Len(received) + 1] = start[Len(received) + 1]
    BY <1>9, <2>1
  <2>3. CASE data = NoPacket
    BY <1>1, <1>4, <1>11, <2>2, <2>3 DEF Filled
  <2>4. CASE data # NoPacket
    <3>1. Begins(stream, start, data, Processed(stream))
      BY <1>1, <2>4 DEF Filled
    <3>2. Len(received) + 1 \in 1 .. Len(sent)
      BY <1>3, <3>1 DEF Begins
    <3>3. sent'[Len(received) + 1] = sent[Len(received) + 1] /\ Len(received) + 1 <= Len(sent')
      BY <1>3, <1>5, <3>2
    <3>4. Begins(stream2, start2, data, Processed(stream2))'
      BY <1>4, <1>11, <2>2, <3>1, <3>3 DEF Begins
    <3> QED BY <1>4, <2>4, <3>4 DEF Filled
  <2> QED BY <2>3, <2>4
<1>14. Delivered'
  <2>1. \A i \in 1 .. Len(received) : i \in 1 .. Len(sent)
    BY <1>3
  <2> QED BY <1>3, <1>4, <1>5, <2>1 DEF Delivered
<1>15. Crashed'
  <2>1. wire # <<>> => wire' # <<>> /\ wire'[1] = wire[1]
    BY <1>2, <1>3, <1>6
  <2> QED BY <1>4, <2>1 DEF Safe, Crashed, Cut
<1> QED BY <1>10, <1>12, <1>13, <1>14, <1>15 DEF Safe, Streams

LEMMA ReceiveKeeps ==
  ASSUME Sizes, Safe, NEW n \in Nat, Receive(n), ~ (platform = "xnux" /\ buffer # <<>>)
  PROVE  Safe'
<1>1. PICK stream, start : Laid(stream, start) /\ Flows(stream) /\ Filled(stream, start)
  BY DEF Safe, Streams
<1>2. /\ Types /\ Delivered /\ Idle
      /\ wire \in Seq(Item) /\ buffer \in Seq(Byte) /\ Len(wire) \in Nat /\ Len(buffer) \in Nat
      /\ Len(received) \in Nat /\ Len(received) <= Len(sent) /\ Len(sent) \in Nat /\ HeadLen \in Nat
  BY Constants DEF Sizes, Safe, Types, Delivered
<1>3. PICK taken : taken = [i \in 1 .. n |-> wire[i].value]
  OBVIOUS
<1>4. /\ pc = "idle" /\ n <= Len(wire)
      /\ buffer' = Kept \o taken /\ wire' = SubSeq(wire, n + 1, Len(wire)) /\ offset' = 0
      /\ pc' \in {"idle", "loop"}
      /\ platform' = platform /\ sent' = sent /\ data' = data /\ received' = received
  BY <1>3 DEF Receive
<1>5. offset = 0
  BY <1>2, <1>4 DEF Idle
<1>6. Kept = buffer
  <2>1. buffer = <<>> => Len(buffer) = 0 /\ [i \in 1 .. Len(buffer) |-> 0] = <<>>
    OBVIOUS
  <2> QED BY <2>1 DEF Kept
<1>7. taken \in Seq(Byte) /\ Len(taken) = n /\ \A i \in 1 .. n : taken[i] = wire[i].value
  <2>1. \A i \in 1 .. n : i \in 1 .. Len(wire)
    BY <1>2, <1>4
  <2>2. \A i \in 1 .. n : wire[i].value \in Byte
    <3>1. \A i \in 1 .. n : wire[i] \in Item
      BY <1>2, <2>1
    <3> QED BY <3>1 DEF Item
  <2> QED BY <1>3, <2>2
<1>8. /\ buffer' \in Seq(Byte) /\ Len(buffer') = Len(buffer) + n
      /\ \A i \in 1 .. Len(buffer) : buffer'[i] = buffer[i]
      /\ \A i \in 1 .. n : buffer'[Len(buffer) + i] = wire[i].value
  <2>1. Joins(buffer', buffer, taken)
    BY <1>4, <1>6 DEF Joins
  <2>2. /\ buffer' \in Seq(Byte) /\ Len(buffer') = Len(buffer) + Len(taken)
        /\ \A i \in 1 .. Len(buffer) : buffer'[i] = buffer[i]
        /\ \A i \in 1 .. Len(taken) : buffer'[Len(buffer) + i] = taken[i]
    <3>1. buffer \in Seq(Byte) /\ taken \in Seq(Byte)
      BY <1>2, <1>7
    <3> QED BY SMTT(30), <2>1, <3>1, Joined
  <2> QED BY <1>7, <2>2
<1>10. /\ wire' \in Seq(Item) /\ Len(wire') = Len(wire) - n
       /\ \A i \in 1 .. Len(wire) - n : wire'[i] = wire[n + i]
  BY SMTT(60), <1>2, <1>4
<1>11. stream \in Seq(Item) /\ Len(stream) \in Nat
  BY <1>1 DEF Laid
<1>12. /\ Pos(stream) \in Nat /\ Pos(stream) + Len(wire) = Len(stream) /\ Pos(stream)' = Pos(stream) + n
       /\ Processed(stream)' = Processed(stream) /\ Processed(stream) = Pos(stream) - Len(buffer)
       /\ Processed(stream) \in Nat /\ Pos(stream)' <= Len(stream)
  <2>1. Len(wire) <= Len(stream) /\ Len(buffer) - offset <= Len(stream) - Len(wire)
    BY <1>1 DEF Flows, Pos
  <2>2. /\ Pos(stream) = Len(stream) - Len(wire) /\ Pos(stream)' = Len(stream) - (Len(wire) - n)
        /\ Processed(stream) = Pos(stream) - Len(buffer)
        /\ Processed(stream)' = Pos(stream)' - (Len(buffer) + n)
    <3>1. Len(wire') = Len(wire) - n /\ Len(buffer') = Len(buffer) + n /\ offset' = 0 /\ offset = 0
      BY <1>4, <1>5, <1>8, <1>10
    <3>2. Len(buffer) - 0 = Len(buffer) /\ (Len(buffer) + n) - 0 = Len(buffer) + n
      BY <1>2
    <3> QED BY <3>1, <3>2 DEF Pos, Processed
  <2> QED BY <1>2, <1>4, <1>5, <1>11, <2>1, <2>2
<1>13. Flows(stream)'
  <2>1. ASSUME NEW i \in 1 .. Len(wire') PROVE wire'[i] = stream[Pos(stream)' + i]
    <3>1. i \in 1 .. Len(wire) - n /\ n + i \in 1 .. Len(wire) /\ Pos(stream)' + i = Pos(stream) + (n + i)
      BY SMTT(60), <1>2, <1>10, <1>12
    <3>2. wire[n + i] = stream[Pos(stream) + (n + i)]
      BY <1>1, <3>1 DEF Flows
    <3> QED BY <1>10, <3>1, <3>2
  <2>2. ASSUME NEW i \in 1 .. Len(buffer') PROVE buffer'[i] = stream[Processed(stream) + i].value
    <3>1. CASE i <= Len(buffer)
      <4>1. i \in 1 .. Len(buffer) /\ i \in 1 .. Len(buffer) - offset /\ offset + i = i
        BY <1>2, <1>5, <3>1
      <4>2. buffer[offset + i] = stream[Processed(stream) + i].value
        BY <1>1, <4>1 DEF Flows
      <4> QED BY <1>8, <4>1, <4>2
    <3>2. CASE i > Len(buffer)
      <4>1. /\ i - Len(buffer) \in 1 .. n /\ Len(buffer) + (i - Len(buffer)) = i
            /\ i - Len(buffer) \in 1 .. Len(wire) /\ Processed(stream) + i = Pos(stream) + (i - Len(buffer))
        <5>1. i \in 1 .. Len(buffer) + n
          BY <1>8
        <5>2. i - Len(buffer) \in 1 .. n /\ Len(buffer) + (i - Len(buffer)) = i
          BY <1>2, <3>2, <5>1
        <5>3. i - Len(buffer) \in 1 .. Len(wire)
          BY <1>2, <1>4, <5>2
        <5>4. Processed(stream) = Pos(stream) - Len(buffer) /\ Pos(stream) \in Nat /\ Len(buffer) \in Nat
          BY <1>2, <1>12
        <5>5. Processed(stream) + i = Pos(stream) + (i - Len(buffer))
          BY <5>1, <5>4
        <5> QED BY <5>2, <5>3, <5>5
      <4>2. wire[i - Len(buffer)] = stream[Pos(stream) + (i - Len(buffer))]
        BY <1>1, <4>1 DEF Flows
      <4> QED BY <1>8, <4>1, <4>2
    <3> QED BY <1>2, <3>1, <3>2
  <2>3. Len(wire') <= Len(stream) /\ Len(buffer') - 0 <= Pos(stream)'
    BY SMTT(60), <1>2, <1>8, <1>10, <1>12
  <2>4. \A i \in 1 .. Len(buffer') - 0 : i \in 1 .. Len(buffer') /\ 0 + i = i
    BY <1>2, <1>8
  <2> QED BY <1>4, <1>12, <2>1, <2>2, <2>3, <2>4 DEF Flows
<1>14. Laid(stream, start)' /\ Filled(stream, start)'
  BY <1>1, <1>4, <1>12 DEF Laid, Filled, Begins
<1>15. Delivered' /\ Crashed'
  BY <1>2, <1>4 DEF Delivered, Crashed
<1> QED BY <1>13, <1>14, <1>15 DEF Safe, Streams

\* A handler gets the next packet of the peer, or nothing.
Gets ==
  \/ received' = received
  \/ Len(received) < Len(sent) /\ received' = Append(received, sent[Len(received) + 1])

LEMMA TurnKeeps ==
  ASSUME Sizes, Safe, Turn
  PROVE  Safe' /\ Gets
<1>1. PICK stream, start : Laid(stream, start) /\ Flows(stream) /\ Filled(stream, start)
  BY DEF Safe, Streams
<1>2. PICK from : from = IF data = NoPacket THEN offset + HeadLen ELSE offset
  OBVIOUS
<1>3. PICK left : left = Len(buffer) - from
  OBVIOUS
<1>4. PICK packet :
        packet = IF data # NoPacket THEN data
                 ELSE [capacity |-> IF left < 0 THEN 0 ELSE Decode(SubSeq(buffer, offset + 1, from)),
                       bytes    |-> <<>>]
  OBVIOUS
<1>5. PICK missing : missing = packet.capacity - Len(packet.bytes)
  OBVIOUS
<1>6. PICK process : process = IF left <= missing THEN left ELSE missing
  OBVIOUS
<1>7. PICK piece : piece = SubSeq(buffer, from + 1, from + process)
  OBVIOUS
<1>8. PICK bytes : bytes = packet.bytes \o piece
  OBVIOUS
<1>9. /\ pc = "loop" /\ offset < Len(buffer) /\ platform' = platform /\ sent' = sent /\ wire' = wire
      /\ \/ /\ left < 0 \/ missing < 0
            /\ pc' = "crashed" /\ data' = data /\ buffer' = buffer /\ offset' = offset /\ received' = received
         \/ /\ left >= 0 /\ process = 0
            /\ data' = packet /\ buffer' = <<>> /\ offset' = 0 /\ pc' = "idle" /\ received' = received
         \/ /\ process > 0 /\ offset' = from + process /\ buffer' = buffer /\ pc' = pc
            /\ IF process = missing
               THEN data' = NoPacket /\ received' = Append(received, bytes)
               ELSE data' = [packet EXCEPT !.bytes = bytes] /\ received' = received
  BY <1>2, <1>3, <1>4, <1>5, <1>6, <1>7, <1>8 DEF Turn
<1>10. /\ Types /\ Delivered
       /\ buffer \in Seq(Byte) /\ Len(wire) \in Nat /\ Len(buffer) \in Nat /\ offset \in Nat
       /\ Len(received) \in Nat /\ Len(received) <= Len(sent) /\ Len(sent) \in Nat /\ HeadLen \in Nat
  BY Constants DEF Sizes, Safe, Types, Delivered
<1>11. /\ Pos(stream) \in Nat /\ Pos(stream) <= Len(stream) /\ Pos(stream) = Len(stream) - Len(wire)
       /\ Processed(stream) = Pos(stream) - (Len(buffer) - offset) /\ Processed(stream) \in Nat
       /\ stream \in Seq(Item) /\ Len(stream) \in Nat
  <2>1. stream \in Seq(Item) /\ Len(stream) \in Nat
    BY <1>1 DEF Laid
  <2>2. Len(wire) <= Len(stream) /\ Len(buffer) - offset <= Pos(stream)
    BY <1>1 DEF Flows
  <2> QED BY <1>9, <1>10, <2>1, <2>2 DEF Pos, Processed
<1>12. PICK next : next = Len(received) + 1
  OBVIOUS
<1>a. CASE left < 0
  <2>1. data = NoPacket /\ from = offset + HeadLen
    BY <1>2, <1>3, <1>9, <1>10, <1>a
  <2>2. process \in Int /\ process < 0 /\ left \in Int
    <3>1. packet = [capacity |-> 0, bytes |-> <<>>]
      BY <1>4, <1>a, <2>1
    <3>2. missing = 0 /\ left \in Int
      BY <1>3, <1>5, <1>10, <2>1, <3>1
    <3> QED BY <1>6, <1>a, <3>2
  <2>3. pc' = "crashed" /\ data' = data /\ buffer' = buffer /\ offset' = offset /\ received' = received
    BY <1>9, <1>a, <2>2
  <2>4. Processed(stream) = start[next]
    BY <1>1, <1>12, <2>1 DEF Filled
  <2>5. PICK at, first \in Nat : at = Pos(stream) /\ first = start[next]
    BY <1>11, <2>4
  <2>6. first < at /\ at < first + HeadLen
    BY <1>3, <1>9, <1>10, <1>11, <1>a, <2>1, <2>4, <2>5
  <2>7. next <= Len(sent)
    BY <1>1, <1>10, <1>12, <2>5, <2>6, CutWhere
  <2>8. Len(sent[next]) \in Nat
    <3>1. next \in 1 .. Len(sent) /\ sent \in Seq(Payloads)
      BY <1>10, <1>12, <2>7 DEF Types
    <3> QED BY <3>1, Constants
  <2>9. at < first + HeadLen + Len(sent[next])
    BY SMTT(60), <1>10, <2>5, <2>6, <2>8
  <2>10. Cut
    BY <1>1, <1>10, <1>12, <2>5, <2>6, <2>7, <2>9, CutWhere
  <2>11. Crashed'
    BY <1>9, <2>10 DEF Crashed, Cut
  <2>12. Laid(stream, start)' /\ Flows(stream)' /\ Filled(stream, start)'
    BY <1>1, <1>9, <2>3 DEF Laid, Flows, Filled, Begins, Pos, Processed
  <2>13. Delivered'
    BY <1>9, <1>10, <2>3 DEF Delivered
  <2> QED BY <2>3, <2>11, <2>12, <2>13 DEF Safe, Streams, Gets
<1>b. SUFFICES ASSUME ~ (left < 0) PROVE Safe' /\ Gets
  BY <1>a
<1>13. left \in Nat /\ from \in Nat /\ Begins(stream, start, packet, Pos(stream) - left)
  <2>1. CASE data = NoPacket
    <3>1. Processed(stream) = start[next]
      BY <1>1, <1>12, <2>1 DEF Filled
    <3>2. PICK at : at = Pos(stream)
      OBVIOUS
    <3>4. at \in Nat /\ at <= Len(stream) /\ start[next] < at
      BY <1>9, <1>10, <1>11, <3>1, <3>2
    <3>5. next <= Len(sent)
      BY <1>1, <1>10, <1>11, <1>12, <3>1, <3>2, <3>4, CutWhere
    <3>6. from = offset + HeadLen
      BY <1>2, <2>1
    <3>7. left \in Nat /\ from \in Nat /\ Pos(stream) - left = start[next] + HeadLen + 0 /\ from <= Len(buffer)
      <4>1. left \in Nat /\ from \in Nat /\ left = Len(buffer) - (offset + HeadLen)
        BY <1>3, <1>10, <1>b, <3>6
      <4> QED BY <1>10, <1>11, <3>1, <3>6, <4>1
    <3>8. next \in 1 .. Len(sent) /\ sent \in Seq(Payloads)
      BY <1>10, <1>12, <3>5 DEF Types
    <3>9. sent[next] \in Payloads
      BY <3>8
    <3>10. SubSeq(buffer, offset + 1, from) = [i \in 1 .. HeadLen |-> Encode(sent[next])[i].value]
      <4>1. \A i \in 1 .. HeadLen :
              buffer[offset + i] = Encode(sent[next])[i].value
        <5> TAKE i \in 1 .. HeadLen
        <5>1. i \in 1 .. Len(buffer) - offset /\ i \in Nat
          BY <1>10, <3>6, <3>7
        <5>2. buffer[offset + i] = stream[start[next] + i].value
          BY <1>1, <3>1, <5>1 DEF Flows
        <5>3. Len(sent[next]) \in Nat
          BY <3>9, Constants
        <5>4. i \in 1 .. HeadLen + Len(sent[next])
          BY <1>10, <5>3
        <5>5. stream[start[next] + i] = Encode(sent[next])[i]
          BY <1>1, <3>8, <5>4 DEF Laid
        <5> QED BY <5>2, <5>5
      <4>2. PICK head : head = SubSeq(buffer, offset + 1, from)
        OBVIOUS
      <4>3. head \in Seq(Byte) /\ Len(head) = HeadLen /\ \A i \in 1 .. HeadLen : head[i] = buffer[offset + i]
        <5>1. /\ head \in Seq(Byte) /\ Len(head) = from - (offset + 1) + 1
              /\ \A i \in 1 .. from - (offset + 1) + 1 : head[i] = buffer[(offset + 1) + i - 1]
          BY <1>10, <3>7, <3>6, <4>2
        <5>2. from - (offset + 1) + 1 = HeadLen /\ \A i \in 1 .. HeadLen : (offset + 1) + i - 1 = offset + i
          BY <1>10, <3>6
        <5> QED BY <5>1, <5>2
      <4>4. head = [i \in 1 .. HeadLen |-> head[i]]
        BY <4>3
      <4> QED BY <4>1, <4>2, <4>3, <4>4
    <3>11. packet = [capacity |-> Len(sent[next]), bytes |-> <<>>]
      <4>1. Decode(SubSeq(buffer, offset + 1, from)) = Len(sent[next])
        BY <3>9, <3>10, HeaderReads
      <4>2. ~ (left < 0)
        BY <3>7
      <4> QED BY <1>4, <2>1, <4>1, <4>2
    <3>12. Len(sent[next]) \in Nat /\ Len(sent[next]) > 0
      BY <3>9, Constants
    <3>13. packet \in Packet /\ packet.capacity = Len(sent[next]) /\ packet.bytes = <<>> /\ Len(packet.bytes) = 0
      BY <3>11, <3>12 DEF Packet
    <3> QED BY <1>12, <3>5, <3>7, <3>12, <3>13 DEF Begins
  <2>2. CASE data # NoPacket
    <3>1. packet = data /\ from = offset
      BY <1>2, <1>4, <2>2
    <3>2. left \in Nat /\ Pos(stream) - left = Processed(stream)
      BY <1>3, <1>9, <1>10, <1>11, <3>1
    <3> QED BY <1>1, <1>10, <2>2, <3>1, <3>2 DEF Filled
  <2> QED BY <2>1, <2>2
<1>14. /\ next \in 1 .. Len(sent) /\ next = Len(received) + 1 /\ packet \in Packet
       /\ packet.capacity = Len(sent[next]) /\ Len(packet.bytes) < packet.capacity
       /\ \A j \in 1 .. Len(packet.bytes) : packet.bytes[j] = sent[next][j]
       /\ Pos(stream) - left = start[next] + HeadLen + Len(packet.bytes)
  BY <1>10, <1>12, <1>13 DEF Begins
<1>15. PICK old : old = Len(packet.bytes)
  OBVIOUS
<1>16. /\ packet.bytes \in Seq(Byte) /\ old \in Nat /\ packet.capacity \in Nat
       /\ sent[next] \in Seq(Byte) /\ Len(sent[next]) \in Nat
  <2>1. packet.bytes \in Seq(Byte) /\ packet.capacity \in Nat
    BY <1>14 DEF Packet
  <2>2. sent[next] \in Payloads
    BY <1>10, <1>14 DEF Types
  <2> QED BY <1>15, <2>1, <2>2, Constants
<1>17. missing \in Nat /\ missing > 0 /\ missing = Len(sent[next]) - old
  <2>1. missing = Len(sent[next]) - old /\ old < Len(sent[next])
    BY <1>5, <1>14, <1>15
  <2> QED BY <1>16, <2>1
<1>18. process \in Nat /\ process <= left /\ process <= missing /\ (process = 0 => left = 0)
  BY <1>6, <1>13, <1>17
<1>19. /\ start[next] \in Nat /\ start[next + 1] = start[next] + HeadLen + Len(sent[next])
       /\ \A j \in 1 .. HeadLen + Len(sent[next]) : stream[start[next] + j] = Encode(sent[next])[j]
  <2>1. next \in 1 .. Len(sent) + 1
    BY <1>10, <1>14
  <2> QED BY <1>1, <1>14, <2>1 DEF Laid
<1>21. pc' \in {"idle", "loop"} => Crashed'
  BY DEF Crashed
<1>22. Laid(stream, start)' /\ Pos(stream)' = Pos(stream)
  BY <1>1, <1>9 DEF Laid, Pos
<1>23. CASE process = 0
  <2>1. data' = packet /\ buffer' = <<>> /\ offset' = 0 /\ pc' = "idle" /\ received' = received
    BY <1>9, <1>13, <1>17, <1>23
  <2>2. left = 0 /\ Processed(stream)' = Pos(stream) /\ Pos(stream) - left = Pos(stream)
    BY <1>11, <1>18, <1>22, <1>23, <2>1 DEF Processed
  <2>3. Flows(stream)'
    BY <1>1, <1>9, <1>11, <1>22, <2>1, <2>2 DEF Flows
  <2>4. data' # NoPacket
    BY <1>14, <2>1, Constants
  <2>5. Begins(stream, start, packet, Processed(stream))'
    BY <1>9, <1>13, <2>1, <2>2 DEF Begins
  <2>6. Filled(stream, start)'
    BY <2>1, <2>4, <2>5 DEF Filled
  <2>7. Delivered'
    BY <1>9, <1>10, <2>1 DEF Delivered
  <2> QED BY <1>21, <1>22, <2>1, <2>3, <2>6, <2>7 DEF Safe, Streams, Gets
<1>24. CASE process # 0
  <2>1. /\ process > 0 /\ offset' = from + process /\ buffer' = buffer /\ pc' = "loop"
        /\ \/ process = missing /\ data' = NoPacket /\ received' = Append(received, bytes)
           \/ process # missing /\ data' = [packet EXCEPT !.bytes = bytes] /\ received' = received
    BY <1>9, <1>13, <1>17, <1>24
  <2>2. from + process <= Len(buffer) /\ offset' \in 0 .. Len(buffer)
    BY <1>3, <1>10, <1>13, <1>18, <2>1
  <2>3. Processed(stream)' = Pos(stream) - left + process
    <3>1. Processed(stream)' = Pos(stream) - (Len(buffer) - (from + process))
      BY <1>22, <2>1 DEF Processed
    <3> QED BY <1>3, <1>10, <1>11, <1>13, <1>18, <3>1
  <2>4. ASSUME NEW k \in 1 .. left
        PROVE  buffer[from + k] = stream[(Pos(stream) - left) + k].value
    <3>1. (from - offset) + k \in 1 .. Len(buffer) - offset /\ offset + ((from - offset) + k) = from + k
          /\ Processed(stream) + ((from - offset) + k) = (Pos(stream) - left) + k
      <4>1. from >= offset /\ from - offset \in Nat /\ k \in Nat /\ k >= 1 /\ k <= Len(buffer) - from
        BY <1>2, <1>3, <1>10, <1>13
      <4>2. Processed(stream) = Pos(stream) - (Len(buffer) - offset) /\ left = Len(buffer) - from
        BY <1>3, <1>11
      <4> QED BY <1>10, <1>11, <1>13, <4>1, <4>2
    <3>2. buffer[offset + ((from - offset) + k)] = stream[Processed(stream) + ((from - offset) + k)].value
      BY <1>1, <3>1 DEF Flows
    <3> QED BY <3>1, <3>2
  <2>5. Flows(stream)'
    <3>1. ASSUME NEW i \in 1 .. Len(buffer) - (from + process)
          PROVE  buffer[(from + process) + i] = stream[(Pos(stream) - left + process) + i].value
      <4>1. process + i \in 1 .. left /\ from + (process + i) = (from + process) + i
            /\ (Pos(stream) - left) + (process + i) = (Pos(stream) - left + process) + i
        BY <1>3, <1>10, <1>11, <1>13, <1>18, <2>2
      <4>2. buffer[from + (process + i)] = stream[(Pos(stream) - left) + (process + i)].value
        BY <2>4, <4>1
      <4> QED BY <4>1, <4>2
    <3>2. Len(buffer) - (from + process) <= Pos(stream)
      <4>1. Len(buffer) - offset <= Pos(stream) /\ from >= offset
        BY <1>1, <1>2, <1>10 DEF Flows
      <4> QED BY <1>10, <1>11, <1>13, <1>18, <4>1
    <3>3. Len(wire) <= Len(stream) /\ \A i \in 1 .. Len(wire) : wire[i] = stream[Pos(stream) + i]
      BY <1>1 DEF Flows
    <3> QED BY <1>9, <1>22, <2>1, <2>3, <3>1, <3>2, <3>3 DEF Flows
  <2>6. piece \in Seq(Byte) /\ Len(piece) = process /\ \A k \in 1 .. process : piece[k] = buffer[from + k]
    <3>1. /\ piece \in Seq(Byte) /\ Len(piece) = (from + process) - (from + 1) + 1
          /\ \A k \in 1 .. (from + process) - (from + 1) + 1 : piece[k] = buffer[(from + 1) + k - 1]
      BY <1>7, <1>10, <1>13, <1>18, <2>2
    <3>2. (from + process) - (from + 1) + 1 = process /\ \A k \in 1 .. process : (from + 1) + k - 1 = from + k
      BY <1>13, <1>18
    <3> QED BY <3>1, <3>2
  <2>7. /\ bytes \in Seq(Byte) /\ Len(bytes) = old + process
        /\ \A j \in 1 .. old : bytes[j] = packet.bytes[j]
        /\ \A k \in 1 .. process : bytes[old + k] = piece[k]
    <3>1. Joins(bytes, packet.bytes, piece)
      BY <1>8 DEF Joins
    <3>2. /\ bytes \in Seq(Byte) /\ Len(bytes) = Len(packet.bytes) + Len(piece)
          /\ \A j \in 1 .. Len(packet.bytes) : bytes[j] = packet.bytes[j]
          /\ \A k \in 1 .. Len(piece) : bytes[Len(packet.bytes) + k] = piece[k]
      <4>1. packet.bytes \in Seq(Byte) /\ piece \in Seq(Byte)
        BY <1>16, <2>6
      <4> QED BY SMTT(30), <3>1, <4>1, Joined
    <3> QED BY <1>15, <2>6, <3>2
  <2>8. ASSUME NEW j \in 1 .. old + process PROVE bytes[j] = sent[next][j]
    <3>1. CASE j <= old
      BY <1>14, <1>15, <1>16, <2>7, <3>1
    <3>2. CASE j > old
      <4>1. PICK k \in 1 .. process : j = old + k
        <5>1. j - old \in 1 .. process /\ j = old + (j - old)
          BY <1>16, <1>18, <3>2
        <5> QED BY <5>1
      <4>2. k \in 1 .. left /\ j \in 1 .. Len(sent[next]) /\ HeadLen + j \in 1 .. HeadLen + Len(sent[next])
            /\ (Pos(stream) - left) + k = start[next] + (HeadLen + j)
        <5>1. k \in Nat /\ k >= 1 /\ k <= left /\ k <= Len(sent[next]) - old
          BY <1>13, <1>16, <1>17, <1>18
        <5>2. Pos(stream) - left = start[next] + HeadLen + old
          BY <1>14, <1>15
        <5>3. PICK size \in Nat : size = Len(sent[next])
          BY <1>16
        <5>4. PICK at, first : at = Pos(stream) - left /\ first = start[next]
          OBVIOUS
        <5>5. k \in 1 .. left /\ j \in 1 .. size /\ HeadLen + j \in 1 .. HeadLen + size
          BY <1>10, <1>13, <1>16, <4>1, <5>1, <5>3
        <5>6. at + k = first + (HeadLen + j)
          BY SMTT(60), <1>10, <1>16, <1>19, <4>1, <5>1, <5>2, <5>4
        <5> QED BY <5>3, <5>4, <5>5, <5>6
      <4>3. bytes[j] = stream[(Pos(stream) - left) + k].value
        BY <2>4, <2>6, <2>7, <4>1, <4>2
      <4>4. stream[start[next] + (HeadLen + j)] = Encode(sent[next])[HeadLen + j]
        BY <1>19, <4>2
      <4>5. sent[next] \in Payloads
        BY <1>10, <1>14 DEF Types
      <4>6. Encode(sent[next])[HeadLen + j].value = sent[next][j]
        BY <4>2, <4>5, Encoded
      <4> QED BY <4>2, <4>3, <4>4, <4>6
    <3> QED BY <1>16, <1>18, <3>1, <3>2
  <2>9. CASE process = missing
    <3>1. data' = NoPacket /\ received' = Append(received, bytes)
      BY <2>1, <2>9
    <3>2. bytes = sent[next]
      <4>1. old + process = Len(sent[next])
        BY <1>16, <1>17, <2>9
      <4>2. bytes \in Seq(Byte) /\ sent[next] \in Seq(Byte) /\ Len(bytes) = Len(sent[next])
            /\ \A j \in 1 .. Len(bytes) : bytes[j] = sent[next][j]
        BY <1>16, <2>7, <2>8, <4>1
      <4> QED BY <4>2
    <3>3. /\ received' \in Seq(Seq(Byte)) /\ Len(received') = next /\ received'[next] = sent[next]
          /\ \A i \in 1 .. Len(received) : received'[i] = received[i]
      <4>1. received \in Seq(Seq(Byte)) /\ bytes \in Seq(Byte)
        BY <1>10, <2>7 DEF Types
      <4> QED BY <1>14, <3>1, <3>2, <4>1
    <3>4. Delivered'
      <4>1. \A i \in 1 .. next : i = next \/ i \in 1 .. Len(received)
        BY <1>10, <1>14
      <4>2. \A i \in 1 .. next : received'[i] = sent[i]
        BY <1>10, <3>3, <4>1 DEF Delivered
      <4> QED BY <1>9, <1>14, <3>3, <4>2 DEF Delivered
    <3>5. Filled(stream, start)'
      <4>1. Processed(stream)' = start[next + 1]
        <5>1. Pos(stream) - left = start[next] + HeadLen + old /\ process = Len(sent[next]) - old
          BY <1>14, <1>15, <1>17, <2>9
        <5>2. Processed(stream)' = start[next] + HeadLen + old + (Len(sent[next]) - old)
          BY <2>3, <5>1
        <5>3. start[next] \in Nat /\ HeadLen \in Nat /\ old \in Nat /\ Len(sent[next]) \in Nat
          BY <1>10, <1>16, <1>19
        <5>4. start[next] + HeadLen + old + (Len(sent[next]) - old) = start[next] + HeadLen + Len(sent[next])
          BY <5>3
        <5> QED BY <1>19, <5>2, <5>4
      <4> QED BY <3>1, <3>3, <4>1 DEF Filled
    <3>6. Gets
      BY <1>14, <3>1, <3>2 DEF Gets
    <3> QED BY <1>21, <1>22, <2>1, <2>5, <3>4, <3>5, <3>6 DEF Safe, Streams
  <2>10. CASE process # missing
    <3>1. data' = [packet EXCEPT !.bytes = bytes] /\ received' = received
      BY <2>1, <2>10
    <3>2. data' \in Packet /\ data'.capacity = packet.capacity /\ data'.bytes = bytes
      BY <1>14, <2>7, <3>1 DEF Packet
    <3>3. old + process < packet.capacity
      BY <1>14, <1>16, <1>17, <1>18, <2>10
    <3>4. Processed(stream)' = start[next] + HeadLen + (old + process)
      BY SMTT(60), <1>10, <1>14, <1>15, <1>16, <1>18, <1>19, <2>3
    <3>5. Begins(stream, start, data, Processed(stream))'
      BY <1>9, <1>14, <2>7, <2>8, <3>1, <3>2, <3>3, <3>4 DEF Begins
    <3>6. Filled(stream, start)'
      BY <3>2, <3>5, Constants DEF Filled
    <3>7. Delivered'
      BY <1>9, <1>10, <3>1 DEF Delivered
    <3> QED BY <1>21, <1>22, <2>1, <2>5, <3>1, <3>6, <3>7 DEF Safe, Streams, Gets
  <2> QED BY <2>9, <2>10
<1> QED BY <1>23, <1>24

LEMMA DoneKeeps ==
  ASSUME Sizes, Safe, Done
  PROVE  Safe'
<1>1. PICK stream, start : Laid(stream, start) /\ Flows(stream) /\ Filled(stream, start)
  BY DEF Safe, Streams
<1>2. Types /\ Delivered /\ Len(buffer) \in Nat /\ offset \in 0 .. Len(buffer) /\ Len(wire) \in Nat
  BY DEF Sizes, Safe, Types
<1>3. /\ offset = Len(buffer) /\ pc = "loop" /\ buffer' = <<>> /\ offset' = 0 /\ pc' = "idle"
      /\ platform' = platform /\ sent' = sent /\ wire' = wire /\ data' = data /\ received' = received
  BY <1>2 DEF Done
<1>4. stream \in Seq(Item) /\ Len(stream) \in Nat
  BY <1>1 DEF Laid
<1>5. Pos(stream)' = Pos(stream) /\ Pos(stream) \in Nat /\ Processed(stream)' = Processed(stream)
  <2>1. Len(wire) <= Len(stream)
    BY <1>1 DEF Flows
  <2>2. Pos(stream)' = Pos(stream) /\ Pos(stream) \in Nat
    BY <1>2, <1>3, <1>4, <2>1 DEF Pos
  <2> QED BY <1>2, <1>3, <2>2 DEF Processed
<1>6. Laid(stream, start)' /\ Flows(stream)' /\ Filled(stream, start)'
  BY <1>1, <1>3, <1>5 DEF Laid, Flows, Filled, Begins
<1>7. Delivered' /\ Crashed'
  BY <1>2, <1>3 DEF Delivered, Crashed
<1> QED BY <1>6, <1>7 DEF Safe, Streams

LEMMA NextInv == IInv /\ [Next]_vars => IInv'
<1> SUFFICES ASSUME IInv, [Next]_vars PROVE IInv'
  OBVIOUS
<1>1. Sizes /\ Sizes'
  BY SizesNext DEF IInv
<1>2. SUFFICES ASSUME ~ wiped' PROVE Safe'
  BY <1>1 DEF IInv
<1>3. wiped \in BOOLEAN
  BY <1>1 DEF Sizes, Types
<1>4. CASE Turn
  BY <1>1, <1>2, <1>4, TurnKeeps DEF IInv, Turn
<1>5. CASE Done
  BY <1>1, <1>2, <1>5, DoneKeeps DEF IInv, Done
<1>6. ASSUME NEW n \in Nat, Receive(n) PROVE Safe'
  <2>1. ~ wiped /\ ~ (platform = "xnux" /\ buffer # <<>>)
    BY <1>2, <1>6 DEF Receive
  <2> QED BY <1>1, <1>6, <2>1, ReceiveKeeps DEF IInv
<1>7. CASE \E n \in 1 .. BufLen : Receive(n)
  <2>1. PICK n \in 1 .. BufLen : Receive(n)
    BY <1>7
  <2> QED BY <1>6, <2>1
<1>8. CASE Receive(0)
  BY <1>6, <1>8
<1>9. ASSUME NEW p \in Payloads, PeerSend(p) PROVE Safe'
  <2>1. ~ wiped
    BY <1>2, <1>9 DEF PeerSend
  <2> QED BY <1>1, <1>9, <2>1, PeerSendKeeps DEF IInv
<1>10. CASE UNCHANGED vars
  <2>1. Safe
    BY <1>2, <1>10 DEF IInv, vars
  <2>2. PICK stream, start : Laid(stream, start) /\ Flows(stream) /\ Filled(stream, start)
    BY <2>1 DEF Safe, Streams
  <2>3. Laid(stream, start)' /\ Flows(stream)' /\ Filled(stream, start)'
    BY <1>10, <2>2 DEF vars, Laid, Flows, Filled, Begins, Pos, Processed
  <2>4. Delivered' /\ Crashed'
    BY <1>10, <2>1 DEF Safe, vars, Delivered, Crashed, Cut
  <2> QED BY <2>3, <2>4 DEF Safe, Streams
<1> QED BY <1>4, <1>5, <1>7, <1>8, <1>9, <1>10 DEF Next, Update

\* The invariant gives the properties of a state the runs check.
LEMMA ImpliesWhole == IInv => Whole
<1> SUFFICES ASSUME IInv PROVE Whole
  OBVIOUS
<1>0. CASE wiped
  BY <1>0 DEF Whole
<1>a. SUFFICES ASSUME ~ wiped PROVE Whole
  BY <1>0
<1>1. PICK stream, start : Laid(stream, start) /\ Flows(stream) /\ Filled(stream, start)
  BY <1>a DEF IInv, Safe, Streams
<1>2. Types /\ Delivered
  BY <1>a DEF IInv, Safe, Sizes
<1>5. Whole
  <2> SUFFICES ASSUME data # NoPacket
               PROVE  LET pending == [i \in 1 .. Len(buffer) - offset |-> buffer[offset + i]]
                                     \o [i \in 1 .. Len(wire) |-> wire[i].value]
                          next    == Len(received) + 1
                      IN  /\ next <= Len(sent)
                          /\ data.capacity = Len(sent[next])
                          /\ sent[next] = data.bytes \o SubSeq(pending, 1, data.capacity - Len(data.bytes))
    BY DEF Whole
  <2>1. PICK unread : unread = [i \in 1 .. Len(buffer) - offset |-> buffer[offset + i]]
    OBVIOUS
  <2>2. PICK unsent : unsent = [i \in 1 .. Len(wire) |-> wire[i].value]
    OBVIOUS
  <2>3. PICK pending : pending = unread \o unsent
    OBVIOUS
  <2>4. PICK next : next = Len(received) + 1
    OBVIOUS
  <2>5. PICK old : old = Len(data.bytes)
    OBVIOUS
  <2>6. PICK rest : rest = SubSeq(pending, 1, data.capacity - old)
    OBVIOUS
  <2>7. /\ next \in 1 .. Len(sent) /\ data \in Packet /\ data.capacity = Len(sent[next]) /\ old < data.capacity
        /\ \A j \in 1 .. old : data.bytes[j] = sent[next][j]
        /\ Processed(stream) = start[next] + HeadLen + old
    <3>1. Len(received) \in Nat /\ Len(sent) \in Nat
      BY <1>2 DEF Types
    <3> QED BY <1>1, <2>4, <2>5, <3>1 DEF Filled, Begins
  <2>8. /\ sent[next] \in Payloads /\ sent[next] \in Seq(Byte) /\ data.bytes \in Seq(Byte)
        /\ old \in Nat /\ data.capacity \in Nat /\ HeadLen \in Nat
    <3>1. sent[next] \in Payloads
      BY <1>2, <2>7 DEF Types
    <3>2. data.bytes \in Seq(Byte) /\ data.capacity \in Nat
      BY <2>7 DEF Packet
    <3> QED BY <2>5, <3>1, <3>2, Constants
  <2>9. /\ start[next] \in Nat /\ start[next] + HeadLen + Len(sent[next]) <= Len(stream)
        /\ \A j \in 1 .. HeadLen + Len(sent[next]) : stream[start[next] + j] = Encode(sent[next])[j]
        /\ stream \in Seq(Item) /\ Len(stream) \in Nat
    <3>1. next \in 1 .. Len(sent) + 1
      BY <2>7
    <3>2. /\ start[next] \in Nat /\ start[next + 1] = start[next] + HeadLen + Len(sent[next])
          /\ start[next + 1] <= Len(stream)
      BY <1>1, <2>7, <3>1 DEF Laid
    <3>3. \A j \in 1 .. HeadLen + Len(sent[next]) : stream[start[next] + j] = Encode(sent[next])[j]
      BY <1>1, <2>7 DEF Laid
    <3>4. stream \in Seq(Item) /\ Len(stream) \in Nat
      BY <1>1 DEF Laid
    <3> QED BY <3>2, <3>3, <3>4
  <2>10. /\ buffer \in Seq(Byte) /\ Len(buffer) \in Nat /\ offset \in 0 .. Len(buffer) /\ Len(buffer) - offset \in Nat
         /\ wire \in Seq(Item) /\ Len(wire) \in Nat
    BY <1>2 DEF Types
  <2>11. unread \in Seq(Byte) /\ Len(unread) = Len(buffer) - offset
         /\ \A i \in 1 .. Len(buffer) - offset : unread[i] = buffer[offset + i]
    <3>1. \A i \in 1 .. Len(buffer) - offset : buffer[offset + i] \in Byte
      BY <2>10
    <3> QED BY <2>1, <2>10, <3>1
  <2>12. unsent \in Seq(Byte) /\ Len(unsent) = Len(wire) /\ \A i \in 1 .. Len(wire) : unsent[i] = wire[i].value
    <3>1. \A i \in 1 .. Len(wire) : wire[i] \in Item
      BY <2>10
    <3>2. \A i \in 1 .. Len(wire) : wire[i].value \in Byte
      BY <3>1 DEF Item
    <3> QED BY <2>2, <2>10, <3>2
  <2>13. /\ pending \in Seq(Byte) /\ Len(pending) = Len(unread) + Len(unsent)
         /\ \A i \in 1 .. Len(unread) : pending[i] = unread[i]
         /\ \A i \in 1 .. Len(unsent) : pending[Len(unread) + i] = unsent[i]
    <3>1. Joins(pending, unread, unsent)
      BY <2>3 DEF Joins
    <3>2. unread \in Seq(Byte) /\ unsent \in Seq(Byte)
      BY <2>11, <2>12
    <3> QED BY SMTT(30), <3>1, <3>2, Joined
  <2>14. /\ Pos(stream) = Len(stream) - Len(wire) /\ Processed(stream) = Pos(stream) - (Len(buffer) - offset)
    BY DEF Pos, Processed
  <2>15. Len(pending) = Len(stream) - Processed(stream)
    <3>1. Len(pending) = (Len(buffer) - offset) + Len(wire)
      BY <2>11, <2>12, <2>13
    <3>2. Len(stream) \in Nat /\ Len(wire) \in Nat /\ Len(buffer) - offset \in Nat
      BY <2>9, <2>10
    <3> QED BY <2>14, <3>1, <3>2
  <2>16. ASSUME NEW i \in 1 .. Len(pending) PROVE pending[i] = stream[Processed(stream) + i].value
    <3>1. CASE i <= Len(unread)
      <4>1. i \in 1 .. Len(buffer) - offset /\ i \in 1 .. Len(unread)
        BY <2>10, <2>11, <3>1
      <4> QED BY <1>1, <2>11, <2>13, <4>1 DEF Flows
    <3>2. CASE i > Len(unread)
      <4>1. PICK k \in 1 .. Len(wire) : i = Len(unread) + k
        <5>1. i - Len(unread) \in 1 .. Len(wire) /\ i = Len(unread) + (i - Len(unread))
          BY <2>10, <2>11, <2>12, <2>13, <3>2
        <5> QED BY <5>1
      <4>2. wire[k] = stream[Pos(stream) + k] /\ pending[i] = wire[k].value
        BY <1>1, <2>12, <2>13, <4>1 DEF Flows
      <4>3. Processed(stream) + i = Pos(stream) + k
        BY <2>9, <2>10, <2>11, <2>14, <4>1
      <4> QED BY <4>2, <4>3
    <3> QED BY <2>10, <2>11, <3>1, <3>2
  <2>17. data.capacity - old \in Nat /\ data.capacity - old <= Len(pending)
    <3>1. data.capacity - old = Len(sent[next]) - old /\ old < Len(sent[next]) /\ Len(sent[next]) \in Nat
      BY <2>7, <2>8
    <3>2. Len(pending) = Len(stream) - (start[next] + HeadLen + old)
      BY <2>7, <2>15
    <3>3. start[next] \in Nat /\ start[next] + HeadLen + Len(sent[next]) <= Len(stream) /\ Len(stream) \in Nat
      BY <2>9
    <3>4. \A size, first, all \in Nat :
            old < size /\ first + HeadLen + size <= all
              => size - old \in Nat /\ size - old <= all - (first + HeadLen + old)
      BY <2>8
    <3>5. \A size, first, all :
            size \in Nat /\ first \in Nat /\ all \in Nat /\ old < size /\ first + HeadLen + size <= all
              => size - old \in Nat /\ size - old <= all - (first + HeadLen + old)
      BY <3>4
    <3>6. /\ Len(sent[next]) - old \in Nat
          /\ Len(sent[next]) - old <= Len(stream) - (start[next] + HeadLen + old)
      BY Zenon, <3>1, <3>3, <3>5
    <3> QED BY <3>1, <3>2, <3>6
  <2>18. /\ rest \in Seq(Byte) /\ Len(rest) = data.capacity - old
         /\ \A k \in 1 .. data.capacity - old : rest[k] = pending[k]
    BY <2>6, <2>13, <2>17
  <2>19. PICK whole : whole = data.bytes \o rest
    OBVIOUS
  <2>20. /\ whole \in Seq(Byte) /\ Len(whole) = old + Len(rest)
         /\ \A j \in 1 .. old : whole[j] = data.bytes[j]
         /\ \A k \in 1 .. Len(rest) : whole[old + k] = rest[k]
    <3>1. Joins(whole, data.bytes, rest)
      BY <2>19 DEF Joins
    <3>2. data.bytes \in Seq(Byte) /\ rest \in Seq(Byte)
      BY <2>8, <2>18
    <3>3. /\ whole \in Seq(Byte) /\ Len(whole) = Len(data.bytes) + Len(rest)
          /\ \A j \in 1 .. Len(data.bytes) : whole[j] = data.bytes[j]
          /\ \A k \in 1 .. Len(rest) : whole[Len(data.bytes) + k] = rest[k]
      BY SMTT(30), <3>1, <3>2, Joined
    <3> QED BY <2>5, <3>3
  <2>21. Len(whole) = Len(sent[next])
    BY <2>7, <2>8, <2>18, <2>20
  <2>22. ASSUME NEW j \in 1 .. Len(whole) PROVE whole[j] = sent[next][j]
    <3>1. CASE j <= old
      BY <2>7, <2>8, <2>20, <3>1
    <3>2. CASE j > old
      <4>1. PICK k \in 1 .. data.capacity - old : j = old + k
        <5>1. j - old \in 1 .. data.capacity - old /\ j = old + (j - old)
          BY <2>8, <2>17, <2>18, <2>20, <3>2
        <5> QED BY <5>1
      <4>2. whole[j] = stream[Processed(stream) + k].value
        <5>1. k \in 1 .. Len(pending)
          BY <2>13, <2>17
        <5> QED BY <2>16, <2>18, <2>20, <4>1, <5>1
      <4>3. /\ Processed(stream) + k = start[next] + (HeadLen + j) /\ j \in 1 .. Len(sent[next])
            /\ HeadLen + j \in 1 .. HeadLen + Len(sent[next])
        <5>1. data.capacity - old = Len(sent[next]) - old /\ Len(sent[next]) \in Nat
          BY <2>7, <2>8
        <5>2. PICK first, size : first = start[next] /\ size = Len(sent[next])
          OBVIOUS
        <5>3. k \in 1 .. size - old /\ first \in Nat /\ size \in Nat
          BY <2>9, <5>1, <5>2
        <5>4. first + HeadLen + old + k = first + (HeadLen + j) /\ j \in 1 .. size /\ HeadLen + j \in 1 .. HeadLen + size
          BY <2>8, <4>1, <5>3
        <5> QED BY <2>7, <5>2, <5>4
      <4>4. Encode(sent[next])[HeadLen + j].value = sent[next][j]
        BY <2>8, <4>3, Encoded
      <4> QED BY <2>9, <4>2, <4>3, <4>4
    <3> QED BY <2>8, <3>1, <3>2
  <2>23. whole = sent[next]
    <3>1. whole \in Seq(Byte) /\ sent[next] \in Seq(Byte) /\ Len(whole) = Len(sent[next])
          /\ \A j \in 1 .. Len(whole) : whole[j] = sent[next][j]
      BY <2>8, <2>20, <2>21, <2>22
    <3> QED BY <3>1
  <2>24. next <= Len(sent) /\ data.capacity = Len(sent[next]) /\ sent[next] = data.bytes \o rest
    BY <2>7, <2>19, <2>23
  <2> QED BY <2>1, <2>2, <2>3, <2>4, <2>5, <2>6, <2>24
<1> QED BY <1>5

LEMMA ImpliesHeaderCut == IInv => HeaderCut
<1> SUFFICES ASSUME IInv, ~ wiped PROVE (pc = "crashed" => Cut) /\ (pc = "idle" => (Cut <=> buffer # <<>>))
  BY DEF HeaderCut, Cut
<1>1. PICK stream, start : Laid(stream, start) /\ Flows(stream) /\ Filled(stream, start)
  BY DEF IInv, Safe, Streams
<1>2. /\ Types /\ Idle /\ Delivered /\ Crashed /\ wire \in Seq(Item) /\ buffer \in Seq(Byte) /\ Len(wire) \in Nat
      /\ Len(buffer) \in Nat /\ HeadLen \in Nat /\ Len(sent) \in Nat /\ Len(received) \in Nat /\ Len(received) <= Len(sent)
  BY Constants DEF IInv, Safe, Sizes, Types, Delivered
<1>3. SUFFICES ASSUME pc = "idle" PROVE Cut <=> buffer # <<>>
  BY <1>2 DEF Crashed
<1>4. offset = 0 /\ (buffer = <<>> \/ (data = NoPacket /\ Len(buffer) < HeadLen))
  BY <1>2, <1>3 DEF Idle
<1>5. PICK next : next = Len(received) + 1
  OBVIOUS
<1>6. PICK first \in Nat : first = start[next]
  <2>1. next \in 1 .. Len(sent) + 1
    BY <1>2, <1>5
  <2> QED BY <1>1, <2>1 DEF Laid
<1>7. PICK pos \in Int : pos = Pos(stream) /\ Processed(stream) = pos - Len(buffer)
  <2>1. Len(stream) \in Nat
    BY <1>1 DEF Laid
  <2>2. Pos(stream) \in Int
    BY <1>2, <2>1 DEF Pos
  <2>3. Processed(stream) = Pos(stream) - Len(buffer)
    BY <1>2, <1>4 DEF Processed
  <2> QED BY <2>2, <2>3
<1>8. next <= Len(sent) => Len(sent[next]) \in Nat
  <2>1. next <= Len(sent) => next \in 1 .. Len(sent)
    BY <1>2, <1>5
  <2> QED BY <1>2, <2>1, Constants DEF Types
<1>9. CASE data = NoPacket
  <2>1. pos = first + Len(buffer)
    BY <1>1, <1>2, <1>5, <1>6, <1>7, <1>9 DEF Filled
  <2>2. CASE buffer = <<>>
    <3>1. pos = first /\ first <= pos
      BY <1>2, <2>1, <2>2
    <3> QED BY <1>1, <1>2, <1>5, <1>6, <1>7, <2>2, <3>1, CutWhere
  <2>3. CASE buffer # <<>>
    <3>1. first < pos /\ pos < first + HeadLen /\ first <= pos
      BY <1>2, <1>4, <2>1, <2>3
    <3>2. next <= Len(sent)
      BY <1>1, <1>2, <1>5, <1>6, <1>7, <3>1, CutWhere
    <3>3. pos < first + HeadLen + Len(sent[next])
      <4>1. PICK size \in Nat : size = Len(sent[next])
        BY <1>8, <3>2
      <4>2. pos < first + HeadLen + size
        BY SMTT(60), <1>2, <1>6, <1>7, <3>1, <4>1
      <4> QED BY <4>1, <4>2
    <3> QED BY <1>1, <1>2, <1>5, <1>6, <1>7, <2>3, <3>1, <3>2, <3>3, CutWhere
  <2> QED BY <2>2, <2>3
<1>10. CASE data # NoPacket
  <2>1. buffer = <<>> /\ Len(buffer) = 0
    BY <1>4, <1>10
  <2>2. Begins(stream, start, data, Processed(stream))
    BY <1>1, <1>10 DEF Filled
  <2>3. PICK old \in Nat : /\ old < Len(sent[next]) /\ pos = first + HeadLen + old /\ next <= Len(sent)
    <3>1. Len(data.bytes) \in Nat
      BY <2>2 DEF Begins, Packet
    <3> QED BY <1>5, <1>6, <1>7, <2>1, <2>2, <3>1 DEF Begins
  <2>4. /\ first <= pos /\ ~ (pos < first + HeadLen) /\ pos < first + HeadLen + Len(sent[next])
    <3>1. PICK size \in Nat : size = Len(sent[next])
      BY <1>8, <2>3
    <3>2. old < size /\ pos = first + HeadLen + old /\ first \in Nat /\ old \in Nat /\ HeadLen \in Nat /\ size \in Nat
      BY Zenon, <1>2, <1>6, <2>3, <3>1
    <3>3. first <= pos /\ ~ (pos < first + HeadLen) /\ pos < first + HeadLen + size
      BY <3>2
    <3> QED BY <3>1, <3>3
  <2> QED BY <1>1, <1>2, <1>5, <1>6, <1>7, <2>1, <2>3, <2>4, CutWhere
<1> QED BY <1>9, <1>10

LEMMA Implied == IInv => TypeOK /\ BufferFits
BY DEF IInv, Sizes, Types, TypeOK, Byte, Item, Packet

-----------------------------------------------------------------------------

\* Every reachable state satisfies the invariant.
THEOREM Invariance == Spec => []IInv
<1>1. Init => IInv
  BY InitInv
<1>2. IInv /\ [Next]_vars => IInv'
  BY NextInv
<1> QED BY <1>1, <1>2, PTL DEF Spec

\* What Update works on has its type, m_data and the processed part of m_buffer included.
THEOREM TypeCorrect == Spec => []TypeOK
<1>1. IInv => TypeOK
  BY Implied
<1> QED BY <1>1, Invariance, PTL

\* Neither buffer is filled past its capacity, wherever recv cuts and whatever is read for a
\* length, but for the less than a header by which XNUX may overrun m_buffer, having offered
\* recv REV_BUF_LEN bytes behind what it kept (tcp.cpp:257).
THEOREM BufferBounded == Spec => []BufferFits
<1>1. IInv => BufferFits
  BY Implied
<1> QED BY <1>1, Invariance, PTL

\* No byte of a packet in flight is lost before XNUX clears kept ones: what m_data lacks of the
\* peer's packet is what comes next in the buffer and on the wire.
THEOREM NothingLost == Spec => []Whole
<1>1. IInv => Whole
  BY ImpliesWhole
<1> QED BY <1>1, Invariance, PTL

\* Before that Update goes wrong only where recv cut the header it is about to read, and keeps
\* bytes between two calls exactly when recv cut one.
THEOREM OnlyHeaderCuts == Spec => []HeaderCut
<1>1. IInv => HeaderCut
  BY ImpliesHeaderCut
<1> QED BY <1>1, Invariance, PTL

\* The safety part of Frames: Update implements the stream of packets that the handlers are
\* promised, each packet of the peer once, whole and in order, until the stream is broken.
THEOREM Refinement ==
  Spec => Stream!Init /\ [][Stream!Next]_<<sent, received, wiped \/ pc = "crashed">>
<1> DEFINE broken == wiped \/ pc = "crashed"
<1>1. Init => Stream!Init
  BY DEF Init, Stream!Init
<1>2. IInv /\ [Next]_vars => [Stream!Next]_<<sent, received, broken>>
  <2> SUFFICES ASSUME IInv, [Next]_vars PROVE [Stream!Next]_<<sent, received, broken>>
    OBVIOUS
  <2>1. CASE Turn
    <3>1. sent' = sent /\ wiped' = wiped /\ pc = "loop" /\ wiped \in BOOLEAN
      BY <2>1 DEF Turn, IInv, Sizes, Types
    <3>2. CASE wiped
      <4>1. broken = TRUE /\ broken' = TRUE
        BY <3>1, <3>2
      <4>2. received \in Seq(Seq(Byte))
        BY DEF IInv, Sizes, Types
      <4>3. received' = received \/ \E bytes : received' = Append(received, bytes)
        BY <2>1 DEF Turn
      <4>4. received' = received \/ Stream!Garbage
        BY <3>1, <4>1, <4>2, <4>3 DEF Stream!Garbage
      <4> QED BY <3>1, <4>1, <4>4 DEF Stream!Next
    <3>3. CASE ~ wiped
      <4>1. Gets
        BY <2>1, <3>3, TurnKeeps DEF IInv
      <4>2. pc' = "crashed" => received' = received
        BY <2>1 DEF Turn
      <4>3. CASE pc' = "crashed"
        <5>1. broken' = TRUE
          BY <4>3
        <5> QED BY <3>1, <4>2, <4>3, <5>1 DEF Stream!Next, Stream!Break
      <4>4. CASE pc' # "crashed"
        <5>1. broken = FALSE /\ broken' = FALSE
          BY <3>1, <3>3, <4>4
        <5> QED BY <3>1, <4>1, <5>1 DEF Gets, Stream!Next, Stream!Deliver
      <4> QED BY <4>3, <4>4
    <3> QED BY <3>2, <3>3
  <2>2. CASE \E p \in Payloads : PeerSend(p)
    BY <2>2 DEF PeerSend, Stream!Next, Stream!Send
  <2>3. CASE (\E n \in 1 .. BufLen : Receive(n)) \/ Receive(0)
    <3>1. /\ sent' = sent /\ received' = received /\ pc = "idle" /\ pc' # "crashed"
          /\ wiped' = wiped \/ wiped' = TRUE
      <4>1. ASSUME NEW n, Receive(n)
            PROVE  /\ sent' = sent /\ received' = received /\ pc = "idle" /\ pc' # "crashed"
                   /\ wiped' = wiped \/ wiped' = TRUE
        <5>1. wiped \in BOOLEAN
          BY DEF IInv, Sizes, Types
        <5> QED BY <4>1, <5>1 DEF Receive
      <4> QED BY <2>3, <4>1
    <3>2. broken' = broken \/ broken' = TRUE
      BY <3>1
    <3> QED BY <3>1, <3>2 DEF Stream!Next, Stream!Break
  <2>4. CASE Done \/ UNCHANGED vars
    BY <2>4 DEF Done, vars
  <2> QED BY <2>1, <2>2, <2>3, <2>4 DEF Next, Update
<1> QED BY <1>1, <1>2, Invariance, PTL DEF Spec
=============================================================================
