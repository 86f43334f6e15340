------------------------------ MODULE TcpReceive ------------------------------
(***************************************************************************)
(* The receiving half of the TCP extension (tcp::Update, tcp.cpp): the     *)
(* game loop calls Update, which takes what recv returns and cuts it into  *)
(* the packets that tcp::send of the peer framed.  The stream may be cut   *)
(* anywhere by recv; a packet is a sequence of bytes, a byte a number.     *)
(*                                                                         *)
(* The connection is up all along: isConnected() holds and errorSignal is  *)
(* empty, so the two tests Update begins with have no effect; the handlers *)
(* take the packet and do not call back into the client.                   *)
(*                                                                         *)
(* The zero fill of a new packet (memset with m_buffer->length instead of  *)
(* the packet's capacity) writes past a short packet, and recv on XNUX may *)
(* write past the buffer; the effect on other memory is outside the model, *)
(* what the first leaves in the packet is not read.                        *)
(***************************************************************************)
EXTENDS Integers, Sequences

CONSTANTS
  HeadLen,    \* `head': bytes of a packet's length
  Base,       \* values of a byte (256)
  BufLen,     \* REV_BUF_LEN
  Platforms,  \* whose branches of Update are compiled: "xnux", "win32"
  NoPacket,   \* m_data == nullptr
  Payloads,   \* the packets the peer may send
  MaxFrames   \* bound: packets sent

\* Base to the power of k.
power[k \in 0 .. HeadLen] == IF k = 0 THEN 1 ELSE Base * power[k - 1]

ASSUME TcpReceiveAssumption ==
  /\ HeadLen \in Nat \ {0} /\ Base \in Nat \ {0, 1} /\ BufLen \in Nat /\ BufLen >= HeadLen
  /\ Platforms \subseteq {"xnux", "win32"}
  /\ Payloads \subseteq Seq(0 .. Base - 1) /\ MaxFrames \in Nat
  /\ NoPacket \notin [capacity : Nat, bytes : Seq(0 .. Base - 1)]
  /\ \A p \in Payloads : Len(p) > 0  \* send refuses others
                         /\ Len(p) < power[HeadLen] \div 2  \* an int

VARIABLES
  platform,   \* the one this client is built for
  sent,       \* packets the peer has sent
  wire,       \* bytes sent and not yet returned by recv
  buffer,     \* m_buffer: its first `length' bytes
  offset,     \* _offset: bytes of the buffer processed by the loop of Update
  data,       \* m_data: the packet being filled
  received,   \* packets passed to the handlers
  pc,         \* "idle", "loop" inside the while loop of Update, "crashed"
  wiped       \* for the properties: XNUX has cleared bytes that were kept

vars == <<platform, sent, wire, buffer, offset, data, received, pc, wiped>>

-----------------------------------------------------------------------------

\* What is left of n when its last i bytes are shifted out.
Shifted(n) ==
  LET shifted[i \in 0 .. HeadLen] == IF i = 0 THEN n ELSE shifted[i - 1] \div Base IN shifted

\* The length in big-endian order, then the bytes.  A byte on the wire knows
\* whether it continues a header.
Encode(p) ==
  [i \in 1 .. HeadLen + Len(p) |->
     [value  |-> IF i <= HeadLen THEN Shifted(Len(p))[HeadLen - i] % Base ELSE p[i - HeadLen],
      inner  |-> i \in 2 .. HeadLen]]

\* The number big-endian bytes denote, and the length read from a header: an int.
Number(bytes) ==
  LET upTo[i \in 0 .. Len(bytes)] == IF i = 0 THEN 0 ELSE upTo[i - 1] * Base + bytes[i]
  IN  upTo[Len(bytes)]

\* Mutant: the last byte of the length is left out.
DecodeShort(bytes) == Number(SubSeq(bytes, 1, HeadLen - 1))
Decode(bytes) ==
  IF Number(bytes) < power[HeadLen] \div 2 THEN Number(bytes) ELSE Number(bytes) - power[HeadLen]

\* The peer, which frames as tcp::send does, sends a packet.
PeerSend(p) ==
  /\ Len(sent) < MaxFrames
  /\ sent' = Append(sent, p)
  /\ wire' = wire \o Encode(p)
  /\ UNCHANGED <<platform, buffer, offset, data, received, pc, wiped>>

\* Mutant: both platforms clear the buffer.
KeptCleared == [i \in 1 .. Len(buffer) |-> 0]

\* What the buffer holds when recv is called, XNUX having cleared it with the bytes
\* that were kept; and how much recv may write after them.
Kept == IF platform = "xnux" THEN [i \in 1 .. Len(buffer) |-> 0] ELSE buffer
Room == IF platform = "xnux" THEN BufLen ELSE BufLen - Len(buffer)

\* Not yet enough to process: the bytes are kept for the next Update.  Mutant: a whole
\* header is not enough.
ShortOrWhole(filled) == data = NoPacket /\ Len(filled) <= HeadLen
Short(filled) == data = NoPacket /\ Len(filled) < HeadLen

\* Update up to the loop, recv returning n bytes or none.
Receive(n) ==
  LET filled == Kept \o [i \in 1 .. n |-> wire[i].value] IN
  /\ pc = "idle" /\ n <= Len(wire) /\ n <= Room
  /\ buffer' = filled
  /\ wire' = SubSeq(wire, n + 1, Len(wire))
  /\ pc' = IF n = 0 \/ Short(filled) THEN "idle" ELSE "loop"
  /\ offset' = 0
  /\ wiped' = (wiped \/ (platform = "xnux" /\ buffer # <<>>))
  /\ UNCHANGED <<platform, sent, data, received>>

\* One turn of the loop: begin a packet if there is none, fill it with what is
\* left, hand it over when it is full.  A header that ends past the received bytes
\* makes the length of the copy negative; so would a negative capacity.
Turn ==
  LET from    == IF data = NoPacket THEN offset + HeadLen ELSE offset
      left    == Len(buffer) - from
      packet  == IF data # NoPacket THEN data
                 ELSE [capacity |-> IF left < 0 THEN 0 ELSE Decode(SubSeq(buffer, offset + 1, from)),
                       bytes    |-> <<>>]
      missing == packet.capacity - Len(packet.bytes)
      process == IF left <= missing THEN left ELSE missing
      bytes   == packet.bytes \o SubSeq(buffer, from + 1, from + process)
  IN
  /\ pc = "loop" /\ offset < Len(buffer)
  /\ \/ /\ left < 0 \/ missing < 0
        /\ pc' = "crashed"
        /\ UNCHANGED <<buffer, offset, data, received>>
     \/ /\ left >= 0 /\ process = 0
        /\ data' = packet
        /\ buffer' = <<>> /\ offset' = 0 /\ pc' = "idle"
        /\ UNCHANGED received
     \/ /\ process > 0
        /\ offset' = from + process
        /\ IF process = missing
           THEN data' = NoPacket /\ received' = Append(received, bytes)
           ELSE data' = [packet EXCEPT !.bytes = bytes] /\ UNCHANGED received
        /\ UNCHANGED <<buffer, pc>>
  /\ UNCHANGED <<platform, sent, wire, wiped>>

\* Mutant: the length of the buffer is not reset.
DoneKeepsBuffer ==
  /\ pc = "loop" /\ offset >= Len(buffer)
  /\ offset' = 0 /\ pc' = "idle"
  /\ UNCHANGED <<platform, sent, wire, buffer, data, received, wiped>>

\* The loop has consumed the buffer.
Done ==
  /\ pc = "loop" /\ offset >= Len(buffer)
  /\ buffer' = <<>> /\ offset' = 0 /\ pc' = "idle"
  /\ UNCHANGED <<platform, sent, wire, data, received, wiped>>

-----------------------------------------------------------------------------

Init ==
  /\ platform \in Platforms
  /\ sent = <<>> /\ wire = <<>> /\ received = <<>>
  /\ buffer = <<>> /\ offset = 0 /\ data = NoPacket /\ pc = "idle" /\ wiped = FALSE

Update == Turn \/ Done \/ \E n \in 1 .. BufLen : Receive(n)
Next   == Update \/ Receive(0) \/ \E p \in Payloads : PeerSend(p)

\* The game loop calls Update again and again, and recv returns what has arrived.
Spec == Init /\ [][Next]_vars /\ WF_vars(Update)

-----------------------------------------------------------------------------
(* Properties.                                                              *)

TypeOK ==
  /\ platform \in Platforms
  /\ sent \in Seq(Payloads) /\ received \in Seq(Seq(0 .. Base - 1))
  /\ wire \in Seq([value : 0 .. Base - 1, inner : BOOLEAN])
  /\ buffer \in Seq(0 .. Base - 1) /\ offset \in 0 .. Len(buffer)
  /\ data = NoPacket \/ (data.capacity \in Nat /\ data.bytes \in Seq(0 .. Base - 1))
  /\ pc \in {"idle", "loop", "crashed"} /\ wiped \in BOOLEAN

\* The bytes of a packet in flight are accounted for, until XNUX clears some that were
\* kept: the one being filled is the next one of the peer, up to what the buffer and the
\* wire still hold of it.
Whole ==
  LET pending == [i \in 1 .. Len(buffer) - offset |-> buffer[offset + i]]
                 \o [i \in 1 .. Len(wire) |-> wire[i].value]
      next    == Len(received) + 1
  IN  data # NoPacket /\ ~ wiped =>
        /\ next <= Len(sent)
        /\ data.capacity = Len(sent[next])
        /\ sent[next] = data.bytes \o SubSeq(pending, 1, data.capacity - Len(data.bytes))

\* Neither buffer is filled past its capacity (tcp.h:36), whatever recv cuts and however
\* wrong a length is read; but XNUX offers recv REV_BUF_LEN bytes behind what is kept, so
\* that the receive buffer can be overrun by less than a header there, and only so.
BufferFits ==
  /\ \/ Len(buffer) <= BufLen
     \/ platform = "xnux" /\ wiped /\ Len(buffer) < BufLen + HeadLen
  /\ data # NoPacket => Len(data.bytes) <= data.capacity

\* Update goes wrong only when recv cuts the header it is about to read: it has crashed
\* only with the rest of that header still to come, and between two calls it keeps bytes
\* exactly when the rest of a header is still to come.
HeaderCut ==
  LET cut == wire # <<>> /\ wire[1].inner IN
  ~ wiped => /\ pc = "crashed" => cut
             /\ pc = "idle" => (cut <=> buffer # <<>>)

\* The handlers get what the peer sent: each packet once, whole and in order, and in the
\* end every one of them, however recv cuts the stream, until XNUX clears bytes that were
\* kept or a header is read that is not whole.  (tcp::Update.)
Stream  == INSTANCE FrameStream WITH sent <- sent, received <- received, broken <- wiped \/ pc = "crashed"
Frames  == Stream!Spec

\* Fewer bytes than a header are not processed but kept until the rest arrives
\* (the comment at tcp.cpp:265): no packet other than the peer's is delivered.
PartialHeaderKept ==
  \A i \in 1 .. Len(received) : i <= Len(sent) /\ received[i] = sent[i]

\* The same inside the loop: a packet is begun only when its header is there.
HeaderComplete == pc # "crashed"
=============================================================================
