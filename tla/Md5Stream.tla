------------------------------- MODULE Md5Stream -------------------------------
(***************************************************************************)
(* What MD5 (md5.cpp) compresses: GenerateMD5 feeds the message, the       *)
(* padding and the length to md5_update, which cuts them into blocks and   *)
(* counts their bits in two words.  The compression function is left out;  *)
(* the digest is the sequence of the blocks.                               *)
(***************************************************************************)
EXTENDS Integers, Sequences, SequencesExt, FiniteSetsExt

CONSTANTS
  Word, Block,  \* the values of a word, the bytes of a block: 2 ^ 32 and 64 in the code
  MaxMessage    \* bound: bytes of a message

\* The bits of a block divide the values of a word; a length is a word itself.
ASSUME Md5StreamAssumption ==
  /\ Word \in Nat \ {0} /\ Block \in Nat \ {0, 1} /\ Word % (8 * Block) = 0
  /\ MaxMessage \in 0 .. Word - 1

VARIABLES
  message, \* the bytes 1, 2, ... of the message
  wide,    \* whether `unsigned long', and so uint32, is wider than a word
  total,   \* the count of bits, low word first
  msglen,  \* what md5_finish keeps of it, each word as one byte
  block,   \* ctx->buffer, as far as it is filled
  blocks,  \* the blocks that were processed
  fed      \* "nothing", "message", "padding" or "length"

md5Vars == <<message, wide, total, msglen, block, blocks, fed>>

Uint32(n) == IF wide THEN n ELSE n % Word

Md5Init ==
  /\ \E n \in 0 .. MaxMessage : message = [k \in 1 .. n |-> k]
  /\ wide \in BOOLEAN
  /\ total = <<0, 0>> /\ msglen = <<>> /\ block = <<>> /\ blocks = <<>> /\ fed = "nothing"

\* The count of bits after n more bytes, with a carry if the low word is now less than what
\* was added to it.
Counted(n) ==
  LET low == (total[1] + Uint32(8 * n)) % Word IN
  <<low, total[2] + (n \div (Word \div 8)) + (IF low < Uint32(8 * n) THEN 1 ELSE 0)>>
Left == (total[1] \div 8) % Block

\* md5_update completes the block that was begun, processes the whole blocks of the rest,
\* and keeps what is left.
Update(bytes) ==
  LET fill  == IF Left # 0 /\ Len(bytes) >= Block - Left THEN Block - Left ELSE 0
      begun == SubSeq(block, 1, Left) \o SubSeq(bytes, 1, fill)
      rest  == SubSeq(bytes, fill + 1, Len(bytes))
      whole == Len(rest) \div Block
      kept  == SubSeq(rest, whole * Block + 1, Len(rest))
  IN
  IF bytes = <<>> THEN UNCHANGED <<total, block, blocks>>
  ELSE /\ total' = Counted(Len(bytes))
       /\ blocks' = blocks \o (IF fill > 0 THEN <<begun>> ELSE <<>>)
                           \o [k \in 1 .. whole |-> SubSeq(rest, (k - 1) * Block + 1, k * Block)]
       /\ block' = IF fill > 0 THEN kept ELSE SubSeq(block, 1, Left) \o kept

\* GenerateMD5, which updates with the whole message; and md5_finish.
FeedMessage ==
  /\ fed = "nothing" /\ fed' = "message"
  /\ Update(message)
  /\ UNCHANGED <<message, wide, msglen>>
\* Mutant: there is a byte of room for the padding too few.
PaddingTight == (IF Left < Block - 1 THEN Block - 2 ELSE 2 * Block - 2) - Left
\* The padding leaves room for the length at the end of a block.
Padding == (IF Left < Block - 2 THEN Block - 2 ELSE 2 * Block - 2) - Left
FeedPadding ==
  /\ fed = "message" /\ fed' = "padding"
  /\ msglen' = [k \in 1 .. 2 |-> total[k] % Word]
  /\ Update([k \in 1 .. Padding |-> IF k = 1 THEN -128 ELSE 0])
  /\ UNCHANGED <<message, wide>>
FeedLength ==
  /\ fed = "padding" /\ fed' = "length"
  /\ Update(msglen)
  /\ UNCHANGED <<message, wide, msglen>>

Md5Next == FeedMessage \/ FeedPadding \/ FeedLength
Md5Spec == Md5Init /\ [][Md5Next]_md5Vars

-----------------------------------------------------------------------------
(* Properties.                                                              *)

\* What is compressed is the message, a one bit, as few zeros as make whole blocks, and the
\* count of the bits of the message in two words, for every length (RFC 1321, 3.1 and 3.2).
\* Where `unsigned long' is wider than a word, md5_update takes a carry too many from a
\* message whose bits do not fit into one; such messages are excepted.
DigestOfMessage ==
  fed = "length" /\ (wide => 8 * Len(message) < Word) =>
    LET size  == Len(message)
        zeros == CHOOSE n \in 0 .. Block - 1 : (size + 1 + n + 2) % Block = 0
        bits  == <<(8 * size) % Word, (8 * size) \div Word>>
    IN  /\ block = <<>>
        /\ FlattenSeq(blocks) = message \o <<-128>> \o [k \in 1 .. zeros |-> 0] \o bits
        /\ \A k \in DOMAIN blocks : Len(blocks[k]) = Block
=============================================================================
