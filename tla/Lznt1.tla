-------------------------------- MODULE Lznt1 --------------------------------
(***************************************************************************)
(* Decompression of LZNT1 (libs/ntdll/lznt1.c), byte count for byte count, *)
(* over any input; "text" is what the tokens read so far mean in the       *)
(* format.  The widths are those of the code at a smaller scale: tokens of *)
(* 16 bits of which 12 are at first the length, chunks of 4096 bytes, mask *)
(* bytes of 8 tokens.                                                      *)
(***************************************************************************)
EXTENDS Integers, Sequences

CONSTANTS
  TokenBits,   \* width of a back reference and of blockpos (16)
  LengthBits,  \* of it the length in the beginning of a chunk (12)
  ChunkSize,   \* bytes of a chunk, and most bytes it is compressed to (4096)
  MaskTokens,  \* tokens of a mask byte (8)
  Symbols,     \* byte values
  Stray,       \* a byte read before the beginning of the buffer
  InputSizes,  \* values of CompressedBufferSize
  Capacity     \* UncompressedBufferSize

ASSUME LzAssumption ==
  /\ TokenBits \in Nat /\ LengthBits \in 0 .. TokenBits
  /\ ChunkSize \in Nat \ {0} /\ MaskTokens \in Nat
  /\ Stray \notin Symbols
  /\ InputSizes \subseteq Nat /\ Capacity \in Nat

VARIABLES
  stage,     \* "header", "mask", "token", or the status returned
  out,       \* bytes written
  left,      \* CompressedBufferSize
  room,      \* UncompressedBufferSize
  blocksz,   \* bytes left of the compressed chunk
  blockpos,  \* bytes written for the chunk
  tokens,    \* tokens left of the mask byte
  text,      \* history: what the tokens mean
  sound      \* history: each token had a meaning

lzVars == <<stage, out, left, room, blocksz, blockpos, tokens, text, sound>>

Done == {"success", "bad", "invalid"}

LzInit ==
  /\ stage = "header" /\ out = <<>> /\ left \in InputSizes /\ room = Capacity
  /\ blocksz = 0 /\ blockpos = 0 /\ tokens = 0 /\ text = <<>> /\ sound = TRUE

Fail(status) ==
  stage' = status /\ UNCHANGED <<out, left, room, blocksz, blockpos, tokens, text, sound>>

-----------------------------------------------------------------------------
(* A back reference.                                                       *)

\* Powers of two, as far as tokens have bits.
Power[n \in 0 .. TokenBits] == IF n = 0 THEN 1 ELSE 2 * Power[n - 1]

Least == TokenBits - LengthBits    \* bits of a displacement in the beginning

\* Faulty variant: the position and not the one before it is halved.
HalvingsOfNext(pos) ==
  LET f[j \in 0 .. pos] == IF j < Power[Least] THEN 0 ELSE 1 + f[j \div 2]
  IN  f[pos]

\* How often the position is halved until it fits the bits of a displacement.
Halvings(pos) ==
  LET f[j \in 0 .. pos - 1] == IF j < Power[Least] THEN 0 ELSE 1 + f[j \div 2]
  IN  f[pos - 1]

\* back of the code before it is the displacement: where runlen is divided.
Shift(pos) == LengthBits - Halvings(pos)

LengthOf(runlen, pos) == (runlen % Power[Shift(pos)]) + 3
BackOf(runlen, pos) == (runlen \div Power[Shift(pos)]) + 1

\* while (len--) { *d = d[-back]; d++; }
CopyBack(s, len, back) ==
  LET f[n \in 0 .. len] ==
        IF n = 0 THEN s
        ELSE LET old == f[n - 1]
             IN  Append(old, IF back > Len(old) THEN Stray ELSE old[Len(old) + 1 - back])
  IN  f[len]

-----------------------------------------------------------------------------
(* What the format says: as many bits of displacement as the bytes of the  *)
(* chunk need, 4 at least; the copy repeats what it copies.                *)

MeantShift(pos) ==
  LET enough == {b \in Least .. TokenBits : Power[b] >= pos}
  IN  TokenBits - (CHOOSE b \in enough : \A c \in enough : b <= c)

Meant(runlen, pos) ==
  LET len == (runlen % Power[MeantShift(pos)]) + 3
      back == (runlen \div Power[MeantShift(pos)]) + 1
  IN  [i \in 1 .. len |-> text[(Len(text) - back) + ((i - 1) % back) + 1]]

HasMeaning(runlen, pos) ==
  pos <= ChunkSize /\ (runlen \div Power[MeantShift(pos)]) + 1 <= Len(text)

-----------------------------------------------------------------------------
(* RtlDecompressBufferLZNT1.                                               *)

EndOfInput == stage = "header" /\ left = 0 /\ Fail("success")

HalfHeader == stage = "header" /\ left = 1 /\ Fail("invalid")

StoredChunk ==
  /\ stage = "header" /\ left >= 2
  /\ IF ChunkSize > room \/ ChunkSize > left - 2
     THEN Fail("bad")
     ELSE \E s \in Symbols :
            LET bytes == [i \in 1 .. ChunkSize |-> s]
            IN  /\ out' = out \o bytes /\ text' = text \o bytes
                /\ left' = left - 2 - ChunkSize /\ room' = room - ChunkSize
                /\ UNCHANGED <<stage, blocksz, blockpos, tokens, sound>>

CompressedChunk ==
  /\ stage = "header" /\ left >= 2
  /\ \E size \in 1 .. ChunkSize : blocksz' = size
  /\ left' = left - 2 /\ blockpos' = 0 /\ stage' = "mask"
  /\ UNCHANGED <<out, room, tokens, text, sound>>

EndOfChunk ==
  /\ stage = "mask" /\ blocksz = 0 /\ stage' = "header"
  /\ UNCHANGED <<out, left, room, blocksz, blockpos, tokens, text, sound>>

Mask ==
  /\ stage = "mask" /\ blocksz > 0
  /\ IF left = 0 THEN Fail("bad")
     ELSE /\ left' = left - 1 /\ blocksz' = blocksz - 1 /\ tokens' = MaskTokens
          /\ stage' = "token"
          /\ UNCHANGED <<out, room, blockpos, text, sound>>

EndOfGroup ==
  /\ stage = "token" /\ (tokens = 0 \/ blocksz = 0) /\ stage' = "mask"
  /\ UNCHANGED <<out, left, room, blocksz, blockpos, tokens, text, sound>>

HasRoom(len) == room >= len

BackReference(runlen) ==
  /\ stage = "token" /\ tokens > 0 /\ blocksz > 0
  /\ IF left < 2 \/ blocksz < 2 \/ blockpos = 0 \/ ~HasRoom(LengthOf(runlen, blockpos))
     THEN Fail("bad")
     ELSE LET len == LengthOf(runlen, blockpos)
          IN  /\ out' = CopyBack(out, len, BackOf(runlen, blockpos))
              /\ left' = left - 2 /\ blocksz' = blocksz - 2 /\ tokens' = tokens - 1
              /\ room' = room - len
              /\ blockpos' = (blockpos + len) % Power[TokenBits]
              /\ sound' = (sound /\ HasMeaning(runlen, blockpos))
              /\ text' = IF sound' THEN text \o Meant(runlen, blockpos) ELSE text
              /\ UNCHANGED stage

Literal(s) ==
  /\ stage = "token" /\ tokens > 0 /\ blocksz > 0
  /\ IF left = 0 \/ room = 0 THEN Fail("bad")
     ELSE /\ out' = Append(out, s)
          /\ text' = IF sound THEN Append(text, s) ELSE text
          /\ left' = left - 1 /\ blocksz' = blocksz - 1 /\ tokens' = tokens - 1
          /\ room' = room - 1 /\ blockpos' = (blockpos + 1) % Power[TokenBits]
          /\ UNCHANGED <<stage, sound>>

LzNext ==
  \/ EndOfInput \/ HalfHeader \/ StoredChunk \/ CompressedChunk \/ EndOfChunk
  \/ Mask \/ EndOfGroup
  \/ \E runlen \in 0 .. Power[TokenBits] - 1 : BackReference(runlen)
  \/ \E s \in Symbols : Literal(s)

LzSpec == LzInit /\ [][LzNext]_lzVars

-----------------------------------------------------------------------------
(* Properties.                                                             *)

\* The output is what the tokens mean, for every input whose tokens have a
\* meaning: the widths that the loop finds are those of the format, and the
\* copy repeats bytes that it wrote itself (RtlDecompressBufferLZNT1).
DecodedAsMeant == sound => out = text

\* Nothing is written behind the buffer, and the size that is returned is that
\* of what was written, whatever the input is (RtlDecompressBufferLZNT1).
NothingBehindBuffer == room >= 0 /\ Len(out) + room = Capacity

\* Every byte of a chunk can be referred to from each place behind it in the
\* chunk, as long as the chunk has no more than its 4096 bytes; no read leaves
\* the buffer unless the token itself points there (the shift of the mask).
ChunkIsReachable ==
  /\ stage = "token" /\ blockpos \in 1 .. ChunkSize =>
       Power[TokenBits - Shift(blockpos)] >= blockpos
  /\ sound => \A i \in DOMAIN out : out[i] # Stray

\* What is decompressed is what the tokens mean, nothing is written behind the
\* buffer, and a token can reach all of its chunk (RtlDecompressBufferLZNT1).
TextIsDecoded == DecodedAsMeant /\ NothingBehindBuffer /\ ChunkIsReachable
=============================================================================
