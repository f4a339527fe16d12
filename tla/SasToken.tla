------------------------------ MODULE SasToken ------------------------------
(***************************************************************************)
(* The signature of a token: create_sas_token (core/src/azure_iot_mqtt/    *)
(* sas_token.c) decodes the device's key from base64 and signs a text with *)
(* hmac_sha256 (hmac_sha256.c), which makes two or three messages and      *)
(* hashes each with the one context of sha256.c: bytes are collected in a  *)
(* buffer of one block, every full block is transformed, and the end of a  *)
(* message is padded in place.                                             *)
(*                                                                         *)
(* What is at stake here is which bytes reach which block.  The rounds of  *)
(* SHA-256 and the exclusive or are not computed: a byte is a pair of      *)
(* where it comes from and which one it is, the state of the hash is the   *)
(* sequence of blocks transformed since sha256_init, and the digest of a   *)
(* message is named by its number.                                         *)
(***************************************************************************)
EXTENDS Naturals, Sequences

CONSTANTS
  BlockSize,   \* B: bytes in a block
  LengthSize,  \* bytes of the length at the end of the padding
  DigestSize,  \* SHA256_DIGEST_SIZE
  Keys,        \* the keys considered, as bytes
  TextLengths  \* the lengths considered of the text to be signed

ASSUME SizesAssumption ==
  /\ {BlockSize, LengthSize, DigestSize} \subseteq Nat \ {0}
  /\ LengthSize < BlockSize
  /\ DigestSize <= BlockSize

ASSUME InputsAssumption ==
  /\ Keys \subseteq Seq(0..255)
  /\ <<>> \notin Keys
  /\ TextLengths \subseteq Nat

VARIABLES
  key,      \* the device's key
  text,     \* the text to be signed
  stage,    \* what is being done: "decode", the message being hashed, or "done"
  hmacKey,  \* key and key_len of hmac_sha256
  todo,     \* the data of the calls of sha256_update still to come, the present one's first
  padding,  \* is sha256_final padding?
  pos,      \* curBufferPos
  count, buffer, blocks, \* the context: sha256_t
  digests,  \* the messages hashed so far, each as its blocks
  fed       \* history: the bytes given to sha256_update since sha256_init

inputs == <<key, text>>
vars == <<inputs, stage, hmacKey, todo, padding, pos, count, buffer, blocks, digests, fed>>

Byte(v) == <<"byte", v>>
Xor(pad, b) == <<pad, b>>
DigestBytes(n) == [i \in 1..DigestSize |-> <<"digest", <<n, i>>>>]

-----------------------------------------------------------------------------
(***************************************************************************)
(* Base 64.  A character is its six bits, and 64 is the sign "=", for      *)
(* which the decoding table holds 64 too.                                  *)
(***************************************************************************)
At(s, i) == IF i <= Len(s) THEN s[i] ELSE 0

base64_encode(s) ==
  [j \in 1..(4 * ((Len(s) + 2) \div 3)) |->
     LET g == 3 * ((j - 1) \div 4)
     IN  CASE (j - 1) % 4 = 0 -> s[g + 1] \div 4
           [] (j - 1) % 4 = 1 -> (s[g + 1] % 4) * 16 + At(s, g + 2) \div 16
           [] (j - 1) % 4 = 2 ->
                IF g + 2 > Len(s) THEN 64 ELSE (s[g + 2] % 16) * 4 + At(s, g + 3) \div 64
           [] OTHER -> IF g + 3 > Len(s) THEN 64 ELSE s[g + 3] % 64]

\* In what base64_encode makes, the bits that the code puts together with | do not
\* overlap; for them + and the remainder do the same.
base64_decode(c) ==
  [k \in 1..((3 * Len(c)) \div 4) |->
     LET g == 4 * ((k - 1) \div 3)
     IN  CASE (k - 1) % 3 = 0 -> (c[g + 1] * 4 + c[g + 2] \div 16) % 256
           [] (k - 1) % 3 = 1 -> (c[g + 2] * 16 + c[g + 3] \div 4) % 256
           [] OTHER -> (c[g + 3] * 64 + c[g + 4]) % 256]

base64_decode_length(c) ==
  (Len(c) * 6) \div 8 - (IF c[Len(c)] # 64 THEN 0 ELSE IF c[Len(c) - 1] # 64 THEN 1 ELSE 2)

\* The key is configured in base 64; the decoded key ends after key_binary_size bytes.
create_sas_token ==
  /\ stage = "decode"
  /\ LET configured == base64_encode(key)
         key_binary == base64_decode(configured)
     IN  hmacKey' = [i \in 1..base64_decode_length(configured) |-> Byte(key_binary[i])]
  /\ stage' = "hmac"
  /\ UNCHANGED <<inputs, todo, padding, pos, count, buffer, blocks, digests, fed>>

-----------------------------------------------------------------------------
(***************************************************************************)
(* hmac_sha256.                                                            *)
(***************************************************************************)

\* Mutated form: a key of exactly one block counts as long.
KeyTooLongOffByOne == Len(hmacKey) >= BlockSize

KeyTooLong == Len(hmacKey) > BlockSize

\* kx: the key, filled up with zeroes, under I_PAD or O_PAD.
PaddedKey(pad) ==
  [i \in 1..BlockSize |-> Xor(pad, IF i <= Len(hmacKey) THEN hmacKey[i] ELSE Byte(0))]

\* A message begins: its first call of sha256_update reads the position.
Begin(message, data) ==
  /\ stage' = message
  /\ todo' = data
  /\ pos' = count % BlockSize

hmac_sha256 ==
  /\ stage = "hmac"
  /\ IF KeyTooLong
     THEN Begin("key", <<hmacKey>>)
     ELSE Begin("inner", <<PaddedKey("ipad"), text>>)
  /\ UNCHANGED <<inputs, hmacKey, padding, count, buffer, blocks, digests, fed>>

\* The digest of a long key replaces it, and that of the inner message is hashed again.
AfterFinal ==
  \/ stage = "key" /\ stage' = "hmac" /\ hmacKey' = DigestBytes(1) /\ todo' = <<>>
  \/ /\ stage = "inner"
     /\ stage' = "outer"
     /\ todo' = <<PaddedKey("opad"), DigestBytes(Len(digests) + 1)>>
     /\ UNCHANGED hmacKey
  \/ stage = "outer" /\ stage' = "done" /\ todo' = <<>> /\ UNCHANGED hmacKey

-----------------------------------------------------------------------------
(***************************************************************************)
(* SHA-256, byte by byte.                                                  *)
(***************************************************************************)
Put(b) == buffer' = [buffer EXCEPT ![pos] = b]

\* Mutated form: a block is written one byte early.
UpdateByteEarly ==
  /\ todo # <<>>
  /\ todo[1] # <<>>
  /\ Put(todo[1][1])
  /\ todo' = <<Tail(todo[1])>> \o Tail(todo)
  /\ fed' = Append(fed, todo[1][1])
  /\ count' = count + 1
  /\ IF pos = BlockSize - 1
     THEN pos' = 0 /\ blocks' = Append(blocks, buffer)
     ELSE pos' = pos + 1 /\ UNCHANGED blocks
  /\ UNCHANGED <<inputs, stage, hmacKey, padding, digests>>

sha256_update ==
  /\ todo # <<>>
  /\ todo[1] # <<>>
  /\ Put(todo[1][1])
  /\ todo' = <<Tail(todo[1])>> \o Tail(todo)
  /\ fed' = Append(fed, todo[1][1])
  /\ count' = count + 1
  /\ IF pos = BlockSize - 1
     THEN pos' = 0 /\ blocks' = Append(blocks, buffer')
     ELSE pos' = pos + 1 /\ UNCHANGED blocks
  /\ UNCHANGED <<inputs, stage, hmacKey, padding, digests>>

NextUpdate ==
  /\ todo # <<>>
  /\ todo[1] = <<>>
  /\ todo' = Tail(todo)
  /\ pos' = count % BlockSize
  /\ UNCHANGED <<inputs, stage, hmacKey, padding, count, buffer, blocks, digests, fed>>

Hashing == stage \in {"key", "inner", "outer"} /\ todo = <<>>

\* sha256_final: the bit after the message.  The position may now be past the block.
FinalBit ==
  /\ Hashing
  /\ ~padding
  /\ Put(Byte(128))
  /\ pos' = pos + 1
  /\ padding' = TRUE
  /\ UNCHANGED <<inputs, stage, hmacKey, todo, count, blocks, digests, fed>>

\* Mutated form: the position is not masked.
FinalZeroUnmasked ==
  /\ Hashing
  /\ padding
  /\ pos # BlockSize - LengthSize
  /\ blocks' = IF pos = 0 THEN Append(blocks, buffer) ELSE blocks
  /\ buffer' = [buffer EXCEPT ![pos] = Byte(0)]
  /\ pos' = pos + 1
  /\ UNCHANGED <<inputs, stage, hmacKey, todo, padding, count, digests, fed>>

\* One turn of the loop that fills up with zeroes, writing a block that is full.
FinalZero ==
  /\ Hashing
  /\ padding
  /\ pos # BlockSize - LengthSize
  /\ LET at == pos % BlockSize
     IN  /\ blocks' = IF at = 0 THEN Append(blocks, buffer) ELSE blocks
         /\ buffer' = [buffer EXCEPT ![at] = Byte(0)]
         /\ pos' = at + 1
  /\ UNCHANGED <<inputs, stage, hmacKey, todo, padding, count, digests, fed>>

\* Byte i of the length in bits of a message of n bytes, the highest first.  A
\* message is shorter than 2 ^ 32 bits (the key and the text have buffers of 96 and
\* 128 bytes), so that the bytes above are zero.
LengthByte(n, i) ==
  LET above == LengthSize - i
      weight == <<1, 256, 65536, 16777216>>
  IN  Byte(IF above < 4 THEN ((8 * n) \div weight[above + 1]) % 256 ELSE 0)

\* The length, the last block, the digest, and sha256_init for the next message.
FinalLength ==
  /\ Hashing
  /\ padding
  /\ pos = BlockSize - LengthSize
  /\ buffer' = [i \in DOMAIN buffer |->
                  IF i < pos THEN buffer[i] ELSE LengthByte(count, i - pos + 1)]
  /\ digests' = Append(digests, Append(blocks, buffer'))
  /\ AfterFinal
  /\ count' = 0
  /\ pos' = 0
  /\ blocks' = <<>>
  /\ fed' = <<>>
  /\ padding' = FALSE
  /\ UNCHANGED inputs

-----------------------------------------------------------------------------
\* The buffer is on the stack and holds anything at first, taken for zeroes.
Init ==
  /\ key \in Keys
  /\ text \in {[i \in 1..n |-> <<"text", i>>] : n \in TextLengths}
  /\ stage = "decode"
  /\ hmacKey = <<>>
  /\ todo = <<>>
  /\ padding = FALSE
  /\ pos = 0
  /\ count = 0
  /\ buffer = [i \in 0..(BlockSize - 1) |-> Byte(0)]
  /\ blocks = <<>>
  /\ digests = <<>>
  /\ fed = <<>>

Next ==
  \/ create_sas_token
  \/ hmac_sha256
  \/ sha256_update
  \/ NextUpdate
  \/ FinalBit
  \/ FinalZero
  \/ FinalLength

Spec == Init /\ [][Next]_vars

-----------------------------------------------------------------------------
(***************************************************************************)
(* Reference definitions: the padding of FIPS 180-4, section 5.1.1, and    *)
(* the keyed hash of RFC 2104, section 2.                                  *)
(***************************************************************************)
PaddedLength(n) == BlockSize * ((n + LengthSize) \div BlockSize + 1)

PaddedByte(m, i) ==
  LET n == Len(m)
      end == PaddedLength(n) - LengthSize
  IN  IF i <= n THEN m[i]
      ELSE IF i = n + 1 THEN Byte(128)
      ELSE IF i <= end THEN Byte(0)
      ELSE LengthByte(n, i - end)

IsPadded(message, m) ==
  message = [b \in 1..(PaddedLength(Len(m)) \div BlockSize) |->
               [i \in 0..(BlockSize - 1) |-> PaddedByte(m, (b - 1) * BlockSize + i + 1)]]

KeyBytes == [i \in 1..Len(key) |-> Byte(key[i])]

\* The key that is used: that of the device, or its digest if it is longer than a block.
LongKey == Len(key) > BlockSize
UsedKey == IF LongKey THEN DigestBytes(1) ELSE KeyBytes

\* The messages of the two passes: a block of the key under a pad, and what follows it.
Under(pad) ==
  [i \in 1..BlockSize |-> Xor(pad, IF i <= Len(UsedKey) THEN UsedKey[i] ELSE Byte(0))]

InnerNumber == IF LongKey THEN 2 ELSE 1
InnerMessage == Under("ipad") \o text
OuterMessage == Under("opad") \o DigestBytes(InnerNumber)

-----------------------------------------------------------------------------
(***************************************************************************)
(* Properties.                                                             *)
(***************************************************************************)

\* Every variable has a value the program can give it; no byte is put outside
\* the buffer.
TypeOK ==
  /\ stage \in {"decode", "hmac", "key", "inner", "outer", "done"}
  /\ padding \in BOOLEAN
  /\ DOMAIN buffer = 0..(BlockSize - 1)
  /\ pos \in 0..BlockSize
  /\ ~padding => pos < BlockSize
  /\ count = Len(fed)
  /\ Len(digests) <= 3

\* While a message is fed, in pieces of whatever lengths, the blocks transformed
\* and the filled part of the buffer are all of it so far, in order.
NothingLost ==
  stage \in {"key", "inner", "outer"} /\ ~padding =>
    /\ Len(blocks) = count \div BlockSize
    /\ \A i \in 1..count :
         LET b == (i - 1) \div BlockSize + 1
             at == (i - 1) % BlockSize
         IN  fed[i] = IF b <= Len(blocks) THEN blocks[b][at] ELSE buffer[at]

\* The signature is the one the hub computes: the keyed hash, by its definition,
\* of the text under the key that was configured, for keys shorter and longer
\* than a block and for texts that end anywhere in one.
SignsAsDefined ==
  stage = "done" =>
    /\ Len(digests) = InnerNumber + 1
    /\ LongKey => IsPadded(digests[1], KeyBytes)
    /\ IsPadded(digests[InnerNumber], InnerMessage)
    /\ IsPadded(digests[InnerNumber + 1], OuterMessage)

=============================================================================
