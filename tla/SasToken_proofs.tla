-------------------------- MODULE SasToken_proofs --------------------------
(***************************************************************************)
(* Proofs about SasToken, for blocks, lengths and digests of every size    *)
(* that SizesAssumption allows, and for every key and length of the text.  *)
(***************************************************************************)
EXTENDS SasToken, SequenceTheorems, TLAPS

-----------------------------------------------------------------------------
(***************************************************************************)
(* Base 64.                                                                *)
(***************************************************************************)

Bytes == 0..255

\* What base64_encode makes of the three bytes that begin at 3 * m + 1, or of the
\* one or two that are left at the end.
LEMMA EncodedGroup ==
  ASSUME NEW s \in Seq(Bytes), NEW m \in Nat, 3 * m + 1 <= Len(s)
  PROVE  LET c == base64_encode(s)
         IN  /\ c[4 * m + 1] = s[3 * m + 1] \div 4
             /\ c[4 * m + 2] = (s[3 * m + 1] % 4) * 16 + At(s, 3 * m + 2) \div 16
             /\ c[4 * m + 3] = IF 3 * m + 2 > Len(s) THEN 64
                               ELSE (s[3 * m + 2] % 16) * 4 + At(s, 3 * m + 3) \div 64
             /\ c[4 * m + 4] = IF 3 * m + 3 > Len(s) THEN 64 ELSE s[3 * m + 3] % 64
<1> DEFINE n == Len(s)
           q == (n + 2) \div 3
           Char(g, r) ==
             CASE r = 0 -> s[g + 1] \div 4
               [] r = 1 -> (s[g + 1] % 4) * 16 + At(s, g + 2) \div 16
               [] r = 2 -> IF g + 2 > n THEN 64 ELSE (s[g + 2] % 16) * 4 + At(s, g + 3) \div 64
               [] OTHER -> IF g + 3 > n THEN 64 ELSE s[g + 3] % 64
<1>1. n \in Nat
  OBVIOUS
<1>2. \A j \in 1..(4 * q) : base64_encode(s)[j] = Char(3 * ((j - 1) \div 4), (j - 1) % 4)
  BY DEF base64_encode
<1>3. \A r \in 0..3 : /\ 4 * m + r + 1 \in 1..(4 * q)
                      /\ ((4 * m + r + 1) - 1) \div 4 = m
                      /\ ((4 * m + r + 1) - 1) % 4 = r
  BY <1>1
<1> HIDE DEF Char
<1>4. \A r \in 0..3 : base64_encode(s)[4 * m + r + 1] = Char(3 * m, r)
  <2>1. TAKE r \in 0..3
  <2>2. base64_encode(s)[4 * m + r + 1] =
          Char(3 * (((4 * m + r + 1) - 1) \div 4), ((4 * m + r + 1) - 1) % 4)
    BY <1>2, <1>3
  <2>3. QED
    BY <1>3, <2>2
<1>5. /\ base64_encode(s)[4 * m + 1] = Char(3 * m, 0)
      /\ base64_encode(s)[4 * m + 2] = Char(3 * m, 1)
      /\ base64_encode(s)[4 * m + 3] = Char(3 * m, 2)
      /\ base64_encode(s)[4 * m + 4] = Char(3 * m, 3)
  <2>1. 4 * m + 0 + 1 = 4 * m + 1 /\ 4 * m + 1 + 1 = 4 * m + 2
        /\ 4 * m + 2 + 1 = 4 * m + 3 /\ 4 * m + 3 + 1 = 4 * m + 4
    OBVIOUS
  <2>2. QED
    BY <1>4, <2>1
<1>6. /\ Char(3 * m, 0) = s[3 * m + 1] \div 4
      /\ Char(3 * m, 1) = (s[3 * m + 1] % 4) * 16 + At(s, 3 * m + 2) \div 16
  BY DEF Char
<1>7. Char(3 * m, 2) = IF 3 * m + 2 > n THEN 64
                       ELSE (s[3 * m + 2] % 16) * 4 + At(s, 3 * m + 3) \div 64
  BY DEF Char
<1>8. Char(3 * m, 3) = IF 3 * m + 3 > n THEN 64 ELSE s[3 * m + 3] % 64
  BY DEF Char
<1>9. QED
  BY <1>5, <1>6, <1>7, <1>8

\* What base64_decode makes of one group of four characters, and of the rest of them.
LEMMA DecodedGroup ==
  ASSUME NEW c \in Seq(Nat), NEW m \in Nat, 4 * m + 4 <= Len(c)
  PROVE  LET d == base64_decode(c)
         IN  /\ d[3 * m + 1] = (c[4 * m + 1] * 4 + c[4 * m + 2] \div 16) % 256
             /\ d[3 * m + 2] = (c[4 * m + 2] * 16 + c[4 * m + 3] \div 4) % 256
             /\ d[3 * m + 3] = (c[4 * m + 3] * 64 + c[4 * m + 4]) % 256
<1> DEFINE n == Len(c)
           q == (3 * n) \div 4
           Octet(g, r) ==
             CASE r = 0 -> (c[g + 1] * 4 + c[g + 2] \div 16) % 256
               [] r = 1 -> (c[g + 2] * 16 + c[g + 3] \div 4) % 256
               [] OTHER -> (c[g + 3] * 64 + c[g + 4]) % 256
<1>1. n \in Nat
  OBVIOUS
<1>2. \A k \in 1..q : base64_decode(c)[k] = Octet(4 * ((k - 1) \div 3), (k - 1) % 3)
  BY DEF base64_decode
<1>3. \A r \in 0..2 : /\ 3 * m + r + 1 \in 1..q
                      /\ ((3 * m + r + 1) - 1) \div 3 = m
                      /\ ((3 * m + r + 1) - 1) % 3 = r
  BY <1>1
<1> HIDE DEF Octet
<1>4. \A r \in 0..2 : base64_decode(c)[3 * m + r + 1] = Octet(4 * m, r)
  <2>1. TAKE r \in 0..2
  <2>2. base64_decode(c)[3 * m + r + 1] =
          Octet(4 * (((3 * m + r + 1) - 1) \div 3), ((3 * m + r + 1) - 1) % 3)
    BY <1>2, <1>3
  <2>3. QED
    BY <1>3, <2>2
<1>5. /\ base64_decode(c)[3 * m + 1] = Octet(4 * m, 0)
      /\ base64_decode(c)[3 * m + 2] = Octet(4 * m, 1)
      /\ base64_decode(c)[3 * m + 3] = Octet(4 * m, 2)
  <2>1. 3 * m + 0 + 1 = 3 * m + 1 /\ 3 * m + 1 + 1 = 3 * m + 2 /\ 3 * m + 2 + 1 = 3 * m + 3
    OBVIOUS
  <2>2. QED
    BY <1>4, <2>1
<1>6. Octet(4 * m, 0) = (c[4 * m + 1] * 4 + c[4 * m + 2] \div 16) % 256
  BY DEF Octet
<1>7. Octet(4 * m, 1) = (c[4 * m + 2] * 16 + c[4 * m + 3] \div 4) % 256
  BY DEF Octet
<1>8. Octet(4 * m, 2) = (c[4 * m + 3] * 64 + c[4 * m + 4]) % 256
  BY DEF Octet
<1>9. QED
  BY <1>5, <1>6, <1>7, <1>8

\* The bits of a byte that base64_encode puts into two characters are put together again.
LEMMA Regrouped ==
  ASSUME NEW x \in Bytes, NEW y \in Bytes, NEW z \in Bytes
  PROVE  /\ ((x \div 4) * 4 + ((x % 4) * 16 + y \div 16) \div 16) % 256 = x
         /\ (((x % 4) * 16 + y \div 16) * 16 + ((y % 16) * 4 + z \div 64) \div 4) % 256 = y
         /\ (((y % 16) * 4 + z \div 64) * 64 + (z % 64)) % 256 = z
<1>1. /\ x \div 4 \in 0..63 /\ x % 4 \in 0..3 /\ x = (x \div 4) * 4 + (x % 4)
      /\ y \div 16 \in 0..15 /\ y % 16 \in 0..15 /\ y = (y \div 16) * 16 + (y % 16)
      /\ z \div 64 \in 0..3 /\ z % 64 \in 0..63 /\ z = (z \div 64) * 64 + (z % 64)
  BY DEF Bytes
<1>2. \A a \in 0..3, b \in 0..15 : (a * 16 + b) \div 16 = a
  OBVIOUS
<1>3. \A a \in 0..15, b \in 0..3 : (a * 4 + b) \div 4 = a
  OBVIOUS
<1>4. \A a \in 0..15, b \in Bytes : (a * 256 + b) % 256 = b
  BY DEF Bytes
<1>5. ((x \div 4) * 4 + ((x % 4) * 16 + y \div 16) \div 16) % 256 = x
  <2>1. (x \div 4) * 4 + ((x % 4) * 16 + y \div 16) \div 16 = 0 * 256 + x
    BY <1>1, <1>2
  <2>2. QED
    BY <1>4, <2>1
<1>6. (((x % 4) * 16 + y \div 16) * 16 + ((y % 16) * 4 + z \div 64) \div 4) % 256 = y
  <2>1. ((x % 4) * 16 + y \div 16) * 16 + ((y % 16) * 4 + z \div 64) \div 4 = (x % 4) * 256 + y
    BY <1>1, <1>3
  <2>2. QED
    BY <1>1, <1>4, <2>1
<1>7. (((y % 16) * 4 + z \div 64) * 64 + (z % 64)) % 256 = z
  <2>1. ((y % 16) * 4 + z \div 64) * 64 + (z % 64) = (y % 16) * 256 + z
    BY <1>1
  <2>2. QED
    BY <1>1, <1>4, <2>1
<1>8. QED
  BY <1>5, <1>6, <1>7

\* Characters and the sign "=".
LEMMA EncodedText ==
  ASSUME NEW s \in Seq(Bytes)
  PROVE  /\ base64_encode(s) \in Seq(0..64)
         /\ Len(base64_encode(s)) = 4 * ((Len(s) + 2) \div 3)
<1> DEFINE n == Len(s)
           q == (n + 2) \div 3
           Char(g, r) ==
             CASE r = 0 -> s[g + 1] \div 4
               [] r = 1 -> (s[g + 1] % 4) * 16 + At(s, g + 2) \div 16
               [] r = 2 -> IF g + 2 > n THEN 64 ELSE (s[g + 2] % 16) * 4 + At(s, g + 3) \div 64
               [] OTHER -> IF g + 3 > n THEN 64 ELSE s[g + 3] % 64
<1>1. n \in Nat /\ 4 * q \in Nat
  OBVIOUS
<1>2. base64_encode(s) = [j \in 1..(4 * q) |-> Char(3 * ((j - 1) \div 4), (j - 1) % 4)]
  BY DEF base64_encode
<1>3. ASSUME NEW j \in 1..(4 * q) PROVE Char(3 * ((j - 1) \div 4), (j - 1) % 4) \in 0..64
  <2> DEFINE g == 3 * ((j - 1) \div 4)
  <2>1. g \in Nat /\ g + 1 <= n
    BY <1>1
  <2>2. s[g + 1] \in Bytes /\ (g + 2 <= n => s[g + 2] \in Bytes)
        /\ (g + 3 <= n => s[g + 3] \in Bytes)
    BY <2>1, <1>1
  <2> HIDE DEF g
  <2>3. At(s, g + 2) \in Bytes /\ At(s, g + 3) \in Bytes
    BY <2>1, <2>2, <1>1 DEF At, Bytes
  <2>4. \A x \in Bytes, y \in Bytes : /\ x \div 4 \in 0..64
                                      /\ (x % 4) * 16 + y \div 16 \in 0..64
                                      /\ (x % 16) * 4 + y \div 64 \in 0..64
                                      /\ x % 64 \in 0..64
    BY DEF Bytes
  <2>5. /\ s[g + 1] \div 4 \in 0..64
        /\ (s[g + 1] % 4) * 16 + At(s, g + 2) \div 16 \in 0..64
        /\ g + 2 <= n => (s[g + 2] % 16) * 4 + At(s, g + 3) \div 64 \in 0..64
        /\ g + 3 <= n => s[g + 3] % 64 \in 0..64
    BY <2>2, <2>3, <2>4
  <2>6. /\ Char(g, 0) = s[g + 1] \div 4
        /\ Char(g, 1) = (s[g + 1] % 4) * 16 + At(s, g + 2) \div 16
    BY DEF Char
  <2>7. Char(g, 2) = IF g + 2 > n THEN 64 ELSE (s[g + 2] % 16) * 4 + At(s, g + 3) \div 64
    BY DEF Char
  <2>8. Char(g, 3) = IF g + 3 > n THEN 64 ELSE s[g + 3] % 64
    BY DEF Char
  <2>9. (j - 1) % 4 \in {0, 1, 2, 3}
    BY <1>1
  <2> HIDE DEF Char
  <2>10. Char(g, 0) \in 0..64 /\ Char(g, 1) \in 0..64
    BY <2>5, <2>6
  <2>11. Char(g, 2) \in 0..64
    BY <2>5, <2>7, <2>1, <1>1
  <2>12. Char(g, 3) \in 0..64
    BY <2>5, <2>8, <2>1, <1>1
  <2>13. QED
    BY <2>9, <2>10, <2>11, <2>12 DEF g
<1> HIDE DEF Char
<1>4. QED
  BY <1>1, <1>2, <1>3

\* The number of bytes that are encoded, of which the sign "=" tells.
LEMMA DecodedLength ==
  ASSUME NEW s \in Seq(Bytes), s # <<>>
  PROVE  base64_decode_length(base64_encode(s)) = Len(s)
<1> DEFINE c == base64_encode(s)
           n == Len(s)
<1>1. PICK m \in Nat : n \in {3 * m + 1, 3 * m + 2, 3 * m + 3}
  <2>1. n \in Nat \ {0}
    BY EmptySeq
  <2>2. (n - 1) \div 3 \in Nat
    BY <2>1
  <2>3. n \in {3 * ((n - 1) \div 3) + 1, 3 * ((n - 1) \div 3) + 2, 3 * ((n - 1) \div 3) + 3}
    BY <2>1
  <2>4. QED
    BY <2>2, <2>3
<1>2. Len(c) = 4 * m + 4
  <2>1. 4 * ((n + 2) \div 3) = 4 * m + 4
    BY <1>1
  <2>2. QED
    BY <2>1, EncodedText
<1>3. (Len(c) * 6) \div 8 = 3 * m + 3 /\ Len(c) - 1 = 4 * m + 3
  BY <1>1, <1>2
<1>0. /\ c[4 * m + 3] = IF 3 * m + 2 > n THEN 64
                        ELSE (s[3 * m + 2] % 16) * 4 + At(s, 3 * m + 3) \div 64
      /\ c[4 * m + 4] = IF 3 * m + 3 > n THEN 64 ELSE s[3 * m + 3] % 64
  <2>1. 3 * m + 1 <= n
    BY <1>1
  <2>2. QED
    BY <2>1, EncodedGroup
<1>4. c[4 * m + 4] = IF n = 3 * m + 3 THEN s[n] % 64 ELSE 64
  BY <1>0, <1>1
<1>5. n # 3 * m + 1 => c[4 * m + 3] = (s[3 * m + 2] % 16) * 4 + At(s, 3 * m + 3) \div 64
  BY <1>0, <1>1
<1>6. n = 3 * m + 1 => c[4 * m + 3] = 64
  BY <1>0, <1>1
<1>7. n = 3 * m + 3 => c[4 * m + 4] # 64
  <2>1. s[n] \in Bytes
    BY <1>1
  <2>2. \A x \in Bytes : x % 64 # 64
    BY DEF Bytes
  <2>3. QED
    BY <1>4, <2>1, <2>2
<1>8. n = 3 * m + 2 => c[4 * m + 3] # 64
  <2>1. SUFFICES ASSUME n = 3 * m + 2 PROVE c[4 * m + 3] # 64
    OBVIOUS
  <2>2. s[3 * m + 2] \in Bytes /\ At(s, 3 * m + 3) = 0
    BY <1>1, <2>1 DEF At
  <2>3. \A x \in Bytes : (x % 16) * 4 + 0 \div 64 # 64
    BY DEF Bytes
  <2>4. QED
    BY <1>5, <2>1, <2>2, <2>3, <1>1
<1> HIDE DEF c
<1>9. QED
  BY <1>1, <1>2, <1>3, <1>4, <1>6, <1>7, <1>8 DEF base64_decode_length, c

\* What was encoded is decoded.
LEMMA DecodesEncoded ==
  ASSUME NEW s \in Seq(Bytes), NEW k \in 1..Len(s)
  PROVE  base64_decode(base64_encode(s))[k] = s[k]
<1> DEFINE c == base64_encode(s)
           d == base64_decode(c)
           n == Len(s)
<1>1. PICK m \in Nat : 3 * m + 1 <= n /\ k \in {3 * m + 1, 3 * m + 2, 3 * m + 3}
  <2>1. (k - 1) \div 3 \in Nat
    OBVIOUS
  <2>2. 3 * ((k - 1) \div 3) + 1 <= n
        /\ k \in {3 * ((k - 1) \div 3) + 1, 3 * ((k - 1) \div 3) + 2, 3 * ((k - 1) \div 3) + 3}
    OBVIOUS
  <2>3. QED
    BY <2>1, <2>2
<1>2. c \in Seq(Nat) /\ 4 * m + 4 <= Len(c)
  <2>1. c \in Seq(Nat)
    BY EncodedText, SeqMonotonic, 0..64 \subseteq Nat
  <2>2. 4 * m + 4 <= 4 * ((n + 2) \div 3)
    BY <1>1
  <2>3. QED
    BY <2>1, <2>2, EncodedText
<1>3. /\ s[3 * m + 1] \in Bytes
      /\ At(s, 3 * m + 2) \in Bytes /\ (3 * m + 2 <= n => At(s, 3 * m + 2) = s[3 * m + 2])
      /\ At(s, 3 * m + 3) \in Bytes /\ (3 * m + 3 <= n => At(s, 3 * m + 3) = s[3 * m + 3])
  <2>1. \A i \in 1..n : s[i] \in Bytes
    OBVIOUS
  <2>2. \A i \in Nat \ {0} : At(s, i) = IF i <= n THEN s[i] ELSE 0
    BY DEF At
  <2>3. 0 \in Bytes
    BY DEF Bytes
  <2> HIDE DEF n
  <2>4. n \in Nat
    BY DEF n
  <2>5. 3 * m + 1 \in 1..n /\ 3 * m + 2 \in Nat \ {0} /\ 3 * m + 3 \in Nat \ {0}
    BY <1>1, <2>4
  <2>6. \A i \in Nat \ {0} : At(s, i) \in Bytes
    BY <2>1, <2>2, <2>3, <2>4
  <2>7. QED
    BY <2>1, <2>2, <2>5, <2>6
<1>4. /\ d[3 * m + 1] = (c[4 * m + 1] * 4 + c[4 * m + 2] \div 16) % 256
      /\ d[3 * m + 2] = (c[4 * m + 2] * 16 + c[4 * m + 3] \div 4) % 256
      /\ d[3 * m + 3] = (c[4 * m + 3] * 64 + c[4 * m + 4]) % 256
  BY <1>1, <1>2, DecodedGroup
<1>5. /\ c[4 * m + 1] = s[3 * m + 1] \div 4
      /\ c[4 * m + 2] = (s[3 * m + 1] % 4) * 16 + At(s, 3 * m + 2) \div 16
      /\ 3 * m + 2 <= n => c[4 * m + 3] = (At(s, 3 * m + 2) % 16) * 4 + At(s, 3 * m + 3) \div 64
      /\ 3 * m + 3 <= n => c[4 * m + 4] = At(s, 3 * m + 3) % 64
  BY <1>1, <1>3, EncodedGroup
<1> HIDE DEF c, d
<1>6. /\ d[3 * m + 1] = s[3 * m + 1]
      /\ 3 * m + 2 <= n => d[3 * m + 2] = At(s, 3 * m + 2)
      /\ 3 * m + 3 <= n => d[3 * m + 3] = At(s, 3 * m + 3)
  BY <1>1, <1>3, <1>4, <1>5, Regrouped
<1>7. d[k] = s[k]
  BY <1>1, <1>3, <1>6
<1>8. QED
  BY <1>7 DEF c, d

-----------------------------------------------------------------------------
(***************************************************************************)
(* Positions in a stream of bytes that is cut into blocks.                 *)
(***************************************************************************)

\* What is assumed of the sizes.
LEMMA Sizes ==
  /\ BlockSize \in Nat \ {0} /\ LengthSize \in Nat \ {0} /\ DigestSize \in Nat \ {0}
  /\ LengthSize < BlockSize /\ DigestSize <= BlockSize
  BY SizesAssumption

\* A block more is BlockSize bytes more.
LEMMA BlockMore ==
  ASSUME NEW a \in Int, NEW b \in Int, NEW B \in Nat \ {0}, a < b
  PROVE  a * B + B <= b * B
<1>1. (b - a - 1) * B >= 0
  OBVIOUS
<1>2. (b - a - 1) * B = b * B - a * B - B
  OBVIOUS
<1>3. a * B \in Int /\ b * B \in Int
  OBVIOUS
<1>4. QED
  BY <1>1, <1>2, <1>3

\* Quotient and remainder.
LEMMA DivMod ==
  ASSUME NEW n \in Nat, NEW B \in Nat \ {0}
  PROVE  /\ n \div B \in Nat
         /\ n % B \in 0..(B - 1)
         /\ n = (n \div B) * B + (n % B)
  OBVIOUS

\* The block and the place in it are determined by the position.
LEMMA OnePlace ==
  ASSUME NEW B \in Nat \ {0}, NEW p \in Nat, NEW q \in Nat,
         NEW i \in 0..(B - 1), NEW j \in 0..(B - 1), p * B + i = q * B + j
  PROVE  p = q /\ i = j
<1>1. p * B \in Nat /\ q * B \in Nat
  OBVIOUS
<1>2. ~(p < q)
  BY <1>1, BlockMore
<1>3. ~(q < p)
  BY <1>1, BlockMore
<1>4. QED
  BY <1>1, <1>2, <1>3

\* The block, and the place in it, of a position.
LEMMA PlaceOf ==
  ASSUME NEW B \in Nat \ {0}, NEW q \in Nat, NEW i \in 0..(B - 1)
  PROVE  (q * B + i) \div B = q /\ (q * B + i) % B = i
<1> DEFINE n == q * B + i
<1>1. n \in Nat
  OBVIOUS
<1> HIDE DEF n
<1>2. n \div B \in Nat /\ n % B \in 0..(B - 1) /\ n = (n \div B) * B + (n % B)
  BY <1>1, DivMod
<1>3. n \div B = q /\ n % B = i
  BY <1>2, OnePlace DEF n
<1>4. QED
  BY <1>3 DEF n

-----------------------------------------------------------------------------
(***************************************************************************)
(* The inductive invariant.                                                *)
(***************************************************************************)

Plain == ({"byte"} \X Nat) \cup ({"text"} \X Nat) \cup ({"digest"} \X (Nat \X Nat))

\* The bytes, by where they come from.
Symbols == Plain \cup ({"ipad", "opad"} \X Plain)

Block == [0..(BlockSize - 1) -> Symbols]

InMessage == stage \in {"key", "inner", "outer"}

TypeInv ==
  /\ key \in Seq(Bytes) /\ key # <<>>
  /\ text \in Seq(Symbols)
  /\ stage \in {"decode", "hmac", "key", "inner", "outer", "done"}
  /\ hmacKey \in Seq(Plain)
  /\ todo \in Seq(Seq(Symbols)) /\ Len(todo) <= 2
  /\ padding \in BOOLEAN
  /\ pos \in 0..BlockSize
  /\ count \in Nat
  /\ buffer \in Block
  /\ blocks \in Seq(Block)
  /\ digests \in Seq(Seq(Block))
  /\ fed \in Seq(Symbols)

\* The bytes written since sha256_init.
Written == Len(blocks) * BlockSize + pos

\* Before the padding they are those that were fed; in it, they do not go past the
\* place of the length.
PlaceInv ==
  /\ count = Len(fed)
  /\ ~InMessage => count = 0 /\ todo = <<>> /\ ~padding
  /\ ~padding => pos < BlockSize /\ Written = count
  /\ padding => /\ todo = <<>>
                /\ pos > 0
                /\ count < Written
                /\ Written <= PaddedLength(count) - LengthSize

\* The blocks and the first p bytes of the buffer are the beginning of m, padded.
Filled(bs, buf, p, m) ==
  /\ \A b \in 1..Len(bs), i \in 0..(BlockSize - 1) :
       bs[b][i] = PaddedByte(m, (b - 1) * BlockSize + i + 1)
  /\ \A i \in 0..(p - 1) : buf[i] = PaddedByte(m, Len(bs) * BlockSize + i + 1)

\* What is written is the padded message as far as it goes.
ContentInv == Filled(blocks, buffer, pos, fed)

Remaining ==
  IF Len(todo) = 0 THEN <<>> ELSE IF Len(todo) = 1 THEN todo[1] ELSE todo[1] \o todo[2]

Message ==
  IF stage = "key" THEN KeyBytes ELSE IF stage = "inner" THEN InnerMessage ELSE OuterMessage

\* What was fed and what is still to be fed make up the message.
MessageInv == InMessage => fed \o Remaining = Message

\* Where hmac_sha256 is, which messages are hashed and which key is used.
KeyInv ==
  /\ stage = "decode" => digests = <<>>
  /\ stage = "hmac" => \/ digests = <<>> /\ hmacKey = KeyBytes
                       \/ LongKey /\ Len(digests) = 1 /\ hmacKey = DigestBytes(1)
  /\ stage = "key" => LongKey /\ digests = <<>>
  /\ stage \in {"inner", "outer"} => hmacKey = UsedKey
  /\ stage = "inner" => Len(digests) = InnerNumber - 1
  /\ stage = "outer" => Len(digests) = InnerNumber
  /\ stage = "done" => Len(digests) = InnerNumber + 1

\* The messages hashed so far.
DigestInv ==
  /\ LongKey /\ Len(digests) >= 1 => IsPadded(digests[1], KeyBytes)
  /\ Len(digests) >= InnerNumber => IsPadded(digests[InnerNumber], InnerMessage)
  /\ Len(digests) >= InnerNumber + 1 => IsPadded(digests[InnerNumber + 1], OuterMessage)

Inv == TypeInv /\ PlaceInv /\ ContentInv /\ MessageInv /\ KeyInv /\ DigestInv

-----------------------------------------------------------------------------
(***************************************************************************)
(* The types of what is hashed.                                            *)
(***************************************************************************)

\* Bytes of the key, the text and the digests, and those under a pad.
LEMMA SymbolsAre ==
  /\ \A v \in Nat : Byte(v) \in Plain
  /\ \A i \in Nat : <<"text", i>> \in Plain
  /\ \A n, i \in Nat : <<"digest", <<n, i>>>> \in Plain
  /\ Plain \subseteq Symbols
  /\ \A p \in {"ipad", "opad"}, b \in Plain : Xor(p, b) \in Symbols
  BY DEF Plain, Symbols, Byte, Xor

\* A byte of the length.
LEMMA LengthByteTyped ==
  ASSUME NEW n \in Nat, NEW i \in 1..LengthSize
  PROVE  LengthByte(n, i) \in Symbols
<1> DEFINE above == LengthSize - i
           weight == <<1, 256, 65536, 16777216>>
           v == IF above < 4 THEN ((8 * n) \div weight[above + 1]) % 256 ELSE 0
<1>1. LengthByte(n, i) = Byte(v)
  BY DEF LengthByte
<1>2. above \in Nat
  BY Sizes
<1> HIDE DEF above
<1>3. above < 4 => weight[above + 1] \in Nat \ {0}
  <2>1. above < 4 => above \in {0, 1, 2, 3}
    BY <1>2
  <2>2. weight[1] = 1 /\ weight[2] = 256 /\ weight[3] = 65536 /\ weight[4] = 16777216
    OBVIOUS
  <2> HIDE DEF weight
  <2>3. QED
    BY <2>1, <2>2
<1> HIDE DEF weight
<1>4. \A w \in Nat \ {0} : ((8 * n) \div w) % 256 \in Nat
  <2>1. TAKE w \in Nat \ {0}
  <2>2. (8 * n) \div w \in Nat
    BY DivMod, 8 * n \in Nat
  <2>3. QED
    BY <2>2
<1>5. v \in Nat
  BY <1>3, <1>4
<1>6. QED
  BY <1>1, <1>5, SymbolsAre

\* The bytes of the key and those of a digest.
LEMMA KeysTyped ==
  ASSUME TypeInv
  PROVE  /\ KeyBytes \in Seq(Plain) /\ Len(KeyBytes) = Len(key)
         /\ \A n \in Nat : /\ DigestBytes(n) \in Seq(Plain) /\ DigestBytes(n) \in Seq(Symbols)
                           /\ Len(DigestBytes(n)) = DigestSize
<1>1. Len(key) \in Nat /\ \A i \in 1..Len(key) : key[i] \in Nat
  <2>1. key \in Seq(Bytes) /\ Bytes \subseteq Nat
    BY DEF TypeInv, Bytes
  <2>2. Len(key) \in Nat /\ \A i \in 1..Len(key) : key[i] \in Bytes
    BY <2>1, LenProperties, ElementOfSeq
  <2>3. QED
    BY <2>1, <2>2
<1>2. \A i \in 1..Len(key) : Byte(key[i]) \in Plain
  BY <1>1, SymbolsAre
<1>3. KeyBytes \in Seq(Plain) /\ Len(KeyBytes) = Len(key)
  BY <1>1, <1>2 DEF KeyBytes
<1>4. ASSUME NEW n \in Nat
      PROVE  DigestBytes(n) \in Seq(Plain) /\ Len(DigestBytes(n)) = DigestSize
  <2>1. \A i \in 1..DigestSize : <<"digest", <<n, i>>>> \in Plain
    BY SymbolsAre
  <2>2. QED
    BY <2>1, Sizes DEF DigestBytes
<1>5. \A q \in Seq(Plain) : q \in Seq(Symbols)
  BY SymbolsAre, SeqMonotonic
<1>6. QED
  BY <1>3, <1>4, <1>5

\* A block of a key under a pad.
LEMMA PaddedTyped ==
  ASSUME NEW used \in Seq(Plain), NEW pad \in {"ipad", "opad"}
  PROVE  LET m == [i \in 1..BlockSize |-> Xor(pad, IF i <= Len(used) THEN used[i] ELSE Byte(0))]
         IN  m \in Seq(Symbols) /\ Len(m) = BlockSize
<1> DEFINE e(i) == IF i <= Len(used) THEN used[i] ELSE Byte(0)
<1>1. Len(used) \in Nat /\ \A i \in 1..Len(used) : used[i] \in Plain
  BY LenProperties, ElementOfSeq
<1>2. \A i \in 1..BlockSize : e(i) \in Plain
  BY <1>1, SymbolsAre, Sizes
<1> HIDE DEF e
<1>3. \A i \in 1..BlockSize : Xor(pad, e(i)) \in Symbols
  BY <1>2, SymbolsAre
<1> DEFINE m == [i \in 1..BlockSize |-> Xor(pad, e(i))]
<1>4. m \in Seq(Symbols) /\ Len(m) = BlockSize
  BY <1>3, Sizes
<1>5. QED
  BY <1>4 DEF e

\* The block of the key that the code prepares is that of the definition.
LEMMA PaddedKeyIs ==
  ASSUME NEW pad, hmacKey = UsedKey
  PROVE  PaddedKey(pad) = Under(pad)
  BY DEF PaddedKey, Under

\* The key that is used and the messages of the two passes.
LEMMA MessagesTyped ==
  ASSUME TypeInv
  PROVE  /\ UsedKey \in Seq(Plain) /\ InnerNumber \in {1, 2}
         /\ \A pad \in {"ipad", "opad"} : /\ Under(pad) \in Seq(Symbols)
                                          /\ PaddedKey(pad) \in Seq(Symbols)
         /\ InnerMessage \in Seq(Symbols) /\ OuterMessage \in Seq(Symbols)
<1>1. UsedKey \in Seq(Plain) /\ hmacKey \in Seq(Plain) /\ text \in Seq(Symbols)
  BY KeysTyped DEF UsedKey, TypeInv
<1>2. InnerNumber \in {1, 2}
  BY DEF InnerNumber
<1>3. \A pad \in {"ipad", "opad"} : Under(pad) \in Seq(Symbols) /\ PaddedKey(pad) \in Seq(Symbols)
  BY <1>1, PaddedTyped DEF Under, PaddedKey
<1>4. InnerMessage \in Seq(Symbols)
  BY <1>1, <1>3, ConcatProperties DEF InnerMessage
<1>5. OuterMessage \in Seq(Symbols)
  <2>1. DigestBytes(InnerNumber) \in Seq(Symbols)
    BY <1>2, KeysTyped
  <2>2. QED
    BY <2>1, <1>3, ConcatProperties DEF OuterMessage
<1>6. QED
  BY <1>1, <1>2, <1>3, <1>4, <1>5

-----------------------------------------------------------------------------
(***************************************************************************)
(* The padding.                                                            *)
(***************************************************************************)

\* The padded message is a number of whole blocks, and the place of the length is the
\* first one of its kind after the message and the bit that ends it.
LEMMA PaddedLengthIs ==
  ASSUME NEW n \in Nat
  PROVE  \E k \in Nat \ {0} : /\ PaddedLength(n) = k * BlockSize
                              /\ PaddedLength(n) \div BlockSize = k
                              /\ n + 1 <= k * BlockSize - LengthSize
                              /\ k * BlockSize - LengthSize < n + 1 + BlockSize
<1> DEFINE B == BlockSize
           q == (n + LengthSize) \div B
           r == (n + LengthSize) % B
<1>1. B \in Nat \ {0} /\ LengthSize \in Nat /\ n + LengthSize \in Nat
  BY Sizes
<1>2. q \in Nat /\ r \in 0..(B - 1) /\ n + LengthSize = q * B + r
  BY <1>1, DivMod
<1>3. PaddedLength(n) = B * (q + 1)
  BY DEF PaddedLength
<1> HIDE DEF q, r
<1>4. (q + 1) * B = q * B + B /\ B * (q + 1) = (q + 1) * B /\ q * B \in Nat
  BY <1>1, <1>2
<1>5. ((q + 1) * B + 0) \div B = q + 1
  BY <1>1, <1>2, PlaceOf
<1>6. ((q + 1) * B) \div B = q + 1
  BY <1>1, <1>2, <1>4, <1>5
<1>7. QED
  BY <1>1, <1>2, <1>3, <1>4, <1>6

\* In the padding, the position in the block tells whether the place of the length is
\* reached.
LEMMA LengthPlace ==
  ASSUME NEW n \in Nat, NEW p \in Nat, NEW i \in 1..BlockSize,
         n < p * BlockSize + i, p * BlockSize + i <= PaddedLength(n) - LengthSize
  PROVE  /\ i = BlockSize - LengthSize => PaddedLength(n) = (p + 1) * BlockSize
         /\ i # BlockSize - LengthSize => p * BlockSize + i < PaddedLength(n) - LengthSize
<1> DEFINE B == BlockSize
<1>1. B \in Nat \ {0} /\ LengthSize \in Nat \ {0} /\ LengthSize < B
  BY Sizes
<1>2. PICK k \in Nat \ {0} : /\ PaddedLength(n) = k * B
                             /\ k * B - LengthSize < n + 1 + B
  BY PaddedLengthIs
<1>3. p * B \in Nat /\ k * B \in Nat /\ (p + 1) * B = p * B + B
  BY <1>1
<1>4. ASSUME i = B - LengthSize PROVE k = p + 1
  <2>1. ~(k < p + 1)
    BY <1>1, <1>2, <1>3, <1>4, BlockMore
  <2>2. ~(p + 1 < k)
    BY <1>1, <1>2, <1>3, <1>4, BlockMore
  <2>3. QED
    BY <2>1, <2>2
<1>5. ASSUME i # B - LengthSize PROVE p * B + i # k * B - LengthSize
  <2>1. SUFFICES ASSUME p * B + i = k * B - LengthSize PROVE FALSE
    OBVIOUS
  <2>2. k - 1 \in Nat /\ (k - 1) * B = k * B - B
    BY <1>1
  <2>3. ~(p < k - 1)
    BY <1>1, <1>3, <2>1, <2>2, BlockMore
  <2>4. ~(k - 1 < p)
    BY <1>1, <1>3, <2>1, <2>2, BlockMore
  <2>5. p = k - 1
    BY <2>2, <2>3, <2>4
  <2>6. QED
    BY <1>1, <1>3, <1>5, <2>1, <2>2, <2>5
<1>6. QED
  BY <1>1, <1>2, <1>3, <1>4, <1>5

-----------------------------------------------------------------------------
(***************************************************************************)
(* The types are kept.                                                     *)
(***************************************************************************)

\* A byte that is put at a position inside the buffer leaves a block a block.
LEMMA PutTyped ==
  ASSUME NEW buf \in Block, NEW i \in 0..(BlockSize - 1), NEW x \in Symbols
  PROVE  /\ [buf EXCEPT ![i] = x] \in Block
         /\ \A j \in 0..(BlockSize - 1) : [buf EXCEPT ![i] = x][j] = IF j = i THEN x ELSE buf[j]
  BY DEF Block

\* The first byte still to be fed.
LEMMA NextByteTyped ==
  ASSUME TypeInv, todo # <<>>, todo[1] # <<>>
  PROVE  /\ todo[1] \in Seq(Symbols) /\ todo[1][1] \in Symbols /\ Tail(todo[1]) \in Seq(Symbols)
         /\ <<Tail(todo[1])>> \o Tail(todo) \in Seq(Seq(Symbols))
         /\ Len(<<Tail(todo[1])>> \o Tail(todo)) = Len(todo)
         /\ (<<Tail(todo[1])>> \o Tail(todo))[1] = Tail(todo[1])
         /\ Len(todo) = 2 => (<<Tail(todo[1])>> \o Tail(todo))[2] = todo[2]
<1>1. todo \in Seq(Seq(Symbols)) /\ Len(todo) \in Nat \ {0}
  BY EmptySeq DEF TypeInv
<1>2. todo[1] \in Seq(Symbols) /\ Len(todo[1]) \in Nat \ {0}
  BY <1>1, ElementOfSeq, EmptySeq
<1>3. todo[1][1] \in Symbols /\ Tail(todo[1]) \in Seq(Symbols)
  BY <1>2, ElementOfSeq, HeadTailProperties
<1>4. /\ <<Tail(todo[1])>> \in Seq(Seq(Symbols)) /\ Len(<<Tail(todo[1])>>) = 1
      /\ <<Tail(todo[1])>>[1] = Tail(todo[1])
  BY <1>3
<1>5. /\ Tail(todo) \in Seq(Seq(Symbols)) /\ Len(Tail(todo)) = Len(todo) - 1
      /\ \A i \in 1..(Len(todo) - 1) : Tail(todo)[i] = todo[i + 1]
  BY <1>1, HeadTailProperties
<1> DEFINE a == <<Tail(todo[1])>>
           b == Tail(todo)
<1>6. a \in Seq(Seq(Symbols)) /\ Len(a) = 1 /\ a[1] = Tail(todo[1])
  BY <1>4
<1>7. b \in Seq(Seq(Symbols)) /\ Len(b) = Len(todo) - 1 /\ (Len(todo) = 2 => b[1] = todo[2])
  BY <1>1, <1>5
<1> HIDE DEF a, b
<1>8. /\ a \o b \in Seq(Seq(Symbols)) /\ Len(a \o b) = Len(a) + Len(b)
      /\ \A i \in 1..(Len(a) + Len(b)) : (a \o b)[i] = IF i <= Len(a) THEN a[i] ELSE b[i - Len(a)]
  BY <1>6, <1>7, ConcatProperties
<1>9. /\ a \o b \in Seq(Seq(Symbols)) /\ Len(a \o b) = Len(todo) /\ (a \o b)[1] = Tail(todo[1])
      /\ Len(todo) = 2 => (a \o b)[2] = todo[2]
  <2>1. Len(todo) \in Nat \ {0}
    BY <1>1
  <2>6. Len(a) + Len(b) = Len(todo)
    BY <1>6, <1>7, <2>1
  <2>2. Len(a \o b) = Len(todo)
    BY <1>8, <2>6
  <2>3. (a \o b)[1] = a[1]
    <3>1. \A i \in 1..Len(todo) : i <= 1 => (a \o b)[i] = a[i]
      BY <1>6, <1>8, <2>6
    <3>2. 1 \in 1..Len(todo) /\ 1 <= 1
      BY <2>1
    <3>3. QED
      BY <3>1, <3>2, Zenon
  <2>4. Len(todo) = 2 => (a \o b)[2] = b[1]
    BY <1>6, <1>7, <1>8
  <2>5. QED
    BY <1>6, <1>7, <1>8, <2>2, <2>3, <2>4
<1>10. QED
  BY <1>2, <1>3, <1>9 DEF a, b

\* The buffer with the length in it.
LEMMA LengthTyped ==
  ASSUME TypeInv, pos = BlockSize - LengthSize, FinalLength
  PROVE  /\ buffer' \in Block
         /\ \A i \in 0..(BlockSize - 1) :
              buffer'[i] = IF i < pos THEN buffer[i] ELSE LengthByte(count, i - pos + 1)
<1>1. buffer' = [i \in DOMAIN buffer |->
                   IF i < pos THEN buffer[i] ELSE LengthByte(count, i - pos + 1)]
  BY DEF FinalLength
<1>2. DOMAIN buffer = 0..(BlockSize - 1) /\ \A i \in 0..(BlockSize - 1) : buffer[i] \in Symbols
  BY DEF TypeInv, Block
<1>3. ASSUME NEW i \in 0..(BlockSize - 1), ~(i < pos)
      PROVE  LengthByte(count, i - pos + 1) \in Symbols
  <2>1. i - pos + 1 \in 1..LengthSize /\ count \in Nat
    BY <1>3, Sizes DEF TypeInv
  <2>2. QED
    BY <2>1, LengthByteTyped
<1>4. QED
  BY <1>1, <1>2, <1>3 DEF Block

\* Every step leaves every variable its type; no byte is put outside the buffer.
LEMMA TypeStep ==
  ASSUME TypeInv, PlaceInv, [Next]_vars
  PROVE  TypeInv'
<1>0. /\ BlockSize \in Nat \ {0} /\ pos \in 0..BlockSize /\ count \in Nat /\ buffer \in Block
      /\ ~padding => pos \in 0..(BlockSize - 1)
  BY Sizes DEF TypeInv, PlaceInv
<1>a. count % BlockSize \in 0..BlockSize /\ pos % BlockSize \in 0..(BlockSize - 1)
  BY <1>0, DivMod, pos \in Nat
<1>1. CASE create_sas_token
  <2> DEFINE c == base64_encode(key)
             d == base64_decode(c)
             n == base64_decode_length(c)
  <2>1. hmacKey' = [i \in 1..n |-> Byte(d[i])]
    BY <1>1 DEF create_sas_token
  <2>2. key \in Seq(Bytes) /\ key # <<>>
    BY DEF TypeInv
  <2>3. n = Len(key) /\ Len(key) \in Nat
    BY <2>2, DecodedLength, LenProperties
  <2>4. \A i \in 1..n : d[i] = key[i]
    BY <2>2, <2>3, DecodesEncoded
  <2> HIDE DEF c, d, n
  <2>5. \A i \in 1..n : Byte(d[i]) \in Plain
    <3>1. \A i \in 1..n : key[i] \in Bytes
      BY <2>2, <2>3, ElementOfSeq
    <3>2. Bytes \subseteq Nat
      BY DEF Bytes
    <3>3. QED
      BY <2>4, <3>1, <3>2, SymbolsAre
  <2>6. hmacKey' \in Seq(Plain)
    BY <2>1, <2>3, <2>5
  <2>7. QED
    BY <1>1, <2>6 DEF create_sas_token, TypeInv, inputs
<1>2. CASE hmac_sha256
  <2>1. pos' = count % BlockSize /\ pos' \in 0..BlockSize
    BY <1>a, <1>2 DEF hmac_sha256, Begin
  <2>2. CASE KeyTooLong
    <3>1. todo' = <<hmacKey>> /\ stage' = "key"
      BY <1>2, <2>2 DEF hmac_sha256, Begin
    <3>2. todo' \in Seq(Seq(Symbols)) /\ Len(todo') <= 2
      <4>1. hmacKey \in Seq(Symbols)
        BY SymbolsAre, SeqMonotonic DEF TypeInv
      <4>2. QED
        BY <3>1, <4>1
    <3>3. QED
      BY <1>2, <2>1, <3>1, <3>2 DEF hmac_sha256, TypeInv, inputs
  <2>3. CASE ~KeyTooLong
    <3>1. todo' = <<PaddedKey("ipad"), text>> /\ stage' = "inner"
      BY <1>2, <2>3 DEF hmac_sha256, Begin
    <3>2. PaddedKey("ipad") \in Seq(Symbols)
      BY MessagesTyped
    <3>3. todo' \in Seq(Seq(Symbols)) /\ Len(todo') <= 2
      BY <3>1, <3>2 DEF TypeInv
    <3>4. QED
      BY <1>2, <2>1, <3>1, <3>3 DEF hmac_sha256, TypeInv, inputs
  <2>4. QED
    BY <2>2, <2>3
<1>3. CASE sha256_update
  <2>1. todo # <<>> /\ todo[1] # <<>> /\ ~padding /\ pos \in 0..(BlockSize - 1)
    BY <1>0, <1>3 DEF sha256_update, PlaceInv
  <2>2. buffer' \in Block
    <3>1. todo[1][1] \in Symbols
      BY <2>1, NextByteTyped
    <3>2. QED
      BY <1>0, <1>3, <2>1, <3>1, PutTyped DEF sha256_update, Put
  <2>3. fed' \in Seq(Symbols)
    BY <1>3, <2>1, NextByteTyped, AppendProperties DEF sha256_update, TypeInv
  <2>4. todo' \in Seq(Seq(Symbols)) /\ Len(todo') <= 2
    <3>1. todo' = <<Tail(todo[1])>> \o Tail(todo) /\ Len(todo) <= 2
      BY <1>3 DEF sha256_update, TypeInv
    <3>2. QED
      BY <2>1, <3>1, NextByteTyped
  <2>5. blocks' \in Seq(Block)
    <3>1. blocks' = blocks \/ blocks' = Append(blocks, buffer')
      BY <1>3 DEF sha256_update
    <3>2. blocks \in Seq(Block)
      BY DEF TypeInv
    <3>3. QED
      BY <2>2, <3>1, <3>2, AppendProperties
  <2>6. pos' \in 0..BlockSize
    <3>1. pos' = 0 \/ pos' = pos + 1
      BY <1>3 DEF sha256_update
    <3>2. QED
      BY <1>0, <2>1, <3>1
  <2>7. count' \in Nat /\ UNCHANGED <<key, text, stage, hmacKey, padding, digests>>
    BY <1>0, <1>3 DEF sha256_update, inputs
  <2>8. QED
    BY <2>2, <2>3, <2>4, <2>5, <2>6, <2>7 DEF TypeInv
<1>4. CASE NextUpdate
  <2>1. todo' \in Seq(Seq(Symbols)) /\ Len(todo') <= 2
    BY <1>4, HeadTailProperties, LenProperties DEF NextUpdate, TypeInv
  <2>2. pos' \in 0..BlockSize
    BY <1>a, <1>4 DEF NextUpdate
  <2>3. QED
    BY <1>4, <2>1, <2>2 DEF NextUpdate, TypeInv, inputs
<1>5. CASE FinalBit
  <2>1. pos \in 0..(BlockSize - 1) /\ pos' \in 0..BlockSize
    BY <1>0, <1>5 DEF FinalBit
  <2>2. buffer' \in Block
    <3>1. Byte(128) \in Symbols
      BY SymbolsAre
    <3>2. QED
      BY <1>0, <1>5, <2>1, <3>1, PutTyped DEF FinalBit, Put
  <2>3. QED
    BY <1>5, <2>1, <2>2 DEF FinalBit, TypeInv, inputs
<1>6. CASE FinalZero
  <2> DEFINE at == pos % BlockSize
  <2>1. at \in 0..(BlockSize - 1)
    BY <1>a
  <2>2. buffer' = [buffer EXCEPT ![at] = Byte(0)] /\ pos' = at + 1
        /\ blocks' = IF at = 0 THEN Append(blocks, buffer) ELSE blocks
    BY <1>6 DEF FinalZero
  <2> HIDE DEF at
  <2>3. buffer' \in Block /\ pos' \in 0..BlockSize
    <3>1. Byte(0) \in Symbols
      BY SymbolsAre
    <3>2. buffer' \in Block
      BY <1>0, <2>1, <2>2, <3>1, PutTyped
    <3>3. QED
      BY <1>0, <2>1, <2>2, <3>2
  <2>4. blocks' \in Seq(Block)
    BY <2>2, AppendProperties DEF TypeInv
  <2>5. QED
    BY <1>6, <2>3, <2>4 DEF FinalZero, TypeInv, inputs
<1>7. CASE FinalLength
  <2>1. buffer' \in Block
    BY <1>7, LengthTyped DEF FinalLength
  <2>2. digests' \in Seq(Seq(Block))
    <3>1. Append(blocks, buffer') \in Seq(Block)
      BY <2>1, AppendProperties DEF TypeInv
    <3>2. QED
      BY <1>7, <3>1, AppendProperties DEF FinalLength, TypeInv
  <2>3. /\ count' = 0 /\ pos' = 0 /\ padding' = FALSE /\ blocks' = <<>> /\ fed' = <<>>
        /\ UNCHANGED inputs /\ AfterFinal
    BY <1>7 DEF FinalLength
  <2>6. count' \in Nat /\ pos' \in 0..BlockSize /\ blocks' \in Seq(Block) /\ fed' \in Seq(Symbols)
    BY <1>0, <2>3, EmptySeq
  <2>4. stage' \in {"hmac", "outer", "done"} /\ hmacKey' \in Seq(Plain)
        /\ todo' \in Seq(Seq(Symbols)) /\ Len(todo') <= 2
    <3>1. CASE stage = "key" /\ stage' = "hmac" /\ hmacKey' = DigestBytes(1) /\ todo' = <<>>
      BY <3>1, KeysTyped
    <3>2. CASE /\ stage = "inner" /\ stage' = "outer" /\ UNCHANGED hmacKey
               /\ todo' = <<PaddedKey("opad"), DigestBytes(Len(digests) + 1)>>
      <4>1. digests \in Seq(Seq(Block)) /\ hmacKey' \in Seq(Plain)
        BY <3>2 DEF TypeInv
      <4>2. Len(digests) + 1 \in Nat
        BY <4>1, LenProperties
      <4>3. PaddedKey("opad") \in Seq(Symbols) /\ DigestBytes(Len(digests) + 1) \in Seq(Symbols)
        BY <4>2, MessagesTyped, KeysTyped
      <4>4. QED
        BY <3>2, <4>1, <4>3
    <3>3. CASE stage = "outer" /\ stage' = "done" /\ todo' = <<>> /\ UNCHANGED hmacKey
      BY <3>3 DEF TypeInv
    <3>4. QED
      BY <2>3, <3>1, <3>2, <3>3 DEF AfterFinal
  <2>5. QED
    BY <2>1, <2>2, <2>3, <2>4, <2>6 DEF TypeInv, inputs
<1>8. CASE UNCHANGED vars
  BY <1>8 DEF vars, inputs, TypeInv
<1>9. QED
  BY <1>1, <1>2, <1>3, <1>4, <1>5, <1>6, <1>7, <1>8 DEF Next

-----------------------------------------------------------------------------
(***************************************************************************)
(* The position is kept.                                                   *)
(***************************************************************************)

\* What is known of the positions, without the definitions they come from.
LEMMA Positions ==
  ASSUME TypeInv
  PROVE  /\ BlockSize \in Nat \ {0} /\ pos \in 0..BlockSize /\ count \in Nat
         /\ Len(blocks) \in Nat /\ Len(blocks) * BlockSize \in Nat
         /\ (Len(blocks) + 1) * BlockSize = Len(blocks) * BlockSize + BlockSize
<1>1. BlockSize \in Nat \ {0} /\ pos \in 0..BlockSize /\ count \in Nat /\ blocks \in Seq(Block)
  BY Sizes DEF TypeInv
<1>2. Len(blocks) \in Nat
  BY <1>1, LenProperties
<1>3. QED
  BY <1>1, <1>2

\* Before the padding the number of bytes gives the place of the next one, which is
\* what every call of sha256_update relies on.
LEMMA PlaceOfCount ==
  ASSUME TypeInv, PlaceInv, ~padding
  PROVE  count % BlockSize = pos /\ count \div BlockSize = Len(blocks)
<1>1. pos \in 0..(BlockSize - 1) /\ count = Len(blocks) * BlockSize + pos
  BY Positions DEF PlaceInv, Written
<1>2. QED
  BY <1>1, Positions, PlaceOf

\* A block that is full counts the same as the next one that is empty.
LEMMA UpdatePlace ==
  ASSUME TypeInv, PlaceInv, sha256_update
  PROVE  /\ ~padding /\ pos \in 0..(BlockSize - 1) /\ Written' = Written + 1
         /\ pos' \in 0..(BlockSize - 1)
<1>1. ~padding /\ pos \in 0..(BlockSize - 1)
  BY Positions DEF PlaceInv, sha256_update
<1>2. CASE pos = BlockSize - 1
  <2>1. pos' = 0 /\ blocks' = Append(blocks, buffer') /\ blocks \in Seq(Block)
    BY <1>2 DEF sha256_update, TypeInv
  <2>2. buffer' \in Block
    <3>1. todo[1][1] \in Symbols
      BY NextByteTyped DEF sha256_update
    <3>2. buffer' = [buffer EXCEPT ![pos] = todo[1][1]] /\ buffer \in Block
      BY DEF sha256_update, Put, TypeInv
    <3>3. QED
      BY <1>1, <3>1, <3>2, PutTyped
  <2>3. Len(blocks') = Len(blocks) + 1
    BY <2>1, <2>2, AppendProperties
  <2>4. Written' = (Len(blocks) + 1) * BlockSize + pos'
    BY <2>3 DEF Written
  <2>5. Written' = Written + 1
    <3> DEFINE whole == Len(blocks) * BlockSize
    <3>1. Written = whole + pos /\ Written' = whole + BlockSize + pos'
      BY <2>4, Positions DEF Written
    <3>2. whole \in Nat /\ BlockSize \in Nat
      BY Positions
    <3> HIDE DEF whole
    <3>3. QED
      BY <1>2, <2>1, <3>1, <3>2
  <2>6. pos' \in 0..(BlockSize - 1)
    BY <2>1, Sizes
  <2>7. QED
    BY <1>1, <2>5, <2>6
<1>3. CASE pos # BlockSize - 1
  <2>1. pos' = pos + 1 /\ blocks' = blocks
    BY <1>3 DEF sha256_update
  <2>2. pos' \in 0..(BlockSize - 1)
    BY <1>1, <1>3, <2>1, Sizes
  <2>3. Written' = Written + 1
    <3> DEFINE whole == Len(blocks) * BlockSize
    <3>1. Written = whole + pos /\ Written' = whole + (pos + 1)
      BY <2>1 DEF Written
    <3>2. whole \in Nat /\ pos \in Nat
      BY <1>1, Positions
    <3> HIDE DEF whole
    <3>3. QED
      BY <3>1, <3>2
  <2>4. QED
    BY <1>1, <2>2, <2>3
<1>4. QED
  BY <1>2, <1>3

\* A zero of the padding.  The position is past the block when the bit after the message,
\* or a zero, was the last byte of one.
LEMMA ZeroPlace ==
  ASSUME TypeInv, PlaceInv, FinalZero
  PROVE  /\ pos % BlockSize = IF pos = BlockSize THEN 0 ELSE pos
         /\ pos \in 1..BlockSize /\ pos' = (pos % BlockSize) + 1
         /\ Written' = Written + 1
         /\ Written < PaddedLength(count) - LengthSize
<1>1. /\ pos \in 1..BlockSize /\ pos # BlockSize - LengthSize /\ count < Written
      /\ Written <= PaddedLength(count) - LengthSize
  BY Positions DEF FinalZero, PlaceInv
<1>2. pos % BlockSize = IF pos = BlockSize THEN 0 ELSE pos
  <2>1. CASE pos = BlockSize
    <3>1. (1 * BlockSize + 0) % BlockSize = 0
      BY Positions, PlaceOf
    <3>2. QED
      BY <2>1, <3>1, Positions
  <2>2. CASE pos # BlockSize
    <3>1. pos \in 0..(BlockSize - 1)
      BY <1>1, <2>2, Positions
    <3>2. (0 * BlockSize + pos) % BlockSize = pos
      BY <3>1, Positions, PlaceOf
    <3>3. QED
      BY <2>2, <3>1, <3>2, Positions
  <2>3. QED
    BY <2>1, <2>2
<1>3. pos' = (pos % BlockSize) + 1
      /\ blocks' = IF pos % BlockSize = 0 THEN Append(blocks, buffer) ELSE blocks
  BY DEF FinalZero
<1>4. Written < PaddedLength(count) - LengthSize
  BY <1>1, Positions, LengthPlace DEF Written
<1>5. Written' = Written + 1
  <2>1. CASE pos = BlockSize
    <3>1. pos' = 1 /\ blocks' = Append(blocks, buffer)
      BY <1>2, <1>3, <2>1
    <3>2. Len(blocks') = Len(blocks) + 1
      BY <3>1, AppendProperties DEF TypeInv
    <3>3. QED
      BY <2>1, <3>1, <3>2, Positions DEF Written
  <2>2. CASE pos # BlockSize
    <3>1. pos' = pos + 1 /\ blocks' = blocks
      BY <1>1, <1>2, <1>3, <2>2
    <3>2. QED
      BY <3>1, Positions DEF Written
  <2>3. QED
    BY <2>1, <2>2
<1>6. QED
  BY <1>1, <1>2, <1>3, <1>4, <1>5

\* Every step moves the position by the bytes it writes.
LEMMA PlaceStep ==
  ASSUME TypeInv, PlaceInv, [Next]_vars
  PROVE  PlaceInv'
<1>1. CASE create_sas_token
  BY <1>1 DEF create_sas_token, PlaceInv, Written, InMessage
<1>2. CASE hmac_sha256
  <2>1. ~InMessage /\ count = 0 /\ ~padding /\ Written = 0
    BY <1>2 DEF hmac_sha256, PlaceInv, InMessage
  <2>2. pos' = 0 /\ pos = 0 /\ InMessage' /\ UNCHANGED <<padding, count, blocks, fed>>
    <3>1. pos' = count % BlockSize /\ stage' \in {"key", "inner"}
          /\ UNCHANGED <<padding, count, blocks, fed>>
      BY <1>2 DEF hmac_sha256, Begin
    <3>2. pos = 0
      BY <2>1, Positions DEF Written
    <3>3. QED
      BY <2>1, <3>1, <3>2, PlaceOfCount DEF InMessage
  <2>3. QED
    BY <2>1, <2>2, Positions DEF PlaceInv, Written
<1>3. CASE sha256_update
  <2>1. /\ ~padding' /\ pos' < BlockSize /\ Written' = Written + 1 /\ Written = count
        /\ count' = count + 1 /\ count' \in Nat
    <3>1. ~padding /\ pos' \in 0..(BlockSize - 1) /\ Written' = Written + 1
      BY <1>3, UpdatePlace
    <3>2. padding' = padding /\ count' = count + 1
      BY <1>3 DEF sha256_update
    <3>3. Written = count
      BY <3>1 DEF PlaceInv
    <3>4. BlockSize \in Nat /\ count \in Nat
      BY Positions
    <3>5. QED
      BY <3>1, <3>2, <3>3, <3>4
  <2>2. count' = Len(fed')
    <3>1. todo[1][1] \in Symbols /\ fed \in Seq(Symbols)
      BY <1>3, NextByteTyped DEF sha256_update, TypeInv
    <3>2. Len(Append(fed, todo[1][1])) = Len(fed) + 1
      BY <3>1, AppendProperties
    <3>3. QED
      BY <1>3, <3>2 DEF sha256_update, PlaceInv
  <2>3. InMessage'
    BY <1>3 DEF sha256_update, PlaceInv, InMessage
  <2>4. QED
    BY <2>1, <2>2, <2>3 DEF PlaceInv
<1>4. CASE NextUpdate
  <2>1. ~padding /\ InMessage /\ InMessage'
    BY <1>4 DEF NextUpdate, PlaceInv, InMessage
  <2>2. pos' = pos /\ UNCHANGED <<padding, count, blocks, fed>>
    BY <1>4, <2>1, PlaceOfCount DEF NextUpdate
  <2>3. QED
    BY <2>1, <2>2 DEF PlaceInv, Written
<1>5. CASE FinalBit
  <2>1. /\ ~padding /\ padding' = TRUE /\ InMessage' /\ pos' = pos + 1 /\ todo' = <<>>
        /\ UNCHANGED <<count, blocks, fed>>
    BY <1>5 DEF FinalBit, Hashing, InMessage
  <2>2. Written' = count + 1
    <3>1. Written = count
      BY <2>1 DEF PlaceInv
    <3>2. QED
      BY <2>1, <3>1, Positions DEF Written
  <2>3. count + 1 <= PaddedLength(count) - LengthSize
    BY Positions, PaddedLengthIs
  <2>4. pos' > 0
    BY <2>1, Positions
  <2>5. count' < Written' /\ Written' <= PaddedLength(count') - LengthSize
    <3>1. count \in Nat
      BY Positions
    <3>2. QED
      BY <2>1, <2>2, <2>3, <3>1
  <2>6. QED
    BY <2>1, <2>4, <2>5 DEF PlaceInv
<1>6. CASE FinalZero
  <2>1. padding /\ padding' /\ InMessage' /\ todo' = <<>> /\ UNCHANGED <<count, fed>>
    BY <1>6 DEF FinalZero, Hashing, InMessage
  <2>2. pos' > 0 /\ Written' = Written + 1 /\ Written < PaddedLength(count) - LengthSize
    BY <1>6, ZeroPlace, Positions
  <2>3. Written \in Nat /\ PaddedLength(count) - LengthSize \in Int
    <3>1. Written \in Nat
      BY Positions DEF Written
    <3>2. PICK k \in Nat \ {0} : PaddedLength(count) = k * BlockSize
      BY Positions, PaddedLengthIs
    <3>3. k * BlockSize \in Nat
      BY Positions
    <3>4. QED
      BY <3>1, <3>2, <3>3, Sizes
  <2>4. QED
    BY <2>1, <2>2, <2>3, Positions DEF PlaceInv
<1>7. CASE FinalLength
  <2>1. /\ count' = 0 /\ pos' = 0 /\ padding' = FALSE /\ blocks' = <<>> /\ fed' = <<>>
        /\ Hashing /\ AfterFinal
    BY <1>7 DEF FinalLength
  <2>2. Written' = 0 /\ count' = Len(fed')
    BY <2>1, Positions DEF Written
  <2>3. ~InMessage' => todo' = <<>>
    BY <2>1 DEF AfterFinal, InMessage
  <2>4. QED
    BY <2>1, <2>2, <2>3, Positions DEF PlaceInv
<1>8. CASE UNCHANGED vars
  BY <1>8 DEF vars, PlaceInv, Written, InMessage
<1>9. QED
  BY <1>1, <1>2, <1>3, <1>4, <1>5, <1>6, <1>7, <1>8 DEF Next

-----------------------------------------------------------------------------
(***************************************************************************)
(* The contents are kept.                                                  *)
(***************************************************************************)

\* The bytes of a message, the bit that ends it and the zeroes.
LEMMA PaddedByteIs ==
  ASSUME NEW m \in Seq(Symbols), NEW i \in Nat \ {0}
  PROVE  /\ i <= Len(m) => PaddedByte(m, i) = m[i]
         /\ i = Len(m) + 1 => PaddedByte(m, i) = Byte(128)
         /\ Len(m) + 1 < i /\ i <= PaddedLength(Len(m)) - LengthSize => PaddedByte(m, i) = Byte(0)
<1>1. Len(m) \in Nat
  BY LenProperties
<1>2. QED
  BY <1>1 DEF PaddedByte

\* A byte more of the message leaves those before it.
LEMMA FilledMore ==
  ASSUME NEW bs \in Seq(Block), NEW buf, NEW p \in 0..BlockSize, NEW m \in Seq(Symbols),
         NEW x \in Symbols, Filled(bs, buf, p, m), Len(bs) * BlockSize + p <= Len(m)
  PROVE  /\ Filled(bs, buf, p, Append(m, x))
         /\ PaddedByte(Append(m, x), Len(m) + 1) = x
<1>1. /\ Append(m, x) \in Seq(Symbols) /\ Len(m) \in Nat /\ Len(Append(m, x)) = Len(m) + 1
      /\ \A i \in 1..Len(m) : Append(m, x)[i] = m[i]
      /\ Append(m, x)[Len(m) + 1] = x
  BY LenProperties, AppendProperties
<1>2. \A i \in 1..Len(m) : PaddedByte(Append(m, x), i) = PaddedByte(m, i)
  <2>1. TAKE i \in 1..Len(m)
  <2>2. i \in Nat \ {0} /\ i <= Len(m) /\ i <= Len(Append(m, x))
    BY <1>1
  <2>3. PaddedByte(Append(m, x), i) = Append(m, x)[i]
    BY <1>1, <2>2, PaddedByteIs
  <2>4. PaddedByte(m, i) = m[i]
    BY <2>2, PaddedByteIs
  <2>5. QED
    BY <1>1, <2>3, <2>4
<1>3. PaddedByte(Append(m, x), Len(m) + 1) = x
  <2>1. Len(m) + 1 \in Nat \ {0} /\ Len(m) + 1 <= Len(Append(m, x))
    BY <1>1
  <2>2. QED
    BY <1>1, <2>1, PaddedByteIs
<1>4. BlockSize \in Nat \ {0} /\ Len(bs) \in Nat /\ Len(bs) * BlockSize \in Nat
  BY Sizes, LenProperties
<1>5. ASSUME NEW b \in 1..Len(bs), NEW i \in 0..(BlockSize - 1)
      PROVE  (b - 1) * BlockSize + i + 1 \in 1..Len(m)
  <2> DEFINE before == (b - 1) * BlockSize
             whole == Len(bs) * BlockSize
  <2>1. before \in Nat /\ before + BlockSize <= whole
    <3>1. b - 1 \in Nat /\ b - 1 < Len(bs)
      BY <1>4
    <3>2. QED
      BY <1>4, <3>1, BlockMore
  <2>2. whole + p <= Len(m) /\ whole \in Nat
    BY <1>4
  <2> HIDE DEF before, whole
  <2>3. before + i + 1 \in 1..Len(m)
    BY <1>1, <1>4, <2>1, <2>2
  <2>4. QED
    BY <2>3 DEF before
<1>6. ASSUME NEW i \in 0..(p - 1) PROVE Len(bs) * BlockSize + i + 1 \in 1..Len(m)
  BY <1>1, <1>4
<1>7. QED
  BY <1>2, <1>3, <1>5, <1>6 DEF Filled

\* The next byte is put into the buffer.
LEMMA FilledPut ==
  ASSUME NEW bs \in Seq(Block), NEW buf \in Block, NEW p \in 0..(BlockSize - 1), NEW m,
         NEW y \in Symbols, Filled(bs, buf, p, m),
         y = PaddedByte(m, Len(bs) * BlockSize + p + 1)
  PROVE  Filled(bs, [buf EXCEPT ![p] = y], p + 1, m)
<1> DEFINE put == [buf EXCEPT ![p] = y]
<1>1. \A j \in 0..(BlockSize - 1) : put[j] = IF j = p THEN y ELSE buf[j]
  BY DEF Block
<1> HIDE DEF put
<1>2. \A i \in 0..((p + 1) - 1) : i \in 0..(BlockSize - 1) /\ (i # p => i \in 0..(p - 1))
  BY Sizes
<1>3. \A i \in 0..((p + 1) - 1) : put[i] = PaddedByte(m, Len(bs) * BlockSize + i + 1)
  BY <1>1, <1>2 DEF Filled
<1>4. Filled(bs, put, p + 1, m)
  BY <1>3 DEF Filled
<1>5. QED
  BY <1>4 DEF put

\* A full buffer becomes a block, and whatever is in it no longer counts.
LEMMA FilledBlock ==
  ASSUME NEW bs \in Seq(Block), NEW buf \in Block, NEW m, NEW other,
         Filled(bs, buf, BlockSize, m)
  PROVE  Filled(Append(bs, buf), other, 0, m)
<1> DEFINE more == Append(bs, buf)
<1>1. /\ Len(bs) \in Nat /\ Len(more) = Len(bs) + 1 /\ more[Len(bs) + 1] = buf
      /\ \A b \in 1..Len(bs) : more[b] = bs[b]
  BY LenProperties, AppendProperties
<1> HIDE DEF more
<1>2. \A i \in 0..(BlockSize - 1) : buf[i] = PaddedByte(m, Len(bs) * BlockSize + i + 1)
  BY DEF Filled
<1>3. ASSUME NEW b \in 1..Len(more), NEW i \in 0..(BlockSize - 1)
      PROVE  more[b][i] = PaddedByte(m, (b - 1) * BlockSize + i + 1)
  <2>1. CASE b = Len(bs) + 1
    <3>1. b - 1 = Len(bs)
      BY <1>1, <2>1
    <3>2. QED
      BY <1>1, <1>2, <2>1, <3>1
  <2>2. CASE b # Len(bs) + 1
    <3>1. b \in 1..Len(bs)
      BY <1>1, <2>2
    <3>2. QED
      BY <1>1, <3>1 DEF Filled
  <2>3. QED
    BY <2>1, <2>2
<1>4. \A i \in 0..(0 - 1) : FALSE
  OBVIOUS
<1>5. Filled(more, other, 0, m)
  BY <1>3, <1>4 DEF Filled
<1>6. QED
  BY <1>5 DEF more

\* Every step writes the byte of the padded message that is next.
LEMMA ContentStep ==
  ASSUME TypeInv, PlaceInv, ContentInv, [Next]_vars
  PROVE  ContentInv'
<1>0. /\ blocks \in Seq(Block) /\ buffer \in Block /\ fed \in Seq(Symbols)
      /\ pos \in 0..BlockSize /\ BlockSize \in Nat \ {0}
      /\ Filled(blocks, buffer, pos, fed)
  BY Positions DEF TypeInv, ContentInv
<1>1. CASE create_sas_token
  BY <1>1 DEF create_sas_token, ContentInv
<1>2. CASE hmac_sha256
  <2>1. ~padding /\ pos' = count % BlockSize /\ UNCHANGED <<blocks, buffer, fed>>
    BY <1>2 DEF hmac_sha256, Begin, PlaceInv, InMessage
  <2>2. QED
    BY <2>1, PlaceOfCount DEF ContentInv
<1>3. CASE sha256_update
  <2> DEFINE x == todo[1][1]
  <2>1. /\ ~padding /\ pos \in 0..(BlockSize - 1) /\ Written = Len(fed) /\ x \in Symbols
        /\ buffer' = [buffer EXCEPT ![pos] = x] /\ fed' = Append(fed, x)
    <3>1. ~padding /\ pos \in 0..(BlockSize - 1)
      BY <1>3, UpdatePlace
    <3>2. x \in Symbols
      BY <1>3, NextByteTyped DEF sha256_update
    <3>3. QED
      BY <1>3, <3>1, <3>2 DEF sha256_update, Put, PlaceInv
  <2>2. IF pos = BlockSize - 1 THEN pos' = 0 /\ blocks' = Append(blocks, buffer')
                               ELSE pos' = pos + 1 /\ blocks' = blocks
    BY <1>3 DEF sha256_update
  <2> HIDE DEF x
  <2>3. Filled(blocks, buffer, pos, fed') /\ PaddedByte(fed', Len(fed) + 1) = x
    <3>1. Len(blocks) * BlockSize + pos <= Len(fed)
      BY <2>1, Positions DEF Written
    <3>2. QED
      BY <1>0, <2>1, <3>1, FilledMore
  <2>4. Filled(blocks, buffer', pos + 1, fed')
    <3>1. x = PaddedByte(fed', Len(blocks) * BlockSize + pos + 1)
      BY <2>1, <2>3 DEF Written
    <3>2. QED
      BY <1>0, <2>1, <2>3, <3>1, FilledPut
  <2>5. CASE pos = BlockSize - 1
    <3>1. Filled(blocks, buffer', BlockSize, fed')
      BY <1>0, <2>4, <2>5
    <3>2. buffer' \in Block
      BY <1>0, <2>1, PutTyped
    <3>3. Filled(Append(blocks, buffer'), buffer', 0, fed')
      BY <1>0, <3>1, <3>2, FilledBlock
    <3>4. QED
      BY <2>2, <2>5, <3>3 DEF ContentInv
  <2>6. CASE pos # BlockSize - 1
    BY <2>2, <2>4, <2>6 DEF ContentInv
  <2>7. QED
    BY <2>5, <2>6
<1>4. CASE NextUpdate
  <2>1. ~padding /\ pos' = count % BlockSize /\ UNCHANGED <<blocks, buffer, fed>>
    BY <1>4 DEF NextUpdate, PlaceInv
  <2>2. QED
    BY <2>1, PlaceOfCount DEF ContentInv
<1>5. CASE FinalBit
  <2>1. /\ ~padding /\ buffer' = [buffer EXCEPT ![pos] = Byte(128)] /\ pos' = pos + 1
        /\ blocks' = blocks /\ fed' = fed
    BY <1>5 DEF FinalBit, Put
  <2>2. pos \in 0..(BlockSize - 1) /\ Written = Len(fed)
    <3>1. pos < BlockSize /\ Written = Len(fed)
      BY <2>1 DEF PlaceInv
    <3>2. QED
      BY <1>0, <3>1
  <2>3. Byte(128) = PaddedByte(fed, Len(blocks) * BlockSize + pos + 1)
    <3>1. Len(fed) + 1 \in Nat \ {0}
      BY <1>0, LenProperties
    <3>2. PaddedByte(fed, Len(fed) + 1) = Byte(128)
      BY <1>0, <3>1, PaddedByteIs
    <3>3. QED
      BY <2>2, <3>2 DEF Written
  <2>4. Filled(blocks, buffer', pos + 1, fed)
    <3>1. Byte(128) \in Symbols
      BY SymbolsAre
    <3>2. Filled(blocks, [buffer EXCEPT ![pos] = Byte(128)], pos + 1, fed)
      BY <1>0, <2>2, <2>3, <3>1, FilledPut
    <3>3. QED
      BY <2>1, <3>2
  <2>5. QED
    BY <2>1, <2>4 DEF ContentInv
<1>6. CASE FinalZero
  <2> DEFINE at == pos % BlockSize
  <2>1. /\ at = IF pos = BlockSize THEN 0 ELSE pos
        /\ pos \in 1..BlockSize /\ pos' = at + 1
        /\ Written < PaddedLength(count) - LengthSize
    BY <1>6, ZeroPlace
  <2>2. /\ buffer' = [buffer EXCEPT ![at] = Byte(0)] /\ fed' = fed /\ padding
        /\ blocks' = IF at = 0 THEN Append(blocks, buffer) ELSE blocks
    BY <1>6 DEF FinalZero
  <2> HIDE DEF at
  <2>3. at \in 0..(BlockSize - 1)
    BY <1>0, <2>1
  <2>4. Filled(blocks', buffer, at, fed) /\ blocks' \in Seq(Block)
    <3>1. CASE pos = BlockSize
      <4>1. Filled(Append(blocks, buffer), buffer, 0, fed)
        BY <1>0, <3>1, FilledBlock
      <4>2. QED
        BY <1>0, <2>1, <2>2, <3>1, <4>1, AppendProperties
    <3>2. CASE pos # BlockSize
      BY <1>0, <2>1, <2>2, <3>2
    <3>3. QED
      BY <3>1, <3>2
  <2>5. Len(blocks') * BlockSize + at + 1 = Written + 1
    <3>1. Written' = Written + 1 /\ Written' = Len(blocks') * BlockSize + pos'
      BY <1>6, ZeroPlace DEF Written
    <3>2. Len(blocks') * BlockSize \in Nat
      BY <1>0, <2>4, LenProperties
    <3>3. QED
      BY <2>1, <2>3, <3>1, <3>2
  <2>6. Byte(0) = PaddedByte(fed, Written + 1)
    <3>1. count = Len(fed) /\ count < Written
      BY <2>2 DEF PlaceInv
    <3>2. Written \in Nat /\ count \in Nat
      BY Positions DEF Written
    <3>3. PaddedLength(count) - LengthSize \in Int
      <4>1. PICK k \in Nat \ {0} : PaddedLength(count) = k * BlockSize
        BY <3>2, PaddedLengthIs
      <4>2. k * BlockSize \in Nat
        BY <1>0
      <4>3. QED
        BY <4>1, <4>2, Sizes
    <3>4. Written + 1 \in Nat \ {0} /\ count + 1 < Written + 1
          /\ Written + 1 <= PaddedLength(count) - LengthSize
      BY <2>1, <3>1, <3>2, <3>3
    <3>5. QED
      BY <1>0, <3>1, <3>4, PaddedByteIs
  <2>7. Filled(blocks', buffer', at + 1, fed)
    <3>1. Byte(0) = PaddedByte(fed, Len(blocks') * BlockSize + at + 1)
      BY <2>5, <2>6
    <3>2. QED
      BY <1>0, <2>2, <2>3, <2>4, <3>1, SymbolsAre, FilledPut
  <2>8. QED
    BY <2>1, <2>2, <2>7 DEF ContentInv
<1>7. CASE FinalLength
  <2>1. blocks' = <<>> /\ pos' = 0
    BY <1>7 DEF FinalLength
  <2>2. QED
    BY <2>1 DEF ContentInv, Filled
<1>8. CASE UNCHANGED vars
  BY <1>8 DEF vars, ContentInv
<1>9. QED
  BY <1>1, <1>2, <1>3, <1>4, <1>5, <1>6, <1>7, <1>8 DEF Next

-----------------------------------------------------------------------------
(***************************************************************************)
(* The messages that are hashed.                                           *)
(***************************************************************************)

\* The end of a message: with the length in it, the last block makes the blocks those of
\* the padded message.
LEMMA Finished ==
  ASSUME TypeInv, PlaceInv, ContentInv, FinalLength
  PROVE  IsPadded(Append(blocks, buffer'), fed)
<1> DEFINE B == BlockSize
           n == Len(blocks)
           more == Append(blocks, buffer')
<1>1. /\ B \in Nat \ {0} /\ LengthSize \in Nat \ {0} /\ LengthSize < B
      /\ n \in Nat /\ n * B \in Nat /\ (n + 1) * B = n * B + B
      /\ count \in Nat /\ blocks \in Seq(Block) /\ fed \in Seq(Symbols)
  BY Sizes, Positions DEF TypeInv
<1>2. padding /\ pos = B - LengthSize
  BY DEF FinalLength
<1>3. /\ count = Len(fed) /\ count < n * B + pos
      /\ n * B + pos <= PaddedLength(count) - LengthSize
  BY <1>2 DEF PlaceInv, Written
<1>4. PaddedLength(count) = (n + 1) * B /\ PaddedLength(count) \div B = n + 1
  <2>1. PaddedLength(count) = (n + 1) * B
    <3>1. pos \in 1..B
      BY <1>1, <1>2
    <3>2. QED
      BY <1>1, <1>2, <1>3, <3>1, LengthPlace
  <2>2. ((n + 1) * B + 0) \div B = n + 1
    BY <1>1, PlaceOf
  <2>3. (n + 1) * B + 0 = (n + 1) * B
    BY <1>1
  <2>4. QED
    BY <2>1, <2>2, <2>3
<1>5. /\ buffer' \in Block
      /\ \A i \in 0..(B - 1) :
           buffer'[i] = IF i < pos THEN buffer[i] ELSE LengthByte(count, i - pos + 1)
  BY <1>2, LengthTyped
<1>6. /\ more \in Seq(Block) /\ Len(more) = n + 1 /\ more[n + 1] = buffer'
      /\ \A b \in 1..n : more[b] = blocks[b]
  BY <1>1, <1>5, AppendProperties
<1>7. ASSUME NEW i \in 0..(B - 1)
      PROVE  buffer'[i] = PaddedByte(fed, n * B + i + 1)
  <2>1. CASE i < pos
    <3>1. i \in 0..(pos - 1)
      BY <1>1, <1>2, <2>1
    <3>2. QED
      BY <1>5, <2>1, <3>1 DEF ContentInv, Filled
  <2>2. CASE ~(i < pos)
    <3> DEFINE j == n * B + i + 1
               end == PaddedLength(count) - LengthSize
    <3>1. end = n * B + pos
      BY <1>1, <1>2, <1>4
    <3>2. ~(j <= count) /\ j # count + 1 /\ ~(j <= end) /\ j - end = i - pos + 1
      BY <1>1, <1>2, <1>3, <2>2, <3>1
    <3> HIDE DEF j
    <3>3. PaddedByte(fed, j) = LengthByte(count, j - end)
      BY <1>3, <3>2 DEF PaddedByte
    <3>4. QED
      BY <1>5, <2>2, <3>2, <3>3 DEF j
  <2>3. QED
    BY <2>1, <2>2
<1> HIDE DEF more
<1>8. ASSUME NEW b \in 1..(n + 1)
      PROVE  more[b] = [i \in 0..(B - 1) |-> PaddedByte(fed, (b - 1) * B + i + 1)]
  <2>1. more[b] \in Block
    BY <1>6, ElementOfSeq
  <2>2. CASE b = n + 1
    <3>1. b - 1 = n
      BY <1>1, <2>2
    <3>2. \A i \in 0..(B - 1) : more[b][i] = PaddedByte(fed, (b - 1) * B + i + 1)
      BY <1>6, <1>7, <2>2, <3>1
    <3>3. QED
      BY <2>1, <3>2 DEF Block
  <2>3. CASE b # n + 1
    <3>1. b \in 1..n
      BY <1>1, <2>3
    <3>2. \A i \in 0..(B - 1) : more[b][i] = PaddedByte(fed, (b - 1) * B + i + 1)
      BY <1>6, <3>1 DEF ContentInv, Filled
    <3>3. QED
      BY <2>1, <3>2 DEF Block
  <2>4. QED
    BY <2>2, <2>3
<1>9. more = [b \in 1..(n + 1) |-> more[b]]
  BY <1>6, LenProperties, SeqDef
<1>10. QED
  <2>1. more = [b \in 1..(n + 1) |->
                  [i \in 0..(B - 1) |-> PaddedByte(fed, (b - 1) * B + i + 1)]]
    BY <1>8, <1>9
  <2>2. QED
    BY <1>3, <1>4, <2>1 DEF IsPadded, more

\* The definitions are of the inputs, which never change.
LEMMA InputsKept ==
  ASSUME UNCHANGED inputs
  PROVE  /\ KeyBytes' = KeyBytes /\ LongKey' = LongKey /\ UsedKey' = UsedKey
         /\ InnerNumber' = InnerNumber
         /\ InnerMessage' = InnerMessage /\ OuterMessage' = OuterMessage
<1>1. key' = key /\ text' = text
  BY DEF inputs
<1>2. KeyBytes' = KeyBytes /\ LongKey' = LongKey /\ UsedKey' = UsedKey
  BY <1>1 DEF KeyBytes, LongKey, UsedKey
<1>3. InnerNumber' = InnerNumber
  BY <1>2 DEF InnerNumber
<1>4. InnerMessage' = InnerMessage /\ OuterMessage' = OuterMessage
  BY <1>1, <1>2, <1>3 DEF InnerMessage, OuterMessage, Under
<1>5. QED
  BY <1>2, <1>3, <1>4

\* The inputs are only read.
LEMMA InputsStep ==
  ASSUME [Next]_vars
  PROVE  UNCHANGED inputs
  BY DEF Next, vars, create_sas_token, hmac_sha256, sha256_update, NextUpdate, FinalBit,
         FinalZero, FinalLength

\* A sequence is its first element and the rest.
LEMMA FirstAndRest ==
  ASSUME NEW t \in Seq(Symbols), t # <<>>
  PROVE  /\ <<t[1]>> \in Seq(Symbols) /\ Tail(t) \in Seq(Symbols) /\ t[1] \in Symbols
         /\ <<t[1]>> \o Tail(t) = t
<1>1. Len(t) \in Nat \ {0} /\ t[1] \in Symbols
  BY EmptySeq, ElementOfSeq
<1>2. <<t[1]>> \in Seq(Symbols)
  BY <1>1
<1>3. Tail(t) \in Seq(Symbols)
  BY HeadTailProperties
<1>4. <<t[1]>> \o Tail(t) = t
  OBVIOUS
<1>5. QED
  BY <1>1, <1>2, <1>3, <1>4

\* A byte that moves from the front of one sequence to the end of the other.
LEMMA OneMoved ==
  \A f, u, t \in Seq(Symbols) :
    t # <<>> => Append(f, t[1]) \o (Tail(t) \o u) = f \o (t \o u)
<1>1. \A x, y, z \in Seq(Symbols) : (x \o y) \o z = x \o (y \o z)
  BY ConcatAssociative
<1>2. \A x, y \in Seq(Symbols) : x \o y \in Seq(Symbols)
  BY ConcatProperties
<1>3. \A f, u, a, b \in Seq(Symbols) : (f \o a) \o (b \o u) = f \o ((a \o b) \o u)
  <2>1. TAKE f, u, a, b \in Seq(Symbols)
  <2>2. (f \o a) \o (b \o u) = f \o (a \o (b \o u))
    <3>1. b \o u \in Seq(Symbols)
      BY <1>2, Zenon
    <3>2. \A z \in Seq(Symbols) : (f \o a) \o z = f \o (a \o z)
      BY <1>1, Zenon
    <3>3. QED
      BY <3>1, <3>2, Zenon
  <2>3. (a \o b) \o u = a \o (b \o u)
    BY <1>1, Zenon
  <2>4. QED
    BY <2>2, <2>3, Zenon
<1>4. \A f \in Seq(Symbols), x \in Symbols : Append(f, x) = f \o <<x>>
  BY AppendIsConcat
<1>5. \A t \in Seq(Symbols) : t # <<>> =>
        /\ t[1] \in Symbols /\ <<t[1]>> \in Seq(Symbols) /\ Tail(t) \in Seq(Symbols)
        /\ <<t[1]>> \o Tail(t) = t
  BY FirstAndRest
<1>6. TAKE f, u, t \in Seq(Symbols)
<1>7. HAVE t # <<>>
<1>8. /\ t[1] \in Symbols /\ <<t[1]>> \in Seq(Symbols) /\ Tail(t) \in Seq(Symbols)
      /\ <<t[1]>> \o Tail(t) = t
  BY <1>5, <1>7
<1>9. (f \o <<t[1]>>) \o (Tail(t) \o u) = f \o ((<<t[1]>> \o Tail(t)) \o u)
  <2>1. \A a, b \in Seq(Symbols) : (f \o a) \o (b \o u) = f \o ((a \o b) \o u)
    BY <1>3, Zenon
  <2> DEFINE one == <<t[1]>>
             rest == Tail(t)
  <2>2. one \in Seq(Symbols) /\ rest \in Seq(Symbols)
    BY <1>8
  <2> HIDE DEF one, rest
  <2>3. (f \o one) \o (rest \o u) = f \o ((one \o rest) \o u)
    BY <2>1, <2>2, Zenon
  <2>4. QED
    BY <2>3 DEF one, rest
<1>10. QED
  BY <1>4, <1>8, <1>9, Zenon

\* hmac_sha256 hashes the configured key exactly if it is longer than a block, and goes on
\* to the inner message with the key that is used.
LEMMA KeyChoice ==
  ASSUME TypeInv, KeyInv, stage = "hmac"
  PROVE  /\ KeyTooLong => LongKey /\ digests = <<>> /\ hmacKey = KeyBytes
         /\ ~KeyTooLong => hmacKey = UsedKey /\ Len(digests) = InnerNumber - 1
<1>1. Len(KeyBytes) = Len(key) /\ Len(DigestBytes(1)) = DigestSize
  BY KeysTyped
<1>2. CASE digests = <<>> /\ hmacKey = KeyBytes
  <2>1. KeyTooLong = LongKey
    BY <1>1, <1>2 DEF KeyTooLong, LongKey
  <2>2. Len(digests) = 0
    BY <1>2, EmptySeq
  <2>3. ~LongKey => UsedKey = KeyBytes /\ InnerNumber = 1
    BY DEF UsedKey, InnerNumber
  <2>4. QED
    BY <1>2, <2>1, <2>2, <2>3
<1>3. CASE LongKey /\ Len(digests) = 1 /\ hmacKey = DigestBytes(1)
  <2>1. ~KeyTooLong
    BY <1>1, <1>3, Sizes DEF KeyTooLong
  <2>2. UsedKey = DigestBytes(1) /\ InnerNumber = 2
    BY <1>3 DEF UsedKey, InnerNumber
  <2>3. QED
    BY <1>3, <2>1, <2>2
<1>4. QED
  BY <1>2, <1>3 DEF KeyInv

\* What create_sas_token decodes is the key that was encoded.
LEMMA KeyDecoded ==
  ASSUME TypeInv, create_sas_token
  PROVE  hmacKey' = KeyBytes
<1> DEFINE c == base64_encode(key)
           d == base64_decode(c)
           n == base64_decode_length(c)
<1>1. hmacKey' = [i \in 1..n |-> Byte(d[i])]
  BY DEF create_sas_token
<1>2. key \in Seq(Bytes) /\ key # <<>>
  BY DEF TypeInv
<1>3. n = Len(key)
  BY <1>2, DecodedLength
<1>4. \A i \in 1..Len(key) : d[i] = key[i]
  BY <1>2, DecodesEncoded
<1> HIDE DEF c, d, n
<1>5. QED
  BY <1>1, <1>3, <1>4 DEF KeyBytes

\* At the end of a message, what was fed is that message.
LEMMA AllFed ==
  ASSUME TypeInv, MessageInv, InMessage, todo = <<>>
  PROVE  fed = Message
<1>1. Remaining = <<>>
  BY EmptySeq DEF Remaining
<1>2. fed \o <<>> = fed
  BY ConcatEmptySeq DEF TypeInv
<1>3. QED
  BY <1>1, <1>2 DEF MessageInv

\* A message is given in one or in two calls.
LEMMA OneOrTwo ==
  ASSUME TypeInv, todo # <<>>
  PROVE  todo \in Seq(Seq(Symbols)) /\ (Len(todo) = 1 \/ Len(todo) = 2)
<1>1. todo \in Seq(Seq(Symbols)) /\ Len(todo) <= 2
  BY DEF TypeInv
<1> DEFINE n == Len(todo)
<1>2. n \in Nat \ {0} /\ n <= 2
  BY <1>1, EmptySeq
<1> HIDE DEF n
<1>3. n = 1 \/ n = 2
  BY <1>2
<1>4. QED
  BY <1>1, <1>3 DEF n

\* A byte that is fed moves from what remains to what was fed.
LEMMA FeedsOn ==
  ASSUME TypeInv, sha256_update
  PROVE  fed' \o Remaining' = fed \o Remaining
<1> DEFINE t == todo[1]
           v == <<Tail(todo[1])>> \o Tail(todo)
<1>1. todo # <<>> /\ t # <<>> /\ todo' = v /\ fed' = Append(fed, t[1])
  BY DEF sha256_update
<1>2. /\ t \in Seq(Symbols) /\ Tail(t) \in Seq(Symbols) /\ fed \in Seq(Symbols)
      /\ Len(v) = Len(todo) /\ v[1] = Tail(t) /\ (Len(todo) = 2 => v[2] = todo[2])
  BY <1>1, NextByteTyped DEF TypeInv
<1>3. todo \in Seq(Seq(Symbols)) /\ (Len(todo) = 1 \/ Len(todo) = 2)
  BY <1>1, OneOrTwo
<1> HIDE DEF t, v
<1>4. \A u \in Seq(Symbols) : Append(fed, t[1]) \o (Tail(t) \o u) = fed \o (t \o u)
  BY <1>1, <1>2, OneMoved, Zenon
<1>5. CASE Len(todo) = 1
  <2>1. Remaining = t /\ Remaining' = Tail(t)
    BY <1>1, <1>2, <1>5 DEF Remaining, t
  <2>2. t \o <<>> = t /\ Tail(t) \o <<>> = Tail(t)
    BY <1>2, ConcatEmptySeq
  <2>3. Append(fed, t[1]) \o (Tail(t) \o <<>>) = fed \o (t \o <<>>)
    BY <1>4, EmptySeq
  <2>4. QED
    BY <1>1, <2>1, <2>2, <2>3
<1>6. CASE Len(todo) = 2
  <2>1. Remaining = t \o todo[2] /\ Remaining' = Tail(t) \o todo[2]
    BY <1>1, <1>2, <1>6 DEF Remaining, t
  <2>2. todo[2] \in Seq(Symbols)
    BY <1>3, <1>6, ElementOfSeq
  <2>3. QED
    BY <1>1, <1>4, <2>1, <2>2
<1>7. QED
  BY <1>3, <1>5, <1>6

\* A call that has nothing to give leaves what remains.
LEMMA NothingToFeed ==
  ASSUME TypeInv, NextUpdate
  PROVE  Remaining' = Remaining
<1>1. /\ todo \in Seq(Seq(Symbols)) /\ (Len(todo) = 1 \/ Len(todo) = 2) /\ todo[1] = <<>>
      /\ todo' = Tail(todo)
  BY OneOrTwo DEF NextUpdate
<1>2. /\ Len(Tail(todo)) = Len(todo) - 1
      /\ \A i \in 1..(Len(todo) - 1) : Tail(todo)[i] = todo[i + 1]
  BY <1>1, HeadTailProperties
<1>3. CASE Len(todo) = 1
  <2>1. Len(Tail(todo)) = 0
    BY <1>2, <1>3
  <2>2. QED
    BY <1>1, <1>3, <2>1 DEF Remaining
<1>4. CASE Len(todo) = 2
  <2>1. Len(Tail(todo)) = 1 /\ Tail(todo)[1] = todo[2]
    BY <1>2, <1>4
  <2>2. Remaining = todo[1] \o todo[2]
    BY <1>4 DEF Remaining
  <2>3. Remaining' = todo[2]
    <3>1. todo' = Tail(todo)
      BY <1>1
    <3>2. Len(todo') = 1 /\ todo'[1] = todo[2]
      BY <2>1, <3>1, Zenon
    <3>3. QED
      BY <3>2 DEF Remaining
  <2>4. todo[2] \in Seq(Symbols)
    <3>1. \A i \in 1..2 : todo[i] \in Seq(Symbols)
      BY <1>1, <1>4, ElementOfSeq
    <3>2. QED
      BY <3>1
  <2>5. \A s \in Seq(Symbols) : <<>> \o s = s
    BY ConcatEmptySeq
  <2>6. <<>> \o todo[2] = todo[2]
    BY <2>4, <2>5, Zenon
  <2>7. QED
    BY <1>1, <2>2, <2>3, <2>6
<1>5. QED
  BY <1>1, <1>3, <1>4

\* A message begins with nothing fed.
LEMMA BeginsWhole ==
  ASSUME NEW first \in Seq(Symbols), NEW second \in Seq(Symbols), fed' = <<>>
  PROVE  /\ todo' = <<first>> => fed' \o Remaining' = first
         /\ todo' = <<first, second>> => fed' \o Remaining' = first \o second
<1>1. \A s \in Seq(Symbols) : <<>> \o s = s
  BY ConcatEmptySeq
<1>2. first \o second \in Seq(Symbols)
  BY ConcatProperties
<1>3. todo' = <<first>> => Remaining' = first
  BY DEF Remaining
<1>4. todo' = <<first, second>> => Remaining' = first \o second
  <2>1. SUFFICES ASSUME todo' = <<first, second>> PROVE Remaining' = first \o second
    OBVIOUS
  <2>2. Len(todo') = 2 /\ todo'[1] = first /\ todo'[2] = second
    BY <2>1
  <2>3. QED
    BY <2>2 DEF Remaining
<1>5. QED
  BY <1>1, <1>2, <1>3, <1>4, Zenon

\* What is fed is the message that is being hashed.
LEMMA MessageStep ==
  ASSUME TypeInv, PlaceInv, MessageInv, KeyInv, [Next]_vars
  PROVE  MessageInv'
<1>a. /\ KeyBytes' = KeyBytes /\ UsedKey' = UsedKey
      /\ InnerMessage' = InnerMessage /\ OuterMessage' = OuterMessage
  BY InputsStep, InputsKept
<1>b. stage' = stage => Message' = Message
  BY <1>a DEF Message
<1>c. /\ UsedKey \in Seq(Plain) /\ text \in Seq(Symbols) /\ fed \in Seq(Symbols)
      /\ InnerNumber \in {1, 2} /\ DigestBytes(InnerNumber) \in Seq(Symbols)
      /\ KeyBytes \in Seq(Symbols)
      /\ Under("ipad") \in Seq(Symbols) /\ Under("opad") \in Seq(Symbols)
  <2>1. InnerNumber \in {1, 2} /\ KeyBytes \in Seq(Plain)
    BY MessagesTyped, KeysTyped
  <2>2. KeyBytes \in Seq(Symbols)
    BY <2>1, SymbolsAre, SeqMonotonic
  <2>3. QED
    BY <2>1, <2>2, MessagesTyped, KeysTyped DEF TypeInv
<1>1. CASE create_sas_token
  BY <1>1 DEF create_sas_token, MessageInv, InMessage
<1>2. CASE hmac_sha256
  <2>1. stage = "hmac" /\ fed' = <<>>
    <3>1. stage = "hmac" /\ fed' = fed
      BY <1>2 DEF hmac_sha256
    <3>2. Len(fed) = 0
      BY <3>1 DEF PlaceInv, InMessage
    <3>3. QED
      BY <1>c, <3>1, <3>2, EmptySeq
  <2>2. CASE KeyTooLong
    <3>1. todo' = <<KeyBytes>> /\ stage' = "key"
      BY <1>2, <2>1, <2>2, KeyChoice DEF hmac_sha256, Begin
    <3>2. fed' \o Remaining' = KeyBytes
      BY <1>c, <2>1, <3>1, BeginsWhole
    <3>3. QED
      BY <1>a, <3>1, <3>2 DEF MessageInv, Message
  <2>3. CASE ~KeyTooLong
    <3>1. todo' = <<Under("ipad"), text>> /\ stage' = "inner"
      BY <1>2, <2>1, <2>3, KeyChoice, PaddedKeyIs DEF hmac_sha256, Begin
    <3>2. fed' \o Remaining' = InnerMessage
      BY <1>c, <2>1, <3>1, BeginsWhole DEF InnerMessage
    <3>3. QED
      BY <1>a, <3>1, <3>2 DEF MessageInv, Message
  <2>4. QED
    BY <2>2, <2>3
<1>3. CASE sha256_update
  <2>1. stage' = stage
    BY <1>3 DEF sha256_update
  <2>2. fed' \o Remaining' = fed \o Remaining
    BY <1>3, FeedsOn
  <2>3. QED
    BY <1>b, <2>1, <2>2 DEF MessageInv, InMessage
<1>4. CASE NextUpdate
  <2>1. stage' = stage /\ fed' = fed
    BY <1>4 DEF NextUpdate
  <2>2. Remaining' = Remaining
    BY <1>4, NothingToFeed
  <2>3. QED
    BY <1>b, <2>1, <2>2 DEF MessageInv, InMessage
<1>5. CASE FinalBit
  <2>1. UNCHANGED <<stage, todo, fed>>
    BY <1>5 DEF FinalBit
  <2>2. QED
    BY <1>b, <2>1 DEF MessageInv, InMessage, Remaining
<1>6. CASE FinalZero
  <2>1. UNCHANGED <<stage, todo, fed>>
    BY <1>6 DEF FinalZero
  <2>2. QED
    BY <1>b, <2>1 DEF MessageInv, InMessage, Remaining
<1>7. CASE FinalLength
  <2>1. fed' = <<>> /\ AfterFinal
    BY <1>7 DEF FinalLength
  <2>2. CASE stage' # "outer"
    BY <2>1, <2>2 DEF AfterFinal, MessageInv, InMessage
  <2>3. CASE stage' = "outer"
    <3>1. stage = "inner" /\ todo' = <<PaddedKey("opad"), DigestBytes(Len(digests) + 1)>>
      BY <2>1, <2>3 DEF AfterFinal
    <3>2. PaddedKey("opad") = Under("opad") /\ Len(digests) = InnerNumber - 1
      BY <3>1, PaddedKeyIs DEF KeyInv
    <3>3. Len(digests) + 1 = InnerNumber
      BY <1>c, <3>2
    <3>4. todo' = <<Under("opad"), DigestBytes(InnerNumber)>>
      BY <3>1, <3>2, <3>3
    <3>5. fed' \o Remaining' = OuterMessage
      BY <1>c, <2>1, <3>4, BeginsWhole DEF OuterMessage
    <3>6. QED
      BY <1>a, <2>3, <3>5 DEF MessageInv, Message
  <2>4. QED
    BY <2>2, <2>3
<1>8. CASE UNCHANGED vars
  BY <1>8, <1>b DEF vars, MessageInv, InMessage, Remaining
<1>9. QED
  BY <1>1, <1>2, <1>3, <1>4, <1>5, <1>6, <1>7, <1>8 DEF Next

\* The bytes of a message change neither the key nor the messages hashed before.
LEMMA OnlyBytes ==
  ASSUME sha256_update \/ NextUpdate \/ FinalBit \/ FinalZero \/ UNCHANGED vars
  PROVE  UNCHANGED <<inputs, stage, hmacKey, digests>>
  BY DEF vars, sha256_update, NextUpdate, FinalBit, FinalZero

\* The key that is used and the number of the message that is hashed.
LEMMA KeyStep ==
  ASSUME TypeInv, PlaceInv, KeyInv, [Next]_vars
  PROVE  KeyInv'
<1>0. /\ KeyBytes' = KeyBytes /\ LongKey' = LongKey /\ UsedKey' = UsedKey
      /\ InnerNumber' = InnerNumber
  BY InputsStep, InputsKept
<1>1. CASE create_sas_token
  <2>1. digests' = <<>> /\ stage' = "hmac"
    BY <1>1 DEF create_sas_token, KeyInv
  <2>2. hmacKey' = KeyBytes
    BY <1>1, KeyDecoded
  <2>3. QED
    BY <1>0, <2>1, <2>2 DEF KeyInv
<1>2. CASE hmac_sha256
  <2>1. stage = "hmac" /\ UNCHANGED <<digests, hmacKey>>
        /\ stage' = IF KeyTooLong THEN "key" ELSE "inner"
    BY <1>2 DEF hmac_sha256, Begin
  <2>2. CASE KeyTooLong
    BY <1>0, <2>1, <2>2, KeyChoice DEF KeyInv
  <2>3. CASE ~KeyTooLong
    BY <1>0, <2>1, <2>3, KeyChoice DEF KeyInv
  <2>4. QED
    BY <2>2, <2>3
<1>3. CASE sha256_update \/ NextUpdate \/ FinalBit \/ FinalZero \/ UNCHANGED vars
  <2>1. UNCHANGED <<stage, hmacKey, digests>>
    BY <1>3, OnlyBytes
  <2>2. QED
    BY <1>0, <2>1 DEF KeyInv
<1>4. CASE FinalLength
  <2>1. AfterFinal /\ digests' = Append(digests, Append(blocks, buffer'))
    BY <1>4 DEF FinalLength
  <2>2. Len(digests') = Len(digests) + 1 /\ Len(digests) \in Nat
    <3>1. buffer' \in Block
      BY <1>4, LengthTyped DEF FinalLength
    <3>2. Append(blocks, buffer') \in Seq(Block)
      BY <3>1, AppendProperties DEF TypeInv
    <3>3. digests \in Seq(Seq(Block))
      BY DEF TypeInv
    <3>4. QED
      BY <2>1, <3>2, <3>3, LenProperties, AppendProperties
  <2>3. CASE stage = "key" /\ stage' = "hmac" /\ hmacKey' = DigestBytes(1)
    <3>1. LongKey /\ Len(digests) = 0
      BY <2>3, EmptySeq DEF KeyInv
    <3>2. Len(digests') = 1
      BY <2>2, <3>1
    <3>3. QED
      BY <1>0, <2>3, <3>1, <3>2 DEF KeyInv
  <2>4. InnerNumber \in {1, 2}
    BY MessagesTyped
  <2>5. CASE stage = "inner" /\ stage' = "outer" /\ hmacKey' = hmacKey
    <3>1. hmacKey = UsedKey /\ Len(digests) = InnerNumber - 1
      BY <2>5 DEF KeyInv
    <3>2. Len(digests') = InnerNumber
      BY <2>2, <2>4, <3>1
    <3>3. QED
      BY <1>0, <2>5, <3>1, <3>2 DEF KeyInv
  <2>6. CASE stage = "outer" /\ stage' = "done"
    <3>1. Len(digests') = InnerNumber + 1
      BY <2>2, <2>6 DEF KeyInv
    <3>2. QED
      BY <1>0, <2>6, <3>1 DEF KeyInv
  <2>7. QED
    BY <2>1, <2>3, <2>5, <2>6 DEF AfterFinal
<1>5. QED
  BY <1>1, <1>2, <1>3, <1>4 DEF Next

\* Every digest is of the message it should be of.
LEMMA DigestStep ==
  ASSUME Inv, [Next]_vars
  PROVE  DigestInv'
<1>0. /\ KeyBytes' = KeyBytes /\ LongKey' = LongKey /\ InnerNumber' = InnerNumber
      /\ InnerMessage' = InnerMessage /\ OuterMessage' = OuterMessage
  BY InputsStep, InputsKept
<1>1. CASE digests' = digests
  BY <1>0, <1>1 DEF Inv, DigestInv
<1>2. CASE FinalLength
  <2> DEFINE last == Append(blocks, buffer')
             n == Len(digests)
  <2>1. AfterFinal /\ digests' = Append(digests, last) /\ todo = <<>> /\ InMessage
    BY <1>2 DEF FinalLength, Hashing, InMessage
  <2>2. IsPadded(last, Message)
    <3>1. fed = Message
      BY <2>1, AllFed DEF Inv
    <3>2. IsPadded(last, fed)
      BY <1>2, Finished DEF Inv
    <3>3. QED
      BY <3>1, <3>2
  <2>3. last \in Seq(Block) /\ digests \in Seq(Seq(Block)) /\ n \in Nat
    <3>1. buffer' \in Block
      BY <1>2, LengthTyped DEF FinalLength, Inv
    <3>2. last \in Seq(Block)
      BY <3>1, AppendProperties DEF Inv, TypeInv
    <3>3. QED
      BY <3>2, LenProperties DEF Inv, TypeInv
  <2> HIDE DEF last
  <2>4. /\ Len(digests') = n + 1 /\ digests'[n + 1] = last
        /\ \A i \in 1..n : digests'[i] = digests[i]
    BY <2>1, <2>3, AppendProperties
  <2>5. InnerNumber = IF LongKey THEN 2 ELSE 1
    BY DEF InnerNumber
  <2> HIDE DEF n
  <2>6. CASE stage = "key"
    <3>1. LongKey /\ n = 0 /\ Message = KeyBytes
      BY <2>6, EmptySeq DEF Inv, KeyInv, Message, n
    <3>2. Len(digests') = 1 /\ digests'[1] = last /\ InnerNumber = 2
      BY <2>4, <2>5, <3>1
    <3>3. QED
      BY <1>0, <2>2, <3>1, <3>2 DEF DigestInv
  <2>7. CASE stage = "inner"
    <3>1. n = InnerNumber - 1 /\ Message = InnerMessage
      BY <2>7 DEF Inv, KeyInv, Message, n
    <3>2. Len(digests') = InnerNumber /\ digests'[InnerNumber] = last
      BY <2>4, <2>5, <3>1
    <3>3. LongKey => digests'[1] = digests[1] /\ n >= 1
      BY <2>4, <2>5, <3>1
    <3>4. LongKey => IsPadded(digests'[1], KeyBytes)
      BY <3>3 DEF Inv, DigestInv, n
    <3>5. IsPadded(digests'[InnerNumber], InnerMessage)
      BY <2>2, <3>1, <3>2
    <3>6. ~(Len(digests') >= InnerNumber + 1)
      BY <2>5, <3>2
    <3>7. QED
      BY <1>0, <3>4, <3>5, <3>6 DEF DigestInv
  <2>8. CASE stage = "outer"
    <3>1. n = InnerNumber /\ Message = OuterMessage
      BY <2>8 DEF Inv, KeyInv, Message, n
    <3>2. digests'[InnerNumber + 1] = last /\ 1 \in 1..n /\ InnerNumber \in 1..n
      BY <2>4, <2>5, <3>1
    <3>3. digests'[1] = digests[1] /\ digests'[InnerNumber] = digests[InnerNumber]
      BY <2>4, <3>2
    <3>4. n >= 1 /\ n >= InnerNumber
      BY <2>5, <3>1
    <3>5. LongKey => IsPadded(digests'[1], KeyBytes)
      BY <3>3, <3>4 DEF Inv, DigestInv, n
    <3>6. IsPadded(digests'[InnerNumber], InnerMessage)
      BY <3>3, <3>4 DEF Inv, DigestInv, n
    <3>7. IsPadded(digests'[InnerNumber + 1], OuterMessage)
      BY <2>2, <3>1, <3>2
    <3>8. QED
      BY <1>0, <3>5, <3>6, <3>7 DEF DigestInv
  <2>9. QED
    BY <2>1, <2>6, <2>7, <2>8 DEF InMessage
<1>3. CASE create_sas_token \/ hmac_sha256
  BY <1>1, <1>3 DEF create_sas_token, hmac_sha256
<1>4. CASE sha256_update \/ NextUpdate \/ FinalBit \/ FinalZero \/ UNCHANGED vars
  BY <1>1, <1>4, OnlyBytes
<1>5. QED
  BY <1>2, <1>3, <1>4 DEF Next

-----------------------------------------------------------------------------
(***************************************************************************)
(* The theorems.                                                           *)
(***************************************************************************)

\* Nothing is fed and nothing hashed at first.
LEMMA InitInv == Init => Inv
<1> SUFFICES ASSUME Init PROVE Inv
  OBVIOUS
<1>1. /\ stage = "decode" /\ hmacKey = <<>> /\ todo = <<>> /\ padding = FALSE /\ pos = 0
      /\ count = 0 /\ blocks = <<>> /\ digests = <<>> /\ fed = <<>>
      /\ buffer = [i \in 0..(BlockSize - 1) |-> Byte(0)]
  BY DEF Init
<1>2. key \in Seq(Bytes) /\ key # <<>>
  BY InputsAssumption DEF Init, Bytes
<1>3. text \in Seq(Symbols)
  <2>1. PICK n \in TextLengths : text = [i \in 1..n |-> <<"text", i>>]
    BY DEF Init
  <2>2. n \in Nat
    BY InputsAssumption
  <2>3. \A i \in 1..n : <<"text", i>> \in Symbols
    <3>1. TAKE i \in 1..n
    <3>2. i \in Nat
      BY <2>2
    <3>3. <<"text", i>> \in Plain /\ Plain \subseteq Symbols
      BY <3>2, SymbolsAre
    <3>4. QED
      BY <3>3
  <2>4. QED
    BY <2>1, <2>2, <2>3
<1>4. buffer \in Block
  <2>1. Byte(0) \in Symbols
    BY SymbolsAre
  <2>2. QED
    BY <1>1, <2>1 DEF Block
<1>5. TypeInv
  <2>1. /\ Len(todo) = 0 /\ pos \in 0..BlockSize /\ count \in Nat
        /\ stage = "decode" /\ padding \in BOOLEAN
    <3>1. Len(todo) = 0
      BY <1>1, EmptySeq
    <3>2. pos \in 0..BlockSize /\ count \in Nat
      BY <1>1, Sizes
    <3>3. QED
      BY <1>1, <3>1, <3>2
  <2>2. /\ hmacKey \in Seq(Plain) /\ todo \in Seq(Seq(Symbols)) /\ blocks \in Seq(Block)
        /\ digests \in Seq(Seq(Block)) /\ fed \in Seq(Symbols)
    BY <1>1, EmptySeq
  <2>3. QED
    BY <1>2, <1>3, <1>4, <2>1, <2>2 DEF TypeInv
<1>6. PlaceInv
  <2>1. Len(fed) = 0 /\ Len(blocks) = 0 /\ 0 * BlockSize = 0 /\ 0 < BlockSize
    BY <1>1, EmptySeq, Sizes
  <2>2. Written = 0
    BY <1>1, <2>1 DEF Written
  <2>3. QED
    BY <1>1, <2>1, <2>2 DEF PlaceInv
<1>7. ContentInv
  BY <1>1 DEF ContentInv, Filled
<1>8. MessageInv /\ KeyInv
  BY <1>1 DEF MessageInv, KeyInv, InMessage
<1>9. DigestInv
  <2>1. Len(digests) = 0
    BY <1>1, EmptySeq
  <2>2. InnerNumber \in {1, 2}
    BY DEF InnerNumber
  <2>3. QED
    BY <2>1, <2>2 DEF DigestInv
<1>10. QED
  BY <1>5, <1>6, <1>7, <1>8, <1>9 DEF Inv

\* The invariant holds in every state that hashing reaches.
THEOREM Invariance == Spec => []Inv
<1>1. Inv /\ [Next]_vars => Inv'
  <2> SUFFICES ASSUME Inv, [Next]_vars PROVE Inv'
    OBVIOUS
  <2>1. TypeInv /\ PlaceInv /\ ContentInv /\ MessageInv /\ KeyInv
    BY DEF Inv
  <2>2. TypeInv' /\ PlaceInv'
    BY <2>1, TypeStep, PlaceStep
  <2>3. ContentInv'
    BY <2>1, ContentStep
  <2>4. MessageInv'
    BY <2>1, MessageStep
  <2>5. KeyInv'
    BY <2>1, KeyStep
  <2>6. DigestInv'
    BY DigestStep
  <2>7. QED
    BY <2>2, <2>3, <2>4, <2>5, <2>6 DEF Inv
<1>2. QED
  BY InitInv, <1>1, PTL DEF Spec

\* Every variable has its type and every byte is put inside the buffer, whatever the
\* size of a block and wherever the pieces of a message end in one.
THEOREM TypeCorrect == Spec => []TypeOK
<1>1. Inv => TypeOK
  <2> SUFFICES ASSUME Inv PROVE TypeOK
    OBVIOUS
  <2>1. TypeInv /\ PlaceInv /\ KeyInv
    BY DEF Inv
  <2>2. Len(digests) <= 3
    <3>1. InnerNumber \in {1, 2}
      BY DEF InnerNumber
    <3>2. digests = <<>> => Len(digests) = 0
      BY EmptySeq
    <3>3. \/ Len(digests) = 0 \/ Len(digests) = 1 \/ Len(digests) = InnerNumber - 1
          \/ Len(digests) = InnerNumber \/ Len(digests) = InnerNumber + 1
      BY <2>1, <3>2 DEF KeyInv, TypeInv
    <3>4. QED
      BY <3>1, <3>3
  <2>3. DOMAIN buffer = 0..(BlockSize - 1)
    BY <2>1 DEF TypeInv, Block
  <2>4. QED
    BY <2>1, <2>2, <2>3 DEF TypeOK, TypeInv, PlaceInv
<1>2. QED
  BY Invariance, <1>1, PTL

\* Of a message that is fed in pieces, sha256_update loses no byte and puts none twice
\* or out of order.
THEOREM NoByteLost == Spec => []NothingLost
<1>1. Inv => NothingLost
  <2> SUFFICES ASSUME Inv, ~padding
               PROVE  /\ Len(blocks) = count \div BlockSize
                      /\ \A i \in 1..count :
                           fed[i] = IF (i - 1) \div BlockSize + 1 <= Len(blocks)
                                    THEN blocks[(i - 1) \div BlockSize + 1][(i - 1) % BlockSize]
                                    ELSE buffer[(i - 1) % BlockSize]
    BY DEF NothingLost
  <2>1. TypeInv /\ PlaceInv /\ ContentInv /\ fed \in Seq(Symbols)
    BY DEF Inv, TypeInv
  <2>2. Len(blocks) = count \div BlockSize
    BY <2>1, PlaceOfCount
  <2>3. ASSUME NEW i \in 1..count, NEW q \in Nat, NEW r \in 0..(BlockSize - 1),
               i - 1 = q * BlockSize + r
        PROVE  fed[i] = IF q + 1 <= Len(blocks) THEN blocks[q + 1][r] ELSE buffer[r]
    <3>1. /\ BlockSize \in Nat \ {0} /\ Len(blocks) \in Nat /\ Len(blocks) * BlockSize \in Nat
          /\ count \in Nat /\ q * BlockSize \in Nat /\ pos \in 0..BlockSize
      BY <2>1, Positions
    <3>2. count = Len(fed) /\ count = Len(blocks) * BlockSize + pos /\ pos < BlockSize
      BY <2>1 DEF PlaceInv, Written
    <3>3. fed[i] = PaddedByte(fed, i)
      <4>1. i \in Nat \ {0} /\ i <= Len(fed)
        BY <3>1, <3>2
      <4>2. QED
        BY <2>1, <4>1, PaddedByteIs
    <3>4. i = q * BlockSize + r + 1
      BY <2>3, <3>1
    <3>5. CASE q + 1 <= Len(blocks)
      <4>1. q + 1 \in 1..Len(blocks) /\ (q + 1) - 1 = q
        BY <3>1, <3>5
      <4>2. blocks[q + 1][r] = PaddedByte(fed, ((q + 1) - 1) * BlockSize + r + 1)
        BY <2>1, <4>1 DEF ContentInv, Filled
      <4>3. QED
        BY <3>3, <3>4, <3>5, <4>1, <4>2
    <3>6. CASE ~(q + 1 <= Len(blocks))
      <4>1. ~(Len(blocks) < q)
        BY <2>3, <3>1, <3>2, BlockMore
      <4>2. q = Len(blocks)
        BY <3>1, <3>6, <4>1
      <4>3. r \in 0..(pos - 1)
        BY <2>3, <3>1, <3>2, <4>2
      <4>4. buffer[r] = PaddedByte(fed, Len(blocks) * BlockSize + r + 1)
        BY <2>1, <4>3 DEF ContentInv, Filled
      <4>5. QED
        BY <3>3, <3>4, <3>6, <4>2, <4>4
    <3>7. QED
      BY <3>5, <3>6
  <2>4. ASSUME NEW i \in 1..count
        PROVE  /\ (i - 1) \div BlockSize \in Nat /\ (i - 1) % BlockSize \in 0..(BlockSize - 1)
               /\ i - 1 = ((i - 1) \div BlockSize) * BlockSize + ((i - 1) % BlockSize)
    <3>1. i - 1 \in Nat /\ BlockSize \in Nat \ {0}
      BY <2>1, Positions
    <3>2. QED
      BY <3>1, DivMod
  <2>5. QED
    BY <2>2, <2>3, <2>4
<1>2. QED
  BY Invariance, <1>1, PTL

\* The signature is the keyed hash of the text under the configured key, as RFC 2104
\* defines it over messages padded as FIPS 180-4 says: for every key, every text, and
\* every place in a block where one of them ends.
THEOREM Signature == Spec => []SignsAsDefined
<1>1. Inv => SignsAsDefined
  <2> SUFFICES ASSUME Inv, stage = "done"
               PROVE  /\ Len(digests) = InnerNumber + 1
                      /\ LongKey => IsPadded(digests[1], KeyBytes)
                      /\ IsPadded(digests[InnerNumber], InnerMessage)
                      /\ IsPadded(digests[InnerNumber + 1], OuterMessage)
    BY DEF SignsAsDefined
  <2>1. Len(digests) = InnerNumber + 1 /\ DigestInv
    BY DEF Inv, KeyInv
  <2>2. InnerNumber \in {1, 2}
    BY DEF InnerNumber
  <2>3. Len(digests) >= 1 /\ Len(digests) >= InnerNumber /\ Len(digests) >= InnerNumber + 1
    BY <2>1, <2>2
  <2>4. QED
    BY <2>1, <2>3 DEF DigestInv
<1>2. QED
  BY Invariance, <1>1, PTL

=============================================================================
