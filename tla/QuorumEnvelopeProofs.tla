------------------------- MODULE QuorumEnvelopeProofs -------------------------
(***************************************************************************)
(* What holds of quorum-encrypted envelopes for every roster, every number *)
(* of hosts and recoveries, and every secret and fingerprint.  Both sides  *)
(* are proved down to the bits of the code: the Hamming code that corrects *)
(* a silicon key, and the secret sharing, where the tables of init make    *)
(* GF(2^8) a field, Combine inverts Split, and fewer shares fit every key. *)
(***************************************************************************)
EXTENDS QuorumEnvelope, FiniteSetTheorems, WellFoundedInduction, TLAPS

-----------------------------------------------------------------------------
(* Hamming(7,4): one block *)

Bit == {0, 1}

\* Which noise leaves the data bits right after the correction: none, or a
\* single flip.  Two or more always move some data bit.
LEMMA OneFlipOnly ==
    ASSUME NEW f \in [1 .. 7 -> Bit], NEW syn \in Int,
           syn = ((f[1] + f[3] + f[5] + f[7]) % 2) + 2 * ((f[2] + f[3] + f[6] + f[7]) % 2)
                 + 4 * ((f[4] + f[5] + f[6] + f[7]) % 2)
    PROVE  ((f[3] = 1 <=> syn = 3) /\ (f[5] = 1 <=> syn = 5)
              /\ (f[6] = 1 <=> syn = 6) /\ (f[7] = 1 <=> syn = 7))
           <=> \A i, j \in 1 .. 7 : f[i] = 1 /\ f[j] = 1 => i = j
<1>1. /\ f[1] \in Bit /\ f[2] \in Bit /\ f[3] \in Bit /\ f[4] \in Bit
      /\ f[5] \in Bit /\ f[6] \in Bit /\ f[7] \in Bit
  OBVIOUS
<1>2. ((f[3] = 1 <=> syn = 3) /\ (f[5] = 1 <=> syn = 5)
          /\ (f[6] = 1 <=> syn = 6) /\ (f[7] = 1 <=> syn = 7))
        <=> f[1] + f[2] + f[3] + f[4] + f[5] + f[6] + f[7] <= 1
  BY <1>1 DEF Bit
<1>3. f[1] + f[2] + f[3] + f[4] + f[5] + f[6] + f[7] <= 1
        <=> \A i, j \in 1 .. 7 : f[i] = 1 /\ f[j] = 1 => i = j
  BY <1>1 DEF Bit
<1> QED
  BY <1>2, <1>3

\* c is the codeword of d hit by noise f; the noise flips one bit at most;
\* c decodes to d.
Noisy(c, d, f) == \A k \in 1 .. 7 : c[k] = (HammingEncode4to7(d)[k] + f[k]) % 2
OneFlip(f)     == \A i, j \in 1 .. 7 : f[i] = 1 /\ f[j] = 1 => i = j
Decodes(c, d)  == \A m \in 1 .. 4 : HammingDecode7to4(c)[m] = d[m]

\* A block decodes to its data exactly if noise has flipped at most one bit.
LEMMA BlockDecodes ==
    ASSUME NEW d \in [1 .. 4 -> Bit], NEW f \in [1 .. 7 -> Bit], NEW c, Noisy(c, d, f)
    PROVE  Decodes(c, d) <=> OneFlip(f)
<1> DEFINE syn == ((c[1] + c[3] + c[5] + c[7]) % 2)
                  + 2 * ((c[2] + c[3] + c[6] + c[7]) % 2)
                  + 4 * ((c[4] + c[5] + c[6] + c[7]) % 2)
           fix(i) == IF i = syn THEN 1 - c[i] ELSE c[i]
<1>1. /\ d[1] \in Bit /\ d[2] \in Bit /\ d[3] \in Bit /\ d[4] \in Bit
      /\ f[1] \in Bit /\ f[2] \in Bit /\ f[3] \in Bit /\ f[4] \in Bit
      /\ f[5] \in Bit /\ f[6] \in Bit /\ f[7] \in Bit
  OBVIOUS
<1>2. /\ c[1] = (((d[1] + d[2] + d[4]) % 2) + f[1]) % 2
      /\ c[2] = (((d[1] + d[3] + d[4]) % 2) + f[2]) % 2
      /\ c[3] = (d[1] + f[3]) % 2
      /\ c[4] = (((d[2] + d[3] + d[4]) % 2) + f[4]) % 2
      /\ c[5] = (d[2] + f[5]) % 2
      /\ c[6] = (d[3] + f[6]) % 2
      /\ c[7] = (d[4] + f[7]) % 2
  BY DEF Noisy, HammingEncode4to7
<1>3. syn = ((f[1] + f[3] + f[5] + f[7]) % 2) + 2 * ((f[2] + f[3] + f[6] + f[7]) % 2)
            + 4 * ((f[4] + f[5] + f[6] + f[7]) % 2)
  <2>1. (c[1] + c[3] + c[5] + c[7]) % 2 = (f[1] + f[3] + f[5] + f[7]) % 2
    BY <1>1, <1>2 DEF Bit
  <2>2. (c[2] + c[3] + c[6] + c[7]) % 2 = (f[2] + f[3] + f[6] + f[7]) % 2
    BY <1>1, <1>2 DEF Bit
  <2>3. (c[4] + c[5] + c[6] + c[7]) % 2 = (f[4] + f[5] + f[6] + f[7]) % 2
    BY <1>1, <1>2 DEF Bit
  <2> QED
    BY <2>1, <2>2, <2>3
<1>4. syn \in Int
  BY <1>1, <1>3 DEF Bit
<1>5. HammingDecode7to4(c) = <<fix(3), fix(5), fix(6), fix(7)>>
  BY Zenon DEF HammingDecode7to4
<1> HIDE DEF syn
<1>6. /\ fix(3) = d[1] <=> (f[3] = 1 <=> syn = 3)
      /\ fix(5) = d[2] <=> (f[5] = 1 <=> syn = 5)
      /\ fix(6) = d[3] <=> (f[6] = 1 <=> syn = 6)
      /\ fix(7) = d[4] <=> (f[7] = 1 <=> syn = 7)
  <2>1. fix(3) = d[1] <=> (f[3] = 1 <=> syn = 3)
    BY <1>1, <1>2, <1>4 DEF Bit
  <2>2. fix(5) = d[2] <=> (f[5] = 1 <=> syn = 5)
    BY <1>1, <1>2, <1>4 DEF Bit
  <2>3. fix(6) = d[3] <=> (f[6] = 1 <=> syn = 6)
    BY <1>1, <1>2, <1>4 DEF Bit
  <2>4. fix(7) = d[4] <=> (f[7] = 1 <=> syn = 7)
    BY <1>1, <1>2, <1>4 DEF Bit
  <2> QED
    BY <2>1, <2>2, <2>3, <2>4
<1> HIDE DEF fix
<1>7. Decodes(c, d) <=> /\ fix(3) = d[1] /\ fix(5) = d[2]
                        /\ fix(6) = d[3] /\ fix(7) = d[4]
  BY <1>5 DEF Decodes
<1>8. ((f[3] = 1 <=> syn = 3) /\ (f[5] = 1 <=> syn = 5)
          /\ (f[6] = 1 <=> syn = 6) /\ (f[7] = 1 <=> syn = 7))
        <=> \A i, j \in 1 .. 7 : f[i] = 1 /\ f[j] = 1 => i = j
  BY <1>3, <1>4, OneFlipOnly
<1> QED
  BY <1>6, <1>7, <1>8 DEF OneFlip

-----------------------------------------------------------------------------
(* Hamming(7,4): a whole secret *)

\* The elements of a piece of a sequence.
LEMMA PieceAt ==
    ASSUME NEW T, NEW s \in Seq(T), NEW m \in Nat, NEW n \in Nat, m + n <= Len(s)
    PROVE  /\ SubSeq(s, m + 1, m + n) \in [1 .. n -> T]
           /\ \A k \in 1 .. n : SubSeq(s, m + 1, m + n)[k] = s[m + k]
<1>1. SubSeq(s, m + 1, m + n) \in Seq(T) /\ Len(SubSeq(s, m + 1, m + n)) = n
  OBVIOUS
<1>2. \A k \in 1 .. n : SubSeq(s, m + 1, m + n)[k] = s[m + k]
  OBVIOUS
<1> DEFINE piece == SubSeq(s, m + 1, m + n)
<1> HIDE DEF piece
<1>3. piece \in Seq(T) /\ Len(piece) = n
  BY <1>1 DEF piece
<1>4. piece \in [1 .. n -> T]
  BY <1>3
<1> QED
  BY <1>2, <1>4 DEF piece

\* The elements of a prefix.
LEMMA PrefixAt ==
    ASSUME NEW T, NEW s \in Seq(T), NEW n \in Nat, n <= Len(s)
    PROVE  SubSeq(s, 1, n) = [k \in 1 .. n |-> s[k]]
<1>1. SubSeq(s, 1, n) \in Seq(T) /\ Len(SubSeq(s, 1, n)) = n
  OBVIOUS
<1>2. \A k \in 1 .. n : SubSeq(s, 1, n)[k] = s[k]
  OBVIOUS
<1> DEFINE piece == SubSeq(s, 1, n)
<1> HIDE DEF piece
<1>3. piece \in Seq(T) /\ Len(piece) = n /\ \A k \in 1 .. n : piece[k] = s[k]
  BY <1>1, <1>2 DEF piece
<1>4. piece = [k \in 1 .. n |-> s[k]]
  BY <1>3
<1> QED
  BY <1>4 DEF piece

\* A length that is a multiple of four.
LEMMA FourDivides ==
    ASSUME NEW n \in Nat, n % 4 = 0
    PROVE  n \div 4 \in Nat /\ n = 4 * (n \div 4)
OBVIOUS

\* Positions of blocks of seven and of four bits.
LEMMA SevenPosition ==
    ASSUME NEW B \in Nat
    PROVE  /\ \A b \in 0 .. B - 1, k \in 1 .. 7 :
                 /\ 7 * b + k \in 1 .. 7 * B
                 /\ (7 * b + k - 1) \div 7 = b /\ ((7 * b + k - 1) % 7) + 1 = k
           /\ \A i \in 1 .. 7 * B : /\ (i - 1) \div 7 \in 0 .. B - 1
                                    /\ ((i - 1) % 7) + 1 \in 1 .. 7
                                    /\ i = 7 * ((i - 1) \div 7) + ((i - 1) % 7) + 1
<1>1. ASSUME NEW b \in 0 .. B - 1, NEW k \in 1 .. 7
      PROVE  /\ 7 * b + k \in 1 .. 7 * B
             /\ (7 * b + k - 1) \div 7 = b /\ ((7 * b + k - 1) % 7) + 1 = k
  OBVIOUS
<1>2. ASSUME NEW i \in 1 .. 7 * B
      PROVE  /\ (i - 1) \div 7 \in 0 .. B - 1
             /\ ((i - 1) % 7) + 1 \in 1 .. 7
             /\ i = 7 * ((i - 1) \div 7) + ((i - 1) % 7) + 1
  OBVIOUS
<1> QED
  BY <1>1, <1>2

\* The position of a data bit: its block and its place there.
LEMMA FourPosition ==
    ASSUME NEW B \in Nat
    PROVE  /\ \A b \in 0 .. B - 1, k \in 1 .. 4 :
                 /\ 4 * b + k \in 1 .. 4 * B
                 /\ (4 * b + k - 1) \div 4 = b /\ ((4 * b + k - 1) % 4) + 1 = k
           /\ \A i \in 1 .. 4 * B : /\ (i - 1) \div 4 \in 0 .. B - 1
                                    /\ ((i - 1) % 4) + 1 \in 1 .. 4
                                    /\ i = 4 * ((i - 1) \div 4) + ((i - 1) % 4) + 1
<1>1. ASSUME NEW b \in 0 .. B - 1, NEW k \in 1 .. 4
      PROVE  /\ 4 * b + k \in 1 .. 4 * B
             /\ (4 * b + k - 1) \div 4 = b /\ ((4 * b + k - 1) % 4) + 1 = k
  OBVIOUS
<1>2. ASSUME NEW i \in 1 .. 4 * B
      PROVE  /\ (i - 1) \div 4 \in 0 .. B - 1
             /\ ((i - 1) % 4) + 1 \in 1 .. 4
             /\ i = 4 * ((i - 1) \div 4) + ((i - 1) % 4) + 1
  OBVIOUS
<1> QED
  BY <1>1, <1>2

\* The codeword of a block has seven bits.
LEMMA EncodedBits ==
    ASSUME NEW d \in [1 .. 4 -> Bit]
    PROVE  \A k \in 1 .. 7 : HammingEncode4to7(d)[k] \in Bit
<1>1. /\ d[1] \in Bit /\ d[2] \in Bit /\ d[3] \in Bit /\ d[4] \in Bit
  OBVIOUS
<1>2. /\ (d[1] + d[2] + d[4]) % 2 \in Bit
      /\ (d[1] + d[3] + d[4]) % 2 \in Bit
      /\ (d[2] + d[3] + d[4]) % 2 \in Bit
  BY <1>1 DEF Bit
<1> QED
  BY <1>1, <1>2 DEF HammingEncode4to7

\* EncodeHamming74 works block by block.
LEMMA EncodeAt ==
    ASSUME NEW S \in Seq(Bit), NEW B \in Nat, Len(S) = 4 * B
    PROVE  /\ EncodeHamming74(S) \in Seq(Bit)
           /\ Len(EncodeHamming74(S)) = 7 * B
           /\ \A b \in 0 .. B - 1 :
                 /\ Block(S, 4, b) \in [1 .. 4 -> Bit]
                 /\ \A k \in 1 .. 4 : Block(S, 4, b)[k] = S[4 * b + k]
                 /\ \A k \in 1 .. 7 :
                       EncodeHamming74(S)[7 * b + k] = HammingEncode4to7(Block(S, 4, b))[k]
<1> DEFINE C == EncodeHamming74(S)
           E(i) == HammingEncode4to7(Block(S, 4, (i - 1) \div 7))[((i - 1) % 7) + 1]
<1>1. Len(S) \div 4 = B
  OBVIOUS
<1>2. C = [i \in 1 .. 7 * B |-> E(i)]
  BY <1>1 DEF EncodeHamming74
<1>3. ASSUME NEW b \in 0 .. B - 1
      PROVE  /\ Block(S, 4, b) \in [1 .. 4 -> Bit]
             /\ \A k \in 1 .. 4 : Block(S, 4, b)[k] = S[4 * b + k]
  <2>1. 4 * b \in Nat /\ 4 * b + 4 <= Len(S)
    OBVIOUS
  <2> QED
    BY <2>1, PieceAt DEF Block
<1>4. \A i \in 1 .. 7 * B : E(i) \in Bit
  BY <1>3, SevenPosition, EncodedBits
<1>5. \A b \in 0 .. B - 1, k \in 1 .. 7 : E(7 * b + k) = HammingEncode4to7(Block(S, 4, b))[k]
  BY SevenPosition
<1> HIDE DEF E, C
<1>6. C \in Seq(Bit) /\ Len(C) = 7 * B
  BY <1>2, <1>4
<1>7. \A b \in 0 .. B - 1, k \in 1 .. 7 : C[7 * b + k] = HammingEncode4to7(Block(S, 4, b))[k]
  BY <1>2, <1>5, SevenPosition
<1> QED
  BY <1>3, <1>6, <1>7 DEF C

\* So does DecodeHamming74.
LEMMA DecodeAt ==
    ASSUME NEW c \in Seq(Bit), NEW B \in Nat, Len(c) = 7 * B
    PROVE  /\ DOMAIN DecodeHamming74(c) = 1 .. 4 * B
           /\ DecodeHamming74(c) = [i \in 1 .. 4 * B |-> DecodeHamming74(c)[i]]
           /\ \A b \in 0 .. B - 1 :
                 /\ \A k \in 1 .. 7 : Block(c, 7, b)[k] = c[7 * b + k]
                 /\ \A m \in 1 .. 4 :
                       DecodeHamming74(c)[4 * b + m] = HammingDecode7to4(Block(c, 7, b))[m]
<1> DEFINE D == DecodeHamming74(c)
           E(i) == HammingDecode7to4(Block(c, 7, (i - 1) \div 4))[((i - 1) % 4) + 1]
<1>1. Len(c) \div 7 = B
  OBVIOUS
<1>2. D = [i \in 1 .. 4 * B |-> E(i)]
  BY <1>1 DEF DecodeHamming74
<1>3. ASSUME NEW b \in 0 .. B - 1
      PROVE  \A k \in 1 .. 7 : Block(c, 7, b)[k] = c[7 * b + k]
  <2>1. 7 * b \in Nat /\ 7 * b + 7 <= Len(c)
    OBVIOUS
  <2> QED
    BY <2>1, PieceAt DEF Block
<1>5. \A b \in 0 .. B - 1, m \in 1 .. 4 : E(4 * b + m) = HammingDecode7to4(Block(c, 7, b))[m]
  BY FourPosition
<1> HIDE DEF E, D
<1>7. \A b \in 0 .. B - 1, m \in 1 .. 4 : D[4 * b + m] = HammingDecode7to4(Block(c, 7, b))[m]
  BY <1>2, <1>5, FourPosition
<1> QED
  BY <1>2, <1>3, <1>7 DEF D

\* c is the codeword of S, of B blocks, hit by noise f; no block has two
\* flipped bits.
NoisyCode(c, S, f, B) ==
    \A i \in 1 .. 7 * B : c[i] = (EncodeHamming74(S)[i] + f[i]) % 2
OneFlipPerBlock(f, B) ==
    \A b \in 0 .. B - 1 : \A i, j \in 7 * b + 1 .. 7 * b + 7 :
        f[i] = 1 /\ f[j] = 1 => i = j

\* A secret comes back exactly if no block has two flipped bits.
LEMMA SecretDecodes ==
    ASSUME NEW S \in Seq(Bit), NEW B \in Nat, Len(S) = 4 * B,
           NEW f \in [1 .. 7 * B -> Bit], NEW c \in Seq(Bit), Len(c) = 7 * B,
           NoisyCode(c, S, f, B)
    PROVE  DecodeHamming74(c) = S <=> OneFlipPerBlock(f, B)
<1> DEFINE D == DecodeHamming74(c)
           One(b) == \A i, j \in 7 * b + 1 .. 7 * b + 7 : f[i] = 1 /\ f[j] = 1 => i = j
<1>1. /\ D = [i \in 1 .. 4 * B |-> D[i]]
      /\ \A b \in 0 .. B - 1 :
            /\ \A k \in 1 .. 7 : Block(c, 7, b)[k] = c[7 * b + k]
            /\ \A m \in 1 .. 4 : D[4 * b + m] = HammingDecode7to4(Block(c, 7, b))[m]
  BY DecodeAt
<1>2. \A b \in 0 .. B - 1 :
         /\ Block(S, 4, b) \in [1 .. 4 -> Bit]
         /\ \A k \in 1 .. 4 : Block(S, 4, b)[k] = S[4 * b + k]
         /\ \A k \in 1 .. 7 :
               EncodeHamming74(S)[7 * b + k] = HammingEncode4to7(Block(S, 4, b))[k]
  BY EncodeAt
<1> HIDE DEF D
<1>3. D = S <=> \A i \in 1 .. 4 * B : D[i] = S[i]
  <2>1. S = [i \in 1 .. 4 * B |-> S[i]]
    OBVIOUS
  <2> QED
    BY <1>1, <2>1
<1>4. (\A i \in 1 .. 4 * B : D[i] = S[i])
         <=> \A b \in 0 .. B - 1, m \in 1 .. 4 : D[4 * b + m] = S[4 * b + m]
  <2>1. ASSUME \A i \in 1 .. 4 * B : D[i] = S[i], NEW b \in 0 .. B - 1, NEW m \in 1 .. 4
        PROVE  D[4 * b + m] = S[4 * b + m]
    BY <2>1, FourPosition
  <2>2. ASSUME \A b \in 0 .. B - 1, m \in 1 .. 4 : D[4 * b + m] = S[4 * b + m],
               NEW i \in 1 .. 4 * B
        PROVE  D[i] = S[i]
    <3>1. /\ (i - 1) \div 4 \in 0 .. B - 1 /\ ((i - 1) % 4) + 1 \in 1 .. 4
          /\ i = 4 * ((i - 1) \div 4) + ((i - 1) % 4) + 1
      BY FourPosition
    <3>2. PICK b \in 0 .. B - 1 : b = (i - 1) \div 4
      BY <3>1
    <3>3. PICK m \in 1 .. 4 : m = ((i - 1) % 4) + 1
      BY <3>1
    <3>4. i = 4 * b + m
      BY <3>1, <3>2, <3>3
    <3> QED
      BY <2>2, <3>4
  <2> QED
    BY <2>1, <2>2
<1>5. ASSUME NEW b \in 0 .. B - 1
      PROVE  (\A m \in 1 .. 4 : D[4 * b + m] = S[4 * b + m]) <=> One(b)
  <2> DEFINE g == [k \in 1 .. 7 |-> f[7 * b + k]]
  <2>1. \A k \in 1 .. 7 : 7 * b + k \in 1 .. 7 * B
    BY SevenPosition
  <2>2. g \in [1 .. 7 -> Bit] /\ \A k \in 1 .. 7 : g[k] = f[7 * b + k]
    BY <2>1
  <2>3. \A k \in 1 .. 7 :
           Block(c, 7, b)[k] = (HammingEncode4to7(Block(S, 4, b))[k] + g[k]) % 2
    BY <1>1, <1>2, <2>1, <2>2 DEF NoisyCode
  <2> HIDE DEF g
  <2>4. Decodes(Block(c, 7, b), Block(S, 4, b)) <=> OneFlip(g)
    <3>1. Noisy(Block(c, 7, b), Block(S, 4, b), g)
      BY <2>3 DEF Noisy
    <3>2. Block(S, 4, b) \in [1 .. 4 -> Bit]
      BY <1>2
    <3> QED
      BY <2>2, <3>1, <3>2, BlockDecodes, Zenon
  <2>5. OneFlip(g) <=> One(b)
    <3>1. ASSUME One(b), NEW i \in 1 .. 7, NEW j \in 1 .. 7, g[i] = 1, g[j] = 1
          PROVE  i = j
      <4>1. /\ 7 * b + i \in 7 * b + 1 .. 7 * b + 7
            /\ 7 * b + j \in 7 * b + 1 .. 7 * b + 7
        OBVIOUS
      <4>2. 7 * b + i = 7 * b + j
        BY <2>2, <3>1, <4>1
      <4> QED
        BY <4>2
    <3>2. ASSUME \A i, j \in 1 .. 7 : g[i] = 1 /\ g[j] = 1 => i = j,
                 NEW i \in 7 * b + 1 .. 7 * b + 7, NEW j \in 7 * b + 1 .. 7 * b + 7,
                 f[i] = 1, f[j] = 1
          PROVE  i = j
      <4>1. /\ i - 7 * b \in 1 .. 7 /\ j - 7 * b \in 1 .. 7
            /\ 7 * b + (i - 7 * b) = i /\ 7 * b + (j - 7 * b) = j
        OBVIOUS
      <4>2. g[i - 7 * b] = 1 /\ g[j - 7 * b] = 1
        BY <2>2, <3>2, <4>1
      <4>3. i - 7 * b = j - 7 * b
        BY <3>2, <4>1, <4>2
      <4> QED
        BY <4>3
    <3> QED
      BY <3>1, <3>2 DEF OneFlip
  <2> HIDE DEF One
  <2>6. Decodes(Block(c, 7, b), Block(S, 4, b))
           <=> \A m \in 1 .. 4 : D[4 * b + m] = S[4 * b + m]
    BY <1>1, <1>2, ZenonT(40) DEF Decodes
  <2> QED
    BY <2>4, <2>5, <2>6
<1> HIDE DEF One
<1>6. D = S <=> \A b \in 0 .. B - 1 : One(b)
  BY <1>3, <1>4, <1>5
<1> QED
  BY <1>6 DEF D, One, OneFlipPerBlock

-----------------------------------------------------------------------------
(* The silicon key *)

\* A measurement fp has at most one bit of every block of h's helper wrong.
Close(h, fp) ==
    \A b \in 0 .. (Len(Secret[h]) \div 4) - 1 : \A i, j \in 7 * b + 1 .. 7 * b + 7 :
        /\ fp[Reliable[i]] # Silicon[h][Reliable[i]]
        /\ fp[Reliable[j]] # Silicon[h][Reliable[j]]
        => i = j

\* A measurement is a string of bits like the fingerprint.
LEMMA MeasureBits ==
    ASSUME NEW h \in Hosts, NEW flips
    PROVE  /\ DOMAIN Measure(h, flips) = DOMAIN Silicon[h]
           /\ \A i \in DOMAIN Silicon[h] :
                 /\ Silicon[h][i] \in Bit /\ Measure(h, flips)[i] \in Bit
                 /\ Measure(h, flips)[i] # Silicon[h][i] => i \in flips
<1>1. Silicon[h] \in Seq(Bit)
  BY SiliconAssumption DEF Bit
<1>2. \A i \in DOMAIN Silicon[h] : Silicon[h][i] \in Bit /\ 1 - Silicon[h][i] \in Bit
  BY <1>1 DEF Bit
<1> QED
  BY <1>2 DEF Measure

\* Enrolment succeeds, with as many reliable positions as the code has bits.
LEMMA EnrollIs ==
    ASSUME NEW h \in Hosts, NEW hd \in Enroll(Silicon[h], Reliable, Secret[h])
    PROVE  \E B \in Nat :
             /\ Secret[h] \in Seq(Bit) /\ Len(Secret[h]) = 4 * B
             /\ \A i \in 1 .. 7 * B :
                   /\ i \in DOMAIN Reliable
                   /\ \A g \in Hosts : Reliable[i] \in DOMAIN Silicon[g]
             /\ hd.indices = [i \in 1 .. 7 * B |-> Reliable[i]]
             /\ hd.mask = [i \in 1 .. 7 * B |->
                   (EncodeHamming74(Secret[h])[i] + Silicon[h][Reliable[i]]) % 2]
             /\ hd.commitment = commitTo(Secret[h])
<1> DEFINE C == EncodeHamming74(Secret[h])
           ix == SubSeq(Reliable, 1, Len(C))
<1>1. Secret[h] \in Seq(Bit) /\ Len(Secret[h]) % 4 = 0
  BY SiliconAssumption DEF Bit
<1>2. PICK B \in Nat : Len(Secret[h]) = 4 * B
  <2>1. Len(Secret[h]) \in Nat
    BY <1>1
  <2>2. Len(Secret[h]) \div 4 \in Nat /\ Len(Secret[h]) = 4 * (Len(Secret[h]) \div 4)
    BY <1>1, <2>1, FourDivides
  <2> QED
    BY <2>2
<1>3. C \in Seq(Bit) /\ Len(C) = 7 * B
  BY <1>1, <1>2, EncodeAt
<1>4. /\ Len(Reliable) >= Len(C)
      /\ hd = [indices |-> ix, mask |-> xorBits(C, extractBitsAt(Silicon[h], ix)),
               commitment |-> commitTo(Secret[h])]
  BY Zenon DEF Enroll
<1> HIDE DEF C
<1>5. \A g \in Hosts : Reliable \in Seq(DOMAIN Silicon[g])
  BY SiliconAssumption
<1>6. Len(Reliable) \in Nat /\ DOMAIN Reliable = 1 .. Len(Reliable)
  BY <1>5
<1>7. \A i \in 1 .. 7 * B :
         i \in DOMAIN Reliable /\ \A g \in Hosts : Reliable[i] \in DOMAIN Silicon[g]
  <2>1. ASSUME NEW i \in 1 .. 7 * B PROVE i \in DOMAIN Reliable
    BY <1>3, <1>4, <1>6
  <2>2. \A g \in Hosts : \A i \in DOMAIN Reliable : Reliable[i] \in DOMAIN Silicon[g]
    BY <1>5
  <2> QED
    BY <2>1, <2>2
<1>8. ix = [i \in 1 .. 7 * B |-> Reliable[i]]
  <2>1. 7 * B \in Nat /\ 7 * B <= Len(Reliable)
    BY <1>3, <1>4, <1>6
  <2>2. Reliable \in Seq(DOMAIN Silicon[h])
    BY <1>5
  <2>3. SubSeq(Reliable, 1, 7 * B) = [k \in 1 .. 7 * B |-> Reliable[k]]
    BY <2>1, <2>2, PrefixAt
  <2> QED
    BY <1>3, <2>3
<1> HIDE DEF ix
<1>9. DOMAIN C = 1 .. 7 * B
  BY <1>3
<1>10. hd.mask = [i \in 1 .. 7 * B |-> (C[i] + Silicon[h][Reliable[i]]) % 2]
  BY <1>4, <1>8, <1>9 DEF xorBits, extractBitsAt
<1> QED
  BY <1>1, <1>2, <1>4, <1>7, <1>8, <1>10 DEF C

\* Reproduce finds the secret again if the measurement is close enough, and
\* nothing otherwise.
LEMMA ReproduceIs ==
    ASSUME NEW h \in Hosts, NEW chip \in Hosts, NEW flips,
           NEW hd \in Enroll(Silicon[h], Reliable, Secret[h])
    PROVE  Reproduce(Measure(chip, flips), hd)
             = IF Close(h, Measure(chip, flips)) THEN {Secret[h]} ELSE {}
<1> DEFINE fp == Measure(chip, flips)
           C == EncodeHamming74(Secret[h])
           c == xorBits(hd.mask, extractBitsAt(fp, hd.indices))
<1>1. PICK B \in Nat :
        /\ Secret[h] \in Seq(Bit) /\ Len(Secret[h]) = 4 * B
        /\ \A i \in 1 .. 7 * B :
              /\ i \in DOMAIN Reliable
              /\ \A g \in Hosts : Reliable[i] \in DOMAIN Silicon[g]
        /\ hd.indices = [i \in 1 .. 7 * B |-> Reliable[i]]
        /\ hd.mask = [i \in 1 .. 7 * B |-> (C[i] + Silicon[h][Reliable[i]]) % 2]
        /\ hd.commitment = commitTo(Secret[h])
  BY EnrollIs
<1>2. C \in Seq(Bit) /\ Len(C) = 7 * B
  BY <1>1, EncodeAt
<1>3. \A i \in 1 .. 7 * B :
        C[i] \in Bit /\ fp[Reliable[i]] \in Bit /\ Silicon[h][Reliable[i]] \in Bit
  <2>1. \A i \in 1 .. 7 * B : C[i] \in Bit
    BY <1>2
  <2>2. \A i \in 1 .. 7 * B : fp[Reliable[i]] \in Bit /\ Silicon[h][Reliable[i]] \in Bit
    BY <1>1, MeasureBits
  <2> QED
    BY <2>1, <2>2
<1> HIDE DEF fp, C
<1> DEFINE f == [i \in 1 .. 7 * B |->
                   IF fp[Reliable[i]] = Silicon[h][Reliable[i]] THEN 0 ELSE 1]
<1>4. f \in [1 .. 7 * B -> Bit]
  BY DEF Bit
<1>5. c = [i \in 1 .. 7 * B |-> (((C[i] + Silicon[h][Reliable[i]]) % 2) + fp[Reliable[i]]) % 2]
  BY <1>1 DEF xorBits, extractBitsAt
<1>6. ASSUME NEW i \in 1 .. 7 * B
      PROVE  c[i] \in Bit /\ c[i] = (C[i] + f[i]) % 2
  <2>1. C[i] \in Bit /\ fp[Reliable[i]] \in Bit /\ Silicon[h][Reliable[i]] \in Bit
    BY <1>3
  <2>2. c[i] = (((C[i] + Silicon[h][Reliable[i]]) % 2) + fp[Reliable[i]]) % 2
    BY <1>5
  <2>3. f[i] = IF fp[Reliable[i]] = Silicon[h][Reliable[i]] THEN 0 ELSE 1
    OBVIOUS
  <2> HIDE DEF c, f
  <2> QED
    BY <2>1, <2>2, <2>3 DEF Bit
<1>7. DOMAIN c = 1 .. 7 * B /\ c = [i \in 1 .. 7 * B |-> c[i]]
  BY <1>5
<1> HIDE DEF c
<1>8. c \in Seq(Bit) /\ Len(c) = 7 * B
  BY <1>6, <1>7, SMTT(30)
<1>9. \A i \in 1 .. 7 * B : f[i] = 1 <=> fp[Reliable[i]] # Silicon[h][Reliable[i]]
  OBVIOUS
<1> HIDE DEF f
<1>10. DecodeHamming74(c) = Secret[h] <=> OneFlipPerBlock(f, B)
  <2>1. NoisyCode(c, Secret[h], f, B)
    BY <1>6 DEF NoisyCode, C
  <2>2. Secret[h] \in Seq(Bit) /\ Len(Secret[h]) = 4 * B
    BY <1>1
  <2> QED
    BY <1>4, <1>8, <2>1, <2>2, SecretDecodes, Zenon
<1>11. OneFlipPerBlock(f, B) <=> Close(h, fp)
  <2>1. Len(Secret[h]) \div 4 = B
    BY <1>1
  <2>2. \A b \in 0 .. B - 1 : \A i \in 7 * b + 1 .. 7 * b + 7 : i \in 1 .. 7 * B
    OBVIOUS
  <2> QED
    BY <1>9, <2>1, <2>2, ZenonT(40) DEF Close, OneFlipPerBlock
<1>12. Reproduce(fp, hd) = {K \in {DecodeHamming74(c)} : commitTo(K) = hd.commitment}
  BY DEF Reproduce, c
<1>13. \A K : commitTo(K) = hd.commitment <=> K = Secret[h]
  BY <1>1 DEF commitTo
<1>14. Reproduce(fp, hd) = IF DecodeHamming74(c) = Secret[h] THEN {Secret[h]} ELSE {}
  BY <1>12, <1>13
<1> QED
  BY <1>10, <1>11, <1>14 DEF fp

\* A set of at most one element has no two.
LEMMA AtMostOne ==
    ASSUME NEW P, IsFiniteSet(P), Cardinality(P) <= 1, NEW x \in P, NEW y \in P
    PROVE  x = y
<1> SUFFICES ASSUME x # y PROVE FALSE
  OBVIOUS
<1>1. IsFiniteSet({x}) /\ Cardinality({x}) = 1
  BY FS_Singleton
<1>2. Cardinality({x} \cup {y}) = 2
  BY <1>1, FS_AddElement, SMTT(30)
<1>3. Cardinality({x} \cup {y}) <= Cardinality(P) /\ Cardinality(P) \in Nat
  BY FS_Subset, FS_CardinalityType
<1> QED
  BY <1>2, <1>3

\* Noise of one bit per block does not keep a host from its own secret.
LEMMA OwnChip ==
    ASSUME NEW h \in Hosts, NEW flips, Correctable(h, flips),
           NEW hd \in Enroll(Silicon[h], Reliable, Secret[h])
    PROVE  Close(h, Measure(h, flips))
<1>1. PICK B \in Nat :
        /\ Len(Secret[h]) = 4 * B
        /\ \A i \in 1 .. 7 * B : Reliable[i] \in DOMAIN Silicon[h]
  BY EnrollIs
<1>2. Len(Secret[h]) \div 4 = B
  BY <1>1
<1>3. ASSUME NEW b \in 0 .. B - 1, NEW i \in 7 * b + 1 .. 7 * b + 7,
             NEW j \in 7 * b + 1 .. 7 * b + 7,
             Measure(h, flips)[Reliable[i]] # Silicon[h][Reliable[i]],
             Measure(h, flips)[Reliable[j]] # Silicon[h][Reliable[j]]
      PROVE  i = j
  <2> DEFINE P == {k \in 7 * b + 1 .. 7 * b + 7 : Reliable[k] \in flips}
  <2>1. i \in 1 .. 7 * B /\ j \in 1 .. 7 * B
    OBVIOUS
  <2>2. i \in P /\ j \in P
    BY <1>1, <1>3, <2>1, MeasureBits
  <2>3. IsFiniteSet(7 * b + 1 .. 7 * b + 7)
    <3>1. 7 * b + 1 \in Int /\ 7 * b + 7 \in Int
      OBVIOUS
    <3> QED
      BY <3>1, FS_Interval
  <2>4. IsFiniteSet(P)
    BY <2>3, FS_Subset
  <2>5. Cardinality(P) <= 1
    BY <1>2 DEF Correctable
  <2> HIDE DEF P
  <2> QED
    BY <2>2, <2>4, <2>5, AtMostOne
<1> QED
  BY <1>2, <1>3 DEF Close

\* Another chip is too far away, whatever the noise.
LEMMA OtherChip ==
    ASSUME NEW h \in Hosts, NEW chip \in Hosts, chip # h, NEW flips \in Noise
    PROVE  ~Close(h, Measure(chip, flips))
<1> DEFINE m == Measure(chip, flips)
<1>1. PICK b \in 0 .. (Len(Secret[h]) \div 4) - 1 : \E i, j \in 7 * b + 1 .. 7 * b + 7 :
         /\ i # j
         /\ m[Reliable[i]] # Silicon[h][Reliable[i]]
         /\ m[Reliable[j]] # Silicon[h][Reliable[j]]
  BY SiliconAssumption, Zenon
<1> HIDE DEF m
<1>2. ~Close(h, m)
  BY <1>1 DEF Close
<1> QED
  BY <1>2 DEF m

-----------------------------------------------------------------------------
(* Induction, and the addition of GF(2^8) *)

\* A set of numbers with 0 and with the successor of each is Nat: proofs by
\* induction use it for the set of numbers that have the property.
LEMMA SetInduction ==
    ASSUME NEW T, 0 \in T, \A n \in Nat : n \in T => n + 1 \in T
    PROVE  Nat \subseteq T
<1> DEFINE R == OpToRel(<, Nat)
           Rest == Nat \ T
<1> SUFFICES ASSUME Rest # {} PROVE FALSE
  OBVIOUS
<1>1. IsWellFoundedOn(R, Nat)
  BY NatLessThanWellFounded, Zenon
<1>2. Rest \subseteq Nat
  OBVIOUS
<1>3. \A x, y \in Nat : y < x => <<y, x>> \in R
  BY DEF OpToRel
<1> HIDE DEF R, Rest
<1>4. PICK x \in Rest : \A y \in Rest : ~(<<y, x>> \in R)
  BY <1>1, <1>2, WFMin
<1>5. x \in Nat /\ x # 0 /\ x \notin T
  BY DEF Rest
<1>6. x - 1 \in Nat /\ x - 1 \notin T
  BY <1>5
<1>7. x - 1 \in Rest /\ x - 1 < x
  BY <1>6, <1>5 DEF Rest
<1> QED
  BY <1>3, <1>4, <1>5, <1>6, <1>7

\* The bits of a byte, and the number that bits make.
Weights == {1, 2, 4, 8, 16, 32, 64, 128}
BitAt(a, w) == (a \div w) % 2
FromBits(f) == 1 * f[1] + 2 * f[2] + 4 * f[4] + 8 * f[8]
               + 16 * f[16] + 32 * f[32] + 64 * f[64] + 128 * f[128]

\* Eight bits make a byte that has them.
LEMMA BitsOfByte ==
    ASSUME NEW f \in [Weights -> Bit]
    PROVE  /\ FromBits(f) \in Byte
           /\ \A w \in Weights : BitAt(FromBits(f), w) = f[w]
<1> DEFINE a == FromBits(f)
<1>0. /\ f[1] \in Bit /\ f[2] \in Bit /\ f[4] \in Bit /\ f[8] \in Bit
      /\ f[16] \in Bit /\ f[32] \in Bit /\ f[64] \in Bit /\ f[128] \in Bit
  BY DEF Weights
<1>1. a \in Byte
  BY <1>0 DEF Bit, Byte, FromBits
<1>2. BitAt(a, 1) = f[1]
  BY <1>0 DEF Bit, BitAt, FromBits
<1>3. BitAt(a, 2) = f[2]
  BY <1>0 DEF Bit, BitAt, FromBits
<1>4. BitAt(a, 4) = f[4]
  BY <1>0 DEF Bit, BitAt, FromBits
<1>5. BitAt(a, 8) = f[8]
  BY <1>0 DEF Bit, BitAt, FromBits
<1>6. BitAt(a, 16) = f[16]
  BY <1>0 DEF Bit, BitAt, FromBits
<1>7. BitAt(a, 32) = f[32]
  BY <1>0 DEF Bit, BitAt, FromBits
<1>8. BitAt(a, 64) = f[64]
  BY <1>0 DEF Bit, BitAt, FromBits
<1>9. BitAt(a, 128) = f[128]
  BY <1>0 DEF Bit, BitAt, FromBits
<1> QED
  BY <1>1, <1>2, <1>3, <1>4, <1>5, <1>6, <1>7, <1>8, <1>9 DEF Weights

\* A byte is made of its bits.
LEMMA ByteOfBits ==
    ASSUME NEW a \in Byte
    PROVE  /\ \A w \in Weights : BitAt(a, w) \in Bit
           /\ a = FromBits([w \in Weights |-> BitAt(a, w)])
<1>1. \A w \in Weights : BitAt(a, w) \in Bit
  BY DEF Bit, Byte, BitAt, Weights
<1>2. a = 1 * BitAt(a, 1) + 2 * BitAt(a, 2) + 4 * BitAt(a, 4) + 8 * BitAt(a, 8)
          + 16 * BitAt(a, 16) + 32 * BitAt(a, 32) + 64 * BitAt(a, 64) + 128 * BitAt(a, 128)
  BY DEF Byte, BitAt
<1> QED
  BY <1>1, <1>2 DEF FromBits, Weights

\* The parity of a sum is the parity of the parities.
LEMMA Parity ==
    ASSUME NEW p \in Nat, NEW q \in Nat
    PROVE  (p + q) % 2 = ((p % 2) + (q % 2)) % 2 /\ (p + q) % 2 \in Bit
BY DEF Bit

\* The bits of an exclusive or.
LEMMA AddBits ==
    ASSUME NEW a \in Byte, NEW b \in Byte
    PROVE  /\ gfAdd(a, b) \in Byte
           /\ \A w \in Weights : BitAt(gfAdd(a, b), w) = (BitAt(a, w) + BitAt(b, w)) % 2
<1> DEFINE f == [w \in Weights |-> ((a \div w) + (b \div w)) % 2]
<1>1. ASSUME NEW w \in Weights
      PROVE  f[w] = (BitAt(a, w) + BitAt(b, w)) % 2 /\ f[w] \in Bit
  <2>1. a \div w \in Nat /\ b \div w \in Nat
    BY DEF Byte, Weights
  <2> QED
    BY <2>1, Parity DEF BitAt
<1>2. gfAdd(a, b) = FromBits(f)
  BY DEF gfAdd, FromBits, Weights
<1>3. f \in [Weights -> Bit]
  BY <1>1
<1> HIDE DEF f
<1> QED
  BY <1>1, <1>2, <1>3, BitsOfByte

\* Bytes with the same bits are the same.
LEMMA SameBits ==
    ASSUME NEW a \in Byte, NEW b \in Byte, \A w \in Weights : BitAt(a, w) = BitAt(b, w)
    PROVE  a = b
<1>1. [w \in Weights |-> BitAt(a, w)] = [w \in Weights |-> BitAt(b, w)]
  OBVIOUS
<1> QED
  BY <1>1, ByteOfBits, Zenon

\* Addition in GF(2^8) is an abelian group in which every byte is its own
\* inverse.
LEMMA AddLaws ==
    ASSUME NEW a \in Byte, NEW b \in Byte, NEW c \in Byte
    PROVE  /\ gfAdd(a, b) \in Byte
           /\ gfAdd(a, b) = gfAdd(b, a)
           /\ gfAdd(gfAdd(a, b), c) = gfAdd(a, gfAdd(b, c))
           /\ gfAdd(a, 0) = a
           /\ gfAdd(a, a) = 0
<1>0. 0 \in Byte /\ \A w \in Weights : BitAt(0, w) = 0
  BY DEF Byte, BitAt, Weights
<1>1. gfAdd(a, b) \in Byte
  BY AddBits
<1>2. gfAdd(a, b) = gfAdd(b, a)
  <2>1. gfAdd(b, a) \in Byte
    BY AddBits
  <2>2. ASSUME NEW w \in Weights
        PROVE  BitAt(gfAdd(a, b), w) = BitAt(gfAdd(b, a), w)
    <3>1. BitAt(gfAdd(a, b), w) = (BitAt(a, w) + BitAt(b, w)) % 2
      BY AddBits
    <3>2. BitAt(gfAdd(b, a), w) = (BitAt(b, w) + BitAt(a, w)) % 2
      BY AddBits
    <3>3. BitAt(a, w) \in Bit /\ BitAt(b, w) \in Bit
      BY ByteOfBits
    <3> QED
      BY <3>1, <3>2, <3>3 DEF Bit
  <2> QED
    BY <1>1, <2>1, <2>2, SameBits
<1>3. gfAdd(gfAdd(a, b), c) = gfAdd(a, gfAdd(b, c))
  <2>1. /\ gfAdd(b, c) \in Byte /\ gfAdd(gfAdd(a, b), c) \in Byte
        /\ gfAdd(a, gfAdd(b, c)) \in Byte
    BY <1>1, AddBits
  <2>2. ASSUME NEW w \in Weights
        PROVE  BitAt(gfAdd(gfAdd(a, b), c), w) = BitAt(gfAdd(a, gfAdd(b, c)), w)
    <3>1. BitAt(gfAdd(gfAdd(a, b), c), w) = (((BitAt(a, w) + BitAt(b, w)) % 2) + BitAt(c, w)) % 2
      BY <1>1, AddBits
    <3>2. BitAt(gfAdd(a, gfAdd(b, c)), w) = (BitAt(a, w) + ((BitAt(b, w) + BitAt(c, w)) % 2)) % 2
      BY <2>1, AddBits
    <3>3. BitAt(a, w) \in Bit /\ BitAt(b, w) \in Bit /\ BitAt(c, w) \in Bit
      BY ByteOfBits
    <3> QED
      BY <3>1, <3>2, <3>3 DEF Bit
  <2> QED
    BY <2>1, <2>2, SameBits
<1>4. gfAdd(a, 0) = a
  <2>1. gfAdd(a, 0) \in Byte
    BY <1>0, AddBits
  <2>2. ASSUME NEW w \in Weights
        PROVE  BitAt(gfAdd(a, 0), w) = BitAt(a, w)
    <3>1. BitAt(gfAdd(a, 0), w) = (BitAt(a, w) + 0) % 2
      BY <1>0, AddBits
    <3>3. BitAt(a, w) \in Bit
      BY ByteOfBits
    <3> QED
      BY <3>1, <3>3 DEF Bit
  <2> QED
    BY <2>1, <2>2, SameBits
<1>5. gfAdd(a, a) = 0
  <2>1. gfAdd(a, a) \in Byte
    BY AddBits
  <2>2. ASSUME NEW w \in Weights
        PROVE  BitAt(gfAdd(a, a), w) = BitAt(0, w)
    <3>1. BitAt(gfAdd(a, a), w) = (BitAt(a, w) + BitAt(a, w)) % 2
      BY AddBits
    <3>3. BitAt(a, w) \in Bit
      BY ByteOfBits
    <3> QED
      BY <1>0, <3>1, <3>3 DEF Bit
  <2> QED
    BY <1>0, <2>1, <2>2, SameBits
<1> QED
  BY <1>1, <1>2, <1>3, <1>4, <1>5

\* Twice a byte: TimesThree before it adds the byte once more.
Twice(x) == IF x >= 128 THEN gfAdd((2 * x) % 256, 27) ELSE (2 * x) % 256

\* The bits of twice a byte.
LEMMA TwiceBits ==
    ASSUME NEW x \in Byte
    PROVE  /\ Twice(x) \in Byte
           /\ BitAt(Twice(x), 1) = BitAt(x, 128)
           /\ BitAt(Twice(x), 2) = (BitAt(x, 1) + BitAt(x, 128)) % 2
           /\ BitAt(Twice(x), 4) = BitAt(x, 2)
           /\ BitAt(Twice(x), 8) = (BitAt(x, 4) + BitAt(x, 128)) % 2
           /\ BitAt(Twice(x), 16) = (BitAt(x, 8) + BitAt(x, 128)) % 2
           /\ BitAt(Twice(x), 32) = BitAt(x, 16)
           /\ BitAt(Twice(x), 64) = BitAt(x, 32)
           /\ BitAt(Twice(x), 128) = BitAt(x, 64)
<1> DEFINE s == (2 * x) % 256
<1>1. s \in Byte
  BY DEF Byte
<1>2. /\ BitAt(s, 1) = 0 /\ BitAt(s, 2) = BitAt(x, 1) /\ BitAt(s, 4) = BitAt(x, 2)
      /\ BitAt(s, 8) = BitAt(x, 4) /\ BitAt(s, 16) = BitAt(x, 8)
      /\ BitAt(s, 32) = BitAt(x, 16) /\ BitAt(s, 64) = BitAt(x, 32)
      /\ BitAt(s, 128) = BitAt(x, 64)
  <2>1. BitAt(s, 1) = 0 /\ BitAt(s, 2) = BitAt(x, 1) /\ BitAt(s, 4) = BitAt(x, 2)
    BY DEF Byte, BitAt
  <2>2. BitAt(s, 8) = BitAt(x, 4)
    BY DEF Byte, BitAt
  <2>3. BitAt(s, 16) = BitAt(x, 8)
    BY DEF Byte, BitAt
  <2>4. BitAt(s, 32) = BitAt(x, 16)
    BY DEF Byte, BitAt
  <2>5. BitAt(s, 64) = BitAt(x, 32)
    BY DEF Byte, BitAt
  <2>6. BitAt(s, 128) = BitAt(x, 64)
    BY DEF Byte, BitAt
  <2> QED
    BY <2>1, <2>2, <2>3, <2>4, <2>5, <2>6
<1>3. /\ 27 \in Byte
      /\ BitAt(27, 1) = 1 /\ BitAt(27, 2) = 1 /\ BitAt(27, 4) = 0 /\ BitAt(27, 8) = 1
      /\ BitAt(27, 16) = 1 /\ BitAt(27, 32) = 0 /\ BitAt(27, 64) = 0 /\ BitAt(27, 128) = 0
  BY DEF Byte, BitAt
<1>4. Twice(x) = IF x >= 128 THEN gfAdd(s, 27) ELSE s
  BY DEF Twice
<1>5. /\ BitAt(x, 1) \in Bit /\ BitAt(x, 2) \in Bit /\ BitAt(x, 4) \in Bit
      /\ BitAt(x, 8) \in Bit /\ BitAt(x, 16) \in Bit /\ BitAt(x, 32) \in Bit
      /\ BitAt(x, 64) \in Bit /\ BitAt(x, 128) \in Bit
  BY ByteOfBits, ZenonT(40) DEF Weights
<1> HIDE DEF s
<1>6. CASE x >= 128
  <2>1. BitAt(x, 128) = 1
    BY <1>6 DEF Byte, BitAt
  <2>2. gfAdd(s, 27) \in Byte
        /\ \A w \in Weights : BitAt(gfAdd(s, 27), w) = (BitAt(s, w) + BitAt(27, w)) % 2
    BY <1>1, <1>3, AddBits
  <2>3. Twice(x) = gfAdd(s, 27)
    BY <1>4, <1>6
  <2>4. /\ BitAt(Twice(x), 1) = (0 + 1) % 2
        /\ BitAt(Twice(x), 2) = (BitAt(x, 1) + 1) % 2
        /\ BitAt(Twice(x), 4) = (BitAt(x, 2) + 0) % 2
        /\ BitAt(Twice(x), 8) = (BitAt(x, 4) + 1) % 2
        /\ BitAt(Twice(x), 16) = (BitAt(x, 8) + 1) % 2
        /\ BitAt(Twice(x), 32) = (BitAt(x, 16) + 0) % 2
        /\ BitAt(Twice(x), 64) = (BitAt(x, 32) + 0) % 2
        /\ BitAt(Twice(x), 128) = (BitAt(x, 64) + 0) % 2
    BY <1>2, <1>3, <2>2, <2>3 DEF Weights
  <2> QED
    BY <1>5, <2>1, <2>2, <2>3, <2>4 DEF Bit
<1>7. CASE ~(x >= 128)
  <2>1. BitAt(x, 128) = 0
    BY <1>7 DEF Byte, BitAt
  <2>2. Twice(x) = s
    BY <1>4, <1>7
  <2> QED
    BY <1>1, <1>2, <1>5, <2>1, <2>2 DEF Bit
<1> QED
  BY <1>6, <1>7

\* Bits add up modulo 2, in any grouping.
LEMMA FourBits ==
    ASSUME NEW p \in Bit, NEW q \in Bit, NEW r \in Bit, NEW s \in Bit
    PROVE  (((p + q) % 2) + ((r + s) % 2)) % 2 = (((p + r) % 2) + ((q + s) % 2)) % 2
BY DEF Bit

\* Doubling is additive.
LEMMA TwiceAdds ==
    ASSUME NEW a \in Byte, NEW b \in Byte
    PROVE  Twice(gfAdd(a, b)) = gfAdd(Twice(a), Twice(b))
<1> DEFINE c == gfAdd(a, b)
<1>1. c \in Byte /\ \A w \in Weights : BitAt(c, w) = (BitAt(a, w) + BitAt(b, w)) % 2
  BY AddBits
<1> HIDE DEF c
<1>2. Twice(a) \in Byte /\ Twice(b) \in Byte /\ Twice(c) \in Byte
  BY <1>1, TwiceBits
<1>3. /\ gfAdd(Twice(a), Twice(b)) \in Byte
      /\ \A w \in Weights : BitAt(gfAdd(Twice(a), Twice(b)), w)
                              = (BitAt(Twice(a), w) + BitAt(Twice(b), w)) % 2
  BY <1>2, AddBits
<1>4. \A w \in Weights : BitAt(a, w) \in Bit /\ BitAt(b, w) \in Bit
  BY ByteOfBits
<1>5. ASSUME NEW w \in Weights
      PROVE  BitAt(Twice(c), w) = (BitAt(Twice(a), w) + BitAt(Twice(b), w)) % 2
  <2>1. ASSUME NEW v \in Weights,
               BitAt(Twice(a), w) = BitAt(a, v), BitAt(Twice(b), w) = BitAt(b, v),
               BitAt(Twice(c), w) = BitAt(c, v)
        PROVE  BitAt(Twice(c), w) = (BitAt(Twice(a), w) + BitAt(Twice(b), w)) % 2
    BY <1>1, <2>1
  <2>2. ASSUME NEW v \in Weights,
               BitAt(Twice(a), w) = (BitAt(a, v) + BitAt(a, 128)) % 2,
               BitAt(Twice(b), w) = (BitAt(b, v) + BitAt(b, 128)) % 2,
               BitAt(Twice(c), w) = (BitAt(c, v) + BitAt(c, 128)) % 2
        PROVE  BitAt(Twice(c), w) = (BitAt(Twice(a), w) + BitAt(Twice(b), w)) % 2
    <3>1. 128 \in Weights
      BY DEF Weights
    <3>2. /\ BitAt(a, v) \in Bit /\ BitAt(b, v) \in Bit
          /\ BitAt(a, 128) \in Bit /\ BitAt(b, 128) \in Bit
      BY <1>4, <3>1
    <3>3. /\ BitAt(c, v) = (BitAt(a, v) + BitAt(b, v)) % 2
          /\ BitAt(c, 128) = (BitAt(a, 128) + BitAt(b, 128)) % 2
      BY <1>1, <3>1
    <3> QED
      BY <2>2, <3>2, <3>3, FourBits
  <2>3. CASE w = 1
    BY <1>1, <2>1, <2>3, TwiceBits DEF Weights
  <2>4. CASE w = 2
    BY <1>1, <2>2, <2>4, TwiceBits DEF Weights
  <2>5. CASE w = 4
    BY <1>1, <2>1, <2>5, TwiceBits DEF Weights
  <2>6. CASE w = 8
    BY <1>1, <2>2, <2>6, TwiceBits DEF Weights
  <2>7. CASE w = 16
    BY <1>1, <2>2, <2>7, TwiceBits DEF Weights
  <2>8. CASE w = 32
    BY <1>1, <2>1, <2>8, TwiceBits DEF Weights
  <2>9. CASE w = 64
    BY <1>1, <2>1, <2>9, TwiceBits DEF Weights
  <2>10. CASE w = 128
    BY <1>1, <2>1, <2>10, TwiceBits DEF Weights
  <2> QED
    BY <2>3, <2>4, <2>5, <2>6, <2>7, <2>8, <2>9, <2>10 DEF Weights
<1>6. Twice(c) = gfAdd(Twice(a), Twice(b))
  BY <1>2, <1>3, <1>5, SameBits
<1> QED
  BY <1>6 DEF c

\* Sums may be regrouped.
LEMMA Regroup ==
    ASSUME NEW a \in Byte, NEW b \in Byte, NEW c \in Byte, NEW d \in Byte
    PROVE  gfAdd(gfAdd(a, b), gfAdd(c, d)) = gfAdd(gfAdd(a, c), gfAdd(b, d))
<1>1. gfAdd(c, d) \in Byte /\ gfAdd(b, d) \in Byte
  BY AddLaws
<1>2. gfAdd(gfAdd(a, b), gfAdd(c, d)) = gfAdd(a, gfAdd(b, gfAdd(c, d)))
  BY <1>1, AddLaws
<1>3. gfAdd(b, gfAdd(c, d)) = gfAdd(c, gfAdd(b, d))
  <2>1. gfAdd(b, gfAdd(c, d)) = gfAdd(gfAdd(b, c), d)
    BY AddLaws
  <2>2. gfAdd(c, gfAdd(b, d)) = gfAdd(gfAdd(c, b), d)
    BY AddLaws
  <2>3. gfAdd(b, c) = gfAdd(c, b)
    BY AddLaws
  <2> QED
    BY <2>1, <2>2, <2>3
<1>4. gfAdd(gfAdd(a, c), gfAdd(b, d)) = gfAdd(a, gfAdd(c, gfAdd(b, d)))
  BY <1>1, AddLaws
<1> QED
  BY <1>2, <1>3, <1>4

\* So is the loop of init that fills the tables.
LEMMA ThreeAdds ==
    ASSUME NEW a \in Byte, NEW b \in Byte
    PROVE  /\ TimesThree(a) \in Byte
           /\ TimesThree(gfAdd(a, b)) = gfAdd(TimesThree(a), TimesThree(b))
<1>1. \A x : TimesThree(x) = gfAdd(Twice(x), x)
  BY DEF TimesThree, Twice
<1>2. Twice(a) \in Byte /\ Twice(b) \in Byte /\ gfAdd(a, b) \in Byte
  BY TwiceBits, AddLaws
<1>3. TimesThree(gfAdd(a, b)) = gfAdd(gfAdd(Twice(a), Twice(b)), gfAdd(a, b))
  BY <1>1, TwiceAdds
<1> QED
  BY <1>1, <1>2, <1>3, Regroup, AddLaws

-----------------------------------------------------------------------------
(* GF(2^8) is a field *)

NonZero  == 1 .. 255
Exponent == 0 .. 254

\* Powers of the generator, and their exponents.
Pow(i)       == gfExp[i + 1]
ExpAdd(p, q) == (p + q) % 255
ExpNeg(p)    == (255 - p) % 255

\* Exponents are logarithms.
LEMMA Logs ==
    /\ \A x \in NonZero : gfLog[x] \in Exponent /\ Pow(gfLog[x]) = x
    /\ \A i \in Exponent : Pow(i) \in NonZero /\ gfLog[Pow(i)] = i
    /\ Pow(0) = 1 /\ gfLog[1] = 0
    /\ \A x, y \in NonZero : gfLog[x] = gfLog[y] => x = y
<1>1. /\ \A x \in NonZero : gfLog[x] \in Exponent /\ Pow(gfLog[x]) = x
      /\ \A i \in Exponent : Pow(i) \in NonZero /\ gfLog[Pow(i)] = i
      /\ gfExp[1] = 1
  BY TableAssumption, Zenon DEF NonZero, Exponent, Pow
<1>2. 0 \in Exponent /\ Pow(0) = gfExp[1]
  BY DEF Exponent, Pow
<1> QED
  BY <1>1, <1>2, Zenon

\* Exponents are added modulo 255.
LEMMA ExpLaws ==
    /\ \A p, q \in Exponent : /\ ExpAdd(p, q) \in Exponent
                               /\ ExpAdd(p, q) = ExpAdd(q, p)
    /\ \A p \in Exponent : /\ ExpNeg(p) \in Exponent /\ ExpAdd(p, ExpNeg(p)) = 0
                            /\ ExpAdd(p, 0) = p /\ ExpAdd(0, p) = p
    /\ \A p, q, r \in Exponent : ExpAdd(ExpAdd(p, q), r) = ExpAdd(p, ExpAdd(q, r))
<1>1. ASSUME NEW p \in Exponent, NEW q \in Exponent
      PROVE  ExpAdd(p, q) \in Exponent /\ ExpAdd(p, q) = ExpAdd(q, p)
  BY DEF ExpAdd, Exponent
<1>2. ASSUME NEW p \in Exponent
      PROVE  /\ ExpNeg(p) \in Exponent /\ ExpAdd(p, ExpNeg(p)) = 0
             /\ ExpAdd(p, 0) = p /\ ExpAdd(0, p) = p
  BY DEF ExpAdd, ExpNeg, Exponent
<1>3. ASSUME NEW p \in Exponent, NEW q \in Exponent, NEW r \in Exponent
      PROVE  ExpAdd(ExpAdd(p, q), r) = ExpAdd(p, ExpAdd(q, r))
  BY DEF ExpAdd, Exponent
<1> QED
  BY <1>1, <1>2, <1>3, Zenon

\* The logarithm of a product and of an inverse.
LEMMA MulLog ==
    /\ \A a, b \in NonZero : /\ gfMul(a, b) \in NonZero
                              /\ gfLog[gfMul(a, b)] = ExpAdd(gfLog[a], gfLog[b])
    /\ \A a \in NonZero : gfInv(a) \in NonZero /\ gfLog[gfInv(a)] = ExpNeg(gfLog[a])
<1>1. \A a \in NonZero : a # 0
  BY DEF NonZero
<1>2. \A a, b \in NonZero : gfMul(a, b) = Pow(ExpAdd(gfLog[a], gfLog[b]))
  BY <1>1, Zenon DEF gfMul, Pow, ExpAdd
<1>3. \A a \in NonZero : gfInv(a) = Pow(ExpNeg(gfLog[a]))
  BY <1>1, Zenon DEF gfInv, Pow, ExpNeg
<1>4. \A a, b \in NonZero : ExpAdd(gfLog[a], gfLog[b]) \in Exponent
                            /\ ExpNeg(gfLog[a]) \in Exponent
  BY Logs, ExpLaws, Zenon
<1>5. ASSUME NEW a \in NonZero, NEW b \in NonZero
      PROVE  gfMul(a, b) \in NonZero /\ gfLog[gfMul(a, b)] = ExpAdd(gfLog[a], gfLog[b])
  <2>1. PICK i \in Exponent : i = ExpAdd(gfLog[a], gfLog[b])
    BY <1>4
  <2>2. gfMul(a, b) = Pow(i)
    BY <1>2, <2>1
  <2> QED
    BY <2>1, <2>2, Logs
<1>6. ASSUME NEW a \in NonZero
      PROVE  gfInv(a) \in NonZero /\ gfLog[gfInv(a)] = ExpNeg(gfLog[a])
  <2>1. PICK i \in Exponent : i = ExpNeg(gfLog[a])
    BY <1>4
  <2>2. gfInv(a) = Pow(i)
    BY <1>3, <2>1
  <2> QED
    BY <2>1, <2>2, Logs
<1> QED
  BY <1>5, <1>6

\* Bytes are 0 or not.
LEMMA Bytes == /\ 0 \in Byte /\ 1 \in NonZero /\ 0 \notin NonZero
               /\ \A a : a \in Byte <=> a = 0 \/ a \in NonZero
BY DEF Byte, NonZero

\* A product with 0.
LEMMA MulZero == \A a : gfMul(a, 0) = 0 /\ gfMul(0, a) = 0
BY Zenon DEF gfMul

\* 1 is neutral.
LEMMA MulOne == ASSUME NEW a \in Byte PROVE gfMul(a, 1) = a /\ gfMul(1, a) = a
<1>1. CASE a = 0
  BY <1>1, MulZero
<1>2. CASE a # 0
  <2>1. 1 \in NonZero /\ a \in NonZero
    BY <1>2, Bytes
  <2>2. gfLog[gfMul(a, 1)] = gfLog[a] /\ gfLog[gfMul(1, a)] = gfLog[a]
    BY <2>1, MulLog, Logs, ExpLaws
  <2> QED
    BY <2>1, <2>2, MulLog, Logs, Zenon
<1> QED
  BY <1>1, <1>2

\* Multiplication is closed and commutative, and 0 only if a factor is.
LEMMA MulLaws ==
    ASSUME NEW a \in Byte, NEW b \in Byte
    PROVE  /\ gfMul(a, b) \in Byte
           /\ gfMul(a, b) = gfMul(b, a)
           /\ a # 0 /\ b # 0 => gfMul(a, b) # 0
<1>1. CASE a = 0 \/ b = 0
  BY <1>1, MulZero, Bytes
<1>2. CASE a # 0 /\ b # 0
  <2>1. a \in NonZero /\ b \in NonZero
    BY <1>2, Bytes
  <2>2. gfMul(a, b) \in NonZero /\ gfMul(b, a) \in NonZero
    BY <2>1, MulLog
  <2>3. gfLog[gfMul(a, b)] = gfLog[gfMul(b, a)]
    <3>1. PICK p \in Exponent, q \in Exponent : p = gfLog[a] /\ q = gfLog[b]
      BY <2>1, Logs, Zenon
    <3>2. ExpAdd(p, q) = ExpAdd(q, p)
      BY ExpLaws
    <3> QED
      BY <2>1, <3>1, <3>2, MulLog
  <2>4. gfMul(a, b) = gfMul(b, a)
    BY <2>2, <2>3, Logs, Zenon
  <2> QED
    BY <2>2, <2>4, Bytes
<1> QED
  BY <1>1, <1>2

\* Multiplication is associative.
LEMMA MulAssoc ==
    ASSUME NEW a \in Byte, NEW b \in Byte, NEW c \in Byte
    PROVE  gfMul(gfMul(a, b), c) = gfMul(a, gfMul(b, c))
<1>1. CASE a = 0 \/ b = 0 \/ c = 0
  BY <1>1, MulZero
<1>2. CASE a # 0 /\ b # 0 /\ c # 0
  <2>1. a \in NonZero /\ b \in NonZero /\ c \in NonZero
    BY <1>2, Bytes
  <2>2. gfMul(a, b) \in NonZero /\ gfMul(b, c) \in NonZero
    BY <2>1, MulLog
  <2>3. gfMul(gfMul(a, b), c) \in NonZero /\ gfMul(a, gfMul(b, c)) \in NonZero
    BY <2>1, <2>2, MulLog
  <2>4. /\ gfLog[gfMul(gfMul(a, b), c)] = ExpAdd(ExpAdd(gfLog[a], gfLog[b]), gfLog[c])
        /\ gfLog[gfMul(a, gfMul(b, c))] = ExpAdd(gfLog[a], ExpAdd(gfLog[b], gfLog[c]))
    BY <2>1, <2>2, MulLog
  <2>5. gfLog[a] \in Exponent /\ gfLog[b] \in Exponent /\ gfLog[c] \in Exponent
    BY <2>1, Logs, Zenon
  <2>6. gfLog[gfMul(gfMul(a, b), c)] = gfLog[gfMul(a, gfMul(b, c))]
    <3>1. PICK p \in Exponent, q \in Exponent, r \in Exponent :
             p = gfLog[a] /\ q = gfLog[b] /\ r = gfLog[c]
      BY <2>5, Zenon
    <3>2. ExpAdd(ExpAdd(p, q), r) = ExpAdd(p, ExpAdd(q, r))
      BY ExpLaws
    <3> QED
      BY <2>4, <3>1, <3>2, Zenon
  <2> QED
    BY <2>3, <2>6, Logs, Zenon
<1> QED
  BY <1>1, <1>2

\* What gfInv returns is an inverse, except for 0.
LEMMA MulInverse ==
    ASSUME NEW a \in Byte, a # 0
    PROVE  gfInv(a) \in Byte /\ gfInv(a) # 0 /\ gfMul(a, gfInv(a)) = 1
<1>1. a \in NonZero /\ 1 \in NonZero
  BY Bytes
<1>2. gfInv(a) \in NonZero /\ gfLog[gfInv(a)] = ExpNeg(gfLog[a])
  BY <1>1, MulLog
<1>3. gfMul(a, gfInv(a)) \in NonZero
      /\ gfLog[gfMul(a, gfInv(a))] = ExpAdd(gfLog[a], gfLog[gfInv(a)])
  BY <1>1, <1>2, MulLog
<1>4. gfLog[gfMul(a, gfInv(a))] = gfLog[1]
  BY <1>1, <1>2, <1>3, Logs, ExpLaws
<1>5. gfMul(a, gfInv(a)) = 1
  BY <1>1, <1>3, <1>4, Logs, Zenon
<1> QED
  BY <1>2, <1>5, Bytes

\* One turn of the loop of init multiplies by its generator: exponents go up
\* by one, and wrap around.
LEMMA ThreeExp ==
    ASSUME NEW i \in Exponent
    PROVE  TimesThree(Pow(i)) = Pow(ExpAdd(i, 1))
<1>1. i + 1 \in 1 .. 255
  BY DEF Exponent
<1>2. gfExp[(i + 1) + 1] = TimesThree(gfExp[i + 1])
  BY <1>1, TableAssumption, Zenon
<1>3. CASE i = 254
  <2>1. (i + 1) + 1 = 256 /\ ((i + 1) % 255) + 1 = 1
    BY <1>3
  <2>2. gfExp[256] = 1 /\ gfExp[1] = 1
    BY TableAssumption, Zenon
  <2> QED
    BY <1>2, <2>1, <2>2, ZenonT(40) DEF Pow, ExpAdd
<1>4. CASE i # 254
  <2>1. (i + 1) % 255 = i + 1
    BY <1>4 DEF Exponent
  <2> QED
    BY <1>2, <2>1, Zenon DEF Pow, ExpAdd
<1> QED
  BY <1>3, <1>4

\* Multiplying by the next power multiplies the product by the generator.
LEMMA NextPower ==
    ASSUME NEW n \in Exponent, NEW b \in Byte
    PROVE  gfMul(Pow(ExpAdd(n, 1)), b) = TimesThree(gfMul(Pow(n), b))
<1>0. 1 \in Exponent
  BY DEF Exponent
<1>1. CASE b = 0
  <2>1. TimesThree(0) = 0
    BY DEF TimesThree, gfAdd
  <2> QED
    BY <1>1, <2>1, MulZero
<1>2. CASE b # 0
  <2>1. b \in NonZero
    BY <1>2, Bytes
  <2>2. ExpAdd(n, 1) \in Exponent /\ gfLog[b] \in Exponent
    BY <1>0, <2>1, Logs, ExpLaws, Zenon
  <2>3. /\ Pow(n) \in NonZero /\ gfLog[Pow(n)] = n
        /\ Pow(ExpAdd(n, 1)) \in NonZero /\ gfLog[Pow(ExpAdd(n, 1))] = ExpAdd(n, 1)
    BY <2>2, Logs, Zenon
  <2>4. \A x \in NonZero : x = Pow(gfLog[x])
    BY Logs, Zenon
  <2>5. /\ gfMul(Pow(n), b) = Pow(ExpAdd(n, gfLog[b]))
        /\ gfMul(Pow(ExpAdd(n, 1)), b) = Pow(ExpAdd(ExpAdd(n, 1), gfLog[b]))
    <3>1. gfMul(Pow(n), b) \in NonZero /\ gfLog[gfMul(Pow(n), b)] = ExpAdd(n, gfLog[b])
      BY <2>1, <2>3, MulLog, Zenon
    <3>2. /\ gfMul(Pow(ExpAdd(n, 1)), b) \in NonZero
          /\ gfLog[gfMul(Pow(ExpAdd(n, 1)), b)] = ExpAdd(ExpAdd(n, 1), gfLog[b])
      BY <2>1, <2>3, MulLog, ZenonT(40)
    <3> QED
      BY <2>4, <3>1, <3>2, Zenon
  <2>6. ExpAdd(ExpAdd(n, 1), gfLog[b]) = ExpAdd(ExpAdd(n, gfLog[b]), 1)
    <3>1. PICK l \in Exponent : l = gfLog[b]
      BY <2>2
    <3>2. ExpAdd(ExpAdd(n, 1), l) = ExpAdd(ExpAdd(n, l), 1)
      BY DEF ExpAdd, Exponent
    <3> QED
      BY <3>1, <3>2
  <2>7. ExpAdd(n, gfLog[b]) \in Exponent
    BY <2>2, ExpLaws, Zenon
  <2>8. TimesThree(Pow(ExpAdd(n, gfLog[b]))) = Pow(ExpAdd(ExpAdd(n, gfLog[b]), 1))
    BY <2>7, ThreeExp
  <2> QED
    BY <2>5, <2>6, <2>8, Zenon
<1> QED
  BY <1>1, <1>2

\* Multiplication distributes over addition: for the powers of the generator
\* by induction, and every byte but 0 is one.
LEMMA Distributes ==
    ASSUME NEW a \in Byte, NEW b \in Byte, NEW c \in Byte
    PROVE  gfMul(a, gfAdd(b, c)) = gfAdd(gfMul(a, b), gfMul(a, c))
<1>0. gfAdd(b, c) \in Byte /\ 0 \in Byte
  BY AddLaws, Bytes
<1> DEFINE Law(x) == gfMul(x, gfAdd(b, c)) = gfAdd(gfMul(x, b), gfMul(x, c))
           T == {n \in Nat : n \in Exponent => Law(Pow(n))}
<1>1. 0 \in T
  <2>1. Law(1)
    BY <1>0, MulOne
  <2> HIDE DEF Law
  <2>2. Law(Pow(0))
    BY <2>1, Logs, Zenon
  <2> QED
    BY <2>2
<1>2. ASSUME NEW n \in Nat, n \in Exponent, Law(Pow(n)), n + 1 \in Exponent
      PROVE  Law(Pow(n + 1))
  <2>1. ExpAdd(n, 1) = n + 1
    BY <1>2 DEF ExpAdd, Exponent
  <2> DEFINE x == Pow(n)
  <2>2. x \in Byte
    BY <1>2, Logs, Bytes, Zenon
  <2>3. /\ gfMul(Pow(n + 1), gfAdd(b, c)) = TimesThree(gfMul(x, gfAdd(b, c)))
        /\ gfMul(Pow(n + 1), b) = TimesThree(gfMul(x, b))
        /\ gfMul(Pow(n + 1), c) = TimesThree(gfMul(x, c))
    BY <1>0, <1>2, <2>1, NextPower, Zenon
  <2> HIDE DEF x
  <2>4. gfMul(x, b) \in Byte /\ gfMul(x, c) \in Byte
    BY <2>2, MulLaws
  <2>5. TimesThree(gfAdd(gfMul(x, b), gfMul(x, c)))
          = gfAdd(TimesThree(gfMul(x, b)), TimesThree(gfMul(x, c)))
    BY <2>4, ThreeAdds
  <2> QED
    BY <1>2, <2>3, <2>5, Zenon DEF x
<1>3. Nat \subseteq T
  <2> HIDE DEF Law
  <2>1. \A n \in Nat : n + 1 \in Exponent => n \in Exponent
    BY DEF Exponent
  <2>2. \A n \in Nat : n \in T => n + 1 \in T
    BY <1>2, <2>1
  <2> HIDE DEF T
  <2> QED
    BY <1>1, <2>2, SetInduction
<1>4. CASE a = 0
  BY <1>0, <1>4, MulZero, AddLaws
<1>5. CASE a # 0
  <2>1. a \in NonZero
    BY <1>5, Bytes
  <2>2. gfLog[a] \in Exponent /\ Pow(gfLog[a]) = a
    BY <2>1, Logs, Zenon
  <2>3. gfLog[a] \in Nat
    BY <2>2 DEF Exponent
  <2> HIDE DEF Law
  <2>4. Law(Pow(gfLog[a]))
    BY <1>3, <2>2, <2>3, Zenon
  <2>5. Law(a)
    BY <2>2, <2>4, Zenon
  <2> QED
    BY <2>5 DEF Law
<1> QED
  BY <1>4, <1>5

-----------------------------------------------------------------------------
(* The loops *)

\* The values a loop of n turns goes through, from a on: F[j] is turn j.
Loops(S, a, n, F) ==
    \E g \in [0 .. n -> S] : g[0] = a /\ \A j \in 1 .. n : g[j] = F[j][g[j - 1]]

\* A loop that takes each of n turns from S to S has values, turn by turn.
LEMMA LoopExists ==
    ASSUME NEW S, NEW a \in S, NEW n \in Nat, NEW F \in [1 .. n -> [S -> S]]
    PROVE  Loops(S, a, n, F)
<1> DEFINE Runs(g, m) == g[0] = a /\ \A j \in 1 .. m : g[j] = F[j][g[j - 1]]
           T == {m \in Nat : m <= n => \E g \in [0 .. m -> S] : Runs(g, m)}
<1>1. 0 \in T
  <2> DEFINE g == [j \in 0 .. 0 |-> a]
  <2>1. g \in [0 .. 0 -> S] /\ Runs(g, 0)
    OBVIOUS
  <2> QED
    BY <2>1
<1>2. ASSUME NEW m \in Nat, m \in T PROVE m + 1 \in T
  <2>1. SUFFICES ASSUME m + 1 <= n PROVE \E h \in [0 .. m + 1 -> S] : Runs(h, m + 1)
    OBVIOUS
  <2>2. PICK g \in [0 .. m -> S] : Runs(g, m)
    BY <1>2, <2>1
  <2> DEFINE h == [j \in 0 .. m + 1 |-> IF j = m + 1 THEN F[m + 1][g[m]] ELSE g[j]]
  <2>3. g[m] \in S /\ m + 1 \in 1 .. n
    BY <2>1
  <2>4. F[m + 1] \in [S -> S]
    BY <2>3
  <2>5. h \in [0 .. m + 1 -> S]
    BY <2>3, <2>4
  <2>6. h[0] = a
    BY <2>2
  <2>7. ASSUME NEW j \in 1 .. m + 1 PROVE h[j] = F[j][h[j - 1]]
    <3>1. CASE j = m + 1
      <4>1. h[j - 1] = g[m]
        BY <3>1
      <4> QED
        BY <3>1, <4>1
    <3>2. CASE j # m + 1
      <4>1. j \in 1 .. m /\ j - 1 \in 0 .. m /\ j - 1 # m + 1
        BY <3>2
      <4>2. h[j - 1] = g[j - 1] /\ h[j] = g[j]
        BY <3>2, <4>1
      <4> QED
        BY <2>2, <4>1, <4>2
    <3> QED
      BY <3>1, <3>2
  <2> HIDE DEF h
  <2> QED
    BY <2>5, <2>6, <2>7
<1>3. Nat \subseteq T
  <2> HIDE DEF T
  <2> QED
    BY <1>1, <1>2, SetInduction
<1> QED
  BY <1>3 DEF Loops

\* What the loop of gfSum computes.
SumRun(p, f, m) == p = [j \in 0 .. m |-> IF j = 0 THEN 0 ELSE gfAdd(p[j - 1], f[j])]

\* A sum of bytes, turn by turn.
LEMMA SumSteps ==
    ASSUME NEW n \in Nat, NEW f \in [1 .. n -> Byte]
    PROVE  /\ gfSum(f, 0) = 0
           /\ \A m \in 0 .. n : gfSum(f, m) \in Byte
           /\ \A m \in 1 .. n : gfSum(f, m) = gfAdd(gfSum(f, m - 1), f[m])
<1> DEFINE F == [j \in 1 .. n |-> [v \in Byte |-> gfAdd(v, f[j])]]
<1>1. F \in [1 .. n -> [Byte -> Byte]] /\ 0 \in Byte
  BY AddLaws, Bytes
<1>2. PICK g \in [0 .. n -> Byte] : g[0] = 0 /\ \A j \in 1 .. n : g[j] = F[j][g[j - 1]]
  <2> HIDE DEF F
  <2>1. Loops(Byte, 0, n, F)
    BY <1>1, LoopExists
  <2> QED
    BY <2>1 DEF Loops
<1>3. \A j \in 1 .. n : g[j] = gfAdd(g[j - 1], f[j])
  <2>1. \A j \in 1 .. n : g[j - 1] \in Byte
    OBVIOUS
  <2> QED
    BY <1>2, <2>1
<1>4. ASSUME NEW m \in 0 .. n PROVE gfSum(f, m) = g[m]
  <2> DEFINE h == [j \in 0 .. m |-> g[j]]
             p == CHOOSE q : SumRun(q, f, m)
  <2>1. SumRun(h, f, m)
    <3>1. ASSUME NEW j \in 0 .. m
          PROVE  h[j] = IF j = 0 THEN 0 ELSE gfAdd(h[j - 1], f[j])
      <4>1. CASE j = 0
        BY <1>2, <4>1
      <4>2. CASE j # 0
        <5>1. j \in 1 .. n /\ j - 1 \in 0 .. m
          BY <4>2
        <5>2. h[j - 1] = g[j - 1] /\ h[j] = g[j]
          BY <5>1
        <5> QED
          BY <1>3, <4>2, <5>1, <5>2
      <4> QED
        BY <4>1, <4>2
    <3>2. h = [j \in 0 .. m |-> h[j]]
      OBVIOUS
    <3> HIDE DEF h
    <3> QED
      BY <3>1, <3>2 DEF SumRun
  <2>2. SumRun(p, f, m)
    <3> HIDE DEF h
    <3> QED
      BY <2>1, Zenon
  <2>3. gfSum(f, m) = p[m]
    BY Zenon DEF gfSum, SumRun
  <2> HIDE DEF p
  <2>4. p = [j \in 0 .. m |-> IF j = 0 THEN 0 ELSE gfAdd(p[j - 1], f[j])]
    BY <2>2 DEF SumRun
  <2> DEFINE T == {j \in Nat : j <= m => p[j] = g[j]}
  <2>5. 0 \in T
    <3>1. 0 \in 0 .. m
      OBVIOUS
    <3>2. p[0] = 0
      BY <2>4, <3>1
    <3> QED
      BY <1>2, <3>2
  <2>6. ASSUME NEW j \in Nat, j \in T PROVE j + 1 \in T
    <3>1. SUFFICES ASSUME j + 1 <= m PROVE p[j + 1] = g[j + 1]
      OBVIOUS
    <3>2. p[j] = g[j]
      BY <2>6, <3>1
    <3>3. j + 1 \in 0 .. m /\ j + 1 # 0 /\ j + 1 \in 1 .. n /\ (j + 1) - 1 = j
      BY <3>1
    <3>4. p[j + 1] = gfAdd(p[j], f[j + 1])
      BY <2>4, <3>3
    <3>5. g[j + 1] = gfAdd(g[j], f[j + 1])
      BY <1>3, <3>3
    <3> QED
      BY <3>2, <3>4, <3>5
  <2>7. Nat \subseteq T
    <3> HIDE DEF T
    <3> QED
      BY <2>5, <2>6, SetInduction
  <2>8. m \in Nat /\ m <= m
    OBVIOUS
  <2> QED
    BY <2>3, <2>7, <2>8
<1>5. ASSUME NEW m \in 1 .. n PROVE gfSum(f, m) = gfAdd(gfSum(f, m - 1), f[m])
  <2>1. m \in 0 .. n /\ m - 1 \in 0 .. n
    OBVIOUS
  <2> QED
    BY <1>3, <1>4, <2>1
<1>6. 0 \in 0 .. n
  OBVIOUS
<1> QED
  BY <1>2, <1>4, <1>5, <1>6

\* What the loop of gfProduct computes.
ProductRun(p, f, m) == p = [j \in 0 .. m |-> IF j = 0 THEN 1 ELSE gfMul(p[j - 1], f[j])]

\* A product of bytes, turn by turn.
LEMMA ProductSteps ==
    ASSUME NEW n \in Nat, NEW f \in [1 .. n -> Byte]
    PROVE  /\ gfProduct(f, 0) = 1
           /\ \A m \in 0 .. n : gfProduct(f, m) \in Byte
           /\ \A m \in 1 .. n : gfProduct(f, m) = gfMul(gfProduct(f, m - 1), f[m])
<1> DEFINE F == [j \in 1 .. n |-> [v \in Byte |-> gfMul(v, f[j])]]
<1>1. F \in [1 .. n -> [Byte -> Byte]] /\ 1 \in Byte
  BY MulLaws, Bytes
<1>2. PICK g \in [0 .. n -> Byte] : g[0] = 1 /\ \A j \in 1 .. n : g[j] = F[j][g[j - 1]]
  <2> HIDE DEF F
  <2>1. Loops(Byte, 1, n, F)
    BY <1>1, LoopExists
  <2> QED
    BY <2>1 DEF Loops
<1>3. \A j \in 1 .. n : g[j] = gfMul(g[j - 1], f[j])
  <2>1. \A j \in 1 .. n : g[j - 1] \in Byte
    OBVIOUS
  <2> QED
    BY <1>2, <2>1
<1>4. ASSUME NEW m \in 0 .. n PROVE gfProduct(f, m) = g[m]
  <2> DEFINE h == [j \in 0 .. m |-> g[j]]
             p == CHOOSE q : ProductRun(q, f, m)
  <2>1. ProductRun(h, f, m)
    <3>1. ASSUME NEW j \in 0 .. m
          PROVE  h[j] = IF j = 0 THEN 1 ELSE gfMul(h[j - 1], f[j])
      <4>1. CASE j = 0
        BY <1>2, <4>1
      <4>2. CASE j # 0
        <5>1. j \in 1 .. n /\ j - 1 \in 0 .. m
          BY <4>2
        <5>2. h[j - 1] = g[j - 1] /\ h[j] = g[j]
          BY <5>1
        <5> QED
          BY <1>3, <4>2, <5>1, <5>2
      <4> QED
        BY <4>1, <4>2
    <3>2. h = [j \in 0 .. m |-> h[j]]
      OBVIOUS
    <3> HIDE DEF h
    <3> QED
      BY <3>1, <3>2 DEF ProductRun
  <2>2. ProductRun(p, f, m)
    <3> HIDE DEF h
    <3> QED
      BY <2>1, Zenon
  <2>3. gfProduct(f, m) = p[m]
    BY Zenon DEF gfProduct, ProductRun
  <2> HIDE DEF p
  <2>4. p = [j \in 0 .. m |-> IF j = 0 THEN 1 ELSE gfMul(p[j - 1], f[j])]
    BY <2>2 DEF ProductRun
  <2> DEFINE T == {j \in Nat : j <= m => p[j] = g[j]}
  <2>5. 0 \in T
    <3>1. 0 \in 0 .. m
      OBVIOUS
    <3>2. p[0] = 1
      BY <2>4, <3>1
    <3> QED
      BY <1>2, <3>2
  <2>6. ASSUME NEW j \in Nat, j \in T PROVE j + 1 \in T
    <3>1. SUFFICES ASSUME j + 1 <= m PROVE p[j + 1] = g[j + 1]
      OBVIOUS
    <3>2. p[j] = g[j]
      BY <2>6, <3>1
    <3>3. j + 1 \in 0 .. m /\ j + 1 # 0 /\ j + 1 \in 1 .. n /\ (j + 1) - 1 = j
      BY <3>1
    <3>4. p[j + 1] = gfMul(p[j], f[j + 1])
      BY <2>4, <3>3
    <3>5. g[j + 1] = gfMul(g[j], f[j + 1])
      BY <1>3, <3>3
    <3> QED
      BY <3>2, <3>4, <3>5
  <2>7. Nat \subseteq T
    <3> HIDE DEF T
    <3> QED
      BY <2>5, <2>6, SetInduction
  <2>8. m \in Nat /\ m <= m
    OBVIOUS
  <2> QED
    BY <2>3, <2>7, <2>8
<1>5. ASSUME NEW m \in 1 .. n PROVE gfProduct(f, m) = gfMul(gfProduct(f, m - 1), f[m])
  <2>1. m \in 0 .. n /\ m - 1 \in 0 .. n
    OBVIOUS
  <2> QED
    BY <1>3, <1>4, <2>1
<1>6. 0 \in 0 .. n
  OBVIOUS
<1> QED
  BY <1>2, <1>4, <1>5, <1>6

\* What the loop of evalPoly computes: the values of the ends of the
\* polynomial, from the last coefficient down.
IsHorner(out, poly, x, L) ==
    /\ out \in [1 .. L + 1 -> Byte]
    /\ out[L + 1] = 0
    /\ \A i \in 1 .. L : out[i] = gfAdd(gfMul(out[i + 1], x), poly[i])
HornerRun(out, poly, x, L) ==
    out = [i \in 1 .. L + 1 |->
             IF i = L + 1 THEN 0 ELSE gfAdd(gfMul(out[i + 1], x), poly[i])]

\* The loop of evalPoly has values.
LEMMA HornerExists ==
    ASSUME NEW L \in Nat, NEW poly \in [1 .. L -> Byte], NEW x \in Byte
    PROVE  \E out : IsHorner(out, poly, x, L)
<1> DEFINE F == [j \in 1 .. L |-> [v \in Byte |-> gfAdd(gfMul(v, x), poly[(L + 1) - j])]]
<1>1. F \in [1 .. L -> [Byte -> Byte]] /\ 0 \in Byte
  <2>1. \A j \in 1 .. L : poly[(L + 1) - j] \in Byte
    <3>1. \A j \in 1 .. L : (L + 1) - j \in 1 .. L
      OBVIOUS
    <3> QED
      BY <3>1
  <2>2. \A v \in Byte, c \in Byte : gfAdd(gfMul(v, x), c) \in Byte
    BY MulLaws, AddLaws
  <2> QED
    BY <2>1, <2>2, Bytes
<1>2. PICK g \in [0 .. L -> Byte] : g[0] = 0 /\ \A j \in 1 .. L : g[j] = F[j][g[j - 1]]
  <2> HIDE DEF F
  <2>1. Loops(Byte, 0, L, F)
    BY <1>1, LoopExists
  <2> QED
    BY <2>1 DEF Loops
<1> DEFINE out == [i \in 1 .. L + 1 |-> g[(L + 1) - i]]
<1>3. out \in [1 .. L + 1 -> Byte]
  <2>1. \A i \in 1 .. L + 1 : (L + 1) - i \in 0 .. L
    OBVIOUS
  <2> QED
    BY <2>1
<1>4. out[L + 1] = 0
  <2>1. L + 1 \in 1 .. L + 1 /\ (L + 1) - (L + 1) = 0
    OBVIOUS
  <2>2. out[L + 1] = g[0]
    BY <2>1
  <2> QED
    BY <1>2, <2>2
<1>5. ASSUME NEW i \in 1 .. L PROVE out[i] = gfAdd(gfMul(out[i + 1], x), poly[i])
  <2>1. PICK j \in 1 .. L : j = (L + 1) - i
    OBVIOUS
  <2>2. (L + 1) - j = i /\ (L + 1) - (i + 1) = j - 1 /\ i \in 1 .. L + 1 /\ i + 1 \in 1 .. L + 1
        /\ j - 1 \in 0 .. L
    BY <2>1
  <2>3. out[i] = g[j] /\ out[i + 1] = g[j - 1] /\ g[j - 1] \in Byte
    BY <2>1, <2>2
  <2>4. F[j][g[j - 1]] = gfAdd(gfMul(g[j - 1], x), poly[i])
    BY <2>2, <2>3
  <2> HIDE DEF F, out
  <2> QED
    BY <1>2, <2>3, <2>4
<1> HIDE DEF out
<1> QED
  BY <1>3, <1>4, <1>5 DEF IsHorner

\* Whatever goes through the steps of that loop ends in what it returns.
LEMMA HornerIs ==
    ASSUME NEW L \in Nat, NEW poly \in [1 .. L -> Byte], NEW x,
           NEW out, IsHorner(out, poly, x, L)
    PROVE  evalPoly(poly, x) = out[1] /\ out[1] \in Byte
<1> DEFINE p == CHOOSE q : HornerRun(q, poly, x, L)
<1>0. /\ out \in [1 .. L + 1 -> Byte]
      /\ out[L + 1] = 0
      /\ \A i \in 1 .. L : out[i] = gfAdd(gfMul(out[i + 1], x), poly[i])
  BY DEF IsHorner
<1>1. HornerRun(out, poly, x, L)
  <2>1. ASSUME NEW i \in 1 .. L + 1
        PROVE  out[i] = IF i = L + 1 THEN 0 ELSE gfAdd(gfMul(out[i + 1], x), poly[i])
    BY <1>0
  <2>2. out = [i \in 1 .. L + 1 |-> out[i]]
    BY <1>0
  <2> QED
    BY <2>1, <2>2 DEF HornerRun
<1>2. HornerRun(p, poly, x, L)
  BY <1>1, Zenon
<1>3. evalPoly(poly, x) = p[1]
  <2>1. Len(poly) = L
    OBVIOUS
  <2> QED
    BY <2>1, Zenon DEF evalPoly, HornerRun
<1> HIDE DEF p
<1>4. p = [i \in 1 .. L + 1 |->
             IF i = L + 1 THEN 0 ELSE gfAdd(gfMul(p[i + 1], x), poly[i])]
  BY <1>2 DEF HornerRun
<1> DEFINE T == {j \in Nat : j <= L => p[(L + 1) - j] = out[(L + 1) - j]}
<1>5. 0 \in T
  <2>1. L + 1 \in 1 .. L + 1 /\ (L + 1) - 0 = L + 1
    OBVIOUS
  <2>2. p[L + 1] = 0
    BY <1>4, <2>1
  <2> QED
    BY <1>0, <2>1, <2>2
<1>6. ASSUME NEW j \in Nat, j \in T PROVE j + 1 \in T
  <2>1. SUFFICES ASSUME j + 1 <= L PROVE p[(L + 1) - (j + 1)] = out[(L + 1) - (j + 1)]
    OBVIOUS
  <2>2. PICK i \in 1 .. L : i = (L + 1) - (j + 1)
    BY <2>1
  <2>3. i + 1 = (L + 1) - j /\ i \in 1 .. L + 1 /\ i # L + 1
    BY <2>1, <2>2
  <2>4. p[i + 1] = out[i + 1]
    BY <1>6, <2>1, <2>3
  <2>5. p[i] = gfAdd(gfMul(p[i + 1], x), poly[i])
    BY <1>4, <2>3
  <2>6. p[i] = out[i]
    BY <1>0, <2>4, <2>5
  <2> QED
    BY <2>2, <2>6
<1>7. Nat \subseteq T
  <2> HIDE DEF T
  <2> QED
    BY <1>5, <1>6, SetInduction
<1>8. p[(L + 1) - L] = out[(L + 1) - L] /\ (L + 1) - L = 1 /\ 1 \in 1 .. L + 1
  BY <1>7
<1> QED
  BY <1>0, <1>3, <1>8

\* The first m terms of h are sums, or multiples.
AddedUp(h, f, g, m) == \A j \in 1 .. m : h[j] = gfAdd(f[j], g[j])
Scaled(h, c, f, m)  == \A j \in 1 .. m : h[j] = gfMul(c, f[j])

\* Sums of sums of terms and of multiples.
LEMMA SumLaws ==
    ASSUME NEW n \in Nat, NEW f \in [1 .. n -> Byte], NEW g \in [1 .. n -> Byte],
           NEW h \in [1 .. n -> Byte], NEW c \in Byte, NEW m \in 0 .. n
    PROVE  /\ AddedUp(h, f, g, m) => gfSum(h, m) = gfAdd(gfSum(f, m), gfSum(g, m))
           /\ Scaled(h, c, f, m) => gfSum(h, m) = gfMul(c, gfSum(f, m))
<1>0. /\ gfSum(f, 0) = 0 /\ gfSum(g, 0) = 0 /\ gfSum(h, 0) = 0
      /\ \A i \in 0 .. n : gfSum(f, i) \in Byte /\ gfSum(g, i) \in Byte
      /\ \A i \in 1 .. n : /\ gfSum(f, i) = gfAdd(gfSum(f, i - 1), f[i])
                           /\ gfSum(g, i) = gfAdd(gfSum(g, i - 1), g[i])
                           /\ gfSum(h, i) = gfAdd(gfSum(h, i - 1), h[i])
  BY SumSteps
<1>2. ASSUME \A j \in 1 .. m : h[j] = gfAdd(f[j], g[j])
      PROVE  gfSum(h, m) = gfAdd(gfSum(f, m), gfSum(g, m))
  <2> DEFINE T == {i \in Nat : i <= m => gfSum(h, i) = gfAdd(gfSum(f, i), gfSum(g, i))}
  <2>1. 0 \in T
    <3>1. gfAdd(0, 0) = 0
      BY AddLaws, Bytes
    <3> QED
      BY <1>0, <3>1
  <2>2. ASSUME NEW i \in Nat, i \in T PROVE i + 1 \in T
    <3>1. SUFFICES ASSUME i + 1 <= m
                   PROVE  gfSum(h, i + 1) = gfAdd(gfSum(f, i + 1), gfSum(g, i + 1))
      OBVIOUS
    <3>2. i + 1 \in 1 .. n /\ i + 1 \in 1 .. m /\ (i + 1) - 1 = i /\ i \in 0 .. n
      BY <3>1
    <3>3. gfSum(h, i) = gfAdd(gfSum(f, i), gfSum(g, i))
      BY <2>2, <3>1
    <3>4. /\ gfSum(h, i + 1) = gfAdd(gfSum(h, i), gfAdd(f[i + 1], g[i + 1]))
          /\ gfSum(f, i + 1) = gfAdd(gfSum(f, i), f[i + 1])
          /\ gfSum(g, i + 1) = gfAdd(gfSum(g, i), g[i + 1])
      BY <1>0, <1>2, <3>2
    <3>5. /\ gfSum(f, i) \in Byte /\ gfSum(g, i) \in Byte
          /\ f[i + 1] \in Byte /\ g[i + 1] \in Byte
      BY <1>0, <3>2
    <3> QED
      BY <3>3, <3>4, <3>5, Regroup
  <2>3. Nat \subseteq T
    <3> HIDE DEF T
    <3> QED
      BY <2>1, <2>2, SetInduction
  <2> QED
    BY <2>3
<1>3. ASSUME \A j \in 1 .. m : h[j] = gfMul(c, f[j])
      PROVE  gfSum(h, m) = gfMul(c, gfSum(f, m))
  <2> DEFINE T == {i \in Nat : i <= m => gfSum(h, i) = gfMul(c, gfSum(f, i))}
  <2>1. 0 \in T
    BY <1>0, MulZero
  <2>2. ASSUME NEW i \in Nat, i \in T PROVE i + 1 \in T
    <3>1. SUFFICES ASSUME i + 1 <= m PROVE gfSum(h, i + 1) = gfMul(c, gfSum(f, i + 1))
      OBVIOUS
    <3>2. i + 1 \in 1 .. n /\ i + 1 \in 1 .. m /\ (i + 1) - 1 = i /\ i \in 0 .. n
      BY <3>1
    <3>3. gfSum(h, i) = gfMul(c, gfSum(f, i))
      BY <2>2, <3>1
    <3>4. /\ gfSum(h, i + 1) = gfAdd(gfSum(h, i), gfMul(c, f[i + 1]))
          /\ gfSum(f, i + 1) = gfAdd(gfSum(f, i), f[i + 1])
      BY <1>0, <1>3, <3>2
    <3>5. gfSum(f, i) \in Byte /\ f[i + 1] \in Byte
      BY <1>0, <3>2
    <3> QED
      BY <3>3, <3>4, <3>5, Distributes
  <2>3. Nat \subseteq T
    <3> HIDE DEF T
    <3> QED
      BY <2>1, <2>2, SetInduction
  <2> QED
    BY <2>3
<1> QED
  BY <1>2, <1>3 DEF AddedUp, Scaled

\* A sum of sums.
LEMMA SumAdd ==
    ASSUME NEW n \in Nat, NEW f \in [1 .. n -> Byte], NEW g \in [1 .. n -> Byte],
           NEW h \in [1 .. n -> Byte], NEW m \in 0 .. n, AddedUp(h, f, g, m)
    PROVE  gfSum(h, m) = gfAdd(gfSum(f, m), gfSum(g, m))
<1>1. 0 \in Byte
  BY Bytes
<1> QED
  BY <1>1, SumLaws

\* A sum of multiples.
LEMMA SumScale ==
    ASSUME NEW n \in Nat, NEW f \in [1 .. n -> Byte], NEW h \in [1 .. n -> Byte],
           NEW c \in Byte, NEW m \in 0 .. n, Scaled(h, c, f, m)
    PROVE  gfSum(h, m) = gfMul(c, gfSum(f, m))
BY SumLaws

\* Factors may be regrouped.
LEMMA MulRegroup ==
    ASSUME NEW a \in Byte, NEW b \in Byte, NEW c \in Byte, NEW d \in Byte
    PROVE  gfMul(gfMul(a, b), gfMul(c, d)) = gfMul(gfMul(a, c), gfMul(b, d))
<1>1. gfMul(c, d) \in Byte /\ gfMul(b, d) \in Byte
  BY MulLaws
<1>2. gfMul(gfMul(a, b), gfMul(c, d)) = gfMul(a, gfMul(b, gfMul(c, d)))
  BY <1>1, MulAssoc
<1>3. gfMul(b, gfMul(c, d)) = gfMul(c, gfMul(b, d))
  <2>1. gfMul(b, gfMul(c, d)) = gfMul(gfMul(b, c), d)
    BY MulAssoc
  <2>2. gfMul(c, gfMul(b, d)) = gfMul(gfMul(c, b), d)
    BY MulAssoc
  <2>3. gfMul(b, c) = gfMul(c, b)
    BY MulLaws
  <2> QED
    BY <2>1, <2>2, <2>3
<1>4. gfMul(gfMul(a, c), gfMul(b, d)) = gfMul(a, gfMul(c, gfMul(b, d)))
  BY <1>1, MulAssoc
<1> QED
  BY <1>2, <1>3, <1>4

\* An inverse is unique.
LEMMA InverseIs ==
    ASSUME NEW a \in Byte, NEW b \in Byte, gfMul(a, b) = 1
    PROVE  b = gfInv(a)
<1>1. a # 0
  <2>1. 1 # 0
    OBVIOUS
  <2> QED
    BY <2>1, MulZero
<1>2. gfInv(a) \in Byte /\ gfMul(a, gfInv(a)) = 1
  BY <1>1, MulInverse
<1>3. gfMul(gfInv(a), gfMul(a, b)) = gfMul(gfMul(gfInv(a), a), b)
  BY <1>2, MulAssoc
<1>4. gfMul(gfInv(a), a) = 1
  BY <1>2, MulLaws
<1> QED
  BY <1>2, <1>3, <1>4, MulOne

\* A fraction.
Quot(a, b) == gfMul(a, gfInv(b))

\* Fractions are multiplied above and below.
LEMMA QuotLaws ==
    ASSUME NEW a \in Byte, NEW b \in Byte, b # 0
    PROVE  /\ Quot(a, b) \in Byte
           /\ Quot(b, b) = 1
           /\ gfMul(b, Quot(a, b)) = a
           /\ \A c, d \in Byte : d # 0 =>
                 Quot(gfMul(a, c), gfMul(b, d)) = gfMul(Quot(a, b), Quot(c, d))
<1>1. gfInv(b) \in Byte /\ gfMul(b, gfInv(b)) = 1
  BY MulInverse
<1>2. Quot(a, b) \in Byte /\ Quot(b, b) = 1
  BY <1>1, MulLaws DEF Quot
<1>3. gfMul(b, Quot(a, b)) = a
  <2>1. gfMul(b, gfMul(a, gfInv(b))) = gfMul(gfMul(b, a), gfInv(b))
    BY <1>1, MulAssoc
  <2>2. gfMul(gfMul(a, b), gfInv(b)) = gfMul(a, gfMul(b, gfInv(b)))
    BY <1>1, MulAssoc
  <2>3. gfMul(a, b) = gfMul(b, a) /\ gfMul(a, 1) = a
    BY MulLaws, MulOne
  <2> QED
    BY <1>1, <2>1, <2>2, <2>3 DEF Quot
<1>4. ASSUME NEW c \in Byte, NEW d \in Byte, d # 0
      PROVE  Quot(gfMul(a, c), gfMul(b, d)) = gfMul(Quot(a, b), Quot(c, d))
  <2>1. gfInv(d) \in Byte /\ gfMul(d, gfInv(d)) = 1
    BY <1>4, MulInverse
  <2>2. gfMul(b, d) \in Byte /\ gfMul(gfInv(b), gfInv(d)) \in Byte
    BY <1>1, <2>1, MulLaws
  <2>3. gfMul(gfMul(b, d), gfMul(gfInv(b), gfInv(d))) = gfMul(1, 1)
    BY <1>1, <2>1, MulRegroup
  <2>4. gfMul(1, 1) = 1
    BY MulOne, Bytes
  <2>5. gfInv(gfMul(b, d)) = gfMul(gfInv(b), gfInv(d))
    BY <2>2, <2>3, <2>4, InverseIs
  <2>6. gfMul(gfMul(a, c), gfMul(gfInv(b), gfInv(d)))
          = gfMul(gfMul(a, gfInv(b)), gfMul(c, gfInv(d)))
    BY <1>1, <2>1, MulRegroup
  <2> QED
    BY <2>5, <2>6 DEF Quot
<1> QED
  BY <1>2, <1>3, <1>4

\* Products of the same factors, and of fractions.
LEMMA ProductLaws ==
    ASSUME NEW n \in Nat, NEW f \in [1 .. n -> Byte], NEW g \in [1 .. n -> Byte],
           NEW h \in [1 .. n -> Byte], NEW m \in 0 .. n
    PROVE  /\ (\A j \in 1 .. m : f[j] = g[j]) => gfProduct(f, m) = gfProduct(g, m)
           /\ (\A j \in 1 .. m : g[j] # 0 /\ h[j] = Quot(f[j], g[j]))
                 => /\ gfProduct(g, m) # 0
                    /\ gfProduct(h, m) = Quot(gfProduct(f, m), gfProduct(g, m))
<1>0. /\ gfProduct(f, 0) = 1 /\ gfProduct(g, 0) = 1 /\ gfProduct(h, 0) = 1
      /\ \A i \in 0 .. n : gfProduct(f, i) \in Byte /\ gfProduct(g, i) \in Byte
      /\ \A i \in 1 .. n : /\ gfProduct(f, i) = gfMul(gfProduct(f, i - 1), f[i])
                           /\ gfProduct(g, i) = gfMul(gfProduct(g, i - 1), g[i])
                           /\ gfProduct(h, i) = gfMul(gfProduct(h, i - 1), h[i])
  BY ProductSteps
<1>1. ASSUME \A j \in 1 .. m : f[j] = g[j] PROVE gfProduct(f, m) = gfProduct(g, m)
  <2> DEFINE T == {i \in Nat : i <= m => gfProduct(f, i) = gfProduct(g, i)}
  <2>1. 0 \in T
    BY <1>0
  <2>2. ASSUME NEW i \in Nat, i \in T PROVE i + 1 \in T
    <3>1. SUFFICES ASSUME i + 1 <= m PROVE gfProduct(f, i + 1) = gfProduct(g, i + 1)
      OBVIOUS
    <3>2. i + 1 \in 1 .. n /\ i + 1 \in 1 .. m /\ (i + 1) - 1 = i
      BY <3>1
    <3>3. gfProduct(f, i) = gfProduct(g, i)
      BY <2>2, <3>1
    <3> QED
      BY <1>0, <1>1, <3>2, <3>3
  <2>3. Nat \subseteq T
    <3> HIDE DEF T
    <3> QED
      BY <2>1, <2>2, SetInduction
  <2> QED
    BY <2>3
<1>2. ASSUME \A j \in 1 .. m : g[j] # 0 /\ h[j] = Quot(f[j], g[j])
      PROVE  /\ gfProduct(g, m) # 0
             /\ gfProduct(h, m) = Quot(gfProduct(f, m), gfProduct(g, m))
  <2> DEFINE P(i) == /\ gfProduct(g, i) # 0
                     /\ gfProduct(h, i) = Quot(gfProduct(f, i), gfProduct(g, i))
             T == {i \in Nat : i <= m => P(i)}
  <2>1. 0 \in T
    <3>1. 1 \in Byte /\ 1 # 0
      BY Bytes
    <3>2. Quot(1, 1) = 1
      BY <3>1, QuotLaws
    <3> QED
      BY <1>0, <3>1, <3>2
  <2>2. ASSUME NEW i \in Nat, i \in T PROVE i + 1 \in T
    <3>1. SUFFICES ASSUME i + 1 <= m PROVE P(i + 1)
      OBVIOUS
    <3>2. i + 1 \in 1 .. n /\ i + 1 \in 1 .. m /\ (i + 1) - 1 = i /\ i \in 0 .. n
      BY <3>1
    <3>3. P(i)
      BY <2>2, <3>1
    <3>4. /\ gfProduct(f, i + 1) = gfMul(gfProduct(f, i), f[i + 1])
          /\ gfProduct(g, i + 1) = gfMul(gfProduct(g, i), g[i + 1])
          /\ gfProduct(h, i + 1) = gfMul(gfProduct(h, i), Quot(f[i + 1], g[i + 1]))
          /\ g[i + 1] # 0
      BY <1>0, <1>2, <3>2
    <3>5. /\ gfProduct(f, i) \in Byte /\ gfProduct(g, i) \in Byte
          /\ f[i + 1] \in Byte /\ g[i + 1] \in Byte
      BY <1>0, <3>2
    <3>6. gfMul(gfProduct(g, i), g[i + 1]) # 0
      BY <3>3, <3>4, <3>5, MulLaws
    <3> QED
      BY <3>3, <3>4, <3>5, <3>6, QuotLaws
  <2>3. Nat \subseteq T
    <3> HIDE DEF T
    <3> QED
      BY <2>1, <2>2, SetInduction
  <2> QED
    BY <2>3
<1> QED
  BY <1>1, <1>2

\* The first m factors of h are fractions.
Fractions(h, f, g, m) == \A j \in 1 .. m : g[j] # 0 /\ h[j] = Quot(f[j], g[j])

\* A product of fractions is a fraction of products.
LEMMA ProductQuot ==
    ASSUME NEW n \in Nat, NEW f \in [1 .. n -> Byte], NEW g \in [1 .. n -> Byte],
           NEW h \in [1 .. n -> Byte], Fractions(h, f, g, n)
    PROVE  /\ gfProduct(g, n) # 0
           /\ gfProduct(h, n) = Quot(gfProduct(f, n), gfProduct(g, n))
<1>1. n \in 0 .. n
  OBVIOUS
<1>2. Fractions(h, f, g, n) => /\ gfProduct(g, n) # 0
                               /\ gfProduct(h, n) = Quot(gfProduct(f, n), gfProduct(g, n))
  BY <1>1, ProductLaws DEF Fractions
<1> QED
  BY <1>2

-----------------------------------------------------------------------------
(* Lagrange interpolation at 0 *)

\* Different bytes have a sum that is not 0.
LEMMA AddNonZero ==
    ASSUME NEW a \in Byte, NEW b \in Byte, gfAdd(a, b) = 0
    PROVE  a = b
<1>1. gfAdd(gfAdd(a, b), b) = gfAdd(a, gfAdd(b, b))
  BY AddLaws
<1>2. gfAdd(b, b) = 0 /\ gfAdd(a, 0) = a
  BY AddLaws
<1>3. gfAdd(0, b) = b
  <2>1. 0 \in Byte
    BY Bytes
  <2>2. gfAdd(0, b) = gfAdd(b, 0) /\ gfAdd(b, 0) = b
    BY <2>1, AddLaws
  <2> QED
    BY <2>2
<1> QED
  BY <1>1, <1>2, <1>3

\* The other distributive law.
LEMMA DistributesRight ==
    ASSUME NEW a \in Byte, NEW b \in Byte, NEW c \in Byte
    PROVE  gfMul(gfAdd(b, c), a) = gfAdd(gfMul(b, a), gfMul(c, a))
<1>1. gfAdd(b, c) \in Byte
  BY AddLaws
<1>2. gfMul(gfAdd(b, c), a) = gfMul(a, gfAdd(b, c))
  BY <1>1, MulLaws
<1>3. gfMul(b, a) = gfMul(a, b) /\ gfMul(c, a) = gfMul(a, c)
  BY MulLaws
<1> QED
  BY <1>2, <1>3, Distributes

\* The inverse of 0 is a byte, too.
LEMMA QuotType == ASSUME NEW a \in Byte, NEW b \in Byte PROVE Quot(a, b) \in Byte
<1>1. gfInv(b) \in Byte
  <2>1. CASE b = 0
    BY <2>1, Bytes DEF gfInv
  <2>2. CASE b # 0
    BY <2>2, MulInverse
  <2> QED
    BY <2>1, <2>2
<1> QED
  BY <1>1, MulLaws DEF Quot

\* If s + t = r, then 1/s * 1/t = 1/s * 1/r + 1/t * 1/r.
LEMMA Inverses ==
    ASSUME NEW s \in Byte, NEW t \in Byte, NEW r \in Byte, s # 0, t # 0, r # 0,
           gfAdd(s, t) = r
    PROVE  gfMul(gfInv(s), gfInv(t))
             = gfAdd(gfMul(gfInv(s), gfInv(r)), gfMul(gfInv(t), gfInv(r)))
<1>1. PICK u \in Byte : u = gfInv(s) /\ gfMul(s, u) = 1
  BY MulInverse
<1>2. PICK v \in Byte : v = gfInv(t) /\ gfMul(t, v) = 1
  BY MulInverse
<1>3. PICK w \in Byte : w = gfInv(r) /\ gfMul(r, w) = 1
  BY MulInverse
<1>4. gfMul(u, v) \in Byte /\ gfMul(v, u) = gfMul(u, v)
  BY MulLaws
<1>5. gfMul(gfMul(u, v), s) = v
  <2>1. gfMul(gfMul(v, u), s) = gfMul(v, gfMul(u, s))
    BY MulAssoc
  <2>2. gfMul(u, s) = 1
    BY <1>1, MulLaws
  <2> QED
    BY <1>4, <2>1, <2>2, MulOne
<1>6. gfMul(gfMul(u, v), t) = u
  <2>1. gfMul(gfMul(u, v), t) = gfMul(u, gfMul(v, t))
    BY MulAssoc
  <2>2. gfMul(v, t) = 1
    BY <1>2, MulLaws
  <2> QED
    BY <2>1, <2>2, MulOne
<1>7. gfMul(gfMul(u, v), r) = gfAdd(v, u)
  BY <1>4, <1>5, <1>6, Distributes
<1>8. gfMul(gfMul(gfMul(u, v), r), w) = gfMul(u, v)
  <2>1. gfMul(gfMul(gfMul(u, v), r), w) = gfMul(gfMul(u, v), gfMul(r, w))
    BY <1>4, MulAssoc
  <2> QED
    BY <1>3, <1>4, <2>1, MulOne
<1>9. gfMul(gfAdd(v, u), w) = gfAdd(gfMul(v, w), gfMul(u, w))
  BY DistributesRight
<1>10. gfAdd(gfMul(v, w), gfMul(u, w)) = gfAdd(gfMul(u, w), gfMul(v, w))
  <2>1. gfMul(v, w) \in Byte /\ gfMul(u, w) \in Byte
    BY MulLaws
  <2> QED
    BY <2>1, AddLaws
<1> QED
  BY <1>1, <1>2, <1>3, <1>7, <1>8, <1>9, <1>10

\* Two poles of a fraction are split.
LEMMA TwoPoles ==
    ASSUME NEW a \in Byte, NEW c \in Byte, NEW z \in Byte, a # c, a # z, c # z
    PROVE  gfMul(Quot(a, gfAdd(a, z)), Quot(c, gfAdd(c, z)))
             = gfAdd(gfMul(Quot(c, gfAdd(a, c)), Quot(a, gfAdd(a, z))),
                     gfMul(Quot(c, gfAdd(c, z)), Quot(a, gfAdd(a, c))))
<1>1. PICK s \in Byte : s = gfAdd(a, z) /\ s # 0
  BY AddLaws, AddNonZero
<1>2. PICK t \in Byte : t = gfAdd(c, z) /\ t # 0
  BY AddLaws, AddNonZero
<1>3. PICK r \in Byte : r = gfAdd(a, c) /\ r # 0
  BY AddLaws, AddNonZero
<1>4. gfAdd(s, t) = r
  <2>1. gfAdd(gfAdd(a, z), gfAdd(c, z)) = gfAdd(gfAdd(a, c), gfAdd(z, z))
    BY Regroup
  <2>2. gfAdd(z, z) = 0 /\ gfAdd(gfAdd(a, c), 0) = gfAdd(a, c)
    BY <1>3, AddLaws
  <2> QED
    BY <1>1, <1>2, <1>3, <2>1, <2>2
<1>5. PICK u \in Byte : u = gfInv(s)
  BY <1>1, MulInverse
<1>6. PICK v \in Byte : v = gfInv(t)
  BY <1>2, MulInverse
<1>7. PICK w \in Byte : w = gfInv(r)
  BY <1>3, MulInverse
<1>8. gfMul(u, v) = gfAdd(gfMul(u, w), gfMul(v, w))
  BY <1>1, <1>2, <1>3, <1>4, <1>5, <1>6, <1>7, Inverses
<1>9. PICK p \in Byte : p = gfMul(a, c) /\ p = gfMul(c, a)
  BY MulLaws
<1>10. gfMul(gfMul(a, u), gfMul(c, v)) = gfMul(p, gfMul(u, v))
  <2>1. gfMul(gfMul(a, u), gfMul(c, v)) = gfMul(gfMul(a, c), gfMul(u, v))
    BY MulRegroup
  <2> QED
    BY <1>9, <2>1
<1>11. gfMul(gfMul(c, w), gfMul(a, u)) = gfMul(p, gfMul(u, w))
  <2>1. gfMul(gfMul(c, w), gfMul(a, u)) = gfMul(gfMul(c, a), gfMul(w, u))
    BY MulRegroup
  <2>2. gfMul(w, u) = gfMul(u, w)
    BY MulLaws
  <2> QED
    BY <1>9, <2>1, <2>2
<1>12. gfMul(gfMul(c, v), gfMul(a, w)) = gfMul(p, gfMul(v, w))
  <2>1. gfMul(gfMul(c, v), gfMul(a, w)) = gfMul(gfMul(c, a), gfMul(v, w))
    BY MulRegroup
  <2> QED
    BY <1>9, <2>1
<1>13. gfMul(p, gfAdd(gfMul(u, w), gfMul(v, w)))
         = gfAdd(gfMul(p, gfMul(u, w)), gfMul(p, gfMul(v, w)))
  <2>1. gfMul(u, w) \in Byte /\ gfMul(v, w) \in Byte
    BY MulLaws
  <2> QED
    BY <2>1, Distributes
<1> QED
  BY <1>1, <1>2, <1>3, <1>5, <1>6, <1>7, <1>8, <1>10, <1>11, <1>12, <1>13 DEF Quot

\* The indices of k shares: different, and none of them 0.
Nodes(x, k) ==
    /\ x \in [1 .. k -> Byte]
    /\ \A j \in 1 .. k : x[j] # 0
    /\ \A i, j \in 1 .. k : x[i] = x[j] => i = j

\* The i-th Lagrange polynomial at 0 of the first m nodes, as a product of
\* fractions; and the fractions with a pole at z.
Ratios(x, i, k)  == [j \in 1 .. k |-> IF j = i THEN 1 ELSE Quot(x[j], gfAdd(x[i], x[j]))]
Lagrange(x, i, m, k) == gfProduct(Ratios(x, i, k), m)
Poles(x, z, k)   == [j \in 1 .. k |-> Quot(x[j], gfAdd(x[j], z))]
Terms(x, z, m, k) == [i \in 1 .. k |-> gfMul(Lagrange(x, i, m, k), Quot(x[i], gfAdd(x[i], z)))]

\* Their types, and how a Lagrange polynomial grows with the nodes.
LEMMA LagrangeSteps ==
    ASSUME NEW k \in Nat, NEW x, Nodes(x, k), NEW i \in 1 .. k
    PROVE  /\ Ratios(x, i, k) \in [1 .. k -> Byte]
           /\ Lagrange(x, i, 0, k) = 1
           /\ \A m \in 0 .. k : Lagrange(x, i, m, k) \in Byte
           /\ \A m \in 1 .. k : Lagrange(x, i, m, k)
                 = gfMul(Lagrange(x, i, m - 1, k),
                         IF m = i THEN 1 ELSE Quot(x[m], gfAdd(x[i], x[m])))
<1>1. Ratios(x, i, k) \in [1 .. k -> Byte]
  <2>1. ASSUME NEW j \in 1 .. k PROVE Quot(x[j], gfAdd(x[i], x[j])) \in Byte /\ 1 \in Byte
    <3>1. x[i] \in Byte /\ x[j] \in Byte
      BY DEF Nodes
    <3>2. gfAdd(x[i], x[j]) \in Byte
      BY <3>1, AddLaws
    <3> QED
      BY <3>1, <3>2, QuotType, Bytes
  <2> QED
    BY <2>1 DEF Ratios
<1>2. \A m \in 1 .. k : Ratios(x, i, k)[m] = IF m = i THEN 1 ELSE Quot(x[m], gfAdd(x[i], x[m]))
  BY DEF Ratios
<1> QED
  BY <1>1, <1>2, ProductSteps DEF Lagrange

\* The fractions with a pole and the terms of their sum are bytes.
LEMMA PoleTypes ==
    ASSUME NEW k \in Nat, NEW x, Nodes(x, k), NEW z \in Byte, NEW m \in 0 .. k
    PROVE  /\ Poles(x, z, k) \in [1 .. k -> Byte]
           /\ Terms(x, z, m, k) \in [1 .. k -> Byte]
           /\ \A i \in 1 .. k : x[i] \in Byte /\ Quot(x[i], gfAdd(x[i], z)) \in Byte
<1>1. ASSUME NEW i \in 1 .. k PROVE x[i] \in Byte /\ Quot(x[i], gfAdd(x[i], z)) \in Byte
  <2>1. x[i] \in Byte
    BY DEF Nodes
  <2>2. gfAdd(x[i], z) \in Byte
    BY <2>1, AddLaws
  <2> QED
    BY <2>1, <2>2, QuotType
<1>2. ASSUME NEW i \in 1 .. k
      PROVE  gfMul(Lagrange(x, i, m, k), Quot(x[i], gfAdd(x[i], z))) \in Byte
  <2>1. Lagrange(x, i, m, k) \in Byte
    BY LagrangeSteps
  <2> QED
    BY <1>1, <2>1, MulLaws
<1> QED
  BY <1>1, <1>2 DEF Poles, Terms

\* The product over the first m nodes of the fractions with a pole at z is
\* their sum, weighted by the Lagrange polynomials.
Splits(x, z, m, k) == gfProduct(Poles(x, z, k), m) = gfSum(Terms(x, z, m, k), m)
Apart(x, z, m)     == \A j \in 1 .. m : x[j] # z

\* The partial fractions of one node.
LEMMA SplitsOne ==
    ASSUME NEW k \in Nat, 1 <= k, NEW x, Nodes(x, k), NEW z \in Byte
    PROVE  Splits(x, z, 1, k)
<1>1. 1 \in 1 .. k /\ 1 \in 0 .. k /\ 1 - 1 = 0
  OBVIOUS
<1>2. Poles(x, z, k) \in [1 .. k -> Byte] /\ Terms(x, z, 1, k) \in [1 .. k -> Byte]
  BY <1>1, PoleTypes
<1>3. PICK q \in Byte : q = Quot(x[1], gfAdd(x[1], z))
  BY <1>1, PoleTypes
<1>4. Lagrange(x, 1, 1, k) = 1
  <2>1. Lagrange(x, 1, 1, k) = gfMul(Lagrange(x, 1, 0, k), 1) /\ Lagrange(x, 1, 0, k) = 1
    BY <1>1, LagrangeSteps
  <2>2. gfMul(1, 1) = 1
    BY MulOne, Bytes
  <2> QED
    BY <2>1, <2>2
<1>5. gfProduct(Poles(x, z, k), 1) = gfMul(1, q)
  <2>1. Poles(x, z, k)[1] = q
    BY <1>1, <1>3 DEF Poles
  <2>2. /\ gfProduct(Poles(x, z, k), 0) = 1
        /\ gfProduct(Poles(x, z, k), 1) = gfMul(gfProduct(Poles(x, z, k), 0), Poles(x, z, k)[1])
    BY <1>1, <1>2, ProductSteps
  <2> QED
    BY <2>1, <2>2
<1>6. gfSum(Terms(x, z, 1, k), 1) = gfAdd(0, gfMul(1, q))
  <2>1. Terms(x, z, 1, k)[1] = gfMul(1, q)
    BY <1>1, <1>3, <1>4 DEF Terms
  <2>2. /\ gfSum(Terms(x, z, 1, k), 0) = 0
        /\ gfSum(Terms(x, z, 1, k), 1) = gfAdd(gfSum(Terms(x, z, 1, k), 0), Terms(x, z, 1, k)[1])
    BY <1>1, <1>2, SumSteps
  <2> QED
    BY <2>1, <2>2
<1>7. gfMul(1, q) = q /\ gfAdd(0, q) = q
  <2>1. 0 \in Byte /\ gfAdd(0, q) = gfAdd(q, 0) /\ gfAdd(q, 0) = q
    BY Bytes, AddLaws
  <2> QED
    BY <2>1, MulOne
<1> QED
  BY <1>5, <1>6, <1>7 DEF Splits

\* The last Lagrange polynomial is a product of fractions with a pole at its
\* own node.
LEMMA LastLagrange ==
    ASSUME NEW k \in Nat, NEW x, Nodes(x, k), NEW m \in 0 .. k, m + 1 <= k
    PROVE  Lagrange(x, m + 1, m + 1, k) = gfProduct(Poles(x, x[m + 1], k), m)
<1>1. PICK n \in 1 .. k : n = m + 1 /\ n - 1 = m
  OBVIOUS
<1>2. /\ Lagrange(x, n, n, k) = gfMul(Lagrange(x, n, m, k), 1)
      /\ Lagrange(x, n, m, k) \in Byte /\ Ratios(x, n, k) \in [1 .. k -> Byte]
  BY <1>1, LagrangeSteps
<1>3. Lagrange(x, n, n, k) = Lagrange(x, n, m, k)
  BY <1>2, MulOne
<1>4. x[n] \in Byte
  BY DEF Nodes
<1>5. Poles(x, x[n], k) \in [1 .. k -> Byte]
  BY <1>4, PoleTypes
<1>6. ASSUME NEW j \in 1 .. m PROVE Ratios(x, n, k)[j] = Poles(x, x[n], k)[j]
  <2>1. j \in 1 .. k /\ j # n
    BY <1>1
  <2>2. x[j] \in Byte
    BY <2>1 DEF Nodes
  <2>3. gfAdd(x[n], x[j]) = gfAdd(x[j], x[n])
    BY <1>4, <2>2, AddLaws
  <2> QED
    BY <2>1, <2>3 DEF Ratios, Poles
<1>7. gfProduct(Ratios(x, n, k), m) = gfProduct(Poles(x, x[n], k), m)
  BY <1>2, <1>5, <1>6, ProductLaws
<1> QED
  BY <1>1, <1>3, <1>7 DEF Lagrange

\* One more node: the pole of each term is separated from the new one.
LEMMA NewPole ==
    ASSUME NEW a \in Byte, NEW c \in Byte, NEW z \in Byte, NEW l \in Byte,
           a # c, a # z, c # z
    PROVE  gfMul(Quot(c, gfAdd(c, z)), gfMul(l, Quot(a, gfAdd(a, z))))
             = gfAdd(gfMul(gfMul(l, Quot(c, gfAdd(a, c))), Quot(a, gfAdd(a, z))),
                     gfMul(Quot(c, gfAdd(c, z)), gfMul(l, Quot(a, gfAdd(a, c)))))
<1>1. gfAdd(a, z) \in Byte /\ gfAdd(c, z) \in Byte /\ gfAdd(a, c) \in Byte
  BY AddLaws
<1>2. PICK p \in Byte : p = Quot(a, gfAdd(a, z))
  BY <1>1, QuotType
<1>3. PICK q \in Byte : q = Quot(c, gfAdd(c, z))
  BY <1>1, QuotType
<1>4. PICK r \in Byte : r = Quot(c, gfAdd(a, c))
  BY <1>1, QuotType
<1>5. PICK s \in Byte : s = Quot(a, gfAdd(a, c))
  BY <1>1, QuotType
<1>6. gfMul(p, q) = gfAdd(gfMul(r, p), gfMul(q, s))
  BY <1>2, <1>3, <1>4, <1>5, TwoPoles
<1>7. gfMul(q, gfMul(l, p)) = gfMul(l, gfMul(p, q))
  <2>1. gfMul(l, p) \in Byte
    BY MulLaws
  <2>2. gfMul(q, gfMul(l, p)) = gfMul(gfMul(l, p), q)
    BY <2>1, MulLaws
  <2> QED
    BY <2>2, MulAssoc
<1>8. gfMul(l, gfAdd(gfMul(r, p), gfMul(q, s)))
        = gfAdd(gfMul(l, gfMul(r, p)), gfMul(l, gfMul(q, s)))
  <2>1. gfMul(r, p) \in Byte /\ gfMul(q, s) \in Byte
    BY MulLaws
  <2> QED
    BY <2>1, Distributes
<1>9. gfMul(l, gfMul(r, p)) = gfMul(gfMul(l, r), p)
  BY MulAssoc
<1>10. gfMul(l, gfMul(q, s)) = gfMul(q, gfMul(l, s))
  <2>1. gfMul(gfMul(l, q), s) = gfMul(l, gfMul(q, s))
    BY MulAssoc
  <2>2. gfMul(gfMul(q, l), s) = gfMul(q, gfMul(l, s))
    BY MulAssoc
  <2>3. gfMul(l, q) = gfMul(q, l)
    BY MulLaws
  <2> QED
    BY <2>1, <2>2, <2>3
<1> QED
  BY <1>2, <1>3, <1>4, <1>5, <1>6, <1>7, <1>8, <1>9, <1>10

\* The induction step of the partial fractions.
LEMMA SplitsNext ==
    ASSUME NEW k \in Nat, NEW x, Nodes(x, k), NEW m \in 1 .. k, m + 1 <= k,
           NEW z \in Byte, Apart(x, z, m + 1),
           Splits(x, z, m, k), Splits(x, x[m + 1], m, k)
    PROVE  Splits(x, z, m + 1, k)
<1>1. PICK n \in 1 .. k : n = m + 1 /\ n - 1 = m
  OBVIOUS
<1>2. m \in 0 .. k /\ n \in 0 .. k
  OBVIOUS
<1>3. PICK c \in Byte : c = x[n]
  BY DEF Nodes
<1>4. PICK q \in Byte : q = Quot(c, gfAdd(c, z))
  BY <1>3, PoleTypes
<1>5. PICK A \in [1 .. k -> Byte] : A = Terms(x, z, m, k)
  BY <1>2, PoleTypes
<1>6. PICK D \in [1 .. k -> Byte] : D = Terms(x, z, n, k)
  BY <1>2, PoleTypes
<1>7. PICK E \in [1 .. k -> Byte] : E = Terms(x, c, m, k)
  BY <1>2, PoleTypes
<1>8. PICK P \in [1 .. k -> Byte] : P = Poles(x, z, k)
  BY <1>2, PoleTypes
<1> DEFINE qA == [i \in 1 .. k |-> gfMul(q, A[i])]
           qE == [i \in 1 .. k |-> gfMul(q, E[i])]
<1>9. qA \in [1 .. k -> Byte] /\ qE \in [1 .. k -> Byte]
  BY MulLaws
<1>10. ASSUME NEW i \in 1 .. m PROVE qA[i] = gfAdd(D[i], qE[i])
  <2>1. i \in 1 .. k /\ i # n
    BY <1>1
  <2>2. PICK a \in Byte : a = x[i]
    BY <2>1 DEF Nodes
  <2>3. a # c /\ a # z /\ c # z
    BY <1>1, <1>3, <2>1, <2>2 DEF Nodes, Apart
  <2>4. PICK l \in Byte : l = Lagrange(x, i, m, k)
    BY <1>2, <2>1, LagrangeSteps
  <2>5. Lagrange(x, i, n, k) = gfMul(l, Quot(c, gfAdd(a, c)))
    <3>1. Lagrange(x, i, n, k)
            = gfMul(Lagrange(x, i, n - 1, k),
                    IF n = i THEN 1 ELSE Quot(x[n], gfAdd(x[i], x[n])))
      BY <2>1, LagrangeSteps
    <3> QED
      BY <1>1, <1>3, <2>1, <2>2, <2>4, <3>1
  <2>6. /\ A[i] = gfMul(l, Quot(a, gfAdd(a, z)))
        /\ D[i] = gfMul(gfMul(l, Quot(c, gfAdd(a, c))), Quot(a, gfAdd(a, z)))
        /\ E[i] = gfMul(l, Quot(a, gfAdd(a, c)))
    BY <1>5, <1>6, <1>7, <2>1, <2>2, <2>4, <2>5 DEF Terms
  <2>7. qA[i] = gfMul(q, A[i]) /\ qE[i] = gfMul(q, E[i])
    BY <2>1
  <2> HIDE DEF qA, qE
  <2> QED
    BY <1>4, <2>3, <2>6, <2>7, NewPole
<1>11. Scaled(qA, q, A, m) /\ Scaled(qE, q, E, m)
  BY DEF Scaled
<1> HIDE DEF qA, qE
<1>12. gfSum(qA, m) = gfAdd(gfSum(D, m), gfSum(qE, m))
  <2>1. AddedUp(qA, D, qE, m)
    BY <1>10 DEF AddedUp
  <2> QED
    BY <1>2, <1>9, <2>1, SumAdd
<1>13. gfSum(qA, m) = gfMul(q, gfSum(A, m))
  BY <1>2, <1>9, <1>11, SumScale
<1>14. gfSum(qE, m) = gfMul(q, gfSum(E, m))
  BY <1>2, <1>9, <1>11, SumScale
<1>15. gfProduct(P, n) = gfMul(q, gfSum(A, m))
  <2>1. gfProduct(P, n) = gfMul(gfProduct(P, m), P[n]) /\ gfProduct(P, m) \in Byte
    BY <1>1, <1>2, ProductSteps
  <2>2. P[n] = q
    BY <1>3, <1>4, <1>8 DEF Poles
  <2>3. gfProduct(P, m) = gfSum(A, m)
    BY <1>5, <1>8 DEF Splits
  <2>4. gfMul(gfProduct(P, m), q) = gfMul(q, gfProduct(P, m))
    BY <2>1, MulLaws
  <2> QED
    BY <2>1, <2>2, <2>3, <2>4
<1>16. D[n] = gfMul(q, gfSum(E, m))
  <2>1. Lagrange(x, n, n, k) = gfProduct(Poles(x, c, k), m)
    BY <1>1, <1>2, <1>3, LastLagrange
  <2>2. gfProduct(Poles(x, c, k), m) = gfSum(E, m)
    BY <1>1, <1>3, <1>7 DEF Splits
  <2>3. D[n] = gfMul(Lagrange(x, n, n, k), q)
    BY <1>3, <1>4, <1>6 DEF Terms
  <2>4. gfSum(E, m) \in Byte
    BY <1>2, SumSteps
  <2>5. gfMul(gfSum(E, m), q) = gfMul(q, gfSum(E, m))
    BY <2>4, MulLaws
  <2> QED
    BY <2>1, <2>2, <2>3, <2>5
<1>17. gfSum(D, n) = gfAdd(gfSum(D, m), D[n])
  BY <1>1, SumSteps
<1> QED
  BY <1>1, <1>6, <1>8, <1>12, <1>13, <1>14, <1>15, <1>16, <1>17 DEF Splits

\* Partial fractions, for every number of nodes.
LEMMA PartialFractions ==
    ASSUME NEW k \in Nat, NEW x, Nodes(x, k)
    PROVE  \A m \in 1 .. k : \A z \in Byte : Apart(x, z, m) => Splits(x, z, m, k)
<1> DEFINE P(m) == \A z \in Byte : Apart(x, z, m) => Splits(x, z, m, k)
           T == {m \in Nat : m \in 1 .. k => P(m)}
<1>1. 0 \in T
  OBVIOUS
<1>2. ASSUME NEW m \in Nat, m \in T PROVE m + 1 \in T
  <2>1. SUFFICES ASSUME m + 1 \in 1 .. k, NEW z \in Byte, Apart(x, z, m + 1)
                 PROVE  Splits(x, z, m + 1, k)
    OBVIOUS
  <2>2. CASE m = 0
    <3>1. 1 <= k /\ m + 1 = 1
      BY <2>1, <2>2
    <3>2. Splits(x, z, 1, k)
      BY <3>1, SplitsOne
    <3> QED
      BY <3>1, <3>2
  <2>3. CASE m # 0
    <3>1. m \in 1 .. k /\ m + 1 <= k
      BY <2>1, <2>3
    <3>2. P(m)
      BY <1>2, <3>1
    <3>3. Splits(x, z, m, k)
      <4>1. Apart(x, z, m)
        BY <2>1 DEF Apart
      <4> QED
        BY <3>2, <4>1
    <3>4. Splits(x, x[m + 1], m, k)
      <4>1. x[m + 1] \in Byte
        BY <2>1 DEF Nodes
      <4>2. Apart(x, x[m + 1], m)
        <5>1. \A j \in 1 .. m : j \in 1 .. k /\ j # m + 1
          BY <3>1
        <5> QED
          BY <2>1, <5>1 DEF Apart, Nodes
      <4> QED
        BY <3>2, <4>1, <4>2
    <3> QED
      BY <2>1, <3>1, <3>3, <3>4, SplitsNext
  <2> QED
    BY <2>2, <2>3
<1>3. Nat \subseteq T
  <2> HIDE DEF T
  <2> QED
    BY <1>1, <1>2, SetInduction
<1> QED
  BY <1>3

\* The Lagrange polynomials at 0 add up to 1.
LEMMA WeightsAddUp ==
    ASSUME NEW k \in Nat, NEW x, Nodes(x, k), NEW m \in 1 .. k
    PROVE  gfSum([i \in 1 .. k |-> Lagrange(x, i, m, k)], m) = 1
<1>0. x \in [1 .. k -> Byte] /\ \A j \in 1 .. k : x[j] # 0 /\ x[j] \in Byte
  BY DEF Nodes
<1>1. 0 \in Byte /\ m \in 0 .. k
  BY Bytes
<1>2. Apart(x, 0, m)
  BY <1>0 DEF Apart
<1>3. Splits(x, 0, m, k)
  BY <1>1, <1>2, PartialFractions
<1>4. ASSUME NEW j \in 1 .. k
      PROVE  Quot(x[j], gfAdd(x[j], 0)) = 1 /\ Quot(x[j], x[j]) = 1
  <2>1. gfAdd(x[j], 0) = x[j]
    BY <1>0, AddLaws
  <2>2. Quot(x[j], x[j]) = 1
    BY <1>0, QuotLaws
  <2> QED
    BY <2>1, <2>2
<1>5. gfProduct(Poles(x, 0, k), m) = 1
  <2>1. PICK h \in [1 .. k -> Byte] : h = Poles(x, 0, k)
    BY <1>1, PoleTypes
  <2>2. \A j \in 1 .. m : x[j] # 0 /\ h[j] = Quot(x[j], x[j])
    BY <1>0, <1>4, <2>1 DEF Poles
  <2>3. gfProduct(x, m) # 0 /\ gfProduct(h, m) = Quot(gfProduct(x, m), gfProduct(x, m))
    BY <1>0, <1>1, <2>2, ProductLaws
  <2>4. gfProduct(x, m) \in Byte
    BY <1>0, <1>1, ProductSteps
  <2> QED
    BY <2>1, <2>3, <2>4, QuotLaws
<1>6. Terms(x, 0, m, k) = [i \in 1 .. k |-> Lagrange(x, i, m, k)]
  <2>1. ASSUME NEW i \in 1 .. k
        PROVE  gfMul(Lagrange(x, i, m, k), Quot(x[i], gfAdd(x[i], 0))) = Lagrange(x, i, m, k)
    <3>1. Lagrange(x, i, m, k) \in Byte
      BY <1>1, LagrangeSteps
    <3> QED
      BY <1>4, <3>1, MulOne
  <2> QED
    BY <2>1 DEF Terms
<1> QED
  BY <1>3, <1>5, <1>6 DEF Splits

\* The value of a polynomial is a byte.
LEMMA EvalType ==
    ASSUME NEW L \in Nat, NEW c \in [1 .. L -> Byte], NEW x \in Byte
    PROVE  evalPoly(c, x) \in Byte
<1>1. PICK out : IsHorner(out, c, x, L)
  BY HornerExists
<1> QED
  BY <1>1, HornerIs

\* One step of dividing a polynomial by x + t: o is what has been computed at
\* t, and q the value of the quotient so far.
LEMMA DivisionStep ==
    ASSUME NEW o \in Byte, NEW t \in Byte, NEW c \in Byte, NEW x \in Byte, NEW q \in Byte
    PROVE  gfAdd(gfAdd(gfMul(o, t), c), gfMul(gfAdd(x, t), gfAdd(gfMul(q, x), o)))
             = gfAdd(gfMul(gfAdd(o, gfMul(gfAdd(x, t), q)), x), c)
<1>1. PICK s \in Byte : s = gfAdd(x, t)
  BY AddLaws
<1>2. PICK A \in Byte : A = gfMul(s, gfMul(q, x)) /\ A = gfMul(gfMul(s, q), x)
  <2>1. gfMul(q, x) \in Byte
    BY MulLaws
  <2> QED
    BY <2>1, MulLaws, MulAssoc
<1>3. PICK B \in Byte : B = gfMul(o, t)
  BY MulLaws
<1>4. PICK C \in Byte : C = gfMul(o, x)
  BY MulLaws
<1>5. gfMul(s, o) = gfAdd(C, B)
  <2>1. gfMul(gfAdd(x, t), o) = gfAdd(gfMul(x, o), gfMul(t, o))
    BY DistributesRight
  <2>2. gfMul(x, o) = C /\ gfMul(t, o) = B
    BY <1>3, <1>4, MulLaws
  <2> QED
    BY <1>1, <2>1, <2>2
<1>6. gfMul(s, gfAdd(gfMul(q, x), o)) = gfAdd(A, gfAdd(C, B))
  <2>1. gfMul(q, x) \in Byte
    BY MulLaws
  <2>2. gfMul(s, gfAdd(gfMul(q, x), o)) = gfAdd(gfMul(s, gfMul(q, x)), gfMul(s, o))
    BY <2>1, Distributes
  <2> QED
    BY <1>2, <1>5, <2>2
<1>7. gfMul(gfAdd(o, gfMul(s, q)), x) = gfAdd(C, A)
  <2>1. gfMul(s, q) \in Byte
    BY MulLaws
  <2>2. gfMul(gfAdd(o, gfMul(s, q)), x) = gfAdd(gfMul(o, x), gfMul(gfMul(s, q), x))
    BY <2>1, DistributesRight
  <2> QED
    BY <1>2, <1>4, <2>2
<1>8. gfAdd(gfAdd(B, c), gfAdd(A, gfAdd(C, B))) = gfAdd(gfAdd(C, A), c)
  <2>1. gfAdd(A, gfAdd(C, B)) = gfAdd(B, gfAdd(C, A))
    <3>1. gfAdd(A, gfAdd(C, B)) = gfAdd(gfAdd(A, C), B)
      BY AddLaws
    <3>2. gfAdd(A, C) = gfAdd(C, A) /\ gfAdd(C, A) \in Byte
      BY AddLaws
    <3>3. gfAdd(gfAdd(C, A), B) = gfAdd(B, gfAdd(C, A))
      BY <3>2, AddLaws
    <3> QED
      BY <3>1, <3>2, <3>3
  <2>2. PICK D \in Byte : D = gfAdd(C, A)
    BY AddLaws
  <2>3. gfAdd(gfAdd(B, c), gfAdd(B, D)) = gfAdd(gfAdd(B, B), gfAdd(c, D))
    BY Regroup
  <2>4. gfAdd(c, D) \in Byte /\ gfAdd(c, D) = gfAdd(D, c) /\ gfAdd(B, B) = 0
    BY AddLaws
  <2>5. gfAdd(0, gfAdd(c, D)) = gfAdd(c, D)
    <3>1. 0 \in Byte
      BY Bytes
    <3>2. gfAdd(0, gfAdd(c, D)) = gfAdd(gfAdd(c, D), 0) /\ gfAdd(gfAdd(c, D), 0) = gfAdd(c, D)
      BY <2>4, <3>1, AddLaws
    <3> QED
      BY <3>2
  <2> QED
    BY <2>1, <2>2, <2>3, <2>4, <2>5
<1> QED
  BY <1>1, <1>3, <1>6, <1>7, <1>8

\* A polynomial divided by x + t: the quotient has the values that Horner's
\* rule goes through at t, and the remainder is the value at t.
LEMMA Division ==
    ASSUME NEW L \in Nat, NEW c \in [1 .. L + 1 -> Byte], NEW t \in Byte, NEW x \in Byte,
           NEW out, IsHorner(out, c, t, L + 1),
           NEW q \in [1 .. L -> Byte], \A j \in 1 .. L : q[j] = out[j + 1]
    PROVE  evalPoly(c, x) = gfAdd(out[1], gfMul(gfAdd(x, t), evalPoly(q, x)))
<1>0. /\ out \in [1 .. L + 2 -> Byte]
      /\ out[L + 2] = 0
      /\ \A i \in 1 .. L + 1 : out[i] = gfAdd(gfMul(out[i + 1], t), c[i])
  <2>1. (L + 1) + 1 = L + 2
    OBVIOUS
  <2> QED
    BY <2>1 DEF IsHorner
<1>1. PICK Q : IsHorner(Q, q, x, L)
  BY HornerExists
<1>2. /\ Q \in [1 .. L + 1 -> Byte]
      /\ Q[L + 1] = 0
      /\ \A i \in 1 .. L : Q[i] = gfAdd(gfMul(Q[i + 1], x), q[i])
  BY <1>1 DEF IsHorner
<1>3. PICK s \in Byte : s = gfAdd(x, t)
  BY AddLaws
<1> DEFINE P == [i \in 1 .. L + 2 |->
                   IF i = L + 2 THEN 0 ELSE gfAdd(out[i], gfMul(s, Q[i]))]
<1>4. P \in [1 .. L + 2 -> Byte]
  <2>1. ASSUME NEW i \in 1 .. L + 2, i # L + 2 PROVE gfAdd(out[i], gfMul(s, Q[i])) \in Byte
    <3>1. out[i] \in Byte /\ Q[i] \in Byte
      BY <1>0, <1>2, <2>1
    <3>2. gfMul(s, Q[i]) \in Byte
      BY <3>1, MulLaws
    <3> QED
      BY <3>1, <3>2, AddLaws
  <2> QED
    BY <2>1, Bytes
<1>5. P[L + 2] = 0
  OBVIOUS
<1>6. ASSUME NEW i \in 1 .. L + 1 PROVE P[i] = gfAdd(gfMul(P[i + 1], x), c[i])
  <2>1. i \in 1 .. L + 2 /\ i # L + 2 /\ i + 1 \in 1 .. L + 2 /\ c[i] \in Byte
    OBVIOUS
  <2>2. P[i] = gfAdd(out[i], gfMul(s, Q[i]))
    BY <2>1
  <2>3. CASE i = L + 1
    <3>1. P[i + 1] = 0 /\ Q[i] = 0 /\ out[i + 1] = 0
      BY <1>0, <1>2, <2>3
    <3>2. out[i] = gfAdd(gfMul(0, t), c[i])
      BY <1>0, <3>1
    <3>3. gfMul(0, t) = 0 /\ gfMul(0, x) = 0 /\ gfMul(s, 0) = 0
      BY MulZero
    <3>4. out[i] \in Byte
      BY <1>0, <2>1
    <3>5. gfAdd(out[i], 0) = out[i]
      BY <3>4, AddLaws
    <3> HIDE DEF P
    <3> QED
      BY <2>2, <3>1, <3>2, <3>3, <3>5
  <2>4. CASE i # L + 1
    <3>1. i \in 1 .. L /\ i + 1 # L + 2 /\ i + 1 \in 1 .. L + 1
      BY <2>4
    <3>2. PICK o \in Byte : o = out[i + 1]
      BY <1>0, <2>1
    <3>3. PICK r \in Byte : r = Q[i + 1]
      BY <1>2, <3>1
    <3>4. P[i + 1] = gfAdd(o, gfMul(s, r))
      BY <2>1, <3>1, <3>2, <3>3
    <3>5. out[i] = gfAdd(gfMul(o, t), c[i]) /\ Q[i] = gfAdd(gfMul(r, x), o)
      BY <1>0, <1>2, <3>1, <3>2, <3>3
    <3> HIDE DEF P
    <3> QED
      BY <1>3, <2>1, <2>2, <3>4, <3>5, DivisionStep
  <2> QED
    BY <2>3, <2>4
<1>7. P[1] = gfAdd(out[1], gfMul(s, Q[1]))
  <2>1. 1 \in 1 .. L + 2 /\ 1 # L + 2
    OBVIOUS
  <2> QED
    BY <2>1
<1> HIDE DEF P
<1>8. IsHorner(P, c, x, L + 1)
  <2>1. (L + 1) + 1 = L + 2
    OBVIOUS
  <2> QED
    BY <1>4, <1>5, <1>6, <2>1 DEF IsHorner
<1>9. evalPoly(c, x) = P[1]
  <2>1. L + 1 \in Nat
    OBVIOUS
  <2> QED
    BY <1>8, <2>1, HornerIs
<1>10. evalPoly(q, x) = Q[1]
  BY <1>1, HornerIs
<1> QED
  BY <1>3, <1>7, <1>9, <1>10

\* The terms that Combine adds up for the polynomial c, and the polynomials
\* for which their sum is the value at 0.
Weighted(c, x, m, k) == [i \in 1 .. k |-> gfMul(evalPoly(c, x[i]), Lagrange(x, i, m, k))]
Recovered(x, m, k)   == \A c \in [1 .. m -> Byte] : gfSum(Weighted(c, x, m, k), m) = c[1]

\* The terms that Combine adds up are bytes.
LEMMA WeightedType ==
    ASSUME NEW k \in Nat, NEW x, Nodes(x, k), NEW m \in 0 .. k, NEW L \in Nat,
           NEW c \in [1 .. L -> Byte]
    PROVE  /\ Weighted(c, x, m, k) \in [1 .. k -> Byte]
           /\ \A i \in 1 .. k : x[i] \in Byte /\ evalPoly(c, x[i]) \in Byte
                                /\ Lagrange(x, i, m, k) \in Byte
<1>1. ASSUME NEW i \in 1 .. k
      PROVE  x[i] \in Byte /\ evalPoly(c, x[i]) \in Byte /\ Lagrange(x, i, m, k) \in Byte
  <2>1. x[i] \in Byte
    BY DEF Nodes
  <2>2. evalPoly(c, x[i]) \in Byte
    BY <2>1, EvalType
  <2>3. Lagrange(x, i, m, k) \in Byte
    BY LagrangeSteps
  <2> QED
    BY <2>1, <2>2, <2>3
<1>2. \A i \in 1 .. k : gfMul(evalPoly(c, x[i]), Lagrange(x, i, m, k)) \in Byte
  BY <1>1, MulLaws
<1> QED
  BY <1>1, <1>2 DEF Weighted

\* One share of a constant polynomial.
LEMMA RecoveredOne ==
    ASSUME NEW k \in Nat, 1 <= k, NEW x, Nodes(x, k)
    PROVE  Recovered(x, 1, k)
<1> SUFFICES ASSUME NEW c \in [1 .. 1 -> Byte] PROVE gfSum(Weighted(c, x, 1, k), 1) = c[1]
  BY DEF Recovered
<1>1. 1 \in 1 .. k /\ 1 \in 0 .. k /\ 1 - 1 = 0 /\ 1 \in 1 .. 1 /\ 1 \in Nat /\ 1 + 1 = 2
  OBVIOUS
<1>2. PICK v \in Byte : v = c[1]
  BY <1>1
<1>3. PICK f \in [1 .. k -> Byte] : f = Weighted(c, x, 1, k)
  BY <1>1, WeightedType
<1>4. PICK y \in Byte : y = x[1]
  BY <1>1 DEF Nodes
<1>5. evalPoly(c, y) = v
  <2>1. PICK out : IsHorner(out, c, y, 1)
    BY <1>1, HornerExists
  <2>2. evalPoly(c, y) = out[1]
    BY <1>1, <2>1, HornerIs
  <2>3. out[2] = 0 /\ out[1] = gfAdd(gfMul(out[2], y), v)
    BY <1>1, <1>2, <2>1 DEF IsHorner
  <2>4. gfMul(0, y) = 0 /\ gfAdd(0, v) = v
    <3>1. 0 \in Byte
      BY Bytes
    <3>2. gfAdd(0, v) = gfAdd(v, 0) /\ gfAdd(v, 0) = v
      BY <3>1, AddLaws
    <3> QED
      BY <3>2, MulZero
  <2> QED
    BY <2>2, <2>3, <2>4
<1>6. Lagrange(x, 1, 1, k) = 1
  <2>1. Lagrange(x, 1, 1, k) = gfMul(Lagrange(x, 1, 0, k), 1) /\ Lagrange(x, 1, 0, k) = 1
    BY <1>1, LagrangeSteps
  <2>2. gfMul(1, 1) = 1
    BY MulOne, Bytes
  <2> QED
    BY <2>1, <2>2
<1>7. f[1] = v
  <2>1. f[1] = gfMul(v, 1)
    BY <1>1, <1>3, <1>4, <1>5, <1>6 DEF Weighted
  <2> QED
    BY <2>1, MulOne
<1>8. gfSum(f, 1) = gfAdd(0, v)
  <2>1. gfSum(f, 0) = 0 /\ gfSum(f, 1) = gfAdd(gfSum(f, 0), f[1])
    BY <1>1, SumSteps
  <2> QED
    BY <1>7, <2>1
<1>9. gfAdd(0, v) = v
  <2>1. 0 \in Byte
    BY Bytes
  <2>2. gfAdd(0, v) = gfAdd(v, 0) /\ gfAdd(v, 0) = v
    BY <2>1, AddLaws
  <2> QED
    BY <2>2
<1> QED
  BY <1>2, <1>3, <1>8, <1>9

\* One more share: divide by x + t, where t is its index.
LEMMA RecoveredNext ==
    ASSUME NEW k \in Nat, NEW x, Nodes(x, k), NEW m \in 1 .. k, m + 1 <= k,
           Recovered(x, m, k)
    PROVE  Recovered(x, m + 1, k)
<1> SUFFICES ASSUME NEW c \in [1 .. m + 1 -> Byte]
             PROVE  gfSum(Weighted(c, x, m + 1, k), m + 1) = c[1]
  BY DEF Recovered
<1>1. PICK n \in 1 .. k : n = m + 1 /\ n - 1 = m
  OBVIOUS
<1>2. m \in Nat /\ m \in 0 .. k /\ n \in Nat /\ n \in 0 .. k /\ 1 \in 1 .. m /\ 1 \in 1 .. n
      /\ 2 \in 1 .. n + 1
  BY <1>1
<1>3. PICK t \in Byte : t = x[n]
  BY DEF Nodes
<1>4. PICK out : IsHorner(out, c, t, n)
  BY <1>1, <1>2, HornerExists
<1>5. /\ out \in [1 .. n + 1 -> Byte]
      /\ \A i \in 1 .. n : out[i] = gfAdd(gfMul(out[i + 1], t), c[i])
  BY <1>4 DEF IsHorner
<1> DEFINE q == [j \in 1 .. m |-> out[j + 1]]
<1>6. q \in [1 .. m -> Byte] /\ \A j \in 1 .. m : q[j] = out[j + 1]
  BY <1>1, <1>5
<1>7. q[1] = out[2] /\ out[1] \in Byte /\ out[2] \in Byte /\ c[1] \in Byte
  BY <1>1, <1>2, <1>5
<1> HIDE DEF q
<1>8. ASSUME NEW y \in Byte
      PROVE  evalPoly(c, y) = gfAdd(out[1], gfMul(gfAdd(y, t), evalPoly(q, y)))
  BY <1>1, <1>2, <1>4, <1>6, Division, SMTT(30)
<1> DEFINE F == Weighted(c, x, n, k)
           G == Weighted(q, x, m, k)
           W == [i \in 1 .. k |-> Lagrange(x, i, n, k)]
           oW == [i \in 1 .. k |-> gfMul(out[1], W[i])]
           R == [i \in 1 .. k |-> IF i = n THEN 0 ELSE gfMul(t, G[i])]
<1>9. F \in [1 .. k -> Byte] /\ G \in [1 .. k -> Byte]
  <2>1. c \in [1 .. n -> Byte]
    BY <1>1
  <2> QED
    BY <1>2, <1>6, <2>1, WeightedType
<1>10. W \in [1 .. k -> Byte]
  <2>1. \A i \in 1 .. k : Lagrange(x, i, n, k) \in Byte
    BY <1>2, LagrangeSteps
  <2> QED
    BY <2>1
<1> HIDE DEF G
<1>11. oW \in [1 .. k -> Byte] /\ Scaled(oW, out[1], W, n)
  <2> HIDE DEF W
  <2>1. \A i \in 1 .. k : gfMul(out[1], W[i]) \in Byte
    BY <1>7, <1>10, MulLaws
  <2> QED
    BY <2>1 DEF Scaled
<1>12. R \in [1 .. k -> Byte] /\ Scaled(R, t, G, m) /\ R[n] = 0
  <2>1. \A i \in 1 .. k : gfMul(t, G[i]) \in Byte
    BY <1>9, MulLaws
  <2>2. 0 \in Byte
    BY Bytes
  <2>3. R \in [1 .. k -> Byte]
    BY <2>1, <2>2
  <2>4. \A i \in 1 .. m : i \in 1 .. k /\ i # n
    BY <1>1
  <2> QED
    BY <2>3, <2>4 DEF Scaled
<1>13. ASSUME NEW i \in 1 .. n PROVE F[i] = gfAdd(oW[i], R[i])
  <2>1. i \in 1 .. k
    OBVIOUS
  <2>2. PICK y \in Byte : y = x[i]
    BY <2>1 DEF Nodes
  <2>3. PICK l \in Byte : l = Lagrange(x, i, n, k)
    BY <1>2, <2>1, LagrangeSteps
  <2>4. PICK e \in Byte : e = evalPoly(q, y)
    BY <1>2, <1>6, EvalType
  <2>5. PICK s \in Byte : s = gfAdd(y, t)
    BY AddLaws
  <2>6. gfMul(s, e) \in Byte
    BY MulLaws
  <2>7. F[i] = gfAdd(gfMul(out[1], l), gfMul(gfMul(s, e), l))
    <3>1. F[i] = gfMul(gfAdd(out[1], gfMul(s, e)), l)
      BY <1>8, <2>1, <2>2, <2>3, <2>4, <2>5 DEF Weighted
    <3> QED
      BY <1>7, <2>6, <3>1, DistributesRight
  <2>8. oW[i] = gfMul(out[1], l)
    BY <2>1, <2>3
  <2>9. gfMul(gfMul(s, e), l) = R[i]
    <3>1. CASE i = n
      <4>1. s = 0
        BY <1>3, <2>2, <2>5, <3>1, AddLaws
      <4> QED
        BY <1>12, <3>1, <4>1, MulZero
    <3>2. CASE i # n
      <4>1. i \in 1 .. m
        BY <1>1, <3>2
      <4>2. PICK g \in Byte : g = Lagrange(x, i, m, k)
        BY <1>2, <2>1, LagrangeSteps
      <4>3. l = gfMul(g, Quot(t, s))
        <5>1. Lagrange(x, i, n, k)
                = gfMul(Lagrange(x, i, n - 1, k),
                        IF n = i THEN 1 ELSE Quot(x[n], gfAdd(x[i], x[n])))
          BY <2>1, LagrangeSteps
        <5> QED
          BY <1>1, <1>3, <2>2, <2>3, <2>5, <3>2, <4>2, <5>1
      <4>4. s # 0
        <5>1. y # t
          BY <1>3, <2>1, <2>2, <3>2 DEF Nodes
        <5> QED
          BY <2>5, <5>1, AddNonZero
      <4>5. PICK r \in Byte : r = Quot(t, s) /\ gfMul(s, r) = t
        BY <4>4, QuotLaws
      <4>6. gfMul(gfMul(s, e), gfMul(g, r)) = gfMul(t, gfMul(e, g))
        <5>1. gfMul(gfMul(s, e), gfMul(r, g)) = gfMul(gfMul(s, r), gfMul(e, g))
          BY MulRegroup
        <5>2. gfMul(g, r) = gfMul(r, g)
          BY MulLaws
        <5> QED
          BY <4>5, <5>1, <5>2
      <4>7. R[i] = gfMul(t, G[i])
        BY <2>1, <3>2
      <4>8. G[i] = gfMul(e, g)
        BY <2>1, <2>2, <2>4, <4>2 DEF G, Weighted
      <4> HIDE DEF R
      <4> QED
        BY <4>3, <4>5, <4>6, <4>7, <4>8
    <3> QED
      BY <3>1, <3>2
  <2> QED
    BY <2>7, <2>8, <2>9
<1>14. gfSum(W, n) = 1
  BY WeightsAddUp
<1>15. gfSum(G, m) = out[2]
  BY <1>6, <1>7 DEF Recovered, G
<1> HIDE DEF F, W, oW, R
<1>16. gfSum(F, n) = gfAdd(gfSum(oW, n), gfSum(R, n))
  <2>1. AddedUp(F, oW, R, n)
    BY <1>13 DEF AddedUp
  <2>2. F \in [1 .. k -> Byte] /\ oW \in [1 .. k -> Byte] /\ R \in [1 .. k -> Byte]
    BY <1>9, <1>11, <1>12
  <2>3. n \in 0 .. k
    BY <1>2
  <2> QED
    BY <2>1, <2>2, <2>3, SumAdd
<1>17. gfSum(oW, n) = out[1]
  <2>1. gfSum(oW, n) = gfMul(out[1], gfSum(W, n))
    BY <1>2, <1>7, <1>10, <1>11, SumScale
  <2> QED
    BY <1>7, <1>14, <2>1, MulOne
<1>18. gfSum(R, n) = gfMul(t, out[2])
  <2>1. gfSum(R, n) = gfAdd(gfSum(R, m), 0)
    BY <1>1, <1>12, SumSteps
  <2>2. gfSum(R, m) = gfMul(t, gfSum(G, m))
    BY <1>2, <1>9, <1>12, SumScale
  <2>3. gfMul(t, out[2]) \in Byte
    BY <1>7, MulLaws
  <2>4. gfAdd(gfMul(t, out[2]), 0) = gfMul(t, out[2])
    BY <2>3, AddLaws
  <2> QED
    BY <1>15, <2>1, <2>2, <2>4
<1>19. gfAdd(out[1], gfMul(t, out[2])) = c[1]
  <2>1. PICK B \in Byte : B = gfMul(t, out[2]) /\ B = gfMul(out[2], t)
    BY <1>7, MulLaws
  <2>2. out[1] = gfAdd(B, c[1])
    <3>1. 1 + 1 = 2
      OBVIOUS
    <3> QED
      BY <1>2, <1>5, <2>1, <3>1
  <2>3. gfAdd(B, c[1]) = gfAdd(c[1], B)
    BY <1>7, AddLaws
  <2>4. gfAdd(gfAdd(c[1], B), B) = gfAdd(c[1], gfAdd(B, B))
    BY <1>7, AddLaws
  <2>5. gfAdd(B, B) = 0 /\ gfAdd(c[1], 0) = c[1]
    BY <1>7, AddLaws
  <2> QED
    BY <2>1, <2>2, <2>3, <2>4, <2>5
<1> QED
  BY <1>1, <1>16, <1>17, <1>18, <1>19 DEF F

\* Lagrange interpolation: the values at m nodes of a polynomial with m
\* coefficients give its value at 0.
LEMMA Interpolation ==
    ASSUME NEW k \in Nat, NEW x, Nodes(x, k)
    PROVE  \A m \in 1 .. k : Recovered(x, m, k)
<1> DEFINE T == {m \in Nat : m \in 1 .. k => Recovered(x, m, k)}
<1>1. 0 \in T
  OBVIOUS
<1>2. ASSUME NEW m \in Nat, m \in T PROVE m + 1 \in T
  <2>1. SUFFICES ASSUME m + 1 \in 1 .. k PROVE Recovered(x, m + 1, k)
    OBVIOUS
  <2>2. CASE m = 0
    <3>1. 1 <= k /\ m + 1 = 1
      BY <2>1, <2>2
    <3>2. Recovered(x, 1, k)
      BY <3>1, RecoveredOne
    <3> QED
      BY <3>1, <3>2
  <2>3. CASE m # 0
    <3>1. m \in 1 .. k /\ m + 1 <= k
      BY <2>1, <2>3
    <3>2. Recovered(x, m, k)
      BY <1>2, <3>1
    <3> QED
      BY <3>1, <3>2, RecoveredNext
  <2> QED
    BY <2>2, <2>3
<1>3. Nat \subseteq T
  <2> HIDE DEF T
  <2> QED
    BY <1>1, <1>2, SetInduction
<1> QED
  BY <1>3

-----------------------------------------------------------------------------
(* Combine inverts Split *)

\* The shares that Combine uses have the indexes x.
Indexed(used, x, k) == Len(used) = k /\ \A j \in 1 .. k : used[j].index = x[j]

\* The basis that Combine computes is the Lagrange polynomial of the indices,
\* and the denominator it divides by is not 0.
LEMMA BasisIs ==
    ASSUME NEW k \in Nat, NEW x, Nodes(x, k), NEW used, Indexed(used, x, k), NEW i \in 1 .. k
    PROVE  /\ Basis(used, i) = Lagrange(x, i, k, k)
           /\ Denominator(used, i) # 0
<1> DEFINE N == [j \in 1 .. k |-> IF j = i THEN 1 ELSE used[j].index]
           D == [j \in 1 .. k |-> IF j = i THEN 1 ELSE gfAdd(used[i].index, used[j].index)]
           h == Ratios(x, i, k)
<1>0. Len(used) = k /\ \A j \in 1 .. k : used[j].index = x[j]
  BY DEF Indexed
<1>1. Denominator(used, i) = gfProduct(D, k)
  BY <1>0, Zenon DEF Denominator
<1>2. Basis(used, i) = Quot(gfProduct(N, k), Denominator(used, i))
  BY <1>0, Zenon DEF Basis, Quot
<1>3. 1 \in Byte /\ 1 # 0 /\ Quot(1, 1) = 1
  <2>1. 1 \in Byte /\ 1 # 0
    BY Bytes
  <2> QED
    BY <2>1, QuotLaws
<1>4. ASSUME NEW j \in 1 .. k
      PROVE  /\ N[j] \in Byte /\ D[j] \in Byte /\ D[j] # 0
             /\ h[j] = Quot(N[j], D[j])
  <2>1. CASE j = i
    BY <1>3, <2>1 DEF Ratios
  <2>2. CASE j # i
    <3>1. PICK a \in Byte : a = x[i]
      BY DEF Nodes
    <3>2. PICK b \in Byte : b = x[j]
      BY DEF Nodes
    <3>3. a # b
      BY <2>2, <3>1, <3>2 DEF Nodes
    <3>4. gfAdd(a, b) \in Byte /\ gfAdd(a, b) # 0
      BY <3>3, AddLaws, AddNonZero
    <3>5. N[j] = b /\ D[j] = gfAdd(a, b)
      BY <1>0, <2>2, <3>1, <3>2
    <3>6. h[j] = Quot(b, gfAdd(a, b))
      BY <2>2, <3>1, <3>2 DEF Ratios
    <3> HIDE DEF N, D, h
    <3> QED
      BY <3>4, <3>5, <3>6
  <2> QED
    BY <2>1, <2>2
<1>5. N \in [1 .. k -> Byte] /\ D \in [1 .. k -> Byte]
  BY <1>4
<1>6. h \in [1 .. k -> Byte]
  BY LagrangeSteps
<1> HIDE DEF N, D, h
<1>7. Fractions(h, N, D, k)
  BY <1>4 DEF Fractions
<1>8. gfProduct(D, k) # 0 /\ gfProduct(h, k) = Quot(gfProduct(N, k), gfProduct(D, k))
  BY <1>5, <1>6, <1>7, ProductQuot
<1> QED
  BY <1>1, <1>8, <1>2 DEF h, Lagrange

\* The guard of Combine against a denominator of 0 (shamir.go: "Unreachable
\* if we checked duplicates above") is unreachable, for any number of shares
\* with different indexes, none of them 0.
THEOREM NoZeroDenominator ==
    ASSUME NEW k \in Nat, NEW used \in [1 .. k -> [index : Byte, byte : Byte]],
           \A i \in 1 .. k : used[i].index # 0,
           \A i, j \in 1 .. k : used[i].index = used[j].index => i = j,
           NEW i \in 1 .. k
    PROVE  Denominator(used, i) # 0
<1> DEFINE x == [j \in 1 .. k |-> used[j].index]
<1>1. x \in [1 .. k -> Byte] /\ \A j \in 1 .. k : used[j].index = x[j]
  OBVIOUS
<1>2. Len(used) = k
  OBVIOUS
<1> HIDE DEF x
<1>3. Nodes(x, k)
  BY <1>1 DEF Nodes
<1>4. Indexed(used, x, k)
  BY <1>1, <1>2 DEF Indexed
<1> QED
  BY <1>3, <1>4, BasisIs

\* What Combine interpolates from shares of a polynomial is its first
\* coefficient.
LEMMA InterpolateIs ==
    ASSUME NEW k \in Nat, k >= 1, NEW x, Nodes(x, k), NEW c \in [1 .. k -> Byte],
           NEW used, Len(used) = k,
           \A j \in 1 .. k : used[j].index = x[j] /\ used[j].byte = evalPoly(c, x[j])
    PROVE  Interpolate(used) = c[1]
<1>1. [i \in 1 .. k |-> gfMul(used[i].byte, Basis(used, i))] = Weighted(c, x, k, k)
  <2>1. Indexed(used, x, k)
    BY DEF Indexed
  <2>2. \A i \in 1 .. k : Basis(used, i) = Lagrange(x, i, k, k)
    BY <2>1, BasisIs
  <2> QED
    BY <2>2 DEF Weighted
<1>2. Interpolate(used) = gfSum(Weighted(c, x, k, k), k)
  BY <1>1 DEF Interpolate
<1>3. k \in 1 .. k
  OBVIOUS
<1>4. Recovered(x, k, k)
  BY <1>3, Interpolation
<1> QED
  BY <1>2, <1>4 DEF Recovered

\* The polynomial that Split makes of a key.
LEMMA SplitPoly ==
    ASSUME NEW key \in Byte, NEW k \in Nat, k >= 1, NEW rnd \in [1 .. k - 1 -> Byte]
    PROVE  /\ <<key>> \o rnd \in [1 .. k -> Byte]
           /\ (<<key>> \o rnd)[1] = key
           /\ \A j \in 2 .. k : (<<key>> \o rnd)[j] = rnd[j - 1]
<1>1. <<key>> \in Seq(Byte) /\ rnd \in Seq(Byte) /\ Len(<<key>>) = 1 /\ Len(rnd) = k - 1
  OBVIOUS
<1> DEFINE poly == <<key>> \o rnd
<1>2. poly \in Seq(Byte) /\ Len(poly) = k
  BY <1>1
<1>3. poly[1] = key
  BY <1>1
<1>4. \A j \in 2 .. k : poly[j] = rnd[j - 1]
  BY <1>1
<1> HIDE DEF poly
<1>5. poly \in [1 .. k -> Byte]
  BY <1>2
<1> QED
  BY <1>3, <1>4, <1>5 DEF poly

\* Any threshold or more of the shares, in any order, give the key.
Recovers(s, size, threshold, key) ==
    \A n \in threshold .. size : \A pick \in [1 .. n -> 1 .. size] :
        IsInjective(pick) => Combine([i \in 1 .. n |-> s[pick[i]]], threshold) = {key}

\* Combine inverts Split (shamir.go): any threshold or more of the shares of a
\* key, in any order, give the key, for every key, every number of shares up
\* to 255 and every coefficient that may be drawn.
THEOREM CombineInvertsSplit ==
    ASSUME NEW key \in Byte, NEW N \in Nat, NEW k \in Nat, k >= 1, k <= N,
           NEW rnd \in [1 .. k - 1 -> Byte], NEW s \in Split(key, N, k, rnd)
    PROVE  Recovers(s, N, k, key)
<1> SUFFICES ASSUME NEW n \in k .. N, NEW pick \in [1 .. n -> 1 .. N], IsInjective(pick)
             PROVE  Combine([i \in 1 .. n |-> s[pick[i]]], k) = {key}
  BY Zenon DEF Recovers
<1> DEFINE poly == <<key>> \o rnd
           list == [i \in 1 .. n |-> s[pick[i]]]
           used == SubSeq(list, 1, k)
           x == [i \in 1 .. k |-> pick[i]]
<1>1. poly \in [1 .. k -> Byte] /\ poly[1] = key
  BY SplitPoly
<1>2. N <= 255 /\ s = [i \in 1 .. N |-> [index |-> i, byte |-> evalPoly(poly, i)]]
  BY Zenon DEF Split
<1> HIDE DEF poly
<1>3. \A i \in 1 .. N : s[i].index = i /\ s[i].byte = evalPoly(poly, i)
  BY <1>2
<1>4. n \in Nat /\ n >= k
  OBVIOUS
<1>5. PICK shares : shares = {s[i] : i \in 1 .. N}
  OBVIOUS
<1>6. list \in Seq(shares) /\ Len(list) = n
  <2>1. \A i \in 1 .. n : s[pick[i]] \in shares
    BY <1>5
  <2> QED
    BY <1>4, <2>1
<1>7. used = [i \in 1 .. k |-> s[pick[i]]]
  <2>1. used = [i \in 1 .. k |-> list[i]]
    <3> HIDE DEF list
    <3> QED
      BY <1>4, <1>6, PrefixAt
  <2>2. \A i \in 1 .. k : list[i] = s[pick[i]]
    BY <1>4
  <2> HIDE DEF used, list
  <2> QED
    BY <2>1, <2>2
<1>8. \A i \in 1 .. k : pick[i] \in 1 .. N
  BY <1>4
<1>9. Nodes(x, k)
  <2>1. \A i \in 1 .. k : x[i] \in 1 .. N /\ x[i] = pick[i]
    BY <1>8
  <2>2. x \in [1 .. k -> Byte]
    <3>1. N <= 255
      BY <1>2
    <3>2. \A i \in 1 .. N : i \in Byte
      BY <3>1 DEF Byte
    <3>3. \A i \in 1 .. k : pick[i] \in Byte
      BY <1>8, <3>2
    <3> QED
      BY <3>3
  <2>3. \A i, j \in 1 .. k : pick[i] = pick[j] => i = j
    <3>1. \A i \in 1 .. k : i \in DOMAIN pick
      BY <1>4
    <3> QED
      BY <3>1 DEF IsInjective
  <2> HIDE DEF x
  <2>4. \A i \in 1 .. k : x[i] # 0
    BY <2>1
  <2> QED
    BY <2>1, <2>2, <2>3, <2>4 DEF Nodes
<1>10. Len(used) = k /\ DOMAIN used = 1 .. k
  BY <1>7
<1>11. \A j \in 1 .. k : used[j].index = x[j] /\ used[j].byte = evalPoly(poly, x[j])
  BY <1>3, <1>7, <1>8
<1> HIDE DEF used, x
<1>12. Interpolate(used) = key
  BY <1>1, <1>9, <1>10, <1>11, InterpolateIs, SMTT(30)
<1>13. /\ \A i \in DOMAIN used : used[i].index # 0
       /\ \A i, j \in DOMAIN used : used[i].index = used[j].index => i = j
  BY <1>9, <1>10, <1>11 DEF Nodes
<1>14. Len(list) >= k
  BY <1>4, <1>6
<1>15. \A i \in DOMAIN used : Denominator(used, i) # 0
  <2>1. Indexed(used, x, k)
    BY <1>10, <1>11 DEF Indexed
  <2> QED
    BY <1>9, <1>10, <2>1, BasisIs
<1> HIDE DEF list
<1>16. Combine(list, k) = {Interpolate(used)}
  BY <1>13, <1>14, <1>15, Zenon DEF Combine, used
<1> QED
  BY <1>12, <1>16 DEF list

-----------------------------------------------------------------------------
(* Fewer shares tell nothing *)

\* The polynomial c is (x + t) * q(x) + r.
Divided(c, q, t, r) ==
    \A x \in Byte : evalPoly(c, x) = gfAdd(r, gfMul(gfAdd(x, t), evalPoly(q, x)))

\* Every polynomial can be divided by x + t.
LEMMA Divide ==
    ASSUME NEW L \in Nat, NEW c \in [1 .. L + 1 -> Byte], NEW t \in Byte
    PROVE  \E q \in [1 .. L -> Byte], r \in Byte : Divided(c, q, t, r)
<1>1. PICK out : IsHorner(out, c, t, L + 1)
  <2>1. L + 1 \in Nat
    OBVIOUS
  <2> QED
    BY <2>1, HornerExists
<1>2. out \in [1 .. L + 2 -> Byte]
  <2>1. (L + 1) + 1 = L + 2
    OBVIOUS
  <2> QED
    BY <1>1, <2>1 DEF IsHorner
<1> DEFINE q == [j \in 1 .. L |-> out[j + 1]]
<1>3. q \in [1 .. L -> Byte] /\ \A j \in 1 .. L : q[j] = out[j + 1]
  BY <1>2
<1>4. out[1] \in Byte
  BY <1>2
<1> HIDE DEF q
<1>5. \A x \in Byte : evalPoly(c, x) = gfAdd(out[1], gfMul(gfAdd(x, t), evalPoly(q, x)))
  BY <1>1, <1>3, Division
<1> QED
  BY <1>3, <1>4, <1>5 DEF Divided

\* The polynomial (x + t) * q(x) + r: its coefficients are such that dividing
\* by x + t again, as Horner's rule does at t, gives q and r.
LEMMA Multiplied ==
    ASSUME NEW L \in Nat, L >= 1, NEW q \in [1 .. L -> Byte], NEW t \in Byte, NEW r \in Byte
    PROVE  \E d \in [1 .. L + 1 -> Byte] :
              d[1] = gfAdd(r, gfMul(q[1], t)) /\ Divided(d, q, t, r)
<1> DEFINE out == [i \in 1 .. L + 2 |-> IF i = 1 THEN r ELSE IF i = L + 2 THEN 0 ELSE q[i - 1]]
           d == [i \in 1 .. L + 1 |-> gfAdd(out[i], gfMul(out[i + 1], t))]
<1>1. 0 \in Byte
  BY Bytes
<1>2. out \in [1 .. L + 2 -> Byte]
  <2>1. ASSUME NEW i \in 1 .. L + 2 PROVE out[i] \in Byte
    <3>1. CASE i = 1 \/ i = L + 2
      BY <1>1, <3>1
    <3>2. CASE i # 1 /\ i # L + 2
      <4>1. i - 1 \in 1 .. L
        BY <3>2
      <4> QED
        BY <3>2, <4>1
    <3> QED
      BY <3>1, <3>2
  <2> QED
    BY <2>1
<1>3. out[1] = r /\ out[2] = q[1] /\ out[L + 2] = 0
  OBVIOUS
<1>4. \A j \in 1 .. L : out[j + 1] = q[j]
  OBVIOUS
<1> HIDE DEF out
<1>5. ASSUME NEW i \in 1 .. L + 1
      PROVE  d[i] \in Byte /\ out[i] = gfAdd(gfMul(out[i + 1], t), d[i])
  <2>1. i \in 1 .. L + 2 /\ i + 1 \in 1 .. L + 2
    OBVIOUS
  <2>2. PICK a \in Byte : a = out[i]
    BY <1>2, <2>1
  <2>3. PICK o \in Byte : o = out[i + 1]
    BY <1>2, <2>1
  <2>4. PICK b \in Byte : b = gfMul(o, t)
    BY MulLaws
  <2>5. d[i] = gfAdd(a, b)
    BY <2>2, <2>3, <2>4
  <2>6. gfAdd(a, b) \in Byte /\ gfAdd(b, gfAdd(a, b)) = a
    <3>1. gfAdd(a, b) \in Byte /\ gfAdd(a, b) = gfAdd(b, a)
      BY AddLaws
    <3>2. gfAdd(gfAdd(b, b), a) = gfAdd(b, gfAdd(b, a)) /\ gfAdd(b, b) = 0
      BY AddLaws
    <3>3. gfAdd(0, a) = a
      <4>1. gfAdd(0, a) = gfAdd(a, 0) /\ gfAdd(a, 0) = a
        BY <1>1, AddLaws
      <4> QED
        BY <4>1
    <3> QED
      BY <3>1, <3>2, <3>3
  <2> HIDE DEF d
  <2> QED
    BY <2>2, <2>3, <2>4, <2>5, <2>6
<1>6. d \in [1 .. L + 1 -> Byte]
  BY <1>5
<1>7. d[1] = gfAdd(r, gfMul(q[1], t))
  <2>1. 1 \in 1 .. L + 1 /\ 1 + 1 = 2
    OBVIOUS
  <2> QED
    BY <1>3, <2>1
<1> HIDE DEF d
<1>8. IsHorner(out, d, t, L + 1)
  <2>1. (L + 1) + 1 = L + 2
    OBVIOUS
  <2> QED
    BY <1>2, <1>3, <1>5, <2>1 DEF IsHorner
<1>9. \A x \in Byte : evalPoly(d, x) = gfAdd(r, gfMul(gfAdd(x, t), evalPoly(q, x)))
  <2>1. \A j \in 1 .. L : q[j] = out[j + 1]
    BY <1>4
  <2> QED
    BY <1>3, <1>6, <1>8, <2>1, Division
<1> QED
  BY <1>6, <1>7, <1>9 DEF Divided

\* Whatever polynomial gave the values at m places, one with any other value
\* at 0 gives the same ones.
Fits(m) ==
    \A P \in SUBSET (1 .. 255) : Cardinality(P) = m =>
        \A c \in [1 .. m + 1 -> Byte], other \in Byte :
            \E d \in [1 .. m + 1 -> Byte] :
                d[1] = other /\ \A i \in P : evalPoly(d, i) = evalPoly(c, i)

\* A coefficient that gives the value wanted at 0.
LEMMA Solve ==
    ASSUME NEW r \in Byte, NEW t \in Byte, t # 0, NEW other \in Byte
    PROVE  \E v \in Byte : gfAdd(r, gfMul(v, t)) = other
<1>1. PICK a \in Byte : a = gfAdd(other, r)
  BY AddLaws
<1>2. PICK v \in Byte : v = Quot(a, t) /\ gfMul(t, v) = a
  BY QuotLaws
<1>3. gfMul(v, t) = a
  BY <1>2, MulLaws
<1>4. gfAdd(r, a) = other
  <2>1. gfAdd(other, r) = gfAdd(r, other)
    BY AddLaws
  <2>2. gfAdd(gfAdd(r, r), other) = gfAdd(r, gfAdd(r, other)) /\ gfAdd(r, r) = 0
    BY AddLaws
  <2>3. 0 \in Byte
    BY Bytes
  <2>4. gfAdd(0, other) = gfAdd(other, 0) /\ gfAdd(other, 0) = other
    BY <2>3, AddLaws
  <2> QED
    BY <1>1, <2>1, <2>2, <2>4
<1> QED
  BY <1>3, <1>4

\* No place at all: the constant polynomial.
LEMMA FitsZero == Fits(0)
<1> SUFFICES ASSUME NEW P \in SUBSET (1 .. 255), Cardinality(P) = 0,
                    NEW c \in [1 .. 0 + 1 -> Byte], NEW other \in Byte
             PROVE  \E d \in [1 .. 0 + 1 -> Byte] :
                       d[1] = other /\ \A i \in P : evalPoly(d, i) = evalPoly(c, i)
  BY DEF Fits
<1>1. IsFiniteSet(1 .. 255)
  <2>1. 1 \in Int /\ 255 \in Int
    OBVIOUS
  <2> QED
    BY <2>1, FS_Interval, ZenonT(40)
<1>2. P = {}
  <2>1. IsFiniteSet(P)
    BY <1>1, FS_Subset, ZenonT(40)
  <2> QED
    BY <2>1, FS_EmptySet
<1> DEFINE d == [j \in 1 .. 0 + 1 |-> other]
<1>3. d \in [1 .. 0 + 1 -> Byte] /\ d[1] = other
  OBVIOUS
<1> HIDE DEF d
<1> QED
  BY <1>2, <1>3

\* One place more: divide by x + t, fit the quotient, multiply again.
LEMMA FitsNext == ASSUME NEW m \in Nat, Fits(m) PROVE Fits(m + 1)
<1> SUFFICES ASSUME NEW P \in SUBSET (1 .. 255), Cardinality(P) = m + 1,
                    NEW c \in [1 .. (m + 1) + 1 -> Byte], NEW other \in Byte
             PROVE  \E d \in [1 .. (m + 1) + 1 -> Byte] :
                       d[1] = other /\ \A i \in P : evalPoly(d, i) = evalPoly(c, i)
  BY DEF Fits
<1>1. IsFiniteSet(P)
  <2>1. IsFiniteSet(1 .. 255)
    <3>1. 1 \in Int /\ 255 \in Int
      OBVIOUS
    <3> QED
      BY <3>1, FS_Interval, Zenon
  <2> QED
    BY <2>1, FS_Subset
<1>2. PICK t : t \in P
  <2>1. P # {}
    BY <1>1, FS_EmptySet
  <2> QED
    BY <2>1
<1>3. \A i \in P : i \in Byte /\ i # 0
  BY DEF Byte
<1>4. P \ {t} \in SUBSET (1 .. 255) /\ Cardinality(P \ {t}) = m
  <2>1. Cardinality(P \ {t}) = (m + 1) - 1
    BY <1>1, <1>2, FS_RemoveElement
  <2>2. P \ {t} \in SUBSET (1 .. 255)
    OBVIOUS
  <2>3. (m + 1) - 1 = m
    OBVIOUS
  <2> QED
    BY <2>1, <2>2, <2>3, Zenon
<1>5. PICK L \in Nat : L = m + 1 /\ L >= 1
  OBVIOUS
<1>6. c \in [1 .. L + 1 -> Byte] /\ t \in Byte /\ t # 0
  BY <1>2, <1>3, <1>5
<1>7. PICK q \in [1 .. L -> Byte], r \in Byte : Divided(c, q, t, r)
  BY <1>6, Divide
<1>8. \A x \in Byte : evalPoly(c, x) = gfAdd(r, gfMul(gfAdd(x, t), evalPoly(q, x)))
  BY <1>7 DEF Divided
<1>9. PICK v \in Byte : gfAdd(r, gfMul(v, t)) = other
  BY <1>6, Solve
<1>10. PICK p \in [1 .. L -> Byte] :
          p[1] = v /\ \A i \in P \ {t} : evalPoly(p, i) = evalPoly(q, i)
  <2>1. q \in [1 .. m + 1 -> Byte]
    BY <1>5
  <2>2. \E p \in [1 .. m + 1 -> Byte] :
           p[1] = v /\ \A i \in P \ {t} : evalPoly(p, i) = evalPoly(q, i)
    BY <1>4, <2>1, ZenonT(40) DEF Fits
  <2> QED
    BY <1>5, <2>2
<1>11. PICK d \in [1 .. L + 1 -> Byte] :
          d[1] = gfAdd(r, gfMul(p[1], t)) /\ Divided(d, p, t, r)
  BY <1>5, <1>6, Multiplied
<1>12. \A x \in Byte : evalPoly(d, x) = gfAdd(r, gfMul(gfAdd(x, t), evalPoly(p, x)))
  BY <1>11 DEF Divided
<1>13. d[1] = other
  BY <1>9, <1>10, <1>11
<1>14. ASSUME NEW i \in P PROVE evalPoly(d, i) = evalPoly(c, i)
  <2>1. i \in Byte
    BY <1>3
  <2>2. CASE i # t
    <3>1. evalPoly(p, i) = evalPoly(q, i)
      BY <1>10, <2>2
    <3> QED
      BY <1>8, <1>12, <2>1, <3>1
  <2>3. CASE i = t
    <3>1. gfAdd(t, t) = 0
      BY <1>6, AddLaws
    <3>2. evalPoly(p, t) \in Byte /\ evalPoly(q, t) \in Byte
      BY <1>6, EvalType
    <3>3. gfMul(0, evalPoly(p, t)) = 0 /\ gfMul(0, evalPoly(q, t)) = 0
      BY <3>2, MulZero
    <3>4. /\ evalPoly(d, t) = gfAdd(r, gfMul(gfAdd(t, t), evalPoly(p, t)))
          /\ evalPoly(c, t) = gfAdd(r, gfMul(gfAdd(t, t), evalPoly(q, t)))
      BY <1>6, <1>8, <1>12
    <3> QED
      BY <2>3, <3>1, <3>3, <3>4
  <2> QED
    BY <2>2, <2>3
<1>15. d \in [1 .. (m + 1) + 1 -> Byte]
  BY <1>5
<1> QED
  BY <1>13, <1>14, <1>15

\* Any number of places.
LEMMA AlwaysFits == \A m \in Nat : Fits(m)
<1> DEFINE T == {m \in Nat : Fits(m)}
<1>1. 0 \in T
  BY FitsZero
<1>2. ASSUME NEW m \in Nat, m \in T PROVE m + 1 \in T
  <2>1. Fits(m + 1)
    BY <1>2, FitsNext
  <2> QED
    BY <2>1
<1>3. Nat \subseteq T
  <2> HIDE DEF T
  <2> QED
    BY <1>1, <1>2, SetInduction
<1> QED
  BY <1>3

\* The holders in P see the same of two keys and their coefficients.
SameView(P, other, alt, key, rnd) ==
    \A i \in P : evalPoly(<<other>> \o alt, i) = evalPoly(<<key>> \o rnd, i)

\* Shares of a key, one short of the threshold, are shares of every other key
\* (shamir.go Split), for other coefficients.
THEOREM FewSharesFit ==
    ASSUME NEW key \in Byte, NEW other \in Byte, NEW N \in Nat, N <= 255,
           NEW k \in Nat, k >= 1, NEW rnd \in [1 .. k - 1 -> Byte],
           NEW P \in SUBSET (1 .. N), Cardinality(P) = k - 1
    PROVE  \E alt \in [1 .. k - 1 -> Byte] : SameView(P, other, alt, key, rnd)
<1>1. PICK m \in Nat : m = k - 1 /\ k = m + 1
  OBVIOUS
<1>2. P \in SUBSET (1 .. 255)
  OBVIOUS
<1>3. PICK c \in [1 .. m + 1 -> Byte] : c = <<key>> \o rnd
  <2>1. <<key>> \o rnd \in [1 .. k -> Byte]
    BY SplitPoly
  <2> QED
    BY <1>1, <2>1
<1>4. PICK d \in [1 .. m + 1 -> Byte] :
         d[1] = other /\ \A i \in P : evalPoly(d, i) = evalPoly(c, i)
  <2>1. Fits(m)
    BY AlwaysFits
  <2> QED
    BY <1>1, <1>2, <2>1 DEF Fits
<1> DEFINE alt == [j \in 1 .. k - 1 |-> d[j + 1]]
<1>5. alt \in [1 .. k - 1 -> Byte] /\ \A j \in 1 .. k - 1 : alt[j] = d[j + 1]
  BY <1>1
<1> HIDE DEF alt
<1>6. <<other>> \o alt = d
  <2>1. /\ <<other>> \o alt \in [1 .. k -> Byte]
        /\ (<<other>> \o alt)[1] = other
        /\ \A j \in 2 .. k : (<<other>> \o alt)[j] = alt[j - 1]
    BY <1>5, SplitPoly
  <2> DEFINE full == <<other>> \o alt
  <2>2. d \in [1 .. k -> Byte] /\ d[1] = other
    BY <1>1, <1>4
  <2> HIDE DEF full
  <2>3. full \in [1 .. k -> Byte] /\ full[1] = other /\ \A j \in 2 .. k : full[j] = alt[j - 1]
    BY <2>1 DEF full
  <2>4. ASSUME NEW j \in 1 .. k PROVE full[j] = d[j]
    <3>1. CASE j = 1
      BY <2>2, <2>3, <3>1
    <3>2. CASE j # 1
      <4>1. j \in 2 .. k /\ j - 1 \in 1 .. k - 1 /\ (j - 1) + 1 = j
        BY <3>2
      <4> QED
        BY <1>5, <2>3, <4>1
    <3> QED
      BY <3>1, <3>2
  <2>5. full = d
    BY <2>2, <2>3, <2>4
  <2> QED
    BY <2>5 DEF full
<1>7. \A i \in P : evalPoly(<<other>> \o alt, i) = evalPoly(<<key>> \o rnd, i)
  BY <1>3, <1>4, <1>6
<1> QED
  BY <1>5, <1>7 DEF SameView

-----------------------------------------------------------------------------
(* Envelopes *)

\* Both wrappers of e hold the key that its data is sealed with.
SealedWith(e, r, key, rnd, h) ==
    /\ ThresholdOK(r)
    /\ e.threshold = r.threshold /\ e.rosterSize = Len(r.witnesses)
    /\ e.data.key = key /\ e.data.plain = Plaintext
    /\ e.silicon = boxSealGeneric(key, SiliconPub(Secret[h]))
    /\ \E s \in Split(key, Len(r.witnesses), r.threshold, rnd) :
          e.shares = [i \in DOMAIN r.witnesses |->
                        [witness |-> r.witnesses[i].index,
                         box |-> boxSealGeneric(s[i], r.witnesses[i].pubkey)]]
Sealed(e) ==
    \E r \in Rosters, key \in Deks, h \in Hosts : \E rnd \in Draws(r) :
        SealedWith(e, r, key, rnd, h)

\* The store holds a sealed envelope, and so does every host that recovers;
\* what a host has recovered is the key of the envelope it read, even when
\* the store holds another one by now.
StoreInv == stored = {} \/ \E e \in stored : stored = {e} /\ Sealed(e)
HostInv(h) ==
    \/ read[h] = {} /\ dek[h] = {}
    \/ \E e \in read[h] : read[h] = {e} /\ Sealed(e) /\ dek[h] \subseteq {e.data.key}
IInv ==
    /\ seals \in 0 .. MaxSeals
    /\ DOMAIN read = Hosts /\ DOMAIN dek = Hosts
    /\ StoreInv
    /\ \A h \in Hosts : HostInv(h)

\* The witnesses of a roster are a list.
LEMMA RosterList ==
    ASSUME NEW r \in Rosters
    PROVE  /\ Len(r.witnesses) \in Nat /\ DOMAIN r.witnesses = 1 .. Len(r.witnesses)
           /\ r.threshold \in Int
<1> DEFINE T == {r.witnesses[i] : i \in DOMAIN r.witnesses}
<1>1. r.witnesses \in Seq(T) /\ r.threshold \in Int
  BY EnvelopeAssumption
<1> HIDE DEF T
<1> QED
  BY <1>1

\* What an envelope draws is typed.
LEMMA DrawsTyped ==
    ASSUME NEW r \in Rosters, ThresholdOK(r), NEW rnd \in Draws(r)
    PROVE  /\ r.threshold \in Nat /\ r.threshold >= 1 /\ r.threshold <= Len(r.witnesses)
           /\ rnd \in [1 .. r.threshold - 1 -> Byte]
           /\ Deks \subseteq Byte
<1>1. r.threshold >= 1 /\ r.threshold <= Len(r.witnesses)
  BY DEF ThresholdOK
<1>2. r.threshold \in Nat
  BY <1>1, RosterList
<1>3. Deks \subseteq Byte /\ Coefficients \subseteq Byte
  BY EnvelopeAssumption
<1>4. rnd \in [1 .. r.threshold - 1 -> Byte]
  BY <1>3 DEF Draws
<1> QED
  BY <1>1, <1>2, <1>3, <1>4

\* The shares of an envelope give its key.
LEMMA ShamirRecovers ==
    ASSUME NEW r \in Rosters, NEW key \in Deks, ThresholdOK(r), NEW rnd \in Draws(r),
           NEW s \in Split(key, Len(r.witnesses), r.threshold, rnd)
    PROVE  Recovers(s, Len(r.witnesses), r.threshold, key)
<1>1. PICK N \in Nat : N = Len(r.witnesses)
  BY RosterList
<1>2. PICK k \in Nat : k = r.threshold /\ k >= 1 /\ k <= N
  BY <1>1, DrawsTyped
<1>3. key \in Byte /\ rnd \in [1 .. k - 1 -> Byte] /\ s \in Split(key, N, k, rnd)
  BY <1>1, <1>2, DrawsTyped
<1>4. Recovers(s, N, k, key)
  BY <1>2, <1>3, CombineInvertsSplit
<1> QED
  BY <1>1, <1>2, <1>4

\* A share carries its number.
LEMMA SplitIndex ==
    ASSUME NEW key, NEW n, NEW k, NEW rnd, NEW s \in Split(key, n, k, rnd)
    PROVE  \A i \in 1 .. n : s[i].index = i
<1>1. s = [i \in 1 .. n |-> [index |-> i, byte |-> evalPoly(<<key>> \o rnd, i)]]
  BY Zenon DEF Split
<1> QED
  BY <1>1

\* The result of Combine is a function of the first `threshold` shares.
Combined(used) ==
    IF /\ \A i \in DOMAIN used : used[i].index # 0
       /\ \A i, j \in DOMAIN used : used[i].index = used[j].index => i = j
       /\ \A i \in DOMAIN used : Denominator(used, i) # 0
    THEN {Interpolate(used)} ELSE {}
\* With enough shares, Combine interpolates through the first of them.
LEMMA CombineIs ==
    ASSUME NEW list, NEW k, Len(list) >= k
    PROVE  Combine(list, k) = Combined(SubSeq(list, 1, k))
BY Zenon DEF Combine, Combined

\* What any k or more shares of a sealed envelope give.
LEMMA SharesGiveKey ==
    ASSUME NEW e, Sealed(e)
    PROVE  \A n \in e.threshold .. Len(e.shares) :
           \A pick \in [1 .. n -> DOMAIN e.shares] : IsInjective(pick) =>
              RecoverDEK(e, [i \in DOMAIN pick |-> e.shares[pick[i]].box.payload])
                  = {e.data.key}
<1>0. PICK r \in Rosters, key \in Deks, h \in Hosts :
         \E rnd \in Draws(r) : SealedWith(e, r, key, rnd, h)
  BY DEF Sealed
<1>1. PICK rnd \in Draws(r) : SealedWith(e, r, key, rnd, h)
  BY <1>0
<1>2. /\ ThresholdOK(r) /\ e.threshold = r.threshold
      /\ e.data.key = key
  BY <1>1 DEF SealedWith
<1>3. PICK s \in Split(key, Len(r.witnesses), r.threshold, rnd) :
         e.shares = [i \in DOMAIN r.witnesses |->
                        [witness |-> r.witnesses[i].index,
                         box |-> boxSealGeneric(s[i], r.witnesses[i].pubkey)]]
  BY <1>1 DEF SealedWith
<1>4. /\ Len(r.witnesses) \in Nat /\ DOMAIN r.witnesses = 1 .. Len(r.witnesses)
      /\ r.threshold \in Int
  BY RosterList
<1>5. /\ DOMAIN e.shares = 1 .. Len(r.witnesses)
      /\ \A i \in 1 .. Len(r.witnesses) : e.shares[i].box.payload = s[i]
  BY <1>3, <1>4 DEF boxSealGeneric
<1>6. Len(e.shares) = Len(r.witnesses)
  BY <1>3, <1>4
<1>7. ASSUME NEW n \in r.threshold .. Len(r.witnesses),
             NEW pick \in [1 .. n -> 1 .. Len(r.witnesses)], IsInjective(pick)
      PROVE  RecoverDEK(e, [i \in DOMAIN pick |-> e.shares[pick[i]].box.payload]) = {key}
  <2> DEFINE list == [i \in 1 .. n |-> s[pick[i]]]
  <2>1. [i \in DOMAIN pick |-> e.shares[pick[i]].box.payload] = list
    BY <1>5
  <2>2. n \in Nat /\ n >= r.threshold
    BY <1>2, <1>4 DEF ThresholdOK
  <2>3. Len(list) = n
    BY <2>2
  <2>4. Combine(list, r.threshold) = {key}
    <3>1. Recovers(s, Len(r.witnesses), r.threshold, key)
      BY <1>2, ShamirRecovers
    <3> QED
      BY <1>7, <3>1 DEF Recovers
  <2> HIDE DEF list
  <2> QED
    BY <1>2, <2>1, <2>2, <2>3, <2>4 DEF RecoverDEK
<1> QED
  BY <1>2, <1>5, <1>6, <1>7

\* Whatever the host combines, in whatever order answers came and how often,
\* it recovers the key or nothing.
LEMMA RecoveryIsSound ==
    ASSUME NEW e, Sealed(e), NEW ws, NEW n \in Nat,
           NEW list \in [1 .. n -> Answers(e, ws)]
    PROVE  RecoverDEK(e, list) \subseteq {e.data.key}
<1>0. PICK r \in Rosters, key \in Deks, h \in Hosts :
         \E rnd \in Draws(r) : SealedWith(e, r, key, rnd, h)
  BY DEF Sealed
<1>1. PICK rnd \in Draws(r) : SealedWith(e, r, key, rnd, h)
  BY <1>0
<1>2. /\ ThresholdOK(r) /\ e.threshold = r.threshold
      /\ e.data.key = key
  BY <1>1 DEF SealedWith
<1>3. PICK s \in Split(key, Len(r.witnesses), r.threshold, rnd) :
         e.shares = [i \in DOMAIN r.witnesses |->
                        [witness |-> r.witnesses[i].index,
                         box |-> boxSealGeneric(s[i], r.witnesses[i].pubkey)]]
  BY <1>1 DEF SealedWith
<1>4. /\ Len(r.witnesses) \in Nat /\ DOMAIN r.witnesses = 1 .. Len(r.witnesses)
      /\ r.threshold \in Int
  BY RosterList
<1>5. PICK k \in Nat, N \in Nat : k = r.threshold /\ N = Len(r.witnesses) /\ k >= 1 /\ k <= N
  BY <1>2, <1>4 DEF ThresholdOK
<1>6. \A i \in 1 .. N : s[i].index = i
  BY <1>5, SplitIndex
<1>7. \A i \in 1 .. n : \E j \in 1 .. N : list[i] = s[j]
  <2>1. DOMAIN e.shares = 1 .. N /\ \A j \in 1 .. N : e.shares[j].box.payload = s[j]
    BY <1>3, <1>4, <1>5 DEF boxSealGeneric
  <2>2. ASSUME NEW a \in Answers(e, ws) PROVE \E j \in 1 .. N : a = s[j]
    <3>1. PICK j \in DOMAIN e.shares, w \in ws : a \in WitnessUnboxShare(e.shares[j], w)
      BY DEF Answers
    <3>2. a = e.shares[j].box.payload
      BY <3>1 DEF WitnessUnboxShare, boxOpenGeneric
    <3> QED
      BY <2>1, <3>2
  <2> QED
    BY <2>2
<1>8. Len(list) = n
  OBVIOUS
<1>9. CASE ~(n >= k)
  BY <1>2, <1>5, <1>8, <1>9 DEF RecoverDEK
<1>10. CASE n >= k
  <2> DEFINE used == [i \in 1 .. k |-> list[i]]
             pick == [i \in 1 .. k |-> list[i].index]
             sorted == [i \in 1 .. k |-> s[pick[i]]]
  <2>1. SubSeq(list, 1, k) = used
    <3>1. list \in Seq(Answers(e, ws))
      OBVIOUS
    <3> QED
      BY <1>5, <1>8, <1>10, <3>1, PrefixAt
  <2>2. RecoverDEK(e, list) = Combined(used)
    <3>1. RecoverDEK(e, list) = Combine(list, k)
      BY <1>2, <1>5, <1>8, <1>10 DEF RecoverDEK
    <3>2. Len(list) >= k
      BY <1>8, <1>10
    <3> HIDE DEF used
    <3> QED
      BY <2>1, <3>1, <3>2, CombineIs
  <2>3. ASSUME NEW i \in 1 .. k
        PROVE  pick[i] \in 1 .. N /\ list[i] = s[pick[i]]
    <3>1. i \in 1 .. n
      BY <1>5, <1>10
    <3>2. PICK j \in 1 .. N : list[i] = s[j]
      BY <1>7, <3>1
    <3> QED
      BY <1>6, <3>2
  <2>4. pick \in [1 .. k -> 1 .. N]
    BY <2>3
  <2>5. used = sorted
    BY <2>3
  <2>6. CASE \A i, j \in DOMAIN used : used[i].index = used[j].index => i = j
    <3>1. IsInjective(pick)
      <4>1. ASSUME NEW i \in 1 .. k, NEW j \in 1 .. k, pick[i] = pick[j] PROVE i = j
        <5>1. used[i] = used[j] /\ i \in DOMAIN used /\ j \in DOMAIN used
          BY <2>3, <4>1
        <5> QED
          BY <2>6, <5>1
      <4> QED
        BY <4>1 DEF IsInjective
    <3> HIDE DEF pick
    <3>2. k \in r.threshold .. Len(r.witnesses) /\ pick \in [1 .. k -> 1 .. Len(r.witnesses)]
      BY <1>5, <2>4
    <3>3. Combine(sorted, r.threshold) = {key}
      <4>1. Recovers(s, Len(r.witnesses), r.threshold, key)
        BY <1>2, ShamirRecovers
      <4> QED
        BY <3>1, <3>2, <4>1 DEF Recovers
    <3>4. Len(sorted) = k /\ SubSeq(sorted, 1, k) = sorted
      OBVIOUS
    <3> HIDE DEF sorted, used
    <3>5. Combine(sorted, k) = Combined(sorted)
      <4>1. Len(sorted) >= k
        BY <1>5, <3>4
      <4> QED
        BY <3>4, <4>1, CombineIs
    <3> QED
      BY <1>2, <1>5, <2>2, <2>5, <3>3, <3>5
  <2>7. CASE ~(\A i, j \in DOMAIN used : used[i].index = used[j].index => i = j)
    <3> HIDE DEF used
    <3>1. Combined(used) = {}
      BY <2>7 DEF Combined
    <3> QED
      BY <2>2, <3>1
  <2> QED
    BY <2>6, <2>7
<1> QED
  BY <1>9, <1>10

\* What Seal and ReSeal wrap is a sealed envelope: the data of either is
\* sealed with the key that is wrapped.
LEMMA WrappedIsSealed ==
    ASSUME NEW r \in Rosters, NEW key \in Deks, NEW h \in Hosts, NEW rnd \in Draws(r),
           NEW data, data.key = key, data.plain = Plaintext, ThresholdOK(r),
           NEW e \in Wrapped(key, SiliconPub(Secret[h]), r, rnd, data, Len(r.witnesses))
    PROVE  Sealed(e)
<1> DEFINE shares(s) == [i \in DOMAIN r.witnesses |->
                           [witness |-> r.witnesses[i].index,
                            box |-> boxSealGeneric(s[i], r.witnesses[i].pubkey)]]
<1>1. PICK s \in Split(key, Len(r.witnesses), r.threshold, rnd) :
         e = [data       |-> data,
              silicon    |-> boxSealGeneric(key, SiliconPub(Secret[h])),
              shares     |-> shares(s),
              threshold  |-> r.threshold,
              rosterSize |-> Len(r.witnesses)]
  BY Zenon DEF Wrapped
<1> HIDE DEF shares
<1>2. /\ e.data = data /\ e.silicon = boxSealGeneric(key, SiliconPub(Secret[h]))
      /\ e.shares = shares(s) /\ e.threshold = r.threshold
      /\ e.rosterSize = Len(r.witnesses)
  BY <1>1
<1>3. SealedWith(e, r, key, rnd, h)
  BY <1>2 DEF SealedWith, shares
<1> QED
  BY <1>3 DEF Sealed

\* The facts about a sealed envelope that do not concern its shares' bytes.
LEMMA SealedFacts ==
    ASSUME NEW e, Sealed(e)
    PROVE  /\ e.data.key \in Deks /\ e.data.plain = Plaintext
           /\ e.silicon.payload = e.data.key
           /\ e.rosterSize = Len(e.shares) /\ e.threshold \in 1 .. e.rosterSize
<1>0. PICK r \in Rosters, key \in Deks, h \in Hosts :
         \E rnd \in Draws(r) : SealedWith(e, r, key, rnd, h)
  BY DEF Sealed
<1>1. PICK rnd \in Draws(r) : SealedWith(e, r, key, rnd, h)
  BY <1>0
<1>2. /\ ThresholdOK(r) /\ e.threshold = r.threshold /\ e.rosterSize = Len(r.witnesses)
      /\ e.data.key = key /\ e.data.plain = Plaintext
      /\ e.silicon.payload = key
  BY <1>1 DEF SealedWith, boxSealGeneric
<1>3. PICK s : e.shares = [i \in DOMAIN r.witnesses |->
                             [witness |-> r.witnesses[i].index,
                              box |-> boxSealGeneric(s[i], r.witnesses[i].pubkey)]]
  BY <1>1 DEF SealedWith
<1>4. /\ Len(r.witnesses) \in Nat /\ DOMAIN r.witnesses = 1 .. Len(r.witnesses)
      /\ r.threshold \in Int
  BY RosterList
<1>5. Len(e.shares) = Len(r.witnesses)
  BY <1>3, <1>4
<1> QED
  BY <1>2, <1>4, <1>5 DEF ThresholdOK

\* Nothing is stored and nobody recovers.
LEMMA InitIInv == Init => IInv
BY EnvelopeAssumption DEF Init, IInv, StoreInv, HostInv

\* Every step of the hosts and of the store keeps the invariant.
LEMMA NextIInv == ASSUME IInv, [Next]_vars PROVE IInv'
<1>0. /\ seals \in 0 .. MaxSeals /\ MaxSeals \in Nat
      /\ DOMAIN read = Hosts /\ DOMAIN dek = Hosts
      /\ StoreInv
      /\ \A h \in Hosts : HostInv(h)
  BY EnvelopeAssumption DEF IInv
<1>1. CASE UNCHANGED vars
  BY <1>0, <1>1 DEF vars, IInv, StoreInv, HostInv
<1>2. ASSUME NEW h \in Hosts, NEW r \in Rosters, NEW key \in Deks, SealData(h, r, key)
      PROVE  IInv'
  <2>1. PICK rnd \in Draws(r) :
           \E e \in Seal(Plaintext, SiliconPub(Secret[h]), r, key, rnd) : stored' = {e}
    BY <1>2 DEF SealData
  <2>2. PICK e \in Seal(Plaintext, SiliconPub(Secret[h]), r, key, rnd) : stored' = {e}
    BY <2>1
  <2> DEFINE data == aeadSeal(key, Plaintext, envelopeAD(Len(r.witnesses), r.threshold))
  <2>3. ThresholdOK(r)
        /\ e \in Wrapped(key, SiliconPub(Secret[h]), r, rnd, data, Len(r.witnesses))
    BY <2>2, Zenon DEF Seal
  <2>4. data.key = key /\ data.plain = Plaintext
    BY DEF aeadSeal
  <2> HIDE DEF data
  <2>5. Sealed(e)
    BY <2>3, <2>4, WrappedIsSealed
  <2>6. seals' = seals + 1 /\ seals < MaxSeals /\ UNCHANGED <<read, dek>>
    BY <1>2 DEF SealData
  <2>7. seals' \in 0 .. MaxSeals
    BY <1>0, <2>6
  <2>8. StoreInv'
    BY <2>2, <2>5 DEF StoreInv
  <2>9. \A x \in Hosts : HostInv(x)'
    BY <1>0, <2>6 DEF HostInv
  <2> QED
    BY <1>0, <2>6, <2>7, <2>8, <2>9 DEF IInv
<1>3. ASSUME NEW h \in Hosts, Begin(h)
      PROVE  IInv'
  <2>1. /\ stored # {} /\ read[h] = {}
        /\ read' = [read EXCEPT ![h] = stored]
        /\ UNCHANGED <<stored, seals, dek>>
    BY <1>3 DEF Begin
  <2>2. PICK e \in stored : stored = {e} /\ Sealed(e)
    BY <1>0, <2>1 DEF StoreInv
  <2>3. dek[h] = {}
    BY <1>0, <2>1 DEF HostInv
  <2>4. ASSUME NEW x \in Hosts PROVE HostInv(x)'
    <3>1. CASE x = h
      <4>1. read'[x] = {e} /\ dek'[x] = {}
        BY <1>0, <2>1, <2>2, <2>3, <3>1
      <4> QED
        BY <2>2, <4>1 DEF HostInv
    <3>2. CASE x # h
      <4>1. read'[x] = read[x] /\ dek'[x] = dek[x]
        BY <1>0, <2>1, <3>2
      <4> QED
        BY <1>0, <4>1 DEF HostInv
    <3> QED
      BY <3>1, <3>2
  <2>5. DOMAIN read' = Hosts /\ StoreInv'
    BY <1>0, <2>1 DEF StoreInv
  <2> QED
    BY <1>0, <2>1, <2>4, <2>5 DEF IInv
<1>4. ASSUME NEW h \in Hosts, NEW n \in 1 .. MaxAnswers, Recover(h, n)
      PROVE  IInv'
  <2>1. PICK e \in read[h] : \E list \in [1 .. n -> Answers(e, Witnesses)] :
           dek' = [dek EXCEPT ![h] = RecoverDEK(e, list)]
    BY <1>4 DEF Recover
  <2>2. PICK list \in [1 .. n -> Answers(e, Witnesses)] :
           dek' = [dek EXCEPT ![h] = RecoverDEK(e, list)]
    BY <2>1
  <2>3. read[h] = {e} /\ Sealed(e)
    BY <1>0, <2>1 DEF HostInv
  <2>4. n \in Nat
    BY EnvelopeAssumption
  <2>5. RecoverDEK(e, list) \subseteq {e.data.key}
    BY <2>3, <2>4, RecoveryIsSound
  <2>6. UNCHANGED <<stored, seals, read>>
    BY <1>4 DEF Recover
  <2>7. ASSUME NEW x \in Hosts PROVE HostInv(x)'
    <3>1. CASE x = h
      <4>1. read'[x] = {e} /\ dek'[x] = RecoverDEK(e, list)
        BY <1>0, <2>2, <2>3, <2>6, <3>1
      <4> QED
        BY <2>3, <2>5, <4>1 DEF HostInv
    <3>2. CASE x # h
      <4>1. read'[x] = read[x] /\ dek'[x] = dek[x]
        BY <1>0, <2>2, <2>6, <3>2
      <4> QED
        BY <1>0, <4>1 DEF HostInv
    <3> QED
      BY <3>1, <3>2
  <2>8. DOMAIN dek' = Hosts /\ StoreInv'
    BY <1>0, <2>2, <2>6 DEF StoreInv
  <2> QED
    BY <1>0, <2>6, <2>7, <2>8 DEF IInv
<1>5. ASSUME NEW h \in Hosts, NEW r \in Rosters, ReSealEnvelope(h, r)
      PROVE  IInv'
  <2>1. PICK old \in read[h], key \in dek[h], rnd \in Draws(r) :
           \E e \in ReSeal(old, key, SiliconPub(Secret[h]), r, rnd) : stored' = {e}
    BY <1>5 DEF ReSealEnvelope
  <2>2. PICK e \in ReSeal(old, key, SiliconPub(Secret[h]), r, rnd) : stored' = {e}
    BY <2>1
  <2>3. Sealed(old) /\ key = old.data.key
    BY <1>0 DEF HostInv
  <2>4. key \in Deks /\ old.data.plain = Plaintext
    BY <2>3, SealedFacts
  <2>5. ThresholdOK(r)
        /\ e \in Wrapped(key, SiliconPub(Secret[h]), r, rnd, old.data, Len(r.witnesses))
    BY <2>2, Zenon DEF ReSeal
  <2>6. Sealed(e)
    BY <2>3, <2>4, <2>5, WrappedIsSealed
  <2>7. /\ seals' = seals + 1 /\ seals < MaxSeals
        /\ read' = [read EXCEPT ![h] = {}]
        /\ dek' = [dek EXCEPT ![h] = {}]
    BY <1>5 DEF ReSealEnvelope
  <2>8. seals' \in 0 .. MaxSeals
    BY <1>0, <2>7
  <2>9. StoreInv'
    BY <2>2, <2>6 DEF StoreInv
  <2>10. \A x \in Hosts : HostInv(x)'
    BY <1>0, <2>7 DEF HostInv
  <2>11. DOMAIN read' = Hosts /\ DOMAIN dek' = Hosts
    BY <1>0, <2>7
  <2> QED
    BY <2>8, <2>9, <2>10, <2>11 DEF IInv
<1> QED
  BY <1>1, <1>2, <1>3, <1>4, <1>5 DEF Next

\* The inductive invariant holds in every state.
LEMMA AlwaysIInv == Spec => []IInv
<1>1. IInv /\ [Next]_vars => IInv'
  BY NextIInv
<1> QED
  BY <1>1, InitIInv, PTL DEF Spec

\* The types of the envelope (envelope.go): one at a time in the store, as
\* many shares as it says, and a threshold they can meet.
THEOREM EnvelopeTypes == Spec => []TypeOK
<1>1. ASSUME IInv PROVE TypeOK
  <2>1. \A e : Cardinality({e}) <= 1
    <3>1. \A e : Cardinality({e}) = 1
      BY FS_Singleton
    <3> QED
      BY <3>1
  <2>2. Cardinality({}) <= 1
    <3>1. Cardinality({}) = 0
      BY FS_EmptySet
    <3> QED
      BY <3>1
  <2>3. Cardinality(stored) <= 1
    BY <1>1, <2>1, <2>2 DEF IInv, StoreInv
  <2>4. \A h \in Hosts : Cardinality(read[h]) <= 1
    BY <1>1, <2>1, <2>2 DEF IInv, HostInv
  <2>5. \A e \in stored : Sealed(e)
    BY <1>1 DEF IInv, StoreInv
  <2>6. \A e \in stored : /\ e.rosterSize = Len(e.shares)
                          /\ e.threshold \in 1 .. e.rosterSize
                          /\ e.silicon.payload \in Byte
    BY <2>5, SealedFacts, EnvelopeAssumption
  <2>7. \A h \in Hosts : dek[h] \subseteq Byte
    BY <1>1, SealedFacts, EnvelopeAssumption DEF IInv, HostInv
  <2> QED
    BY <1>1, <2>3, <2>4, <2>6, <2>7 DEF IInv, TypeOK
<1> QED
  BY <1>1, AlwaysIInv, PTL

\* The data is never out of reach (envelope.go Seal, RecoverDEK, ReSeal), for
\* every roster and threshold and any number of hosts and recoveries: both
\* wrappers of the stored envelope hold the key of its data, any threshold or
\* more of its shares give it, and a host recovers that key or nothing,
\* whoever overtakes it.
THEOREM KeyIsNeverLost == Spec => []KeyIsRecoverable
<1>1. ASSUME IInv PROVE KeyIsRecoverable
  <2>1. \A e \in stored : Sealed(e)
    BY <1>1 DEF IInv, StoreInv
  <2>2. \A e \in stored : e.silicon.payload = e.data.key
    BY <2>1, SealedFacts
  <2>3. \A e \in stored : \A n \in e.threshold .. Len(e.shares) :
           \A pick \in [1 .. n -> DOMAIN e.shares] : IsInjective(pick) =>
              RecoverDEK(e, [i \in DOMAIN pick |-> e.shares[pick[i]].box.payload])
                  = {e.data.key}
    BY <2>1, SharesGiveKey
  <2>4. \A h \in Hosts : \A e \in read[h] : dek[h] \subseteq {e.data.key}
    BY <1>1 DEF IInv, HostInv
  <2> QED
    BY <2>2, <2>3, <2>4 DEF KeyIsRecoverable
<1> QED
  BY <1>1, AlwaysIInv, PTL

\* One share short of the threshold tells nothing (shamir.go Split), for
\* every roster, threshold and key: what any k - 1 witnesses hold of the
\* stored envelope is what they hold of every other key, split with other
\* coefficients.
THEOREM FewSharesAreNoHelp == Spec => []FewSharesTellNothing
<1>1. ASSUME IInv PROVE FewSharesTellNothing
  <2> SUFFICES ASSUME NEW e \in stored, e.threshold <= MaxGuess,
                      NEW P \in kSubset(e.threshold - 1, DOMAIN e.shares), NEW other \in Deks
               PROVE  View(other, Len(e.shares), e.threshold, P,
                           [i \in DOMAIN e.shares |-> e.shares[i].box.payload])
                        \in PossibleViews
    BY Zenon DEF FewSharesTellNothing
  <2>1. PICK r \in Rosters, key \in Deks, h \in Hosts :
           \E rnd \in Draws(r) : SealedWith(e, r, key, rnd, h)
    BY <1>1 DEF IInv, StoreInv, Sealed
  <2>2. PICK rnd \in Draws(r) : SealedWith(e, r, key, rnd, h)
    BY <2>1
  <2>3. ThresholdOK(r) /\ e.threshold = r.threshold
    BY <2>2 DEF SealedWith
  <2>4. PICK s \in Split(key, Len(r.witnesses), r.threshold, rnd) :
           e.shares = [i \in DOMAIN r.witnesses |->
                         [witness |-> r.witnesses[i].index,
                          box |-> boxSealGeneric(s[i], r.witnesses[i].pubkey)]]
    BY <2>2 DEF SealedWith
  <2>5. PICK N \in Nat : N = Len(r.witnesses) /\ DOMAIN r.witnesses = 1 .. N
    BY RosterList
  <2>6. PICK k \in Nat : k = e.threshold /\ k >= 1 /\ k <= N
    BY <2>3, <2>5, DrawsTyped
  <2>7. key \in Byte /\ other \in Byte /\ rnd \in [1 .. k - 1 -> Byte]
    BY <2>3, <2>6, DrawsTyped
  <2>8. Len(e.shares) = N /\ DOMAIN e.shares = 1 .. N
    BY <2>4, <2>5
  <2>9. \A i \in 1 .. N : e.shares[i].box.payload = s[i]
    BY <2>4, <2>5 DEF boxSealGeneric
  <2>10. s \in Split(key, N, k, rnd)
    BY <2>3, <2>5, <2>6
  <2>11. N <= 255 /\ s = [i \in 1 .. N |-> [index |-> i, byte |-> evalPoly(<<key>> \o rnd, i)]]
    BY <2>10, Zenon DEF Split
  <2>12. P \in SUBSET (1 .. N) /\ Cardinality(P) = k - 1 /\ P \in kSubset(k - 1, 1 .. N)
    BY <2>6, <2>8 DEF kSubset
  <2>13. N <= 255
    BY <2>11
  <2>14. PICK alt \in [1 .. k - 1 -> Byte] : SameView(P, other, alt, key, rnd)
    <3>1. key \in Byte /\ other \in Byte
      BY <2>7
    <3>2. rnd \in [1 .. k - 1 -> Byte]
      BY <2>7
    <3>3. P \in SUBSET (1 .. N)
      BY <2>12
    <3>4. Cardinality(P) = k - 1
      BY <2>12
    <3>5. k >= 1
      BY <2>6
    <3> QED
      BY <2>13, <3>1, <3>2, <3>3, <3>4, <3>5, FewSharesFit
  <2> DEFINE t == [i \in 1 .. N |-> [index |-> i, byte |-> evalPoly(<<other>> \o alt, i)]]
             held == [i \in DOMAIN e.shares |-> e.shares[i].box.payload]
  <2>15. t \in Split(other, N, k, alt)
    BY <2>6, <2>13, Zenon DEF Split
  <2>16. View(other, N, k, P, held) = View(other, N, k, P, t)
    <3>1. ASSUME NEW i \in P PROVE held[i] = t[i]
      <4>1. i \in 1 .. N
        BY <2>12
      <4>2. held[i] = [index |-> i, byte |-> evalPoly(<<key>> \o rnd, i)]
        BY <2>8, <2>9, <2>11, <4>1
      <4>3. t[i] = [index |-> i, byte |-> evalPoly(<<other>> \o alt, i)]
        BY <4>1
      <4> QED
        BY <2>14, <4>2, <4>3 DEF SameView
    <3> HIDE DEF t, held
    <3>2. [i \in P |-> held[i]] = [i \in P |-> t[i]]
      BY <3>1
    <3> QED
      BY <3>2 DEF View
  <2> HIDE DEF t, held
  <2>17. View(other, N, k, P, t) \in Views(other, N, k)
    BY <2>12, <2>15 DEF Views
  <2>18. k \in 1 .. MaxGuess /\ N \in {Len(q.witnesses) : q \in Rosters}
    BY <2>5, <2>6, EnvelopeAssumption
  <2>19. Views(other, N, k) \subseteq PossibleViews
    BY <2>18 DEF PossibleViews
  <2> QED
    BY <2>6, <2>8, <2>16, <2>17, <2>19 DEF held
<1> QED
  BY <1>1, AlwaysIInv, PTL

\* Who opens the stored envelope without witnesses (envelope.go OpenSilicon,
\* fuzzy.go Reproduce), for every code length, fingerprint and noise: the
\* host that sealed it last, on its own chip, whenever at most one bit per
\* block is flipped; and no other chip.
THEOREM OnlyItsSiliconOpens == Spec => []SiliconOpens
<1>1. ASSUME IInv PROVE SiliconOpens
  <2> SUFFICES ASSUME NEW e \in stored, NEW d \in Derivations
               PROVE  LET opened == UNION {OpenSilicon(e, k) : k \in d.keys}
                          mayOpen == /\ e.silicon.to = SiliconPub(Secret[d.host])
                                     /\ e.data.ad = <<Len(e.shares), e.threshold>>
                                     /\ d.chip = d.host
                      IN  /\ opened # {} => mayOpen
                          /\ mayOpen /\ d.correctable => opened = {Plaintext}
    BY Zenon DEF SiliconOpens
  <2> DEFINE opened == UNION {OpenSilicon(e, k) : k \in d.keys}
             mayOpen == /\ e.silicon.to = SiliconPub(Secret[d.host])
                        /\ e.data.ad = <<Len(e.shares), e.threshold>>
                        /\ d.chip = d.host
  <2>1. Sealed(e)
    BY <1>1 DEF IInv, StoreInv
  <2>2. PICK h \in Hosts, chip \in Hosts, flips \in Noise :
          d = [host |-> h, chip |-> chip, correctable |-> Correctable(h, flips),
               keys |-> UNION {{SiliconPub(K) : K \in Reproduce(Measure(chip, flips), hd)} :
                                  hd \in Enroll(Silicon[h], Reliable, Secret[h])}]
    BY DEF Derivations
  <2>3. /\ d.host = h /\ d.chip = chip /\ d.correctable = Correctable(h, flips)
        /\ d.keys = UNION {{SiliconPub(K) : K \in Reproduce(Measure(chip, flips), hd)} :
                              hd \in Enroll(Silicon[h], Reliable, Secret[h])}
    BY <2>2
  <2>4. PICK hd : Enroll(Silicon[h], Reliable, Secret[h]) = {hd}
    <3>1. Enroll(Silicon[h], Reliable, Secret[h]) # {}
      BY SiliconAssumption
    <3> QED
      BY <3>1, Zenon DEF Enroll
  <2>5. Reproduce(Measure(chip, flips), hd)
          = IF Close(h, Measure(chip, flips)) THEN {Secret[h]} ELSE {}
    BY <2>4, ReproduceIs
  <2>6. d.keys = IF Close(h, Measure(chip, flips)) THEN {SiliconPub(Secret[h])} ELSE {}
    BY <2>3, <2>4, <2>5
  <2>7. chip # h => ~Close(h, Measure(chip, flips))
    BY OtherChip
  <2>8. chip = h /\ Correctable(h, flips) => Close(h, Measure(chip, flips))
    BY <2>4, OwnChip
  <2>9. \A key : OpenSilicon(e, key)
                   = IF e.silicon.to = key /\ e.data.ad = <<Len(e.shares), e.threshold>>
                     THEN {Plaintext} ELSE {}
    <3>1. /\ e.data.plain = Plaintext /\ e.silicon.payload = e.data.key
          /\ e.rosterSize = Len(e.shares)
      BY <2>1, SealedFacts
    <3> QED
      BY <3>1 DEF OpenSilicon, boxOpenGeneric, aeadOpen, envelopeAD
  <2>10. opened = IF /\ Close(h, Measure(chip, flips))
                     /\ e.silicon.to = SiliconPub(Secret[h])
                     /\ e.data.ad = <<Len(e.shares), e.threshold>>
                  THEN {Plaintext} ELSE {}
    BY <2>6, <2>9
  <2> HIDE DEF opened
  <2>11. opened # {} => mayOpen
    BY <2>3, <2>7, <2>10
  <2>12. mayOpen /\ d.correctable => opened = {Plaintext}
    BY <2>3, <2>8, <2>10
  <2> QED
    BY <2>11, <2>12 DEF opened
<1> QED
  BY <1>1, AlwaysIInv, PTL
=============================================================================
