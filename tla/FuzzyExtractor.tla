---------------------------- MODULE FuzzyExtractor ----------------------------
(***************************************************************************)
(* The key a host draws from its silicon (internal/puf/fuzzy.go and        *)
(* hamming.go): a secret, encoded with Hamming(7,4), is masked with the    *)
(* bits of the fingerprint that proved reliable; a later, noisy measurement *)
(* takes the mask off and decodes.  Bits are packed in bytes in the source *)
(* and sequences here.  An error return is {}, a result {result}.          *)
(***************************************************************************)
EXTENDS Integers, Sequences

xorBits(a, b) == [i \in DOMAIN a |-> (a[i] + b[i]) % 2]

\* Parity at the positions that are powers of two.
HammingEncode4to7(d) ==
    <<(d[1] + d[2] + d[4]) % 2, (d[1] + d[3] + d[4]) % 2, d[1],
      (d[2] + d[3] + d[4]) % 2, d[2], d[3], d[4]>>

\* Mutant of HammingDecode7to4: the syndrome is taken for a 0-based position.
HammingDecode7to4_OffByOne(c) ==
    LET syn == ((c[1] + c[3] + c[5] + c[7]) % 2)
               + 2 * ((c[2] + c[3] + c[6] + c[7]) % 2)
               + 4 * ((c[4] + c[5] + c[6] + c[7]) % 2)
        fix(i) == IF syn # 0 /\ i = syn + 1 THEN 1 - c[i] ELSE c[i]
    IN  <<fix(3), fix(5), fix(6), fix(7)>>

\* The syndrome is the position of a single flipped bit, counted from 1.
HammingDecode7to4(c) ==
    LET syn == ((c[1] + c[3] + c[5] + c[7]) % 2)
               + 2 * ((c[2] + c[3] + c[6] + c[7]) % 2)
               + 4 * ((c[4] + c[5] + c[6] + c[7]) % 2)
        fix(i) == IF i = syn THEN 1 - c[i] ELSE c[i]
    IN  <<fix(3), fix(5), fix(6), fix(7)>>

\* Block b, counted from 0, of n bits.
Block(bits, n, b) == SubSeq(bits, n * b + 1, n * b + n)

EncodeHamming74(data) ==
    [i \in 1 .. 7 * (Len(data) \div 4) |->
        LET b == HammingEncode4to7(Block(data, 4, (i - 1) \div 7)) IN b[((i - 1) % 7) + 1]]

DecodeHamming74(code) ==
    [i \in 1 .. 4 * (Len(code) \div 7) |->
        LET b == HammingDecode7to4(Block(code, 7, (i - 1) \div 4)) IN b[((i - 1) % 4) + 1]]

extractBitsAt(fp, indices) == [i \in DOMAIN indices |-> fp[indices[i]]]

\* HKDF is one way and free of collisions.
commitTo(K) == [commit |-> K]

\* The helper data for a fresh secret K; the first HelperBits reliable
\* positions are used, HelperBits being the length of K's codeword.
Enroll(fp, reliable, K) ==
    LET codeword == EncodeHamming74(K)
        indices  == SubSeq(reliable, 1, Len(codeword))
    IN  IF Len(reliable) >= Len(codeword)
        THEN {[indices |-> indices,
               mask |-> xorBits(codeword, extractBitsAt(fp, indices)),
               commitment |-> commitTo(K)]}
        ELSE {}

\* What was decoded counts only if it is the secret that was committed to.
Reproduce(fp, hd) ==
    {K \in {DecodeHamming74(xorBits(hd.mask, extractBitsAt(fp, hd.indices)))} :
        commitTo(K) = hd.commitment}
=============================================================================
