-------------------------------- MODULE Shamir --------------------------------
(***************************************************************************)
(* Secret sharing over GF(2^8) (internal/qee/shamir.go), for a secret of   *)
(* one byte: every byte of a longer one has a polynomial of its own.  An   *)
(* error return is {}, a result {result}; rand.Read is the argument rnd.   *)
(***************************************************************************)
EXTENDS Integers, Sequences

Byte == 0 .. 255

\* Exclusive or, bit by bit.
gfAdd(a, b) ==
    LET bit(w) == w * (((a \div w) + (b \div w)) % 2)
    IN  bit(1) + bit(2) + bit(4) + bit(8) + bit(16) + bit(32) + bit(64) + bit(128)

\* One turn of the loop in init: times the generator 3, that is shift,
\* reduce by 0x11B, add once more.
TimesThree(x) ==
    LET shifted == (2 * x) % 256
    IN  gfAdd(IF x >= 128 THEN gfAdd(shifted, 27) ELSE shifted, x)

\* The tables init fills: gfExp[i] of the source is gfExp[i + 1] here, and 0
\* has no logarithm.
gfExp ==
    <<1, 3, 5, 15, 17, 51, 85, 255, 26, 46, 114, 150, 161, 248, 19, 53,
      95, 225, 56, 72, 216, 115, 149, 164, 247, 2, 6, 10, 30, 34, 102, 170,
      229, 52, 92, 228, 55, 89, 235, 38, 106, 190, 217, 112, 144, 171, 230, 49,
      83, 245, 4, 12, 20, 60, 68, 204, 79, 209, 104, 184, 211, 110, 178, 205,
      76, 212, 103, 169, 224, 59, 77, 215, 98, 166, 241, 8, 24, 40, 120, 136,
      131, 158, 185, 208, 107, 189, 220, 127, 129, 152, 179, 206, 73, 219, 118, 154,
      181, 196, 87, 249, 16, 48, 80, 240, 11, 29, 39, 105, 187, 214, 97, 163,
      254, 25, 43, 125, 135, 146, 173, 236, 47, 113, 147, 174, 233, 32, 96, 160,
      251, 22, 58, 78, 210, 109, 183, 194, 93, 231, 50, 86, 250, 21, 63, 65,
      195, 94, 226, 61, 71, 201, 64, 192, 91, 237, 44, 116, 156, 191, 218, 117,
      159, 186, 213, 100, 172, 239, 42, 126, 130, 157, 188, 223, 122, 142, 137, 128,
      155, 182, 193, 88, 232, 35, 101, 175, 234, 37, 111, 177, 200, 67, 197, 84,
      252, 31, 33, 99, 165, 244, 7, 9, 27, 45, 119, 153, 176, 203, 70, 202,
      69, 207, 74, 222, 121, 139, 134, 145, 168, 227, 62, 66, 198, 81, 243, 14,
      18, 54, 90, 238, 41, 123, 141, 140, 143, 138, 133, 148, 167, 242, 13, 23,
      57, 75, 221, 124, 132, 151, 162, 253, 28, 36, 108, 180, 199, 82, 246, 1>>
gfLog == [x \in 1 .. 255 |-> CHOOSE i \in 0 .. 254 : gfExp[i + 1] = x]

\* Entry by entry, gfExp is what the loop leaves behind, and 3 generates
\* every byte but 0.
ASSUME TableAssumption ==
    /\ Len(gfExp) = 256 /\ gfExp[1] = 1 /\ gfExp[256] = 1
    /\ \A i \in 1 .. 255 : gfExp[i + 1] = TimesThree(gfExp[i])
    /\ \A i \in 0 .. 254 : gfExp[i + 1] \in 1 .. 255 /\ gfLog[gfExp[i + 1]] = i
    /\ \A x \in 1 .. 255 : gfLog[x] \in 0 .. 254 /\ gfExp[gfLog[x] + 1] = x

gfMul(a, b) ==
    IF a = 0 \/ b = 0 THEN 0 ELSE gfExp[((gfLog[a] + gfLog[b]) % 255) + 1]

gfInv(a) == IF a = 0 THEN 0 ELSE gfExp[((255 - gfLog[a]) % 255) + 1]

\* The running sum and the running product of the loops in Combine.
gfSum(f, n) ==
    LET total[j \in 0 .. n] == IF j = 0 THEN 0 ELSE gfAdd(total[j - 1], f[j])
    IN  total[n]
gfProduct(f, n) ==
    LET product[j \in 0 .. n] == IF j = 0 THEN 1 ELSE gfMul(product[j - 1], f[j])
    IN  product[n]

\* Horner's rule: poly[i + 1] is the coefficient of x^i, and out[i] what the
\* loop has computed when it has used poly[i].
evalPoly(poly, x) ==
    LET out[i \in 1 .. Len(poly) + 1] ==
            IF i = Len(poly) + 1 THEN 0 ELSE gfAdd(gfMul(out[i + 1], x), poly[i])
    IN  out[1]

\* Mutant of Split: the coefficients are drawn and not copied.
Split_NoCoefficients(secret, n, threshold, rnd) ==
    IF threshold >= 1 /\ n >= threshold /\ n <= 255
    THEN LET poly == <<secret>> \o [j \in 1 .. threshold - 1 |-> 0]
         IN  {[i \in 1 .. n |-> [index |-> i, byte |-> evalPoly(poly, i)]]}
    ELSE {}

\* rnd holds the threshold - 1 random coefficients.
Split(secret, n, threshold, rnd) ==
    IF threshold >= 1 /\ n >= threshold /\ n <= 255
    THEN {[i \in 1 .. n |-> [index |-> i, byte |-> evalPoly(<<secret>> \o rnd, i)]]}
    ELSE {}

\* The i-th Lagrange basis polynomial at 0, and what it is divided by.
Denominator(used, i) ==
    gfProduct([j \in 1 .. Len(used) |->
                 IF j = i THEN 1 ELSE gfAdd(used[i].index, used[j].index)], Len(used))
Basis(used, i) ==
    LET num == gfProduct([j \in 1 .. Len(used) |->
                            IF j = i THEN 1 ELSE used[j].index], Len(used))
    IN  gfMul(num, gfInv(Denominator(used, i)))

\* The value at 0 of the polynomial through the shares.
Interpolate(used) ==
    gfSum([i \in 1 .. Len(used) |-> gfMul(used[i].byte, Basis(used, i))], Len(used))

\* Mutant of Combine: one share too few is used.
Combine_OneShort(shares, threshold) ==
    LET used == SubSeq(shares, 1, threshold - 1)
    IN  IF /\ Len(shares) >= threshold
           /\ \A i \in DOMAIN used : used[i].index # 0
           /\ \A i, j \in DOMAIN used : used[i].index = used[j].index => i = j
           /\ \A i \in DOMAIN used : Denominator(used, i) # 0
        THEN {Interpolate(used)}
        ELSE {}

\* Only the first `threshold` shares are used and looked at.
Combine(shares, threshold) ==
    LET used == SubSeq(shares, 1, threshold)
    IN  IF /\ Len(shares) >= threshold
           /\ \A i \in DOMAIN used : used[i].index # 0
           /\ \A i, j \in DOMAIN used : used[i].index = used[j].index => i = j
           /\ \A i \in DOMAIN used : Denominator(used, i) # 0
        THEN {Interpolate(used)}
        ELSE {}
=============================================================================
