------------------------------- MODULE Shamir -------------------------------
(***************************************************************************)
(* packages/crypto/src/gf256.ts and shamir.ts: arithmetic in GF(256) by      *)
(* tables of powers and logarithms, the splitting of a secret into shares    *)
(* and its reconstruction.  A secret is one byte, as the code treats every   *)
(* byte of a key on its own; the random coefficients are an argument.        *)
(***************************************************************************)
EXTENDS Integers, Sequences, FiniteSets, FiniteSetsExt

Byte == 0..255

Bit(n, i) == (n \div 2^i) % 2

\* gfAdd: a ^ b.
gfAdd(a, b) == MapThenSumSet(LAMBDA i : 2^i * ((Bit(a, i) + Bit(b, i)) % 2), 0..7)

\* Shift left; a bit pushed out is reduced by 0x11b.
xtime(x) == IF x >= 128 THEN gfAdd((2 * x) % 256, 27) ELSE 2 * x

\* buildTables: the powers 1, 3, 9, ... that its loop computes, written out;
\* EXP[i] is 3 to the power i and LOG its inverse.
Powers ==
    <<1, 3, 5, 15, 17, 51, 85, 255, 26, 46, 114, 150, 161, 248, 19, 53, 95,
      225, 56, 72, 216, 115, 149, 164, 247, 2, 6, 10, 30, 34, 102, 170, 229, 52,
      92, 228, 55, 89, 235, 38, 106, 190, 217, 112, 144, 171, 230, 49, 83, 245, 4,
      12, 20, 60, 68, 204, 79, 209, 104, 184, 211, 110, 178, 205, 76, 212, 103, 169,
      224, 59, 77, 215, 98, 166, 241, 8, 24, 40, 120, 136, 131, 158, 185, 208, 107,
      189, 220, 127, 129, 152, 179, 206, 73, 219, 118, 154, 181, 196, 87, 249, 16, 48,
      80, 240, 11, 29, 39, 105, 187, 214, 97, 163, 254, 25, 43, 125, 135, 146, 173,
      236, 47, 113, 147, 174, 233, 32, 96, 160, 251, 22, 58, 78, 210, 109, 183, 194,
      93, 231, 50, 86, 250, 21, 63, 65, 195, 94, 226, 61, 71, 201, 64, 192, 91,
      237, 44, 116, 156, 191, 218, 117, 159, 186, 213, 100, 172, 239, 42, 126, 130, 157,
      188, 223, 122, 142, 137, 128, 155, 182, 193, 88, 232, 35, 101, 175, 234, 37, 111,
      177, 200, 67, 197, 84, 252, 31, 33, 99, 165, 244, 7, 9, 27, 45, 119, 153,
      176, 203, 70, 202, 69, 207, 74, 222, 121, 139, 134, 145, 168, 227, 62, 66, 198,
      81, 243, 14, 18, 54, 90, 238, 41, 123, 141, 140, 143, 138, 133, 148, 167, 242,
      13, 23, 57, 75, 221, 124, 132, 151, 162, 253, 28, 36, 108, 180, 199, 82, 246>>

\* The loop itself: x = xtime(x) ^ x, from 1 until it comes round again.
ASSUME PowersAssumption ==
    /\ Powers[1] = 1
    /\ \A i \in 1..254 : Powers[i + 1] = gfAdd(xtime(Powers[i]), Powers[i])
    /\ gfAdd(xtime(Powers[255]), Powers[255]) = 1

EXP(i) == Powers[i + 1]
LOG(x) == (CHOOSE i \in 1..255 : Powers[i] = x) - 1

\* Mutant: the exponents wrap at the size of the field.
gfMul_Mod256(a, b) == IF a = 0 \/ b = 0 THEN 0 ELSE EXP(((LOG(a) + LOG(b)) % 256) % 255)

gfMul(a, b) == IF a = 0 \/ b = 0 THEN 0 ELSE EXP((LOG(a) + LOG(b)) % 255)
gfDiv(a, b) == IF a = 0 THEN 0 ELSE EXP((LOG(a) - LOG(b) + 255) % 255)

\* x to the power c, by c multiplications.
gfPow(x, c) == FoldSet(LAMBDA k, power : gfMul(power, x), 1, 1..c)

\* The byte of the share at x of splitSecret: the polynomial whose constant
\* term is the secret.
ShareAt(secret, coeffs, x) ==
    FoldSet(LAMBDA c, y : gfAdd(y, gfMul(coeffs[c], gfPow(x, c))), secret, DOMAIN coeffs)

\* splitSecret(secret, threshold, n), with threshold - 1 coefficients: the
\* shares at 1..n.
SplitSecret(secret, coeffs, n) == [x \in 1..n |-> ShareAt(secret, coeffs, x)]

\* The Lagrange basis at 0 for share i among the shares at xs.
Basis(xs, i) ==
    gfDiv(FoldSet(LAMBDA j, num : gfMul(num, j), 1, xs \ {i}),
          FoldSet(LAMBDA j, den : gfMul(den, gfAdd(j, i)), 1, xs \ {i}))

\* combineShares; fewer than two shares are refused.
CombineShares(shares) ==
    FoldSet(LAMBDA i, acc : gfAdd(acc, gfMul(shares[i], Basis(DOMAIN shares, i))), 0, DOMAIN shares)
=============================================================================
