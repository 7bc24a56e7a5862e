---------------------------- MODULE MCRoundTrip ----------------------------
(***************************************************************************)
(* The real sizes and the real bytes, on a few messages.                   *)
(***************************************************************************)
EXTENDS RoundTrip, AesBytes

Bytes(t) == [j \in Index |-> t[j + 1]]

\* FIPS-197, appendix C.1.
FipsMessage == Bytes([j \in 1 .. 16 |-> 17 * (j - 1)])
FipsKey     == Bytes([j \in 1 .. 16 |-> j - 1])
FipsCipher  == Bytes(<<105, 196, 224, 216, 106, 123, 4, 48, 216, 205, 183, 128, 112, 180, 197, 90>>)

\* High bits set everywhere, and a message of equal columns.
MCMessages == {FipsMessage, Bytes([j \in 1 .. 16 |-> 219])}
MCKeys     == {FipsKey, Bytes([j \in 1 .. 16 |-> 255 - ((j * j) % 128)])}
MCInputs   == {<<ZeroBlock, ZeroBlock>>}
MCPowerUp  == {ZeroBlock}
MCZero     == 0

\* AES.c computes the cipher of FIPS-197 on its example, byte for byte.
KnownAnswer ==
    sw_pc = "done" /\ pairs_hex = FipsMessage /\ cipher_key = FipsKey => block = FipsCipher

-----------------------------------------------------------------------------
(* FIPS-197, chapter 4 and section 5.1.1: polynomials over the bits modulo *)
(* x^8 + x^4 + x^3 + x + 1, and the affine transformation of the S-box.    *)

Bit(p, i) == (p \div 2^i) % 2

FieldProduct(x, y) ==
    LET sum[i \in 0 .. 8] ==
            IF i = 0 THEN 0 ELSE sum[i-1] ^^ (Bit(y, i-1) * x * 2^(i-1))
        rest[d \in 8 .. 15] ==      \* of degree below d
            IF d = 15 THEN sum[8]
            ELSE LET above == rest[d+1] IN above ^^ (Bit(above, d) * 283 * 2^(d-8))
    IN  rest[8]

Rotated(x, k) == ((x * 2^k) % 256) + (x \div 2^(8-k))
InvAffine(x)  == ((Rotated(x, 1) ^^ Rotated(x, 3)) ^^ Rotated(x, 6)) ^^ 5

\* Facts of the constants are asked for in one state.
AskedOnce == sw_pc = "start" /\ pairs_hex = FipsMessage /\ cipher_key = FipsKey

\* XorFits, whose sums of three bytes are too many to enumerate: exclusive or
\* goes by half bytes, and of these all sums are asked for.
HalfByte == 0 .. 15
XorFitsOnHalfBytes ==
    /\ \A a, b \in HalfByte :
          /\ RealXor(a, 0) = a /\ RealXor(a, a) = 0
          /\ RealXor(a, b) \in HalfByte /\ RealXor(a, b) = RealXor(b, a)
          /\ \A c \in HalfByte : RealXor(RealXor(a, b), c) = RealXor(a, RealXor(b, c))
    /\ \A a, b \in RealByte :
          RealXor(a, b) = 16 * RealXor(a \div 16, b \div 16) + RealXor(a % 16, b % 16)

\* The three forward tables of the repository are the S-box of FIPS-197, and
\* the engine's table inverts it: four copies of 256 literals, each read by
\* another part, so that one wrong digit spoils a block in sixteen or so.
TablesAreTheSBox ==
    AskedOnce =>
        /\ \A b \in RealByte :
              /\ fboxTable[b] = SubBytesRom[b]
              /\ LET y == InvAffine(SubBytesRom[b])
                 IN  IF b = 0 THEN y = 0 ELSE FieldProduct(b, y) = 1
        /\ SchedulesFit /\ SubstitutionsFit

\* The multipliers of InvMixColumns.sv and the product of AES.c are those of
\* the field, in eight bits, and fit each other and the exclusive or.
ProductsAreOfTheField ==
    AskedOnce =>
        /\ \A b \in RealByte :
              /\ GfMul9(b) = FieldProduct(b, 9)
              /\ GfMulB(b) = FieldProduct(b, 11)
              /\ GfMulD(b) = FieldProduct(b, 13)
              /\ GfMulE(b) = FieldProduct(b, 14)
              /\ \A c \in 0 .. 15 : Product(b, c) = FieldProduct(b, c)
        /\ XorFitsOnHalfBytes /\ ProductsFit

=============================================================================
