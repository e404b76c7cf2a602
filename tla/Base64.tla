------------------------------- MODULE Base64 -------------------------------
(***************************************************************************)
(* base64_encode (src/src/encode.cpp), and what a reader makes of its      *)
(* output.  The zipped data that it is given are any bytes.                *)
(***************************************************************************)
EXTENDS Naturals, Sequences

Bytes == 0..255

encoding_table ==
    <<"A", "B", "C", "D", "E", "F", "G", "H", "I", "J", "K", "L", "M", "N", "O", "P",
      "Q", "R", "S", "T", "U", "V", "W", "X", "Y", "Z", "a", "b", "c", "d", "e", "f",
      "g", "h", "i", "j", "k", "l", "m", "n", "o", "p", "q", "r", "s", "t", "u", "v",
      "w", "x", "y", "z", "0", "1", "2", "3", "4", "5", "6", "7", "8", "9", "+", "/">>

mod_table == <<0, 2, 1>>
Padding(data) == mod_table[(Len(data) % 3) + 1]

\* The loop's octets: zero from the end of the data on.
Octet(data, i) == IF i <= Len(data) THEN data[i] ELSE 0

\* The k-th triple: 24 bits.
Triple(data, k) ==
    Octet(data, 3 * k - 2) * 65536 + Octet(data, 3 * k - 1) * 256 + Octet(data, 3 * k)

\* The six bits of it that the j-th character stands for: its shift as a divisor.
Sextet(data, j) ==
    LET k == (j + 3) \div 4
    IN (Triple(data, k) \div <<262144, 4096, 64, 1>>[j + 4 - 4 * k]) % 64

OutputLength(data) == 4 * ((Len(data) + 2) \div 3)

\* Mutant of base64_encode: mod_table is taken in the order of the remainders.
EncodeMispadded(data) ==
    [j \in 1..OutputLength(data) |->
        IF j > OutputLength(data) - (Len(data) % 3) THEN "=" ELSE encoding_table[Sextet(data, j) + 1]]

\* The padding is written over the characters of the octets that were missing.
base64_encode(data) ==
    [j \in 1..OutputLength(data) |->
        IF j > OutputLength(data) - Padding(data) THEN "=" ELSE encoding_table[Sextet(data, j) + 1]]
-----------------------------------------------------------------------------
(***************************************************************************)
(* The reader, by the definition of base64 (RFC 4648).                     *)
(***************************************************************************)
SixBits(c) == IF c = "=" THEN 0 ELSE (CHOOSE v \in 1..64 : encoding_table[v] = c) - 1

\* The k-th group of four characters, as 24 bits.
Group24(text, k) ==
    SixBits(text[4 * k - 3]) * 262144 + SixBits(text[4 * k - 2]) * 4096
      + SixBits(text[4 * k - 1]) * 64 + SixBits(text[4 * k])

\* Each "=" at the end stands for a byte that is not there.
Missing(text) ==
    IF text = <<>> \/ text[Len(text)] # "=" THEN 0
    ELSE IF text[Len(text) - 1] # "=" THEN 1 ELSE 2

Decoded(text) ==
    [i \in 1..3 * (Len(text) \div 4) - Missing(text) |->
        LET k == (i + 2) \div 3
        IN (Group24(text, k) \div <<65536, 256, 1>>[i + 3 - 3 * k]) % 256]
=============================================================================
