-------------------------------- MODULE Osc --------------------------------
(***************************************************************************)
(* The OSC message osc makes of a packet's bytes (osc.c:142-162) with      *)
(* tinyosc, and what tinyosc's own reader finds in it.  Characters are     *)
(* numbers and 0 ends a string; the address has none of the special ones.  *)
(***************************************************************************)
EXTENDS Integers, Sequences

CONSTANTS Address,  \* /gesture/xbee/ and the radio's 16 digits
          BufLen    \* bytes of the buffer the message is written to

Comma == 44
TypeS == 115

\* The characters of strings.
Char == Int \ {0}

ASSUME OscAssumption == /\ Address \in Seq(Char \ {Comma})
                        /\ BufLen \in Nat /\ BufLen % 4 = 0

Zeros(n) == [i \in 1 .. n |-> 0]

\* Two hexadecimal digits for each byte.
Digit(d) == IF d < 10 THEN 48 + d ELSE 55 + d
HexText(bytes) == [i \in 1 .. 2 * Len(bytes) |->
                     Digit(IF i % 2 = 1 THEN bytes[(i + 1) \div 2] \div 16
                                        ELSE bytes[i \div 2] % 16)]

\* Faulty variant: no byte is added to a string of a multiple of four.
UpTo4_NoEnd(n) == 4 * ((n + 3) \div 4)

\* The next multiple of four; a string of n characters and its end fit below.
UpTo4(n) == 4 * ((n + 4) \div 4)

Padded(s) == s \o Zeros(UpTo4(Len(s)) - Len(s))

(* tosc_writeMessage(buf, BufLen, Address, "s", data): the message, or     *)
(* nothing if the address, the format or data does not fit.                *)
Written(data) ==
    LET format == UpTo4(Len(Address)) + 1
        first  == UpTo4(Len(Address)) + 4
    IN  IF \/ Len(Address) >= BufLen
           \/ format + 1 >= BufLen
           \/ first + Len(data) >= BufLen
        THEN <<>>
        ELSE Padded(Address) \o Padded(<<Comma, TypeS>>) \o Padded(data)

-----------------------------------------------------------------------------
(* The reader.  Positions count from 1. *)

NextIn(m, c, i) == {j \in i .. Len(m) : m[j] = c /\ \A k \in i .. j - 1 : m[k] # c}

\* tosc_getNextString, at start; there is none if the message ends before it.
StringAt(m, start) == {SubSeq(m, start, k - 1) : k \in NextIn(m, 0, start)}

\* After tosc_parseMessage, which finds the comma and the end of the format:
\* the string a message has then, in a set that is empty if it has none.
StringsRead(m) ==
    LET FormatEnds == UNION {NextIn(m, 0, i) : i \in NextIn(m, Comma, 1)}
    IN  UNION {StringAt(m, UpTo4(j - 1) + 1) : j \in FormatEnds}

(* What osc sends is a whole number of words that fits the buffer, and     *)
(* reads back as what was written; it sends nothing only if such a message *)
(* would not fit.                                                          *)
ReadsBack(data) ==
    LET m == Written(data)
    IN  IF m = <<>>
        THEN UpTo4(Len(Address)) + 4 + UpTo4(Len(data)) > BufLen
        ELSE /\ Len(m) % 4 = 0 /\ Len(m) <= BufLen
             /\ StringsRead(m) = {data}
=============================================================================
