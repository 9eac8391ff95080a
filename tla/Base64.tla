------------------------------- MODULE Base64 -------------------------------
(***************************************************************************)
(* The two loops of CProtoUtil::Base64Encode and Base64Decode over the     *)
(* bytes of a text.  Both keep a group of three and a group of four in     *)
(* arrays that are never cleared: what is in them before the first group,  *)
(* and what is left in them of the last one, is the parameter stale.       *)
(* ProtoUtil has the result of decoding without the loop.                  *)
(***************************************************************************)
EXTENDS Integers, SequencesExt

CONSTANTS
    Samples,    \* the bytes a text is made of
    MaxLength,  \* bound: the length of a text
    Stale       \* what an array may hold before it is written

Byte == 0 .. 255

ASSUME Base64Assumption == Samples \subseteq Byte /\ Stale \subseteq Byte

VARIABLE input

----------------------------------------------------------------------------
\* 'A' to 'Z', 'a' to 'z', '0' to '9', '+' and '/'.
base64_chars ==
    [ k \in 0 .. 63 |-> CASE k < 26            -> 65 + k
                          [] k \in 26 .. 51    -> 71 + k
                          [] k \in 52 .. 61    -> k - 4
                          [] k = 62            -> 43
                          [] k = 63            -> 47 ]

\* isalnum in the "C" locale, or one of the two others.
is_base64(c) == c \in (48 .. 57) \cup (65 .. 90) \cup (97 .. 122) \cup {43, 47}

PositionOf(c) == CHOOSE k \in 0 .. 63 : base64_chars[k] = c

Equals == 61

\* Four indices of three bytes, and three bytes of four indices; a sum that
\* does not fit into an unsigned char loses its upper bits.
Four(a) ==
    << a[1] \div 4, (a[1] % 4) * 16 + a[2] \div 16, (a[2] % 16) * 4 + a[3] \div 64, a[3] % 64 >>

Three(a) ==
    << (a[1] * 4 + ((a[2] \div 16) % 4)) % 256,
       (a[2] % 16) * 16 + ((a[3] \div 4) % 16),
       ((a[3] % 4) * 64 + a[4]) % 256 >>

Chars(indices) == [k \in DOMAIN indices |-> base64_chars[indices[k]]]

----------------------------------------------------------------------------
\* One turn of the loop of base64_encode.
EncodeTurn(e, byte) ==
    LET group == [e.group EXCEPT ![e.i + 1] = byte] IN
    IF e.i + 1 < 3 THEN [e EXCEPT !.group = group, !.i = @ + 1]
    ELSE [group |-> group, i |-> 0, ret |-> e.ret \o Chars(Four(group))]

Grouped(bytes, stale) ==
    LET after[n \in 0 .. Len(bytes)] ==
            IF n = 0 THEN [group |-> << stale, stale, stale >>, i |-> 0, ret |-> << >>]
            ELSE EncodeTurn(after[n - 1], bytes[n])
    IN  after[Len(bytes)]

\* Deviation: the rest of the last group is not set to zero.
EncodeStaleGroup(bytes, stale) ==
    LET e == Grouped(bytes, stale)
    IN  IF e.i = 0 THEN e.ret
        ELSE e.ret \o SubSeq(Chars(Four(e.group)), 1, e.i + 1) \o [k \in 1 .. 3 - e.i |-> Equals]

base64_encode(bytes, stale) ==
    LET e     == Grouped(bytes, stale)
        group == [k \in 1 .. 3 |-> IF k <= e.i THEN e.group[k] ELSE 0]
    IN  IF e.i = 0 THEN e.ret
        ELSE e.ret \o SubSeq(Chars(Four(group)), 1, e.i + 1) \o [k \in 1 .. 3 - e.i |-> Equals]

\* One turn of the loop of Base64Decode; the characters are replaced by their
\* indices once there are four, here at once.
DecodeTurn(d, c) ==
    LET group == [d.group EXCEPT ![d.i + 1] = PositionOf(c)] IN
    IF d.i + 1 < 4 THEN [d EXCEPT !.group = group, !.i = @ + 1]
    ELSE [group |-> group, i |-> 0, ret |-> d.ret \o Three(group)]

\* The loop stops at the first character that is not base64.
Leading(text) == SelectInSeq(text, LAMBDA c : ~is_base64(c))

Digits(text) == IF Leading(text) = 0 THEN text ELSE SubSeq(text, 1, Leading(text) - 1)

Ungrouped(text, stale) ==
    LET digits == Digits(text)
        after[n \in 0 .. Len(digits)] ==
            IF n = 0 THEN [group |-> << stale, stale, stale, stale >>, i |-> 0, ret |-> << >>]
            ELSE DecodeTurn(after[n - 1], digits[n])
    IN  after[Len(digits)]

\* Deviation: the last group gives as many bytes as it has characters.
DecodeLastWhole(text, stale) ==
    LET d == Ungrouped(text, stale)
    IN  IF d.i = 0 THEN d.ret ELSE d.ret \o SubSeq(Three(d.group), 1, d.i)

\* A last group of i characters gives i - 1 bytes.
base64_decode(text, stale) ==
    LET d == Ungrouped(text, stale)
    IN  IF d.i = 0 THEN d.ret ELSE d.ret \o SubSeq(Three(d.group), 1, d.i - 1)

----------------------------------------------------------------------------
ReceiveByte(byte) ==
    /\ Len(input) < MaxLength
    /\ input' = Append(input, byte)

InputInit == input = << >>

InputNext == \E byte \in Samples : ReceiveByte(byte)

InputSpec == InputInit /\ [][InputNext]_input

----------------------------------------------------------------------------
\* A name or a password that a client encodes comes back as it was, with any
\* of the line ends the protocol's tests send behind it and whatever the
\* arrays held (Base64Encode, then Base64Decode in OnPasswordReq).
RoundTrip ==
    \A tail \in {<< >>, << 13, 10 >>, << 32, 13, 10 >>}, stale, left \in Stale :
        base64_decode(base64_encode(input, stale) \o tail, left) = input

\* The bits of a text, the upper ones of each element first.
Bits(elements, width) ==
    [ n \in 1 .. Len(elements) * width |->
        (elements[((n - 1) \div width) + 1] \div 2 ^ (width - 1 - ((n - 1) % width))) % 2 ]

\* The bits of the characters are those of the text and zeros, fewer than make
\* a byte, and never what an array held before (base64_encode, whose last group
\* is filled up in place).
EncodesBits ==
    \A stale \in Stale :
        LET digits == Digits(base64_encode(input, stale))
            bits   == Bits([k \in DOMAIN digits |-> PositionOf(digits[k])], 6)
            size   == Len(input) * 8
        IN  /\ Len(bits) \in size .. size + 7
            /\ SubSeq(bits, 1, size) = Bits(input, 8)
            /\ \A n \in size + 1 .. Len(bits) : bits[n] = 0

=============================================================================
