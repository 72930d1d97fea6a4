----------------------------- MODULE SimpleCrypt -----------------------------
(***************************************************************************)
(* SimpleCrypt: what SettingsStore keeps of a value.  A ciphertext is a    *)
(* version, a byte of flags and a body; the body is a random byte, the     *)
(* integrity check and the (perhaps compressed) text, each byte XORed with *)
(* a byte of the key and with the byte of the ciphertext before it.        *)
(* A byte is the set of its bits that are 1, of Width bits, and the key    *)
(* has as many bytes as KeyParts.                                          *)
(***************************************************************************)
EXTENDS Integers, Sequences, FiniteSets

CONSTANTS
    Width,      \* bits in a byte
    KeyParts    \* m_keyParts

Bit  == 0 .. Width - 1
Byte == SUBSET Bit

ASSUME SimpleCryptAssumption ==
    /\ Width \in Nat \ {0, 1}
    /\ KeyParts \in Seq(Byte) /\ KeyParts # <<>>

\* The byte 3.
Version == {0, 1}

\* Exclusive or.
Xor(a, b) == (a \ b) \cup (b \ a)

\* SimpleCrypt::CryptoFlag, as sets of flags.
Flag == {"Compression", "Checksum", "Hash"}

KeyPart(pos) == KeyParts[((pos - 1) % Len(KeyParts)) + 1]

\* A length, as the byte whose lowest bits are set.
Unary(n) == 0 .. n - 1

\* qCompress: a run of one byte becomes its length and the byte, anything else
\* grows by a header.
Compress(text) ==
    IF Len(text) \in 1 .. Width /\ \A i \in DOMAIN text : text[i] = text[1]
    THEN <<Unary(Len(text)), text[1]>>
    ELSE <<{}>> \o text

Uncompress(data) ==
    IF data # <<>> /\ Head(data) = {} THEN Tail(data)
    ELSE IF Len(data) = 2 THEN [i \in 1 .. Cardinality(data[1]) |-> data[2]]
    ELSE <<>>

\* The bits that are set in an odd number of the bytes at every second position.
Parity(data, r) ==
    {b \in Bit : Cardinality({n \in 1 .. Len(data) : n % 2 = r /\ b \in data[n]}) % 2 = 1}

\* qChecksum (CRC-16), reduced to what it is there for: two bytes that tell any
\* damage of two neighbouring bytes, its own among them.
Checksum(data) == <<Parity(data, 1), Parity(data, 0)>>

\* Mutant of Chained: the byte before is taken from the text.
ChainedByText(body) ==
    [i \in DOMAIN body |->
        Xor(Xor(body[i], KeyPart(i)), IF i = 1 THEN {} ELSE body[i - 1])]

\* The loop of encryptToByteArray().
Chained(body) ==
    LET out[i \in 1 .. Len(body)] ==
            Xor(Xor(body[i], KeyPart(i)), IF i = 1 THEN {} ELSE out[i - 1])
    IN  out

\* The loop of decryptToByteArray().
Unchained(body) ==
    [i \in DOMAIN body |->
        Xor(Xor(body[i], IF i = 1 THEN {} ELSE body[i - 1]), KeyPart(i))]

\* encryptToByteArray() in the modes the constructor sets: CompressionAuto and
\* ProtectionChecksum; random is randomChar.
Encrypt(text, random) ==
    LET packed == Compress(text)
        short  == Len(packed) < Len(text)
        data   == IF short THEN packed ELSE text
    IN  [version |-> Version,
         flags   |-> {"Checksum"} \cup (IF short THEN {"Compression"} ELSE {}),
         body    |-> Chained(<<random>> \o Checksum(data) \o data)]

\* decryptToByteArray(): the empty text stands for every failure.  A hash of 20
\* bytes is never there, since encryptToByteArray() does not make one.
Decrypt(cipher) ==
    LET bare     == Tail(Unchained(cipher.body))
        checked  == "Checksum" \in cipher.flags
        data     == IF checked THEN SubSeq(bare, 3, Len(bare)) ELSE bare
        whole    == IF checked
                    THEN Len(bare) >= 2 /\ Checksum(data) = SubSeq(bare, 1, 2)
                    ELSE "Hash" \notin cipher.flags
        unpacked == IF "Compression" \in cipher.flags THEN Uncompress(data) ELSE data
    IN  IF cipher.version = Version /\ whole THEN unpacked ELSE <<>>

\* What a fault of the disk makes of a ciphertext: one byte is another.
Flip(byte) == Xor(byte, {0})

Toggle(flags, f) == IF f \in flags THEN flags \ {f} ELSE flags \cup {f}

Damages(cipher) ==
    {[cipher EXCEPT !.version = Flip(@)]}
        \cup {[cipher EXCEPT !.flags = Toggle(@, f)] : f \in Flag}
        \cup {[cipher EXCEPT !.body[i] = Flip(@)] : i \in DOMAIN cipher.body}

=============================================================================
