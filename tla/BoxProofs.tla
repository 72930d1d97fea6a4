------------------------------ MODULE BoxProofs ------------------------------
(***************************************************************************)
(* The safety properties of Box, for any key, any answers of the account   *)
(* server, any width of a byte and any number of days: what is read from   *)
(* account.dat is what was saved, one thing at a time carries the cycle    *)
(* on, an outage is survived, and the newest logs stay.                    *)
(***************************************************************************)
EXTENDS Box, FiniteSetTheorems, SequenceTheorems, WellFoundedInduction, TLAPS

-----------------------------------------------------------------------------
(***************************************************************************)
(* Numbers. A recursive function of a model exists because each of its     *)
(* values up to a number exists, which takes an induction; the induction   *)
(* is by the least number that is not in a set.                            *)
(***************************************************************************)

\* The order of the natural numbers.
Less == {ss \in Nat \X Nat : ss[1] < ss[2]}

\* Which is well-founded.
LEMMA LessWellFounded == IsWellFoundedOn(Less, Nat)
  BY Zenon, NatLessThanWellFounded DEF OpToRel, Less

\* A set of natural numbers that is not empty has a least element.
LEMMA LeastNumber ==
    ASSUME NEW T \in SUBSET Nat, T # {}
    PROVE  \E m \in T : \A k \in T : m <= k
<1>1. PICK m \in T : \A k \in T : ~(<<k, m>> \in Less)
  BY Zenon, LessWellFounded, WFMin
<1>2. ASSUME NEW k \in T PROVE m <= k
  <2>1. m \in Nat /\ k \in Nat
    OBVIOUS
  <2>2. k < m => <<k, m>> \in Less
    BY <2>1 DEF Less
  <2>3. QED  BY <1>1, <2>1, <2>2
<1>3. QED  BY <1>2

\* Induction over a set of numbers.
LEMMA UpTo ==
    ASSUME NEW T, 0 \in T, \A n \in Nat : n \in T => n + 1 \in T
    PROVE  \A n \in Nat : n \in T
<1>1. SUFFICES ASSUME NEW n \in Nat, n \notin T PROVE FALSE
  OBVIOUS
<1> DEFINE U == {k \in Nat : k \notin T}
<1>2. PICK m \in U : \A k \in U : m <= k
  BY <1>1, LeastNumber
<1>3. m \in Nat /\ m # 0
  OBVIOUS
<1>4. m - 1 \in Nat /\ ~(m <= m - 1) /\ (m - 1) + 1 = m
  BY <1>3
<1>5. m - 1 \in T
  BY <1>2, <1>4
<1>6. QED  BY <1>4, <1>5

-----------------------------------------------------------------------------
(***************************************************************************)
(* The bytes of a ciphertext.                                              *)
(***************************************************************************)

\* The key is taken off by putting it on again.
LEMMA XorTwice == \A a, b : Xor(Xor(a, b), b) = a
  BY Zenon DEF Xor

\* A flipped bit stays flipped through the key and through the byte before.
LEMMA FlipMoves ==
    /\ \A a, b, c : Xor(Xor(Flip(a), b), c) = Flip(Xor(Xor(a, b), c))
    /\ \A a, b, c : Xor(Xor(a, Flip(b)), c) = Flip(Xor(Xor(a, b), c))
  BY SMT DEF Xor, Flip

\* A byte with another put on is a byte.
LEMMA XorTyped == \A a \in Byte, b \in Byte : Xor(a, b) \in Byte
  BY DEF Xor, Byte

\* One bit is another, and the rest are as they were.
LEMMA FlipChanges == \A a : Flip(a) # a /\ \A b : b # 0 => (b \in Flip(a) <=> b \in a)
  BY DEF Flip, Xor

\* The key repeats itself.
LEMMA KeyTyped == \A i \in Nat \ {0} : KeyPart(i) \in Byte
<1>1. ASSUME NEW i \in Nat \ {0} PROVE ((i - 1) % Len(KeyParts)) + 1 \in 1 .. Len(KeyParts)
  <2>1. Len(KeyParts) \in Nat /\ Len(KeyParts) # 0
    BY SimpleCryptAssumption
  <2>2. QED  BY <2>1
<1>2. QED  BY <1>1, SimpleCryptAssumption DEF KeyPart

\* What the loop of encryptToByteArray() puts at i, with c before it.
Link(body, i, c) == Xor(Xor(body[i], KeyPart(i)), IF i = 1 THEN {} ELSE c)

\* Each byte of the loop is a byte.
LEMMA LinkTyped ==
    ASSUME NEW body \in Seq(Byte), NEW i \in 1 .. Len(body), NEW c, i # 1 => c \in Byte
    PROVE  Link(body, i, c) \in Byte
<1>1. body[i] \in Byte /\ KeyPart(i) \in Byte
  BY KeyTyped
<1>2. {} \in Byte
  BY DEF Byte
<1>3. (IF i = 1 THEN {} ELSE c) \in Byte
  BY <1>2
<1>4. QED  BY <1>1, <1>3, XorTyped DEF Link

\* The loop of encryptToByteArray() comes to its end: there is a function that is
\* what the recursive definition says.
LEMMA LoopRuns ==
    ASSUME NEW body \in Seq(Byte)
    PROVE  \E f : f = [i \in 1 .. Len(body) |-> Link(body, i, f[i - 1])]
<1> DEFINE Runs(n, f) == \A i \in 1 .. n : f[i] = Link(body, i, f[i - 1])
           T == {n \in Nat : n <= Len(body) => \E f \in [1 .. n -> Byte] : Runs(n, f)}
<1>1. 0 \in T
  <2>1. [i \in 1 .. 0 |-> {}] \in [1 .. 0 -> Byte] /\ Runs(0, [i \in 1 .. 0 |-> {}])
    OBVIOUS
  <2>2. QED  BY <2>1
<1>2. ASSUME NEW n \in Nat, n \in T PROVE n + 1 \in T
  <2>1. SUFFICES ASSUME n + 1 <= Len(body)
                 PROVE  \E f \in [1 .. n + 1 -> Byte] : Runs(n + 1, f)
    OBVIOUS
  <2>2. PICK f \in [1 .. n -> Byte] : Runs(n, f)
    BY <1>2, <2>1
  <2> DEFINE g == [i \in 1 .. n + 1 |-> IF i <= n THEN f[i] ELSE Link(body, i, f[i - 1])]
  <2>3. \A i \in 1 .. n : g[i] = f[i]
    OBVIOUS
  <2>4. g[n + 1] = Link(body, n + 1, f[n])
    OBVIOUS
  <2>5. n + 1 # 1 => f[n] \in Byte
    OBVIOUS
  <2>6. g[n + 1] \in Byte
    BY <2>1, <2>4, <2>5, LinkTyped
  <2>7. g \in [1 .. n + 1 -> Byte]
    BY <2>3, <2>6
  <2>8. ASSUME NEW i \in 1 .. n + 1 PROVE g[i] = Link(body, i, g[i - 1])
    <3>1. CASE i = 1
      BY <2>2, <3>1 DEF Link
    <3>2. CASE i # 1
      <4>1. g[i - 1] = f[i - 1]
        BY <3>2
      <4>2. QED  BY <2>2, <4>1
    <3>3. QED  BY <3>1, <3>2
  <2>9. QED  BY <2>7, <2>8
<1>3. Len(body) \in T
  <2> HIDE DEF T
  <2>1. QED  BY <1>1, <1>2, UpTo
<1>4. PICK f \in [1 .. Len(body) -> Byte] : Runs(Len(body), f)
  BY <1>3
<1>5. f = [i \in 1 .. Len(body) |-> Link(body, i, f[i - 1])]
  BY <1>4
<1>6. QED  BY <1>5

\* What it computes.
LEMMA LoopEnds ==
    ASSUME NEW body \in Seq(Byte)
    PROVE  Chained(body) = [i \in 1 .. Len(body) |-> Link(body, i, Chained(body)[i - 1])]
<1>1. PICK f : f = [i \in 1 .. Len(body) |-> Link(body, i, f[i - 1])]
  BY LoopRuns
<1>2. QED  BY Zenon, <1>1 DEF Chained, Link

\* It makes a body of the same length.
LEMMA ChainTyped ==
    ASSUME NEW body \in Seq(Byte)
    PROVE  Chained(body) \in Seq(Byte) /\ Len(Chained(body)) = Len(body)
<1> DEFINE out == Chained(body)
           T == {n \in Nat : n \in 1 .. Len(body) => out[n] \in Byte}
<1>1. out = [i \in 1 .. Len(body) |-> Link(body, i, out[i - 1])]
  BY LoopEnds
<1> HIDE DEF out
<1>2. 0 \in T
  OBVIOUS
<1>3. ASSUME NEW n \in Nat, n \in T PROVE n + 1 \in T
  <2>1. SUFFICES ASSUME n + 1 \in 1 .. Len(body) PROVE out[n + 1] \in Byte
    OBVIOUS
  <2>2. out[n + 1] = Link(body, n + 1, out[n])
    BY <1>1, <2>1
  <2>3. n + 1 # 1 => out[n] \in Byte
    BY <1>3, <2>1
  <2>4. QED  BY <2>1, <2>2, <2>3, LinkTyped
<1>4. \A n \in Nat : n \in T
  <2> HIDE DEF T
  <2>1. QED  BY <1>2, <1>3, UpTo
<1>5. \A n \in 1 .. Len(body) : out[n] \in Byte
  BY <1>4
<1>6. DOMAIN out = 1 .. Len(body) /\ out \in [1 .. Len(body) -> Byte]
  BY <1>1, <1>5
<1>7. QED  BY <1>6 DEF out

\* decryptToByteArray() undoes the loop of encryptToByteArray().
LEMMA Unchains ==
    ASSUME NEW body \in Seq(Byte)
    PROVE  Unchained(Chained(body)) = body
<1> DEFINE out == Chained(body)
           back == Unchained(out)
<1>1. out = [i \in 1 .. Len(body) |-> Link(body, i, out[i - 1])]
  BY LoopEnds
<1>2. DOMAIN out = 1 .. Len(body)
  BY <1>1
<1> HIDE DEF out
<1>3. ASSUME NEW i \in 1 .. Len(body)
      PROVE  back[i] = body[i]
  <2> DEFINE c == IF i = 1 THEN {} ELSE out[i - 1]
  <2>1. back[i] = Xor(Xor(out[i], c), KeyPart(i))
    BY <1>2 DEF Unchained
  <2>2. out[i] = Xor(Xor(body[i], KeyPart(i)), c)
    BY <1>1 DEF Link
  <2> HIDE DEF c, back
  <2>3. Xor(out[i], c) = Xor(body[i], KeyPart(i))
    BY Zenon, <2>2, XorTwice
  <2>4. QED  BY Zenon, <2>1, <2>3, XorTwice
<1>4. back = [i \in 1 .. Len(body) |-> body[i]]
  <2>1. DOMAIN back = 1 .. Len(body) /\ back = [i \in 1 .. Len(body) |-> back[i]]
    BY <1>2 DEF Unchained
  <2> HIDE DEF back
  <2>2. QED  BY <1>3, <2>1
<1>5. QED  BY <1>4 DEF out

\* A ciphertext with the byte at k flipped: the byte at k of what is read is
\* flipped as well, and the one behind it.
LEMMA DamageSpreads ==
    ASSUME NEW body \in Seq(Byte), NEW k \in 1 .. Len(body)
    PROVE  LET read == Unchained([Chained(body) EXCEPT ![k] = Flip(@)])
           IN  /\ DOMAIN read = 1 .. Len(body)
               /\ read = [i \in 1 .. Len(body) |->
                             IF i = k \/ i = k + 1 THEN Flip(body[i]) ELSE body[i]]
<1> DEFINE out  == Chained(body)
           bad  == [out EXCEPT ![k] = Flip(@)]
           back == Unchained(out)
           read == Unchained(bad)
<1>1. out = [i \in 1 .. Len(body) |-> Link(body, i, out[i - 1])] /\ back = body
  BY LoopEnds, Unchains
<1>2. DOMAIN out = 1 .. Len(body)
  BY <1>1
<1> HIDE DEF out
<1>3. DOMAIN bad = 1 .. Len(body) /\ bad[k] = Flip(out[k])
      /\ \A i \in 1 .. Len(body) : i # k => bad[i] = out[i]
  BY <1>2
<1> HIDE DEF bad
<1>4. DOMAIN read = 1 .. Len(body)
  BY <1>3 DEF Unchained
<1>5. ASSUME NEW i \in 1 .. Len(body)
      PROVE  read[i] = IF i = k \/ i = k + 1 THEN Flip(body[i]) ELSE body[i]
  <2> DEFINE c == IF i = 1 THEN {} ELSE out[i - 1]
             d == IF i = 1 THEN {} ELSE bad[i - 1]
  <2>1. back[i] = Xor(Xor(out[i], c), KeyPart(i))
    BY <1>2 DEF Unchained
  <2>2. back[i] = body[i]
    BY <1>1
  <2>3. read[i] = Xor(Xor(bad[i], d), KeyPart(i))
    BY <1>3 DEF Unchained
  <2>4. CASE i = k
    <3>1. bad[i] = Flip(out[i]) /\ d = c
      <4>1. i # 1 => i - 1 \in 1 .. Len(body) /\ i - 1 # k
        BY <2>4
      <4>2. QED  BY <1>3, <2>4, <4>1
    <3> HIDE DEF c, d, back, read
    <3>2. read[i] = Xor(Xor(Flip(out[i]), c), KeyPart(i))
      BY Zenon, <2>3, <3>1
    <3>3. Xor(Xor(Flip(out[i]), c), KeyPart(i)) = Flip(Xor(Xor(out[i], c), KeyPart(i)))
      BY FlipMoves
    <3>4. read[i] = Flip(back[i])
      BY Zenon, <2>1, <3>2, <3>3
    <3>5. QED  BY <2>4, <2>2, <3>4
  <2>5. CASE i = k + 1
    <3>1. bad[i] = out[i] /\ d = Flip(c)
      <4>1. i # 1 /\ i - 1 = k /\ i # k
        BY <2>5
      <4>2. bad[i - 1] = Flip(out[i - 1])
        BY <1>3, <4>1
      <4>3. QED  BY <1>3, <4>1, <4>2
    <3> HIDE DEF c, d, back, read
    <3>2. read[i] = Xor(Xor(out[i], Flip(c)), KeyPart(i))
      BY Zenon, <2>3, <3>1
    <3>3. Xor(Xor(out[i], Flip(c)), KeyPart(i)) = Flip(Xor(Xor(out[i], c), KeyPart(i)))
      BY FlipMoves
    <3>4. read[i] = Flip(back[i])
      BY Zenon, <2>1, <3>2, <3>3
    <3>5. QED  BY <2>5, <2>2, <3>4
  <2>6. CASE i # k /\ i # k + 1
    <3>1. bad[i] = out[i] /\ d = c
      <4>1. i # 1 => i - 1 \in 1 .. Len(body) /\ i - 1 # k
        BY <2>6
      <4>2. QED  BY <1>3, <2>6, <4>1
    <3> HIDE DEF c, d, back, read
    <3>2. QED  BY <2>1, <2>2, <2>3, <2>6, <3>1
  <2>7. QED  BY <2>4, <2>5, <2>6
<1>6. read = [i \in DOMAIN read |-> read[i]]
  BY DEF Unchained
<1> HIDE DEF read
<1>7. read = [i \in 1 .. Len(body) |-> IF i = k \/ i = k + 1 THEN Flip(body[i]) ELSE body[i]]
  BY <1>4, <1>5, <1>6
<1>8. QED  BY <1>4, <1>7 DEF read, bad, out

\* One bit more or less makes a count odd or even.
LEMMA OddChanges ==
    ASSUME NEW S, NEW T, NEW x, IsFiniteSet(S), x \notin S, T = S \cup {x}
    PROVE  (Cardinality(S) % 2 = 1) # (Cardinality(T) % 2 = 1)
<1>1. Cardinality(S) \in Nat /\ Cardinality(T) = Cardinality(S) + 1
  BY FS_AddElement, FS_CardinalityType
<1>2. \A n \in Nat : (n % 2 = 1) # ((n + 1) % 2 = 1)
  OBVIOUS
<1>3. QED  BY <1>1, <1>2

\* A parity is a byte.
LEMMA ParityTyped == \A data, r : Parity(data, r) \in Byte
  BY DEF Parity, Byte

\* The parity depends on the bytes of its positions only,
LEMMA ParityStays ==
    ASSUME NEW data, NEW other, NEW r, Len(data) = Len(other),
           \A n \in 1 .. Len(data) : n % 2 = r => data[n] = other[n]
    PROVE  Parity(data, r) = Parity(other, r)
<1>1. \A b : {n \in 1 .. Len(data) : n % 2 = r /\ b \in data[n]}
               = {n \in 1 .. Len(other) : n % 2 = r /\ b \in other[n]}
  OBVIOUS
<1>2. QED  BY Zenon, <1>1 DEF Parity

\* and is another when one of them is flipped.
LEMMA ParityFlips ==
    ASSUME NEW data, NEW other, NEW r, Len(data) \in Nat, Len(data) = Len(other),
           NEW k \in 1 .. Len(data), k % 2 = r, other[k] = Flip(data[k]),
           \A n \in 1 .. Len(data) : n % 2 = r /\ n # k => data[n] = other[n]
    PROVE  Parity(data, r) # Parity(other, r)
<1> DEFINE S == {n \in 1 .. Len(data) : n % 2 = r /\ 0 \in data[n]}
           T == {n \in 1 .. Len(other) : n % 2 = r /\ 0 \in other[n]}
<1>1. 0 \in Bit
  BY SimpleCryptAssumption DEF Bit
<1>2. 0 \in data[k] <=> 0 \notin other[k]
  BY DEF Flip, Xor
<1>3. IsFiniteSet(S) /\ IsFiniteSet(T)
  <2>1. IsFiniteSet(1 .. Len(data))
    BY FS_Interval
  <2>2. S \in SUBSET (1 .. Len(data)) /\ T \in SUBSET (1 .. Len(data))
    OBVIOUS
  <2> HIDE DEF S, T
  <2>3. QED  BY Zenon, <2>1, <2>2, FS_Subset
<1>4. (k \notin S /\ T = S \cup {k}) \/ (k \notin T /\ S = T \cup {k})
  BY <1>2
<1>5. (Cardinality(S) % 2 = 1) # (Cardinality(T) % 2 = 1)
  <2> HIDE DEF S, T
  <2>1. QED  BY Zenon, <1>3, <1>4, OddChanges
<1>6. QED  BY Zenon, <1>1, <1>5 DEF Parity

-----------------------------------------------------------------------------
(***************************************************************************)
(* SimpleCrypt as a whole: what was encrypted is read, and a damaged body  *)
(* is not.                                                                 *)
(***************************************************************************)

\* What is encrypted of a text: the shorter of the text and its compression.
Short(text) == Len(Compress(text)) < Len(text)

Packed(text) == IF Short(text) THEN Compress(text) ELSE text

Plain(text, random) == <<random>> \o Checksum(Packed(text)) \o Packed(text)

\* Only a run of one byte becomes shorter.
LEMMA ShortIsRun ==
    ASSUME NEW text \in Seq(Byte), Short(text)
    PROVE  /\ Len(text) \in 1 .. Width
           /\ \A i \in 1 .. Len(text) : text[i] = text[1]
           /\ Compress(text) = <<Unary(Len(text)), text[1]>>
<1>1. CASE Len(text) \in 1 .. Width /\ \A i \in DOMAIN text : text[i] = text[1]
  BY <1>1 DEF Compress
<1>2. CASE ~(Len(text) \in 1 .. Width /\ \A i \in DOMAIN text : text[i] = text[1])
  <2>1. Compress(text) = <<{}>> \o text
    BY <1>2 DEF Compress
  <2>2. {} \in Byte
    BY DEF Byte
  <2>3. Len(<<{}>> \o text) = Len(text) + 1
    BY <2>2
  <2>4. QED  BY <2>1, <2>3 DEF Short
<1>3. QED  BY <1>1, <1>2

\* What is encrypted is a sequence of bytes.
LEMMA PackedTyped ==
    ASSUME NEW text \in Seq(Byte)
    PROVE  Packed(text) \in Seq(Byte)
<1>1. CASE Short(text)
  <2>1. Len(text) \in 1 .. Width /\ Compress(text) = <<Unary(Len(text)), text[1]>>
    BY <1>1, ShortIsRun
  <2>2. text[1] \in Byte /\ Unary(Len(text)) \in Byte
    BY <2>1, SimpleCryptAssumption DEF Unary, Byte, Bit
  <2>3. QED  BY <1>1, <2>1, <2>2 DEF Packed
<1>2. CASE ~Short(text)
  BY <1>2 DEF Packed
<1>3. QED  BY <1>1, <1>2

\* A compressed text is found again.
LEMMA Unpacks ==
    ASSUME NEW text \in Seq(Byte), Short(text)
    PROVE  Uncompress(Compress(text)) = text
<1> DEFINE n == Len(text)
<1>1. /\ n \in 1 .. Width /\ n \in Nat
      /\ \A i \in 1 .. n : text[i] = text[1]
      /\ Compress(text) = <<Unary(n), text[1]>>
  BY ShortIsRun
<1>2. Unary(n) # {}
  <2>1. 0 \in 0 .. n - 1
    BY <1>1
  <2>2. QED  BY <2>1 DEF Unary
<1>3. Cardinality(Unary(n)) = n
  BY <1>1, FS_Interval DEF Unary
<1>4. Uncompress(<<Unary(n), text[1]>>) = [i \in 1 .. n |-> text[1]]
  BY <1>2, <1>3 DEF Uncompress
<1>5. text = [i \in 1 .. n |-> text[1]]
  BY <1>1
<1>6. QED  BY <1>1, <1>4, <1>5

\* The random byte, the checksum and the data, each at its place.
LEMMA PlainIs ==
    ASSUME NEW text \in Seq(Byte), NEW random \in Byte
    PROVE  LET d == Packed(text)
               p == Plain(text, random)
           IN  /\ p \in Seq(Byte) /\ Len(p) = Len(d) + 3
               /\ p[2] = Parity(d, 1) /\ p[3] = Parity(d, 0)
               /\ \A i \in 1 .. Len(d) : p[i + 3] = d[i]
<1> DEFINE d == Packed(text)
           p == Plain(text, random)
<1>1. d \in Seq(Byte)
  BY PackedTyped
<1>2. Parity(d, 1) \in Byte /\ Parity(d, 0) \in Byte
  BY ParityTyped
<1>3. p = <<random>> \o <<Parity(d, 1), Parity(d, 0)>> \o d
  BY DEF Plain, Checksum
<1> HIDE DEF d, p
<1> DEFINE h == <<random>> \o <<Parity(d, 1), Parity(d, 0)>>
<1>4. h \in Seq(Byte) /\ Len(h) = 3 /\ h[2] = Parity(d, 1) /\ h[3] = Parity(d, 0)
  BY <1>2
<1>5. p = h \o d
  BY <1>3
<1> HIDE DEF h
<1>6. /\ p \in Seq(Byte) /\ Len(p) = Len(h) + Len(d)
      /\ \A i \in 1 .. Len(h) + Len(d) : p[i] = IF i <= Len(h) THEN h[i] ELSE d[i - Len(h)]
  BY <1>1, <1>4, <1>5, ConcatProperties
<1>7. Len(d) \in Nat /\ 2 \in 1 .. 3 + Len(d) /\ 3 \in 1 .. 3 + Len(d)
  BY <1>1
<1>8. p[2] = Parity(d, 1) /\ p[3] = Parity(d, 0)
  BY <1>4, <1>6, <1>7
<1>9. ASSUME NEW i \in 1 .. Len(d) PROVE p[i + 3] = d[i]
  <2>1. i + 3 \in 1 .. 3 + Len(d) /\ ~(i + 3 <= 3) /\ (i + 3) - 3 = i
    BY <1>7
  <2>2. QED  BY <1>4, <1>6, <2>1
<1>10. QED  BY <1>4, <1>6, <1>7, <1>8, <1>9 DEF d, p

\* A sequence of two is the pair of its elements.
LEMMA Pairs == ASSUME NEW S, NEW s \in Seq(S), Len(s) = 2 PROVE s = <<s[1], s[2]>>
<1>1. \A i \in 1 .. 2 : i = 1 \/ i = 2
  OBVIOUS
<1>2. QED  BY <1>1

\* The two parts of what is read.
LEMMA Parts ==
    ASSUME NEW q \in Seq(Byte), Len(q) >= 3
    PROVE  LET bare == Tail(q)
               data == SubSeq(bare, 3, Len(bare))
           IN  /\ Len(bare) >= 2
               /\ SubSeq(bare, 1, 2) = <<q[2], q[3]>>
               /\ data \in Seq(Byte) /\ Len(data) = Len(q) - 3
               /\ \A i \in 1 .. Len(q) - 3 : data[i] = q[i + 3]
<1> DEFINE bare == Tail(q)
           data == SubSeq(bare, 3, Len(bare))
<1>1. bare \in Seq(Byte) /\ Len(bare) = Len(q) - 1 /\ \A i \in 1 .. Len(bare) : bare[i] = q[i + 1]
  OBVIOUS
<1>2. Len(bare) \in Nat /\ Len(bare) >= 2
  BY <1>1
<1> HIDE DEF bare
<1>3. SubSeq(bare, 1, 2) = <<bare[1], bare[2]>>
  <2> DEFINE s == SubSeq(bare, 1, 2)
  <2>1. s \in Seq(Byte) /\ Len(s) = 2 /\ s[1] = bare[1] /\ s[2] = bare[2]
    BY <1>1, <1>2
  <2> HIDE DEF s
  <2>2. QED  BY <2>1, Pairs DEF s
<1>4. bare[1] = q[2] /\ bare[2] = q[3]
  BY <1>1, <1>2
<1>5. data \in Seq(Byte) /\ Len(data) = Len(bare) - 2
      /\ \A i \in 1 .. Len(bare) - 2 : data[i] = bare[i + 2]
  BY <1>1, <1>2
<1> HIDE DEF data
<1>6. data \in Seq(Byte) /\ Len(data) = Len(q) - 3
  BY <1>1, <1>5
<1>7. ASSUME NEW i \in 1 .. Len(q) - 3 PROVE data[i] = q[i + 3]
  <2>1. i + 2 \in 1 .. Len(bare) /\ i \in 1 .. Len(bare) - 2
    BY <1>1
  <2>2. data[i] = bare[i + 2] /\ bare[i + 2] = q[(i + 2) + 1]
    BY <1>1, <1>5, <2>1
  <2>3. QED  BY <2>2
<1>8. QED  BY <1>2, <1>3, <1>4, <1>6, <1>7 DEF bare, data

\* What decryptToByteArray() reads of a body, behind the random byte.
Behind(body) == Tail(Unchained(body))
Told(body) == SubSeq(Behind(body), 1, 2)
Shown(body) == SubSeq(Behind(body), 3, Len(Behind(body)))

\* encryptToByteArray(), in these words.
LEMMA EncryptIs ==
    ASSUME NEW text, NEW random
    PROVE  /\ Encrypt(text, random).version = Version
           /\ Encrypt(text, random).flags
                 = {"Checksum"} \cup (IF Short(text) THEN {"Compression"} ELSE {})
           /\ Encrypt(text, random).body = Chained(Plain(text, random))
  BY Zenon DEF Encrypt, Short, Plain, Packed

\* decryptToByteArray() of what says that it has a checksum, in these words.
LEMMA DecryptIs ==
    ASSUME NEW cipher, "Checksum" \in cipher.flags
    PROVE  Decrypt(cipher) =
              IF /\ cipher.version = Version
                 /\ Len(Behind(cipher.body)) >= 2
                 /\ Checksum(Shown(cipher.body)) = Told(cipher.body)
              THEN IF "Compression" \in cipher.flags THEN Uncompress(Shown(cipher.body))
                   ELSE Shown(cipher.body)
              ELSE <<>>
  BY Zenon DEF Decrypt, Behind, Told, Shown

\* What was encrypted is read.
LEMMA DecryptsEncrypted ==
    ASSUME NEW text \in Seq(Byte), NEW random \in Byte
    PROVE  Decrypt(Encrypt(text, random)) = text
<1> DEFINE c == Encrypt(text, random)
           d == Packed(text)
           p == Plain(text, random)
<1>1. /\ c.version = Version /\ c.body = Chained(p)
      /\ c.flags = {"Checksum"} \cup (IF Short(text) THEN {"Compression"} ELSE {})
  BY EncryptIs
<1>2. /\ p \in Seq(Byte) /\ Len(p) = Len(d) + 3
      /\ p[2] = Parity(d, 1) /\ p[3] = Parity(d, 0)
      /\ \A i \in 1 .. Len(d) : p[i + 3] = d[i]
  BY PlainIs
<1>3. d \in Seq(Byte) /\ Len(d) \in Nat
  BY PackedTyped
<1> HIDE DEF c, d, p
<1>4. Unchained(c.body) = p
  BY <1>1, <1>2, Unchains
<1>5. /\ Len(Behind(c.body)) >= 2
      /\ Told(c.body) = <<p[2], p[3]>>
      /\ Shown(c.body) \in Seq(Byte) /\ Len(Shown(c.body)) = Len(p) - 3
      /\ \A i \in 1 .. Len(p) - 3 : Shown(c.body)[i] = p[i + 3]
  <2>1. Len(p) >= 3
    BY <1>2, <1>3
  <2>2. QED  BY <1>2, <1>4, <2>1, Parts DEF Behind, Told, Shown
<1>6. Shown(c.body) = d
  <2>1. Len(Shown(c.body)) = Len(d) /\ \A i \in 1 .. Len(d) : Shown(c.body)[i] = d[i]
    BY <1>2, <1>3, <1>5
  <2>2. QED  BY <1>3, <1>5, <2>1, SeqEqual
<1>7. Checksum(Shown(c.body)) = Told(c.body)
  BY <1>2, <1>5, <1>6 DEF Checksum
<1>8. Decrypt(c) = IF "Compression" \in c.flags THEN Uncompress(d) ELSE d
  BY <1>1, <1>5, <1>6, <1>7, DecryptIs
<1>9. "Compression" \in c.flags <=> Short(text)
  BY <1>1
<1>10. CASE Short(text)
  BY <1>8, <1>9, <1>10, Unpacks DEF d, Packed, c
<1>11. CASE ~Short(text)
  BY <1>8, <1>9, <1>11 DEF d, Packed, c
<1>12. QED  BY <1>10, <1>11

\* One byte of the body that is another is noticed.
LEMMA DamageNoticed ==
    ASSUME NEW text \in Seq(Byte), NEW random \in Byte,
           NEW k \in 1 .. Len(Plain(text, random))
    PROVE  LET body == [Chained(Plain(text, random)) EXCEPT ![k] = Flip(@)]
           IN  Checksum(Shown(body)) # Told(body)
<1> DEFINE d == Packed(text)
           p == Plain(text, random)
           body == [Chained(p) EXCEPT ![k] = Flip(@)]
           q == Unchained(body)
           e == Shown(body)
<1>1. /\ p \in Seq(Byte) /\ Len(p) = Len(d) + 3
      /\ p[2] = Parity(d, 1) /\ p[3] = Parity(d, 0)
      /\ \A i \in 1 .. Len(d) : p[i + 3] = d[i]
  BY PlainIs
<1>2. d \in Seq(Byte) /\ Len(d) \in Nat
  BY PackedTyped
<1>3. k \in 1 .. Len(p)
  OBVIOUS
<1>4. q = [i \in 1 .. Len(p) |-> IF i = k \/ i = k + 1 THEN Flip(p[i]) ELSE p[i]]
  BY <1>1, DamageSpreads
<1> HIDE DEF d, p, body
<1>5. q \in Seq(Byte) /\ Len(q) = Len(p)
  <2>1. \A b \in Byte : Flip(b) \in Byte
    BY SimpleCryptAssumption, XorTyped DEF Flip, Byte, Bit
  <2>2. \A i \in 1 .. Len(p) : (IF i = k \/ i = k + 1 THEN Flip(p[i]) ELSE p[i]) \in Byte
    BY <1>1, <2>1
  <2>3. Len(p) \in Nat
    BY <1>1
  <2> HIDE DEF q
  <2>4. QED  BY <1>4, <2>2, <2>3
<1>6. \A i \in 1 .. Len(p) : q[i] = IF i = k \/ i = k + 1 THEN Flip(p[i]) ELSE p[i]
  BY <1>4
<1>7. /\ Told(body) = <<q[2], q[3]>>
      /\ e \in Seq(Byte) /\ Len(e) = Len(d)
      /\ \A i \in 1 .. Len(d) : e[i] = q[i + 3]
  <2>1. Len(q) >= 3
    BY <1>1, <1>2, <1>5
  <2>2. /\ Told(body) = <<q[2], q[3]>>
        /\ e \in Seq(Byte) /\ Len(e) = Len(q) - 3
        /\ \A i \in 1 .. Len(q) - 3 : e[i] = q[i + 3]
    <3> HIDE DEF q
    <3>1. q = Unchained(body) BY DEF q
    <3>2. QED  BY <1>5, <2>1, <3>1, Parts DEF Behind, Told, Shown
  <2>3. QED  BY <1>1, <1>2, <1>5, <2>2
<1> HIDE DEF q, e
<1>8. SUFFICES ASSUME Parity(e, 1) = q[2], Parity(e, 0) = q[3] PROVE FALSE
  BY <1>7 DEF Checksum, e, body, p
<1>9. k \in Nat /\ k >= 1 /\ k <= Len(d) + 3
  BY <1>1, <1>2, <1>3
<1>10. 2 \in 1 .. Len(p) /\ 3 \in 1 .. Len(p)
  BY <1>1, <1>2
<1>11. ASSUME NEW i \in 1 .. Len(d)
       PROVE  e[i] = IF i + 3 = k \/ i + 2 = k THEN Flip(d[i]) ELSE d[i]
  <2>1. i + 3 \in 1 .. Len(p) /\ (i + 3 = k + 1 <=> i + 2 = k)
    BY <1>1, <1>2, <1>9
  <2>2. QED  BY <1>1, <1>6, <1>7, <2>1
<1>12. CASE k <= 2
  <2>1. q[2] = Flip(p[2])
    BY <1>6, <1>9, <1>10, <1>12
  <2>2. \A i \in 1 .. Len(d) : d[i] = e[i]
    BY <1>2, <1>9, <1>11, <1>12
  <2>3. Parity(d, 1) = Parity(e, 1)
    BY <1>7, <2>2, ParityStays
  <2>4. QED  BY <1>1, <1>8, <2>1, <2>3, FlipChanges
<1>13. CASE k = 3
  <2>1. q[3] = Flip(p[3])
    BY <1>6, <1>10, <1>13
  <2>2. ASSUME NEW i \in 1 .. Len(d), i % 2 = 0 PROVE d[i] = e[i]
    <3>1. i # 1 /\ i + 3 # 3 /\ i + 2 # 3
      BY <1>2, <2>2
    <3>2. QED  BY <1>11, <1>13, <3>1
  <2>3. Parity(d, 0) = Parity(e, 0)
    BY <1>7, <2>2, ParityStays
  <2>4. QED  BY <1>1, <1>8, <2>1, <2>3, FlipChanges
<1>14. CASE k >= 4
  <2> DEFINE n == k - 3
             r == n % 2
  <2>1. n \in 1 .. Len(d) /\ n + 3 = k /\ n \in Nat
    BY <1>2, <1>9, <1>14
  <2>2. e[n] = Flip(d[n])
    BY <1>11, <2>1
  <2>3. ASSUME NEW i \in 1 .. Len(d), i % 2 = r, i # n PROVE d[i] = e[i]
    <3>1. i \in Nat
      OBVIOUS
    <3>2. \A a \in Nat : (a + 1) % 2 # a % 2
      OBVIOUS
    <3>3. i # n + 1
      BY <2>1, <2>3, <3>2
    <3>4. i + 3 # k /\ i + 2 # k
      BY <1>9, <2>3, <3>1, <3>3
    <3>5. QED  BY <1>11, <3>4
  <2> HIDE DEF n
  <2>4. Parity(d, r) # Parity(e, r)
    <3> HIDE DEF r
    <3>1. n % 2 = r
      BY DEF r
    <3>2. QED  BY <1>2, <1>7, <2>1, <2>2, <2>3, <3>1, ParityFlips
  <2>5. r = 0 \/ r = 1
    BY <2>1
  <2>6. q[2] = p[2] /\ q[3] = p[3]
    BY <1>6, <1>9, <1>10, <1>14
  <2>7. QED  BY <1>1, <1>8, <2>4, <2>5, <2>6
<1>15. QED  BY <1>9, <1>12, <1>13, <1>14

-----------------------------------------------------------------------------
(***************************************************************************)
(* account.dat.                                                            *)
(***************************************************************************)

\* What account.dat may hold after an answer was saved, whole or damaged.
SavedAs(text, r) ==
    \/ file.damage = "none" /\ file.cipher = Encrypt(text, r)
    \/ file.damage = "flags" /\ file.cipher \in Damages(Encrypt(text, r))
    \/ file.damage = "other" /\ file.cipher \in Damages(Encrypt(text, r))
                             /\ file.cipher.flags = Encrypt(text, r).flags

SavedInv ==
    \/ file = NoFile /\ saved = <<>>
    \/ saved \in {Full, Bare} /\ \E r \in Randoms : SavedAs(saved, r)

\* A ciphertext is something.
LEMMA EncryptNotEmpty == \A text, r : Encrypt(text, r) # <<>>
  BY DEF Encrypt

\* The tables of SettingsStore hold what may be in account.dat.
LEMMA ReadIs ==
    ASSUME NEW text \in Answers, NEW r \in Randoms,
           NEW c, c = Encrypt(text, r) \/ c \in Damages(Encrypt(text, r))
    PROVE  Read[c] = Decrypt(c)
<1>1. <<text, r>> \in DOMAIN Stored /\ Stored[<<text, r>>] = Encrypt(text, r)
  BY DEF Stored
<1>2. c \in UNION {{d} \cup Damages(d) : d \in {Stored[k] : k \in DOMAIN Stored}}
  BY <1>1
<1>3. QED  BY Zenon, <1>2 DEF Read

\* A damage that leaves the flags alone makes a ciphertext that is not read.
LEMMA DamagedIsRefused ==
    ASSUME NEW text \in Seq(Byte), NEW r \in Byte,
           NEW c \in Damages(Encrypt(text, r)), c.flags = Encrypt(text, r).flags
    PROVE  Decrypt(c) = <<>>
<1> DEFINE e == Encrypt(text, r)
           p == Plain(text, r)
<1>1. /\ e.version = Version /\ e.body = Chained(p)
      /\ e.flags = {"Checksum"} \cup (IF Short(text) THEN {"Compression"} ELSE {})
      /\ e = [version |-> e.version, flags |-> e.flags, body |-> e.body]
  <2>1. e = [version |-> e.version, flags |-> e.flags, body |-> e.body]
    BY DEF Encrypt
  <2>2. QED  BY <2>1, EncryptIs
<1>2. p \in Seq(Byte) /\ DOMAIN Chained(p) = 1 .. Len(p)
  BY PlainIs, ChainTyped
<1> HIDE DEF p
<1>3. CASE c = [e EXCEPT !.version = Flip(@)]
  <2> HIDE DEF e
  <2>1. c.version = Flip(Version) /\ c.flags = e.flags
    BY <1>1, <1>3
  <2>2. c.version # Version /\ "Checksum" \in c.flags
    BY <1>1, <2>1, FlipChanges
  <2>3. QED  BY <2>2, DecryptIs
<1>4. CASE \E f \in Flag : c = [e EXCEPT !.flags = Toggle(@, f)]
  <2>1. PICK f \in Flag : c = [e EXCEPT !.flags = Toggle(@, f)]
    BY <1>4
  <2>2. c.flags = e.flags
    OBVIOUS
  <2> HIDE DEF e
  <2>3. c.flags = Toggle(e.flags, f)
    BY <1>1, <2>1
  <2>4. \A s, x : Toggle(s, x) # s
    BY DEF Toggle
  <2>5. QED  BY <2>2, <2>3, <2>4
<1>5. CASE \E i \in DOMAIN e.body : c = [e EXCEPT !.body[i] = Flip(@)]
  <2>1. PICK i \in DOMAIN e.body : c = [e EXCEPT !.body[i] = Flip(@)]
    BY <1>5
  <2> HIDE DEF e
  <2>2. i \in 1 .. Len(p) /\ c.flags = e.flags /\ c.body = [e.body EXCEPT ![i] = Flip(@)]
    BY <1>1, <1>2, <2>1
  <2>3. Checksum(Shown(c.body)) # Told(c.body)
    BY <1>1, <2>2, DamageNoticed DEF p
  <2>4. "Checksum" \in c.flags
    BY <1>1, <2>2
  <2>5. QED  BY <2>3, <2>4, DecryptIs
<1>6. QED  BY <1>3, <1>4, <1>5 DEF Damages

\* What is read from account.dat is what was saved last or nothing, whichever
\* byte but the flags has been changed, for any key and any answer.
LEMMA CacheSound == ASSUME SavedInv PROVE CacheReadIsSaved
<1>1. CASE file = NoFile /\ saved = <<>>
  BY <1>1 DEF CacheReadIsSaved, Cached, NoFile
<1>2. ASSUME saved \in {Full, Bare}, NEW r \in Randoms, SavedAs(saved, r)
      PROVE  CacheReadIsSaved
  <2>1. saved \in Answers /\ saved \in Seq(Byte) /\ r \in Byte
    BY <1>2, UpdateCycleAssumption DEF Answers
  <2>2. file.damage = "none" => Cached = saved
    <3>1. SUFFICES ASSUME file.damage = "none" PROVE Cached = saved
      OBVIOUS
    <3>2. file.cipher = Encrypt(saved, r)
      BY <1>2, <3>1 DEF SavedAs
    <3>3. Read[file.cipher] = saved
      BY <2>1, <3>2, ReadIs, DecryptsEncrypted
    <3>4. QED  BY <3>2, <3>3, EncryptNotEmpty DEF Cached
  <2>3. file.damage = "other" => Cached = <<>>
    <3>1. SUFFICES ASSUME file.damage = "other" PROVE Cached = <<>>
      OBVIOUS
    <3>2. file.cipher \in Damages(Encrypt(saved, r)) /\ file.cipher.flags = Encrypt(saved, r).flags
      BY <1>2, <3>1 DEF SavedAs
    <3>3. Read[file.cipher] = <<>>
      BY <2>1, <3>2, ReadIs, DamagedIsRefused
    <3>4. QED  BY <3>3 DEF Cached
  <2>4. QED  BY <2>2, <2>3 DEF CacheReadIsSaved
<1>3. QED  BY <1>1, <1>2 DEF SavedInv

-----------------------------------------------------------------------------
(***************************************************************************)
(* The steps of the cycle.                                                 *)
(***************************************************************************)

\* A step of the cycle.
CycleStep == Start \/ AccountManagerReady \/ SessionEnds \/ Restart \/ Cycle

\* What a step of the box is to the cycle.
LEMMA CycleSteps == ASSUME [Next]_vars PROVE CycleStep \/ UNCHANGED cycleVars
  BY Zenon DEF Next, vars, StartLogged, ReadyLogged, EndsLogged, SessionLogs, RestartAll, CycleStep

\* request() leaves no error behind, or that of the missing login.
LEMMA RequestTyped ==
    ASSUME CycleTypeOK
    PROVE  /\ Request \in Account /\ Request.error # "ReplyError"
           /\ Request.state \in {"asking", "done"}
           /\ (Request.state = "asking" => Request.error = "NoError")
<1>1. CASE conf.login
  BY <1>1 DEF Request, NoAccount, Account, Errors
<1>2. CASE ~conf.login
  BY <1>2 DEF Request, NoAccount, Account, Errors
<1>3. QED  BY <1>1, <1>2

\* parseJson() finds no error in the two good answers only.
LEMMA ParseTyped ==
    ASSUME NEW text
    PROVE  /\ ParseJson(text) \in Account /\ ParseJson(text).state = "ready"
           /\ ParseJson(text).error # "ReplyError"
           /\ ParseJson(text).error = "NoError" => text \in {Full, Bare}
<1>1. (text = Full) \in BOOLEAN
  OBVIOUS
<1>2. QED  BY <1>1 DEF ParseJson, Account, Errors

\* An answer of a request that was made.
Replied(u) ==
    /\ account' \in [Users -> Account]
    /\ account[u].state = "asking"
    /\ account' = [account EXCEPT ![u] = account'[u]]
    /\ account'[u].state = "ready"

\* An answer is never taken for an outage.
LEMMA ReplyTyped ==
    ASSUME CycleTypeOK, NEW u \in Users, Asking(u), NEW text, Reply(u, text)
    PROVE  Replied(u) /\ account'[u].error # "ReplyError"
<1>1. account \in [Users -> Account] /\ account[u] \in Account
  BY DEF CycleTypeOK
<1>2. CASE text = <<>>
  <2>1. account' = [account EXCEPT ![u] =
                      [account[u] EXCEPT !.state = "ready", !.error = "ReplyIsEmpty"]]
    BY <1>1, <1>2 DEF Reply
  <2>2. [account[u] EXCEPT !.state = "ready", !.error = "ReplyIsEmpty"] \in Account
    BY <1>1 DEF Account, Errors
  <2>3. QED  BY <1>1, <2>1, <2>2 DEF Replied, Asking, Account
<1>3. CASE text # <<>>
  <2>1. account' = [account EXCEPT ![u] = ParseJson(text)]
    BY <1>3 DEF Reply
  <2>2. QED  BY <1>1, <2>1, ParseTyped DEF Replied, Asking
<1>4. QED  BY <1>2, <1>3

\* Neither is the cache, if it is read.
LEMMA FallBackTyped ==
    ASSUME CycleTypeOK, NEW u \in Users, Asking(u), FallBack(u)
    PROVE  Replied(u) /\ (Cached # <<>> => account'[u].error # "ReplyError")
<1>1. account \in [Users -> Account] /\ account[u] \in Account
  BY DEF CycleTypeOK
<1>2. CASE Cached = <<>>
  <2>1. account' = [account EXCEPT ![u] =
                      [account[u] EXCEPT !.state = "ready", !.error = "ReplyError"]]
    BY <1>1, <1>2 DEF FallBack
  <2>2. [account[u] EXCEPT !.state = "ready", !.error = "ReplyError"] \in Account
    BY <1>1 DEF Account, Errors
  <2>3. QED  BY <1>1, <1>2, <2>1, <2>2 DEF Replied, Asking, Account
<1>3. CASE Cached # <<>>
  <2>1. account' = [account EXCEPT ![u] = ParseJson(Cached)]
    BY <1>3 DEF FallBack
  <2>2. QED  BY <1>1, <2>1, ParseTyped DEF Replied, Asking
<1>4. QED  BY <1>2, <1>3

\* send() makes the AccountManager of the Eventer once.
LEMMA SendTyped ==
    ASSUME CycleTypeOK, NEW a \in [Users -> Account]
    PROVE  /\ SendBy(a) \in [Users -> Account]
           /\ SendBy(a)["controller"] = a["controller"]
           /\ a["eventer"].state # "none" => SendBy(a)["eventer"] = a["eventer"]
           /\ a["eventer"].state = "none" => SendBy(a)["eventer"] = Request
  BY RequestTyped DEF SendBy, Users

\* accountManagerReady() gives up the AccountManager of the controller only.
LEMMA ConsumedTyped ==
    ASSUME NEW a \in [Users -> Account]
    PROVE  /\ Consumed(a) \in [Users -> Account]
           /\ Consumed(a)["controller"] = NoAccount /\ Consumed(a)["eventer"] = a["eventer"]
<1>1. NoAccount \in Account
  BY DEF NoAccount, Account, Errors
<1>2. QED  BY <1>1 DEF Consumed, Users

\* What a step may do to the AccountManager of one user.
Moves(u) ==
    \/ account'[u] \in {account[u], Request, NoAccount}
    \/ account[u].state = "ready" /\ account'[u] = [account[u] EXCEPT !.state = "done"]
    \/ /\ account[u].state = "asking" /\ account'[u].state = "ready"
       /\ Cached # <<>> => account'[u].error # "ReplyError"

\* A reply is such a move.
LEMMA RepliedMoves ==
    ASSUME CycleTypeOK, NEW w \in Users, Replied(w),
           Cached # <<>> => account'[w].error # "ReplyError"
    PROVE  account' \in [Users -> Account] /\ \A u \in Users : Moves(u)
<1>1. account \in [Users -> Account] /\ account' \in [Users -> Account]
  BY DEF CycleTypeOK, Replied
<1>2. ASSUME NEW u \in Users, u # w PROVE Moves(u)
  <2>1. account'[u] = account[u]
    BY <1>1, <1>2 DEF Replied
  <2>2. QED  BY <2>1 DEF Moves
<1>3. Moves(w)
  BY DEF Moves, Replied
<1>4. QED  BY <1>1, <1>2, <1>3

\* Every step of the cycle makes such moves only.
LEMMA AccountMoves ==
    ASSUME CycleTypeOK, CycleStep
    PROVE  account' \in [Users -> Account] /\ \A u \in Users : Moves(u)
<1>1. account \in [Users -> Account]
  BY DEF CycleTypeOK
<1>2. NoAccount \in Account /\ Request \in Account
  BY RequestTyped DEF NoAccount, Account, Errors
<1>3. "controller" \in Users /\ "eventer" \in Users /\ Users = {"controller", "eventer"}
  BY DEF Users
<1> DEFINE Typed == account' \in [Users -> Account] /\ \A u \in Users : Moves(u)
<1>4. ASSUME account' = account PROVE Typed
  BY <1>1, <1>4 DEF Moves
<1>5. ASSUME Start PROVE Typed
  <2>1. account' = [account EXCEPT !["controller"] = Request]
    BY <1>5 DEF Start
  <2>2. account' \in [Users -> Account]
    BY <1>1, <1>2, <2>1
  <2>3. account'["controller"] = Request /\ account'["eventer"] = account["eventer"]
    BY <1>1, <1>3, <2>1
  <2>4. QED  BY <1>3, <2>2, <2>3 DEF Moves
<1>6. ASSUME AccountManagerReady PROVE Typed
  <2>1. Consumed(account) \in [Users -> Account] /\ Consumed(account)["controller"] = NoAccount
        /\ Consumed(account)["eventer"] = account["eventer"]
    BY <1>1, ConsumedTyped
  <2>2. account' = SendBy(Consumed(account)) \/ account' = Consumed(account)
    BY <1>6 DEF AccountManagerReady
  <2>3. /\ SendBy(Consumed(account)) \in [Users -> Account]
        /\ SendBy(Consumed(account))["controller"] = NoAccount
        /\ SendBy(Consumed(account))["eventer"] \in {account["eventer"], Request}
    BY <2>1, SendTyped
  <2>4. QED  BY <1>3, <2>1, <2>2, <2>3 DEF Moves
<1>7. ASSUME SessionEnds PROVE Typed
  BY <1>4, <1>7 DEF SessionEnds
<1>8. ASSUME Restart PROVE Typed
  <2>1. account' = [u \in Users |-> NoAccount]
    BY <1>8 DEF Restart
  <2>2. QED  BY <1>2, <2>1 DEF Moves
<1>9. ASSUME NEW w \in Users, ReplyFinished(w) PROVE Typed
  <2>1. PICK text \in Answers \cup {<<>>} : Reply(w, text)
    BY <1>9 DEF ReplyFinished
  <2>2. Asking(w)
    BY <1>9 DEF ReplyFinished
  <2>3. Replied(w) /\ account'[w].error # "ReplyError"
    BY <2>1, <2>2, ReplyTyped
  <2>4. QED  BY <2>3, RepliedMoves
<1>10. ASSUME NEW w \in Users, ReplyFails(w) \/ RequestTimeout(w) PROVE Typed
  <2>1. Asking(w) /\ FallBack(w)
    BY <1>10 DEF ReplyFails, RequestTimeout
  <2>2. QED  BY <2>1, FallBackTyped, RepliedMoves
<1>11. ASSUME DataUpdate PROVE Typed
  <2>1. account' = [account EXCEPT !["eventer"] = [account["eventer"] EXCEPT !.state = "done"]]
        /\ account["eventer"].state = "ready"
    BY <1>11 DEF DataUpdate
  <2>2. [account["eventer"] EXCEPT !.state = "done"] \in Account
    <3>1. account["eventer"] \in Account
      BY <1>1, <1>3
    <3>2. QED  BY <3>1 DEF Account
  <2>3. account' \in [Users -> Account]
    BY <1>1, <2>1, <2>2
  <2>4. account'["controller"] = account["controller"]
        /\ account'["eventer"] = [account["eventer"] EXCEPT !.state = "done"]
    BY <1>1, <1>3, <2>1
  <2>5. QED  BY <1>3, <2>1, <2>3, <2>4 DEF Moves
<1>12. ASSUME GetServerUri PROVE Typed
  <2>1. account' = SendBy(account)
    BY <1>12 DEF GetServerUri
  <2>2. QED  BY <1>1, <1>3, <2>1, SendTyped DEF Moves
<1>13. ASSUME SaveLogin \/ SetBoxId \/ DiskFault PROVE Typed
  BY <1>4, <1>13 DEF SaveLogin, SetBoxId, DiskFault
<1>14. QED
  BY <1>5, <1>6, <1>7, <1>8, <1>9, <1>10, <1>11, <1>12, <1>13 DEF CycleStep, Cycle

\* Only what is free of errors is saved.
LEMMA SavedTyped ==
    ASSUME CycleTypeOK, NEW u \in Users, Asking(u), NEW text \in Answers \cup {<<>>}, Reply(u, text)
    PROVE  \/ UNCHANGED <<file, saved>>
           \/ /\ text \in {Full, Bare} /\ saved' = text
              /\ \E r \in Randoms : file' = [NoFile EXCEPT !.cipher = Encrypt(text, r)]
<1>1. CASE text = <<>> \/ ParseJson(text).error # "NoError"
  BY <1>1 DEF Reply
<1>2. CASE text # <<>> /\ ParseJson(text).error = "NoError"
  <2>1. SaveCache(text) /\ text \in {Full, Bare}
    BY <1>2, ParseTyped DEF Reply
  <2>2. PICK r \in Randoms : file' = [NoFile EXCEPT !.cipher = Stored[<<text, r>>]]
    BY <2>1 DEF SaveCache
  <2>3. Stored[<<text, r>>] = Encrypt(text, r)
    <3>1. <<text, r>> \in Answers \X Randoms
      BY <2>1 DEF Answers
    <3>2. QED  BY <3>1 DEF Stored
  <2>4. QED  BY <2>1, <2>2, <2>3 DEF SaveCache
<1>3. QED  BY <1>1, <1>2

\* account.dat changes by such a saving or by a fault of the disk.
LEMMA FileMoves ==
    ASSUME CycleTypeOK, CycleStep
    PROVE  \/ UNCHANGED <<file, saved>>
           \/ /\ saved' \in {Full, Bare}
              /\ \E r \in Randoms : file' = [NoFile EXCEPT !.cipher = Encrypt(saved', r)]
           \/ DiskFault
<1>1. ASSUME NEW w \in Users, ReplyFinished(w)
      PROVE \/ UNCHANGED <<file, saved>>
           \/ /\ saved' \in {Full, Bare}
              /\ \E r \in Randoms : file' = [NoFile EXCEPT !.cipher = Encrypt(saved', r)]
  <2>1. PICK text \in Answers \cup {<<>>} : Reply(w, text)
    BY <1>1 DEF ReplyFinished
  <2>2. Asking(w)
    BY <1>1 DEF ReplyFinished
  <2>3. QED  BY <2>1, <2>2, SavedTyped
<1>2. ASSUME \/ Start \/ AccountManagerReady \/ SessionEnds \/ Restart
             \/ \E w \in Users : ReplyFails(w) \/ RequestTimeout(w)
             \/ DataUpdate \/ GetServerUri \/ SaveLogin \/ SetBoxId
      PROVE UNCHANGED <<file, saved>>
  BY Zenon, <1>2 DEF Start, AccountManagerReady, SessionEnds, Restart, ReplyFails, RequestTimeout,
     DataUpdate, GetServerUri, SaveLogin, SetBoxId, FallBack
<1>3. QED  BY <1>1, <1>2 DEF CycleStep, Cycle

\* No request is under way with the error of an outage.
AskedInv == \A u \in Users : Asking(u) => account[u].error # "ReplyError"

\* A request that ends finds the cache, if it is read, and a new one has no error
\* yet.
LEMMA AskedStep ==
    ASSUME CycleTypeOK, AskedInv, CycleStep
    PROVE  /\ \A u \in Users : account'[u].state = "asking" => account'[u].error # "ReplyError"
           /\ Cached # <<>> => \A u \in Users : Asking(u) => account'[u].error # "ReplyError"
<1>1. ASSUME NEW u \in Users
      PROVE /\ account'[u].state = "asking" => account'[u].error # "ReplyError"
            /\ Cached # <<>> /\ Asking(u) => account'[u].error # "ReplyError"
  <2>1. Moves(u)
    BY AccountMoves
  <2>2. account[u] \in Account
    BY DEF CycleTypeOK
  <2>3. CASE account'[u] = account[u]
    BY <2>3 DEF AskedInv, Asking
  <2>4. CASE account'[u] = Request
    BY <2>4, RequestTyped
  <2>5. CASE account'[u] = NoAccount
    BY <2>5 DEF NoAccount
  <2>6. CASE account[u].state = "ready" /\ account'[u] = [account[u] EXCEPT !.state = "done"]
    BY <2>2, <2>6 DEF Asking, Account
  <2>7. CASE /\ account[u].state = "asking" /\ account'[u].state = "ready"
             /\ Cached # <<>> => account'[u].error # "ReplyError"
    BY <2>7
  <2>8. QED  BY <2>1, <2>3, <2>4, <2>5, <2>6, <2>7 DEF Moves
<1>2. QED  BY <1>1

\* A step of the cycle keeps what account.dat may hold.
LEMMA SavedStep ==
    ASSUME CycleTypeOK, SavedInv, CycleStep
    PROVE  SavedInv'
<1>1. CASE UNCHANGED <<file, saved>>
  BY <1>1 DEF SavedInv, SavedAs
<1>2. ASSUME saved' \in {Full, Bare}, NEW r \in Randoms,
             file' = [NoFile EXCEPT !.cipher = Encrypt(saved', r)]
      PROVE SavedInv'
  <2>1. file'.damage = "none" /\ file'.cipher = Encrypt(saved', r)
    BY <1>2 DEF NoFile
  <2>2. QED  BY <1>2, <2>1 DEF SavedInv, SavedAs
<1>3. CASE DiskFault
  <2>1. file.cipher # <<>> /\ file.damage = "none" /\ saved' = saved
    BY <1>3 DEF DiskFault
  <2>2. saved \in {Full, Bare} /\ \E r \in Randoms : SavedAs(saved, r)
    BY <2>1 DEF SavedInv, NoFile
  <2>3. PICK r \in Randoms : file.cipher = Encrypt(saved, r)
    BY <2>1, <2>2 DEF SavedAs
  <2>4. PICK c \in Damages(file.cipher) :
          file' = [cipher |-> c,
                   damage |-> IF c.flags # file.cipher.flags THEN "flags" ELSE "other"]
    BY <1>3 DEF DiskFault
  <2>5. /\ file'.cipher = c
        /\ file'.damage = (IF c.flags # file.cipher.flags THEN "flags" ELSE "other")
    BY <2>4
  <2>6. \/ file'.damage = "flags" /\ file'.cipher \in Damages(Encrypt(saved', r))
        \/ file'.damage = "other" /\ file'.cipher \in Damages(Encrypt(saved', r))
                             /\ file'.cipher.flags = Encrypt(saved', r).flags
    BY <2>1, <2>3, <2>5
  <2>7. QED  BY <2>1, <2>2, <2>6 DEF SavedInv, SavedAs
<1>4. QED  BY <1>1, <1>2, <1>3, FileMoves

\* A step of the cycle keeps the types.
LEMMA CycleTyped ==
    ASSUME CycleTypeOK, SavedInv, CycleStep
    PROVE  CycleTypeOK'
<1>1. account' \in [Users -> Account]
  BY AccountMoves
<1>2. file'.damage \in Damage /\ saved' \in {<<>>} \cup Answers
  BY SavedStep DEF SavedInv, SavedAs, NoFile, Damage, Answers
<1>3. conf' \in [login : BOOLEAN, box : BOOLEAN]
  <2>1. conf' = conf \/ SaveLogin \/ SetBoxId
    BY Zenon DEF CycleStep, Cycle, Start, AccountManagerReady, SessionEnds, Restart, ReplyFinished,
       ReplyFails, RequestTimeout, DataUpdate, GetServerUri, DiskFault
  <2>2. QED  BY <2>1 DEF CycleTypeOK, SaveLogin, SetBoxId
<1>4. reporting' \in [uri : Uris, retry : BOOLEAN]
  <2>1. reporting' \in {reporting, Quiet} \/ DataUpdate \/ GetServerUri
    BY DEF CycleStep, Cycle, Start, AccountManagerReady, SessionEnds, Restart, ReplyFinished,
       ReplyFails, RequestTimeout, SaveLogin, SetBoxId, DiskFault
  <2>2. reporting \in [uri : Uris, retry : BOOLEAN]
    BY DEF CycleTypeOK
  <2>3. CASE DataUpdate
    <3>1. CASE reporting' = [reporting EXCEPT !.uri = "given"]
      BY <2>2, <3>1 DEF Uris
    <3>2. CASE reporting' = [uri |-> "empty", retry |-> TRUE]
      BY <3>2 DEF Uris
    <3>3. QED  BY Zenon, <2>3, <3>1, <3>2 DEF DataUpdate
  <2>4. CASE GetServerUri
    <3>1. reporting' = [reporting EXCEPT !.retry = FALSE]
      BY <2>4 DEF GetServerUri
    <3>2. QED  BY <2>2, <3>1
  <2>5. Quiet \in [uri : Uris, retry : BOOLEAN]
    BY DEF Quiet, Uris
  <2>6. QED  BY Zenon, <2>1, <2>2, <2>3, <2>4, <2>5
<1>5. boot' \in BOOLEAN
  BY Zenon DEF CycleTypeOK, CycleStep, Cycle, Start, AccountManagerReady, SessionEnds, Restart,
     ReplyFinished, ReplyFails, RequestTimeout, DataUpdate, GetServerUri, SaveLogin, SetBoxId,
     DiskFault
<1>6. timer' \in BOOLEAN /\ session' \in BOOLEAN
  <2>1. CASE Start
    BY Zenon, <2>1 DEF Start, CycleTypeOK
  <2>2. CASE AccountManagerReady
    BY Zenon, <2>2 DEF AccountManagerReady
  <2>3. CASE SessionEnds \/ Restart \/ Cycle
    BY Zenon, <2>3 DEF CycleTypeOK, Cycle, SessionEnds, Restart,
     ReplyFinished, ReplyFails, RequestTimeout, DataUpdate, GetServerUri, SaveLogin, SetBoxId,
     DiskFault
  <2>4. QED  BY <2>1, <2>2, <2>3 DEF CycleStep
<1>7. QED  BY <1>1, <1>2, <1>3, <1>4, <1>5, <1>6 DEF CycleTypeOK

-----------------------------------------------------------------------------
(***************************************************************************)
(* What carries the controller on.                                         *)
(***************************************************************************)

\* Exactly one of four.
OnlyOne(a, b, c, d) ==
    \/ a /\ ~b /\ ~c /\ ~d
    \/ ~a /\ b /\ ~c /\ ~d
    \/ ~a /\ ~b /\ c /\ ~d
    \/ ~a /\ ~b /\ ~c /\ d

\* The controller waits for an answer or for its signal.
Pending == account["controller"].state \in {"asking", "ready"}

DueInv == OnlyOne(boot, timer, session, Pending)

OneDue(a, b, c, d) ==
    LET due == <<a, b, c, d>> IN \E i \in 1 .. 4 : due[i] /\ \A j \in 1 .. 4 \ {i} : ~due[j]

\* Four values without the tuple.
LEMMA OneOfFour ==
    ASSUME NEW a \in BOOLEAN, NEW b \in BOOLEAN, NEW c \in BOOLEAN, NEW d \in BOOLEAN
    PROVE  OnlyOne(a, b, c, d) <=> OneDue(a, b, c, d)
<1> DEFINE due == <<a, b, c, d>>
<1>1. due[1] = a /\ due[2] = b /\ due[3] = c /\ due[4] = d
  OBVIOUS
<1> HIDE DEF due
<1>2. 1 .. 4 = {1, 2, 3, 4}
  OBVIOUS
<1>3. 1 # 2 /\ 1 # 3 /\ 1 # 4 /\ 2 # 3 /\ 2 # 4 /\ 3 # 4
  OBVIOUS
<1>4. OnlyOne(due[1], due[2], due[3], due[4])
        <=> \E i \in {1, 2, 3, 4} : due[i] /\ \A j \in {1, 2, 3, 4} \ {i} : ~due[j]
  BY Zenon, <1>3 DEF OnlyOne
<1>5. QED  BY Zenon, <1>1, <1>2, <1>4 DEF due, OneDue

\* OneThingDue without the tuple.
LEMMA DueIs ==
    ASSUME CycleTypeOK
    PROVE  OneThingDue <=> DueInv
<1>1. boot \in BOOLEAN /\ timer \in BOOLEAN /\ session \in BOOLEAN /\ Pending \in BOOLEAN
  BY DEF CycleTypeOK, Pending
<1> DEFINE p == Pending
<1>2. p \in BOOLEAN
  BY <1>1
<1>3. OneThingDue <=> OneDue(boot, timer, session, p)
  BY Zenon DEF OneThingDue, Pending, OneDue
<1> HIDE DEF p
<1>4. OnlyOne(boot, timer, session, p) <=> OneDue(boot, timer, session, p)
  BY <1>1, <1>2, OneOfFour
<1>5. OneThingDue <=> OnlyOne(boot, timer, session, p)
  BY Zenon, <1>3, <1>4
<1>6. QED  BY Zenon, <1>5 DEF p, DueInv

\* A step of the cycle passes the turn on.
LEMMA DueStep ==
    ASSUME CycleTypeOK, CycleStep, DueInv
    PROVE  DueInv'
<1>1. account \in [Users -> Account] /\ "controller" \in Users /\ "eventer" \in Users
      /\ "controller" # "eventer"
  BY DEF CycleTypeOK, Users
<1>2. NoAccount.state = "none"
  BY DEF NoAccount
<1>3. CASE Start
  <2>1. ~session /\ ~Pending
    BY Zenon, <1>3 DEF Start, DueInv, OnlyOne
  <2>2. account'["controller"] = Request
    BY <1>1, <1>3 DEF Start
  <2>3. Pending' <=> Request.state = "asking"
    BY <2>2, RequestTyped DEF Pending
  <2>4. (timer' <=> Request.state = "done") /\ ~boot' /\ session' = session
    BY Zenon, <1>3 DEF Start
  <2>5. (Request.state = "asking") <=> ~(Request.state = "done")
    BY RequestTyped
  <2>6. QED  BY Zenon, <2>1, <2>3, <2>4, <2>5 DEF DueInv, OnlyOne
<1>4. CASE AccountManagerReady
  <2>1. ~boot
    BY Zenon, <1>4 DEF AccountManagerReady, DueInv, OnlyOne, Pending
  <2>2. account'["controller"] = NoAccount
    <3>1. account' = SendBy(Consumed(account)) \/ account' = Consumed(account)
      BY <1>4 DEF AccountManagerReady
    <3>2. QED  BY <1>1, <3>1, ConsumedTyped, SendTyped
  <2>3. ~Pending'
    BY <1>2, <2>2 DEF Pending
  <2>4. boot' = boot /\ (timer' <=> ~session')
    BY Zenon, <1>4 DEF AccountManagerReady
  <2>5. QED  BY Zenon, <2>1, <2>3, <2>4 DEF DueInv, OnlyOne
<1>5. CASE SessionEnds
  BY Zenon, <1>5 DEF SessionEnds, DueInv, OnlyOne, Pending
<1>6. CASE Restart
  <2>1. ~Pending'
    BY <1>1, <1>2, <1>6 DEF Restart, Pending
  <2>2. QED  BY Zenon, <1>6, <2>1 DEF Restart, DueInv, OnlyOne
<1>7. CASE Cycle
  <2>1. boot' = boot /\ timer' = timer /\ session' = session
    BY Zenon, <1>7 DEF Cycle, ReplyFinished, ReplyFails, RequestTimeout, DataUpdate, GetServerUri,
       SaveLogin, SetBoxId, DiskFault
  <2>2. Pending' <=> Pending
    <3>1. ASSUME NEW w \in Users, Replied(w) PROVE Pending' <=> Pending
      <4>1. CASE w = "controller"
        BY <3>1, <4>1 DEF Replied, Pending
      <4>2. CASE w # "controller"
        <5>1. account'["controller"] = account["controller"]
          BY <1>1, <3>1, <4>2 DEF Replied
        <5>2. QED  BY <5>1 DEF Pending
      <4>3. QED  BY <4>1, <4>2
    <3>2. ASSUME NEW w \in Users, ReplyFinished(w) \/ ReplyFails(w) \/ RequestTimeout(w)
          PROVE  Replied(w)
      BY <3>2, ReplyTyped, FallBackTyped DEF ReplyFinished, ReplyFails, RequestTimeout
    <3>3. ASSUME DataUpdate \/ GetServerUri \/ SaveLogin \/ SetBoxId \/ DiskFault
          PROVE  account'["controller"] = account["controller"]
      <4>1. CASE DataUpdate
        BY <1>1, <4>1 DEF DataUpdate
      <4>2. CASE GetServerUri
        BY <1>1, <4>2, SendTyped DEF GetServerUri
      <4>3. CASE SaveLogin \/ SetBoxId \/ DiskFault
        BY <4>3 DEF SaveLogin, SetBoxId, DiskFault
      <4>4. QED  BY <3>3, <4>1, <4>2, <4>3
    <3>4. QED  BY <1>7, <3>1, <3>2, <3>3 DEF Cycle, Pending
  <2>3. QED  BY Zenon, <2>1, <2>2 DEF DueInv, OnlyOne
<1>8. QED  BY <1>3, <1>4, <1>5, <1>6, <1>7 DEF CycleStep

-----------------------------------------------------------------------------
(***************************************************************************)
(* The logs.                                                               *)
(***************************************************************************)

\* A step of the logs.
LogStep == WriteLog \/ SetLogDeleteDays \/ DeleteLogs \/ ClockMoves
              \/ (deleter' = FALSE /\ UNCHANGED <<day, logs, deleteDays>>)

\* What a step of the box is to the logs.
LEMMA LogSteps == ASSUME [Next]_vars PROVE LogStep \/ UNCHANGED logVars
  BY Zenon DEF Next, vars, StartLogged, ReadyLogged, EndsLogged, SessionLogs, RestartAll, LogStep,
     Silent, Logs

\* A step of the logs keeps the types.
LEMMA LogTyped == ASSUME LogTypeOK, LogStep PROVE LogTypeOK'
<1>1. CASE WriteLog
  BY <1>1 DEF LogTypeOK, WriteLog
<1>2. CASE SetLogDeleteDays
  BY <1>2 DEF LogTypeOK, SetLogDeleteDays
<1>3. CASE DeleteLogs
  BY <1>3 DEF LogTypeOK, DeleteLogs
<1>4. CASE ClockMoves
  BY <1>4 DEF LogTypeOK, ClockMoves
<1>5. CASE deleter' = FALSE /\ UNCHANGED <<day, logs, deleteDays>>
  BY <1>5 DEF LogTypeOK
<1>6. QED  BY <1>1, <1>2, <1>3, <1>4, <1>5 DEF LogStep

\* The logs after c.
After(c, S) == {e \in S : e > c}

\* Behind the newest log that may go, none may, so they are all still there.
LEMMA NewestStay ==
    ASSUME LogTypeOK, DeleteLogs, NEW d \in logs \ logs'
    PROVE  Cardinality({e \in logs' : e > d}) >= Kept
<1>1. IsFiniteSet(logs) /\ logs \subseteq Int /\ Kept \in Nat /\ MaxDay \in Nat
      /\ \A e \in logs : e \in Nat /\ e <= MaxDay
  <2>1. IsFiniteSet(Day)
    BY FS_Interval, LogRetentionAssumption DEF Day
  <2>2. logs \subseteq Day
    BY DEF LogTypeOK
  <2>3. IsFiniteSet(logs)
    BY <2>1, <2>2, FS_Subset
  <2>4. QED  BY <2>2, <2>3, LogRetentionAssumption DEF Day
<1>2. d \in Candidates /\ logs' \subseteq logs /\ logs \ Candidates \subseteq logs'
  BY DEF DeleteLogs, Candidates
<1> DEFINE T == {n \in Nat : MaxDay - n \in Candidates}
<1>3. MaxDay - d \in T
  <2>1. MaxDay - d \in Nat /\ MaxDay - (MaxDay - d) = d
    BY <1>1
  <2>2. QED  BY <1>2, <2>1
<1>4. PICK m \in T : \A k \in T : m <= k
  BY <1>3, LeastNumber
<1> DEFINE c == MaxDay - m
<1>5. c \in Candidates /\ c \in Int /\ c >= d
  BY <1>1, <1>3, <1>4
<1>6. \A e \in Candidates : e <= c
  <2>1. ASSUME NEW e \in Candidates PROVE e <= c
    <3>1. e \in Nat /\ e <= MaxDay
      BY <1>1 DEF Candidates
    <3>2. MaxDay - e \in Nat /\ MaxDay - (MaxDay - e) = e
      BY <1>1, <3>1
    <3>3. m <= MaxDay - e
      BY <1>4, <3>2
    <3>4. QED  BY <1>1, <1>4, <3>1, <3>3
  <2>2. QED  BY <2>1
<1> HIDE DEF c, T
<1>7. Cardinality(After(c, logs)) >= Kept
  BY <1>5 DEF Candidates, After
<1>8. After(c, logs) \subseteq After(d, logs')
  <2>1. ASSUME NEW e \in logs, e > c PROVE e \in logs' /\ e > d
    <3>1. e \notin Candidates
      BY <1>1, <1>5, <1>6, <2>1
    <3>2. QED  BY <1>1, <1>2, <1>5, <2>1, <3>1
  <2>2. QED  BY <2>1 DEF After
<1>9. IsFiniteSet(After(d, logs')) /\ IsFiniteSet(After(c, logs))
  BY <1>1, <1>2, FS_Subset DEF After
<1>10. /\ Cardinality(After(c, logs)) <= Cardinality(After(d, logs'))
       /\ Cardinality(After(c, logs)) \in Nat /\ Cardinality(After(d, logs')) \in Nat
  BY <1>8, <1>9, FS_Subset, FS_CardinalityType
<1>11. QED  BY <1>1, <1>7, <1>10 DEF After

-----------------------------------------------------------------------------
(***************************************************************************)
(* The invariant and what follows from it.                                 *)
(***************************************************************************)

IInv == TypeOK /\ SavedInv /\ AskedInv /\ DueInv

\* The invariant holds at first,
LEMMA InitHolds == Init => IInv
<1>1. ASSUME Init PROVE CycleTypeOK /\ SavedInv /\ AskedInv /\ DueInv
  <2>1. /\ conf \in [login : BOOLEAN, box : BOOLEAN]
        /\ file = NoFile /\ saved = <<>>
        /\ boot = TRUE /\ timer = FALSE /\ session = FALSE
        /\ account = [u \in Users |-> NoAccount]
        /\ reporting = Quiet
    BY <1>1 DEF Init, CycleInit
  <2>2. NoAccount \in Account /\ NoAccount.state # "asking"
    BY DEF NoAccount, Account, Errors
  <2>3. \A u \in Users : account[u] = NoAccount
    BY <2>1
  <2>4. CycleTypeOK
    BY <2>1, <2>2 DEF CycleTypeOK, NoFile, Damage, Quiet, Uris
  <2>5. SavedInv /\ AskedInv
    BY <2>1, <2>2, <2>3 DEF SavedInv, AskedInv, Asking
  <2>6. DueInv
    <3>1. ~Pending
      BY <2>3 DEF Pending, Users, NoAccount
    <3>2. QED  BY Zenon, <2>1, <3>1 DEF DueInv, OnlyOne
  <2>7. QED  BY <2>4, <2>5, <2>6
<1>2. ASSUME Init PROVE LogTypeOK
  BY <1>2 DEF Init, LogInit, LogTypeOK
<1>3. QED  BY <1>1, <1>2 DEF IInv, TypeOK

\* and every step keeps it.
LEMMA StepHolds == IInv /\ [Next]_vars => IInv'
<1> SUFFICES ASSUME IInv, [Next]_vars PROVE IInv'
  OBVIOUS
<1>1. CycleTypeOK /\ LogTypeOK /\ SavedInv /\ AskedInv /\ DueInv
  BY DEF IInv, TypeOK
<1>2. LogTypeOK'
  <2>1. CASE LogStep
    BY <1>1, <2>1, LogTyped
  <2>2. CASE UNCHANGED logVars
    BY <1>1, <2>2 DEF logVars, LogTypeOK
  <2>3. QED  BY <2>1, <2>2, LogSteps
<1>3. CASE CycleStep
  <2>1. CycleTypeOK' /\ SavedInv'
    BY <1>1, <1>3, CycleTyped, SavedStep
  <2>2. AskedInv'
    BY <1>1, <1>3, AskedStep DEF AskedInv, Asking
  <2>3. DueInv'
    BY <1>1, <1>3, DueStep
  <2>4. QED  BY <1>2, <2>1, <2>2, <2>3 DEF IInv, TypeOK
<1>4. CASE UNCHANGED cycleVars
  <2>1. CycleTypeOK'
    BY <1>1, <1>4 DEF cycleVars, CycleTypeOK
  <2>2. SavedInv' /\ AskedInv'
    BY <1>1, <1>4 DEF cycleVars, SavedInv, SavedAs, AskedInv, Asking
  <2>3. DueInv'
    BY Zenon, <1>1, <1>4 DEF cycleVars, DueInv, OnlyOne, Pending
  <2>4. QED  BY <1>2, <2>1, <2>2, <2>3 DEF IInv, TypeOK
<1>5. QED  BY <1>3, <1>4, CycleSteps

\* The invariant of the box.
THEOREM InvariantHolds == Spec => []IInv
  BY InitHolds, StepHolds, PTL DEF Spec

\* The types.
THEOREM TypesHold == Spec => []TypeOK
<1>1. IInv => TypeOK
  BY DEF IInv
<1>2. QED  BY <1>1, InvariantHolds, PTL

\* What is read from account.dat is what was last written there, or nothing once
\* a fault of the disk has changed another byte than the flags: for any key, any
\* random byte and any answer.
THEOREM CacheHolds == Spec => []CacheReadIsSaved
<1>1. IInv => CacheReadIsSaved
  BY CacheSound DEF IInv
<1>2. QED  BY <1>1, InvariantHolds, PTL

\* One thing at a time carries the controller on: a posted call, the timer, a
\* request, its queued answer or a session.
THEOREM DueHolds == Spec => []OneThingDue
<1>1. IInv => OneThingDue
  BY DueIs DEF IInv, TypeOK
<1>2. QED  BY <1>1, InvariantHolds, PTL

\* Once an answer has been saved, no request of either user of account.dat ends
\* without an answer as long as the file is whole.
THEOREM OutageSurvived == Spec => OutageUsesCache
<1>1. IInv /\ [Next]_vars =>
        [ saved # <<>> /\ file.damage = "none" =>
            /\ ParseJson(saved).error = "NoError"
            /\ \A u \in Users : Asking(u) => account'[u].error # "ReplyError" ]_cycleVars
  <2>1. SUFFICES ASSUME IInv, [Next]_vars, CycleStep, saved # <<>>, file.damage = "none"
                 PROVE  /\ ParseJson(saved).error = "NoError"
                        /\ \A u \in Users : Asking(u) => account'[u].error # "ReplyError"
    BY CycleSteps
  <2>2. saved \in {Full, Bare}
    BY <2>1 DEF IInv, SavedInv
  <2>3. ParseJson(saved).error = "NoError"
    BY <2>2, UpdateCycleAssumption DEF ParseJson
  <2>4. Cached = saved
    BY <2>1, CacheSound DEF IInv, CacheReadIsSaved
  <2>5. QED  BY <2>1, <2>3, <2>4, AskedStep DEF IInv, TypeOK
<1>2. QED  BY <1>1, InvariantHolds, PTL DEF Spec, OutageUsesCache

\* A log that goes leaves Kept newer ones behind.
THEOREM NewestStayHolds == Spec => NewestKept
<1>1. IInv /\ [Next]_vars =>
        [ \A d \in logs \ logs' : Cardinality({e \in logs' : e > d}) >= Kept ]_logVars
  <2>1. SUFFICES ASSUME IInv, LogStep, NEW d \in logs \ logs'
                 PROVE  Cardinality({e \in logs' : e > d}) >= Kept
    BY LogSteps
  <2>2. DeleteLogs
    <3>1. WriteLog => logs \subseteq logs'
      BY DEF WriteLog
    <3>2. QED  BY <2>1, <3>1 DEF LogStep, SetLogDeleteDays, ClockMoves
  <2>3. QED  BY <2>1, <2>2, NewestStay DEF IInv, TypeOK
<1>2. QED  BY <1>1, InvariantHolds, PTL DEF Spec, NewestKept

=============================================================================
