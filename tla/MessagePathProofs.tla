------------------------- MODULE MessagePathProofs -------------------------
(***************************************************************************)
(* What the conversions of a message do for every text, every set of users *)
(* and every key: decrypting undoes encrypting, base64 is undone, a line   *)
(* is cut where it was joined, and a conversation key names its two users. *)
(* From these follow the four invariants of MessagePath.                   *)
(***************************************************************************)
EXTENDS MessagePath, TLAPS, FiniteSetTheorems, SequenceTheorems, WellFoundedInduction

(* A function on 1 .. n is a sequence of length n.                         *)
LEMMA ListOf ==
  ASSUME NEW S, NEW n \in Nat, NEW f \in [1 .. n -> S]
  PROVE  f \in Seq(S) /\ Len(f) = n
  BY SeqDef

(* A byte is a number below 256.                                           *)
LEMMA ByteNumber ==
  ASSUME NEW b \in Byte
  PROVE  b \in Nat /\ b < 256
  BY DEF Byte

(* The remainder by 256 is a byte.                                         *)
LEMMA ByteRemainder ==
  ASSUME NEW n \in Nat
  PROVE  n % 256 \in Byte
  BY DEF Byte

(* A byte added modulo 256 is taken away again modulo 256.                 *)
LEMMA ByteShift ==
  ASSUME NEW b \in Byte, NEW s \in Byte
  PROVE  (((b + s) % 256) + 256 - s) % 256 = b
<1>1. CASE b + s < 256
  <2>1. (b + s) % 256 = b + s
    BY <1>1 DEF Byte
  <2>2. (b + 256) % 256 = b
    BY DEF Byte
  <2> QED
    BY <2>1, <2>2 DEF Byte
<1>2. CASE b + s >= 256
  <2>1. (b + s) % 256 = b + s - 256
    BY <1>2 DEF Byte
  <2>2. b % 256 = b
    BY DEF Byte
  <2> QED
    BY <2>1, <2>2 DEF Byte
<1> QED
  BY <1>1, <1>2 DEF Byte

(* A part of a sequence, which may be empty. *)
LEMMA PartOf ==
  ASSUME NEW S, NEW s \in Seq(S), NEW i \in 1 .. Len(s) + 1, NEW j \in i - 1 .. Len(s)
  PROVE  /\ SubSeq(s, i, j) \in Seq(S)
         /\ Len(SubSeq(s, i, j)) = j - i + 1
         /\ \A k \in 1 .. j - i + 1 : SubSeq(s, i, j)[k] = s[i + k - 1]
<1>1. Len(s) \in Nat /\ i \in Int /\ j \in Int /\ i .. j \subseteq 1 .. Len(s)
  BY LenProperties
<1>2. \A k \in i .. j : s[k] \in S
  BY <1>1, ElementOfSeq
<1>3. /\ SubSeq(s, i, j) \in Seq(S)
      /\ Len(SubSeq(s, i, j)) = IF i <= j THEN j - i + 1 ELSE 0
      /\ \A k \in 1 .. j - i + 1 : SubSeq(s, i, j)[k] = s[i + k - 1]
  BY <1>1, <1>2, SubSeqProperties
<1> QED
  BY <1>1, <1>3

(* The parts of three sequences joined.                                    *)
LEMMA JoinedParts ==
  ASSUME NEW S, NEW a \in Seq(S), NEW b \in Seq(S), NEW c \in Seq(S),
         NEW s, s = a \o b \o c
  PROVE  /\ s \in Seq(S) /\ Len(s) = Len(a) + Len(b) + Len(c)
         /\ SubSeq(s, Len(a) + 1, Len(a) + Len(b)) = b
         /\ SubSeq(s, Len(a) + Len(b) + 1, Len(s)) = c
<1> DEFINE n == Len(a)
           m == Len(b)
           p == SubSeq(s, n + 1, n + m)
           q == SubSeq(s, n + m + 1, Len(s))
<1>1. n \in Nat /\ m \in Nat /\ Len(c) \in Nat
  BY LenProperties
<1>2. /\ a \o b \in Seq(S) /\ Len(a \o b) = n + m
      /\ \A i \in 1 .. n + m : (a \o b)[i] = IF i <= n THEN a[i] ELSE b[i - n]
  BY ConcatProperties
<1>3. /\ s \in Seq(S) /\ Len(s) = n + m + Len(c)
      /\ \A i \in 1 .. n + m + Len(c) : s[i] = IF i <= n + m THEN (a \o b)[i] ELSE c[i - (n + m)]
  BY <1>2, ConcatProperties
<1>4. \A i \in 1 .. m : n + 1 + i - 1 \in 1 .. n + m /\ s[n + 1 + i - 1] = b[i]
  <2> TAKE i \in 1 .. m
  <2>1. n + 1 + i - 1 = n + i /\ n + i \in 1 .. n + m /\ ~(n + i <= n) /\ n + i - n = i
    BY <1>1
  <2>2. (a \o b)[n + i] = b[i]
    BY <1>2, <2>1
  <2>3. n + i \in 1 .. n + m + Len(c) /\ n + i <= n + m
    BY <1>1
  <2> HIDE DEF n, m
  <2>4. s[n + i] = (a \o b)[n + i]
    BY <1>3, <2>3
  <2> QED
    BY <2>1, <2>2, <2>3, <2>4, <1>1, <1>3
<1>5. \A i \in 1 .. Len(c) : n + m + 1 + i - 1 \in 1 .. Len(s) /\ s[n + m + 1 + i - 1] = c[i]
  <2> TAKE i \in 1 .. Len(c)
  <2>1. /\ n + m + 1 + i - 1 = n + m + i /\ n + m + i \in 1 .. n + m + Len(c)
        /\ ~(n + m + i <= n + m) /\ n + m + i - (n + m) = i
    BY <1>1
  <2> QED
    BY <1>1, <1>3, <2>1
<1> HIDE DEF n, m
<1>6. /\ n + 1 \in 1 .. Len(s) + 1 /\ n + m \in n + 1 - 1 .. Len(s) /\ n + m - (n + 1) + 1 = m
      /\ n + m + 1 \in 1 .. Len(s) + 1 /\ Len(s) \in n + m + 1 - 1 .. Len(s)
      /\ Len(s) - (n + m + 1) + 1 = Len(c)
  BY <1>1, <1>3
<1>7. p \in Seq(S) /\ Len(p) = m /\ \A i \in 1 .. m : p[i] = s[n + 1 + i - 1]
  <2> DEFINE i == n + 1
             j == n + m
  <2>1. i \in 1 .. Len(s) + 1 /\ j \in i - 1 .. Len(s) /\ j - i + 1 = m
    BY <1>1, <1>6
  <2> HIDE DEF i, j
  <2>2. /\ SubSeq(s, i, j) \in Seq(S) /\ Len(SubSeq(s, i, j)) = j - i + 1
        /\ \A k \in 1 .. j - i + 1 : SubSeq(s, i, j)[k] = s[i + k - 1]
    BY ONLY <1>3, <2>1, PartOf
  <2> QED
    BY <2>1, <2>2 DEF i, j
<1>8. q \in Seq(S) /\ Len(q) = Len(c) /\ \A i \in 1 .. Len(c) : q[i] = s[n + m + 1 + i - 1]
  <2> DEFINE i == n + m + 1
             j == Len(s)
  <2>1. i \in 1 .. Len(s) + 1 /\ j \in i - 1 .. Len(s) /\ j - i + 1 = Len(c)
    BY <1>1, <1>3, <1>6
  <2> HIDE DEF i, j
  <2>2. /\ SubSeq(s, i, j) \in Seq(S) /\ Len(SubSeq(s, i, j)) = j - i + 1
        /\ \A k \in 1 .. j - i + 1 : SubSeq(s, i, j)[k] = s[i + k - 1]
    BY ONLY <1>3, <2>1, PartOf
  <2> QED
    BY <2>1, <2>2 DEF i, j
<1> HIDE DEF p, q
<1>9. p = b
  BY <1>4, <1>7, SeqEqual DEF m
<1>10. q = c
  BY <1>5, <1>8, SeqEqual
<1> QED
  BY <1>3, <1>9, <1>10 DEF n, m, p, q

-----------------------------------------------------------------------------
(* The envelope. *)

Ciphertext(bytes, key) == [i \in DOMAIN bytes |-> (bytes[i] + Stream(key, i)) % 256]

(* The key stream is made of bytes.                                        *)
LEMMA StreamByte ==
  ASSUME NEW key \in Byte, NEW i \in Nat
  PROVE  Stream(key, i) \in Byte
  BY DEF Stream, Byte

(* The ciphertext is as long as the text.                                  *)
LEMMA CiphertextBytes ==
  ASSUME NEW t \in Seq(Byte), NEW key \in Byte
  PROVE  Ciphertext(t, key) \in Seq(Byte) /\ Len(Ciphertext(t, key)) = Len(t)
<1>1. Len(t) \in Nat /\ DOMAIN t = 1 .. Len(t)
  BY LenProperties
<1>2. ASSUME NEW i \in 1 .. Len(t) PROVE (t[i] + Stream(key, i)) % 256 \in Byte
  <2>1. t[i] \in Byte /\ Stream(key, i) \in Byte
    BY <1>1, StreamByte, ElementOfSeq
  <2>2. t[i] + Stream(key, i) \in Nat
    BY <2>1, ByteNumber
  <2> QED
    BY <2>2, ByteRemainder
<1>3. Ciphertext(t, key) \in [1 .. Len(t) -> Byte]
  BY <1>1, <1>2 DEF Ciphertext
<1> QED
  BY <1>1, <1>3, ListOf

(* The tag has its fixed length.                                           *)
LEMMA TagBytes ==
  ASSUME NEW t \in Seq(Byte), NEW key \in Byte
  PROVE  Tag(key, t) \in Seq(Byte) /\ Len(Tag(key, t)) = TagLength
<1> DEFINE part(i) == IF i \in DOMAIN t THEN t[i] ELSE 0
<1>1. Len(t) \in Nat /\ DOMAIN t = 1 .. Len(t)
  BY LenProperties
<1>2. ASSUME NEW i \in 1 .. TagLength PROVE (key + Len(t) + i + part(i)) % 256 \in Byte
  <2>1. \A j \in DOMAIN t : t[j] \in Byte
    BY <1>1, ElementOfSeq
  <2>2. part(i) \in Nat
    <3>1. CASE i \in DOMAIN t
      BY <2>1, <3>1, ByteNumber
    <3>2. CASE i \notin DOMAIN t
      BY <3>2
    <3> QED
      BY <3>1, <3>2
  <2> HIDE DEF part
  <2>3. key + Len(t) + i + part(i) \in Nat
    BY <1>1, <2>2, ByteNumber
  <2> QED
    BY <2>3, ByteRemainder
<1>3. Tag(key, t) \in [1 .. TagLength -> Byte]
  BY <1>2 DEF Tag
<1>4. TagLength \in Nat
  BY DEF TagLength
<1> QED
  BY ONLY <1>3, <1>4, ListOf

(* So has the IV.                                                          *)
LEMMA IvBytes == Iv \in Seq(Byte) /\ Len(Iv) = IvLength
<1>1. Iv \in [1 .. IvLength -> Byte]
  BY DEF Iv, IvLength, Byte
<1>2. IvLength \in Nat
  BY DEF IvLength
<1> QED
  BY ONLY <1>1, <1>2, ListOf

(* An envelope is 28 bytes longer than the text.                           *)
LEMMA EncryptBytes ==
  ASSUME NEW t \in Seq(Byte), NEW key \in Byte
  PROVE  /\ Encrypt(t, key) \in Seq(Byte)
         /\ Len(Encrypt(t, key)) = IvLength + Len(t) + TagLength
<1>1. PICK c \in Seq(Byte) : c = Ciphertext(t, key) /\ Len(c) = Len(t)
  BY CiphertextBytes
<1>2. PICK d \in Seq(Byte) : d = Tag(key, c) /\ Len(d) = TagLength
  BY TagBytes
<1>3. PICK iv \in Seq(Byte) : iv = Iv /\ Len(iv) = IvLength
  BY IvBytes
<1>4. PICK e : e = iv \o c \o d
  OBVIOUS
<1>5. e \in Seq(Byte) /\ Len(e) = Len(iv) + Len(c) + Len(d)
  BY <1>4, JoinedParts
<1>6. Encrypt(t, key) = e
  BY <1>1, <1>2, <1>3, <1>4 DEF Encrypt, Ciphertext
<1> QED
  BY <1>1, <1>2, <1>3, <1>5, <1>6

(* With the key it was encrypted with, every text is decrypted from its    *)
(* envelope, the empty one included.                                       *)
LEMMA DecryptEncrypt ==
  ASSUME NEW t \in Seq(Byte), NEW key \in Byte
  PROVE  Decrypt(Encrypt(t, key), key) = t
<1>0. PICK c \in Seq(Byte) : c = Ciphertext(t, key) /\ Len(c) = Len(t)
  BY CiphertextBytes
<1>1. PICK d \in Seq(Byte) : d = Tag(key, c) /\ Len(d) = TagLength
  BY TagBytes
<1>2. PICK iv \in Seq(Byte) : iv = Iv /\ Len(iv) = IvLength
  BY IvBytes
<1> DEFINE e == Encrypt(t, key)
           plain == [i \in DOMAIN c |-> (c[i] + 256 - Stream(key, i)) % 256]
<1>3. DOMAIN c = 1 .. Len(t) /\ DOMAIN t = 1 .. Len(t) /\ Len(t) \in Nat
  BY <1>0, LenProperties
<1>4. \A i \in 1 .. Len(t) : c[i] = (t[i] + Stream(key, i)) % 256
  BY <1>0, <1>3 DEF Ciphertext
<1>10. e = iv \o c \o d
  BY <1>0, <1>1, <1>2 DEF Encrypt, Ciphertext
<1> HIDE DEF e
<1>5. /\ Len(e) = IvLength + Len(t) + TagLength
      /\ SubSeq(e, IvLength + 1, IvLength + Len(t)) = c
      /\ SubSeq(e, IvLength + Len(t) + 1, Len(e)) = Tag(key, c)
  <2>1. /\ Len(e) = Len(iv) + Len(c) + Len(d)
        /\ SubSeq(e, Len(iv) + 1, Len(iv) + Len(c)) = c
        /\ SubSeq(e, Len(iv) + Len(c) + 1, Len(e)) = d
    BY <1>10, JoinedParts
  <2> QED
    BY <1>0, <1>1, <1>2, <2>1
<1>6. ~TooShort(e) /\ Len(e) - TagLength = IvLength + Len(t)
  BY <1>3, <1>5 DEF TooShort, IvLength, TagLength
<1>7. Decrypt(e, key) = plain
  BY <1>5, <1>6 DEF Decrypt
<1>8. \A i \in 1 .. Len(t) : plain[i] = t[i]
  <2> TAKE i \in 1 .. Len(t)
  <2>1. t[i] \in Byte /\ Stream(key, i) \in Byte
    BY StreamByte, ElementOfSeq
  <2> QED
    BY <1>3, <1>4, <2>1, ByteShift
<1>9. plain = t
  <2>1. plain \in [1 .. Len(t) -> Byte]
    BY <1>3, <1>8, ElementOfSeq
  <2>2. plain \in Seq(Byte) /\ Len(plain) = Len(t)
    <3>1. Len(t) \in Nat
      BY <1>3
    <3> QED
      BY ONLY <2>1, <3>1, ListOf
  <2> QED
    BY ONLY <1>8, <2>2, t \in Seq(Byte), SeqEqual
<1> QED
  BY <1>7, <1>9 DEF e

-----------------------------------------------------------------------------
(* Base64.  Three bytes a, b, c are four values of six bits each, and a    *)
(* byte that is missing counts as zero both ways.                          *)

ByteAt(data, i) == IF i <= Len(data) THEN data[i] ELSE 0
Four(a, b, c) ==
  <<a \div 4, (a % 4) * 16 + (b \div 16), (b % 16) * 4 + (c \div 64), c % 64>>
Three(a, b, c, d) ==
  <<a * 4 + (b \div 16), (b % 16) * 16 + (c \div 4), (c % 4) * 64 + d>>
Groups(t) == (Len(t) + 2) \div 3
Value(char) == IF char = Pad THEN 0 ELSE char - 128

(* Which group of four characters a place is in, and where there.          *)
LEMMA ByFour ==
  ASSUME NEW g \in Nat, NEW q \in 1 .. 4
  PROVE  (4 * g + q - 1) \div 4 = g /\ (4 * g + q - 1) % 4 = q - 1
  OBVIOUS

(* The same for groups of three bytes.                                     *)
LEMMA ByThree ==
  ASSUME NEW g \in Nat, NEW q \in 1 .. 3
  PROVE  (3 * g + q - 1) \div 3 = g /\ (3 * g + q - 1) % 3 = q - 1
  OBVIOUS

(* The groups hold all bytes, with two to spare at most.                   *)
LEMMA Thirds ==
  ASSUME NEW t \in Seq(Byte)
  PROVE  /\ Groups(t) \in Nat /\ Len(t) \in Nat
         /\ 3 * Groups(t) >= Len(t) /\ 3 * Groups(t) <= Len(t) + 2
<1>1. Len(t) \in Nat
  BY LenProperties
<1> QED
  BY <1>1 DEF Groups

(* Four values of six bits each give the three bytes back.                 *)
LEMMA SixBits ==
  ASSUME NEW a \in Byte, NEW b \in Byte, NEW c \in Byte
  PROVE  /\ \A k \in 1 .. 4 : Four(a, b, c)[k] \in 0 .. 63
         /\ Three(Four(a, b, c)[1], Four(a, b, c)[2], Four(a, b, c)[3], Four(a, b, c)[4])
              = <<a, b, c>>
<1> DEFINE f == Four(a, b, c)
<1>1. /\ f[1] = a \div 4 /\ f[2] = (a % 4) * 16 + (b \div 16)
      /\ f[3] = (b % 16) * 4 + (c \div 64) /\ f[4] = c % 64
  BY DEF Four
<1>2. a \in 0 .. 255 /\ b \in 0 .. 255 /\ c \in 0 .. 255
  BY DEF Byte
<1>3. /\ a \div 4 \in 0 .. 63 /\ a % 4 \in 0 .. 3 /\ a = 4 * (a \div 4) + (a % 4)
      /\ b \div 16 \in 0 .. 15 /\ b % 16 \in 0 .. 15 /\ b = 16 * (b \div 16) + (b % 16)
      /\ c \div 64 \in 0 .. 3 /\ c % 64 \in 0 .. 63 /\ c = 64 * (c \div 64) + (c % 64)
  BY <1>2
<1> HIDE DEF f
<1>4. f[1] \in 0 .. 63 /\ f[2] \in 0 .. 63 /\ f[3] \in 0 .. 63 /\ f[4] \in 0 .. 63
  BY <1>1, <1>3
<1>5. f[2] \div 16 = a % 4 /\ f[2] % 16 = b \div 16
  BY <1>1, <1>3
<1>6. f[3] \div 4 = b % 16 /\ f[3] % 4 = c \div 64
  BY <1>1, <1>3
<1>7. /\ f[1] * 4 + (f[2] \div 16) = a /\ (f[2] % 16) * 16 + (f[3] \div 4) = b
      /\ (f[3] % 4) * 64 + f[4] = c
  BY <1>1, <1>2, <1>3, <1>5, <1>6
<1>8. Three(f[1], f[2], f[3], f[4]) = <<a, b, c>>
  BY <1>7 DEF Three
<1> QED
  BY <1>4, <1>8 DEF f

(* The four characters for the bytes after 3 * g.                          *)
SixBitValues(t, g) ==
  Four(ByteAt(t, 3 * g + 1), ByteAt(t, 3 * g + 2), ByteAt(t, 3 * g + 3))
EncodedChar(t, g, q) ==
  IF 3 * g + q - 1 > Len(t) THEN Pad ELSE 128 + SixBitValues(t, g)[q]

(* The characters of the n groups of t.                                    *)
CharsOf(e, t, n) ==
  \A g \in 0 .. n - 1 : \A q \in 1 .. 4 :
    4 * g + q \in 1 .. 4 * n /\ e[4 * g + q] = EncodedChar(t, g, q)

(* What EncodeBlock writes: groups of four characters for three bytes.     *)
LEMMA Encoded ==
  ASSUME NEW t \in Seq(Byte), NEW n, n = Groups(t), NEW e, e = EncodeBlock(t)
  PROVE  /\ n \in Nat
         /\ DOMAIN e = 1 .. 4 * n /\ e = [j \in 1 .. 4 * n |-> e[j]]
         /\ CharsOf(e, t, n)
<1>1. n \in Nat
  BY Thirds
<1>2. e = [j \in 1 .. 4 * n |-> EncodedChar(t, (j - 1) \div 4, ((j - 1) % 4) + 1)]
  BY Zenon DEF EncodeBlock, EncodedChar, SixBitValues, Four, ByteAt, Groups
<1>3. DOMAIN e = 1 .. 4 * n /\ e = [j \in 1 .. 4 * n |-> e[j]]
  BY <1>2
<1>4. ASSUME NEW g \in 0 .. n - 1, NEW q \in 1 .. 4
      PROVE  4 * g + q \in 1 .. 4 * n /\ e[4 * g + q] = EncodedChar(t, g, q)
  <2>1. 4 * g + q \in 1 .. 4 * n
    BY <1>1
  <2>2. g \in Nat
    BY <1>1
  <2>3. (4 * g + q - 1) \div 4 = g /\ ((4 * g + q - 1) % 4) + 1 = q
    BY <2>2, ByFour
  <2>4. e[4 * g + q] = EncodedChar(t, (4 * g + q - 1) \div 4, ((4 * g + q - 1) % 4) + 1)
    BY <1>2, <2>1
  <2> QED
    BY <2>1, <2>3, <2>4
<1>5. CharsOf(e, t, n)
  BY ONLY <1>4 DEF CharsOf
<1> QED
  BY <1>1, <1>3, <1>5

(* What a group is made of, zeros at the end included, are bytes.          *)
LEMMA BytesAt ==
  ASSUME NEW t \in Seq(Byte), NEW g \in Nat
  PROVE  /\ ByteAt(t, 3 * g + 1) \in Byte /\ ByteAt(t, 3 * g + 2) \in Byte
         /\ ByteAt(t, 3 * g + 3) \in Byte
<1>1. \A i \in 1 .. Len(t) : t[i] \in Byte
  BY ElementOfSeq
<1>2. 0 \in Byte
  BY DEF Byte
<1> QED
  BY <1>1, <1>2, LenProperties DEF ByteAt

SixBitChars == {Pad} \cup 128 .. 191

(* The encoded text is four characters for each group.                     *)
LEMMA EncodedLength ==
  ASSUME NEW t \in Seq(Byte), NEW n, n = Groups(t), NEW e, e = EncodeBlock(t)
  PROVE  e \in Seq(SixBitChars) /\ Len(e) = 4 * n
<1>1. n \in Nat /\ DOMAIN e = 1 .. 4 * n
  BY Encoded
<1>2. ASSUME NEW j \in 1 .. 4 * n PROVE e[j] \in SixBitChars
  <2>1. PICK g \in 0 .. n - 1, q \in 1 .. 4 : j = 4 * g + q
    <3>1. (j - 1) \div 4 \in 0 .. n - 1 /\ ((j - 1) % 4) + 1 \in 1 .. 4
          /\ j = 4 * ((j - 1) \div 4) + ((j - 1) % 4) + 1
      BY <1>1
    <3> QED
      BY <3>1
  <2>2. e[j] = EncodedChar(t, g, q)
    <3>1. CharsOf(e, t, n)
      BY Encoded
    <3> QED
      BY ONLY <2>1, <3>1 DEF CharsOf
  <2>3. g \in Nat
    BY <1>1
  <2>4. SixBitValues(t, g)[q] \in 0 .. 63
    BY <2>3, BytesAt, SixBits DEF SixBitValues
  <2>5. \A v \in 0 .. 63 : 128 + v \in SixBitChars
    BY DEF SixBitChars
  <2>6. CASE 3 * g + q - 1 > Len(t)
    BY <2>2, <2>6 DEF EncodedChar, SixBitChars
  <2>7. CASE ~(3 * g + q - 1 > Len(t))
    <3>1. e[j] = 128 + SixBitValues(t, g)[q]
      BY <2>2, <2>7 DEF EncodedChar
    <3> QED
      BY <2>4, <2>5, <3>1
  <2> QED
    BY <2>6, <2>7
<1>3. e = [j \in 1 .. 4 * n |-> e[j]]
  BY Encoded
<1>4. e \in [1 .. 4 * n -> SixBitChars]
  BY <1>1, <1>2, <1>3
<1>5. PICK k \in Nat : k = 4 * n
  BY <1>1
<1>6. e \in Seq(SixBitChars) /\ Len(e) = k
  BY ONLY <1>4, <1>5, ListOf
<1> QED
  BY ONLY <1>5, <1>6

(* Decoding gives the bytes back, and zeros for what was filled up.        *)
LEMMA Decoded ==
  ASSUME NEW t \in Seq(Byte), NEW n, n = Groups(t)
  PROVE  DecodeBlock(EncodeBlock(t)) = [i \in 1 .. 3 * n |-> ByteAt(t, i)]
<1>0. PICK e : e = EncodeBlock(t)
  OBVIOUS
<1> DEFINE three(g) == Three(Value(e[4 * g + 1]), Value(e[4 * g + 2]), Value(e[4 * g + 3]),
                             Value(e[4 * g + 4]))
<1>1. n \in Nat /\ 3 * n >= Len(t) /\ 3 * n <= Len(t) + 2 /\ Len(t) \in Nat
  BY Thirds
<1>2. Len(e) = 4 * n /\ (Len(e) \div 4) * 3 = 3 * n
  BY <1>0, <1>1, EncodedLength
<1>3. DecodeBlock(e) = [i \in 1 .. (Len(e) \div 4) * 3 |-> three((i - 1) \div 3)[((i - 1) % 3) + 1]]
  BY Zenon DEF DecodeBlock, Three, Value
<1>4. ASSUME NEW g \in 0 .. n - 1
      PROVE  three(g) = <<ByteAt(t, 3 * g + 1), ByteAt(t, 3 * g + 2), ByteAt(t, 3 * g + 3)>>
  <2> DEFINE a == ByteAt(t, 3 * g + 1)
             b == ByteAt(t, 3 * g + 2)
             c == ByteAt(t, 3 * g + 3)
             f == Four(a, b, c)
  <2>1. a \in Byte /\ b \in Byte /\ c \in Byte
    BY <1>1, BytesAt
  <2>2. \A q \in 1 .. 4 : e[4 * g + q] = IF 3 * g + q - 1 > Len(t) THEN Pad ELSE 128 + f[q]
    <3>1. \A q \in 1 .. 4 : e[4 * g + q] = EncodedChar(t, g, q)
      <4>1. CharsOf(e, t, n)
        BY <1>0, Encoded
      <4> QED
        BY ONLY <4>1, g \in 0 .. n - 1 DEF CharsOf
    <3> QED
      BY <3>1 DEF EncodedChar, SixBitValues
  <2>3. \A k \in 1 .. 4 : f[k] \in 0 .. 63
    BY <2>1, SixBits
  <2>4. 3 * g + 2 > Len(t) => f[3] = 0
    <3>1. ASSUME 3 * g + 2 > Len(t) PROVE b = 0 /\ c = 0
      BY <1>1, <3>1 DEF ByteAt
    <3>2. ASSUME b = 0, c = 0 PROVE f[3] = 0
      BY <3>2 DEF Four
    <3> QED
      BY <3>1, <3>2
  <2>5. 3 * g + 3 > Len(t) => f[4] = 0
    <3>1. ASSUME 3 * g + 3 > Len(t) PROVE c = 0
      BY <1>1, <3>1 DEF ByteAt
    <3>2. ASSUME c = 0 PROVE f[4] = 0
      BY <3>2 DEF Four
    <3> QED
      BY <3>1, <3>2
  <2> HIDE DEF a, b, c, f
  <2>6. ASSUME NEW q \in 1 .. 4 PROVE Value(e[4 * g + q]) = f[q]
    <3>1. CASE 3 * g + q - 1 > Len(t)
      <4>1. q = 3 \/ q = 4
        BY <1>1, <3>1
      <4>2. f[q] = 0
        BY <1>1, <2>4, <2>5, <3>1, <4>1
      <4>3. e[4 * g + q] = Pad
        BY <2>2, <3>1
      <4> QED
        BY <4>2, <4>3 DEF Value
    <3>2. CASE ~(3 * g + q - 1 > Len(t))
      <4>1. e[4 * g + q] = 128 + f[q] /\ f[q] \in 0 .. 63
        BY <2>2, <2>3, <3>2
      <4>2. \A v \in 0 .. 63 : Value(128 + v) = v
        BY DEF Value, Pad
      <4> QED
        BY <4>1, <4>2
    <3> QED
      BY <3>1, <3>2
  <2>7. /\ Value(e[4 * g + 1]) = f[1] /\ Value(e[4 * g + 2]) = f[2]
        /\ Value(e[4 * g + 3]) = f[3] /\ Value(e[4 * g + 4]) = f[4]
    BY <2>6
  <2>8. three(g) = Three(f[1], f[2], f[3], f[4])
    BY <2>7
  <2>9. Three(f[1], f[2], f[3], f[4]) = <<a, b, c>>
    BY <2>1, SixBits DEF f
  <2> QED
    BY <2>8, <2>9 DEF a, b, c
<1> HIDE DEF three
<1>5. ASSUME NEW i \in 1 .. 3 * n
      PROVE  three((i - 1) \div 3)[((i - 1) % 3) + 1] = ByteAt(t, i)
  <2> DEFINE g == (i - 1) \div 3
             r == ((i - 1) % 3) + 1
  <2>1. g \in 0 .. n - 1 /\ r \in 1 .. 3 /\ i = 3 * g + r
    BY <1>1
  <2> HIDE DEF g, r
  <2>2. three(g) = <<ByteAt(t, 3 * g + 1), ByteAt(t, 3 * g + 2), ByteAt(t, 3 * g + 3)>>
    BY <1>4, <2>1
  <2>3. three(g)[r] = ByteAt(t, 3 * g + r)
    <3>1. CASE r = 1
      BY <2>2, <3>1
    <3>2. CASE r = 2
      BY <2>2, <3>2
    <3>3. CASE r = 3
      BY <2>2, <3>3
    <3> QED
      BY <2>1, <3>1, <3>2, <3>3
  <2> QED
    BY <2>1, <2>3 DEF g, r
<1>6. DecodeBlock(e) = [i \in 1 .. 3 * n |-> three((i - 1) \div 3)[((i - 1) % 3) + 1]]
  BY <1>2, <1>3
<1>7. DecodeBlock(e) = [i \in 1 .. 3 * n |-> ByteAt(t, i)]
  BY <1>5, <1>6
<1> QED
  BY <1>0, <1>7

(* The '=' at the end of what was encoded are as many as bytes were filled *)
(* up, so that decoding returns what was encoded.                          *)
LEMMA EncodedPadding ==
  ASSUME NEW t \in Seq(Byte), t # <<>>
  PROVE  3 * Groups(t) - Padding(EncodeBlock(t)) = Len(t)
<1> DEFINE n == Groups(t)
           k == 4 * n
<1>0. PICK e : e = EncodeBlock(t)
  OBVIOUS
<1>1. n \in Nat /\ 3 * n >= Len(t) /\ 3 * n <= Len(t) + 2 /\ Len(t) \in Nat /\ n > 0
  <2>1. Len(t) \in Nat \ {0}
    BY EmptySeq
  <2> QED
    BY <2>1, Thirds
<1> HIDE DEF n
<1>2. Len(e) = k
  BY <1>0, EncodedLength DEF n
<1>3. ASSUME NEW q \in 1 .. 4
      PROVE  e[4 * (n - 1) + q] = Pad <=> 3 * (n - 1) + q - 1 > Len(t)
  <2>1. PICK g \in 0 .. n - 1 : g = n - 1 /\ g \in Nat
    BY <1>1
  <2>2. e[4 * g + q] = EncodedChar(t, g, q)
    <3>1. CharsOf(e, t, n)
      BY <1>0, Encoded DEF n
    <3> QED
      BY ONLY <2>1, <3>1 DEF CharsOf
  <2>3. SixBitValues(t, g)[q] \in 0 .. 63
    BY <2>1, BytesAt, SixBits DEF SixBitValues
  <2>4. \A v \in 0 .. 63 : 128 + v # Pad
    BY DEF Pad
  <2> QED
    BY <2>1, <2>2, <2>3, <2>4 DEF EncodedChar
<1>4. e[k] = Pad <=> 3 * n > Len(t)
  <2>1. 4 * (n - 1) + 4 = k /\ 3 * (n - 1) + 4 - 1 = 3 * n
    BY <1>1
  <2> QED
    BY <1>3, <2>1
<1>5. e[k - 1] = Pad <=> 3 * n - 1 > Len(t)
  <2>1. 4 * (n - 1) + 3 = k - 1 /\ 3 * (n - 1) + 3 - 1 = 3 * n - 1
    BY <1>1
  <2> QED
    BY <1>3, <2>1
<1>6. Padding(e) = IF e[k] # Pad THEN 0 ELSE IF e[k - 1] # Pad THEN 1 ELSE 2
  BY <1>2 DEF Padding, Last
<1> QED
  BY <1>0, <1>1, <1>4, <1>5, <1>6 DEF n

(* base64Decode undoes base64Encode, for every number of bytes.            *)
LEMMA Base64Undone ==
  ASSUME NEW t \in Seq(Byte)
  PROVE  Base64Decode(Base64Encode(t)) = t
<1>1. CASE t = <<>>
  BY <1>1 DEF Base64Encode, Base64Decode
<1>2. CASE t # <<>>
  <2>1. PICK e \in Seq(SixBitChars) : e = EncodeBlock(t) /\ Len(e) = 4 * Groups(t)
    BY EncodedLength
  <2>2. PICK n \in Nat : n = Groups(t) /\ 3 * n >= Len(t) /\ n > 0 /\ Len(t) \in Nat
    <3>1. Len(t) \in Nat \ {0}
      BY <1>2, EmptySeq
    <3> QED
      BY <3>1, Thirds
  <2>3. e # <<>>
    BY <2>1, <2>2, EmptySeq
  <2>4. PICK d : d = [i \in 1 .. 3 * n |-> ByteAt(t, i)]
    OBVIOUS
  <2>5. d = DecodeBlock(e)
    BY <2>1, <2>2, <2>4, Decoded
  <2>6. \A i \in 1 .. 3 * n : ByteAt(t, i) \in Byte
    <3>1. \A i \in 1 .. Len(t) : t[i] \in Byte
      BY ElementOfSeq
    <3>2. 0 \in Byte
      BY DEF Byte
    <3> QED
      BY <2>2, <3>1, <3>2 DEF ByteAt
  <2>7. d \in Seq(Byte) /\ Len(d) = 3 * n
    <3>1. d \in [1 .. 3 * n -> Byte]
      BY <2>4, <2>6
    <3>2. 3 * n \in Nat
      BY <2>2
    <3> QED
      BY <3>1, <3>2, ListOf
  <2>8. Len(d) - Padding(e) = Len(t)
    BY <1>2, <2>1, <2>2, <2>7, EncodedPadding
  <2>9. Base64Decode(Base64Encode(t)) = SubSeq(d, 1, Len(t))
    BY <1>2, <2>1, <2>3, <2>5, <2>8 DEF Base64Encode, Base64Decode
  <2>10. PICK p : p = SubSeq(d, 1, Len(t))
    OBVIOUS
  <2>11. p \in Seq(Byte) /\ Len(p) = Len(t) /\ \A i \in 1 .. Len(t) : p[i] = d[i]
    <3>1. 1 \in 1 .. Len(d) + 1 /\ Len(t) \in 1 - 1 .. Len(d)
      BY <2>2, <2>7
    <3>2. /\ p \in Seq(Byte) /\ Len(p) = Len(t) - 1 + 1
          /\ \A i \in 1 .. Len(t) - 1 + 1 : p[i] = d[1 + i - 1]
      BY <2>7, <2>10, <3>1, PartOf
    <3> QED
      BY <2>2, <3>2
  <2>12. \A i \in 1 .. Len(t) : d[i] = t[i]
    BY <2>2, <2>4 DEF ByteAt
  <2>13. p = t
    BY <2>11, <2>12, SeqEqual
  <2> QED
    BY <2>9, <2>10, <2>13
<1> QED
  BY <1>1, <1>2

-----------------------------------------------------------------------------
(* The line.  A string without a delimiter, joined to another with one, is *)
(* a new last part and leaves the parts before it as they were.            *)

Free(s) == s \in Seq(Nat) /\ Bars(s) = {}
BarsUpTo(s, j) == {b \in Bars(s) : b <= j}

(* Each delimiter has a number, and the numbered places are delimiters.    *)
Placed(s) ==
  /\ s \in Seq(Nat) /\ IsFiniteSet(Bars(s)) /\ Cardinality(Bars(s)) \in Nat
  /\ \A n \in 1 .. Cardinality(Bars(s)) : NthBar(s, n) \in 1 .. Len(s)

(* The delimiters of two strings joined with one.                          *)
LEMMA JoinedBars ==
  ASSUME NEW a \in Seq(Nat), NEW b \in Seq(Nat), NEW s, s = a \o <<Bar>> \o b
  PROVE  /\ s \in Seq(Nat) /\ Len(s) = Len(a) + 1 + Len(b)
         /\ \A i \in 1 .. Len(a) : s[i] = a[i]
         /\ \A i \in 1 .. Len(b) : s[Len(a) + 1 + i] = b[i]
         /\ s[Len(a) + 1] = Bar
         /\ Bars(s) = Bars(a) \cup {Len(a) + 1} \cup {Len(a) + 1 + i : i \in Bars(b)}
<1>1. Len(a) \in Nat /\ Len(b) \in Nat /\ DOMAIN a = 1 .. Len(a) /\ DOMAIN b = 1 .. Len(b)
  BY LenProperties
<1>2. PICK d \in Seq(Nat) : d = <<Bar>> /\ Len(d) = 1 /\ d[1] = Bar
  <2>1. \A x \in Nat : <<x>> \in Seq(Nat) /\ Len(<<x>>) = 1 /\ <<x>>[1] = x
    OBVIOUS
  <2>2. Bar \in Nat
    BY DEF Bar
  <2> QED
    BY <2>1, <2>2
<1>3. PICK c \in Seq(Nat) :
        /\ c = a \o d /\ Len(c) = Len(a) + 1
        /\ \A i \in 1 .. Len(a) + 1 : c[i] = IF i <= Len(a) THEN a[i] ELSE Bar
  <2>1. PICK c : c = a \o d
    OBVIOUS
  <2>2. /\ c \in Seq(Nat) /\ Len(c) = Len(a) + Len(d)
        /\ \A i \in 1 .. Len(a) + Len(d) : c[i] = IF i <= Len(a) THEN a[i] ELSE d[i - Len(a)]
    BY <2>1, ConcatProperties
  <2>3. Len(c) = Len(a) + 1
    BY <1>2, <2>2
  <2>4. ASSUME NEW i \in 1 .. Len(a) + 1
        PROVE  c[i] = IF i <= Len(a) THEN a[i] ELSE Bar
    <3>1. CASE i <= Len(a)
      BY <1>2, <2>2, <3>1
    <3>2. CASE ~(i <= Len(a))
      <4>1. i - Len(a) = 1 /\ i \in 1 .. Len(a) + Len(d)
        BY <1>1, <1>2, <3>2
      <4>2. c[i] = d[i - Len(a)]
        BY <2>2, <3>2, <4>1
      <4> QED
        BY <1>2, <3>2, <4>1, <4>2
    <3> QED
      BY <3>1, <3>2
  <2> QED
    BY <2>1, <2>2, <2>3, <2>4
<1>4. /\ s \in Seq(Nat) /\ Len(s) = Len(a) + 1 + Len(b)
      /\ \A i \in 1 .. Len(a) + 1 + Len(b) :
           s[i] = IF i <= Len(a) + 1 THEN c[i] ELSE b[i - (Len(a) + 1)]
  <2>1. s = c \o b
    BY <1>2, <1>3
  <2>2. /\ s \in Seq(Nat) /\ Len(s) = Len(c) + Len(b)
        /\ \A i \in 1 .. Len(c) + Len(b) : s[i] = IF i <= Len(c) THEN c[i] ELSE b[i - Len(c)]
    BY ONLY <2>1, c \in Seq(Nat), b \in Seq(Nat), ConcatProperties
  <2> QED
    BY <1>3, <2>2
<1>5. \A i \in 1 .. Len(a) : s[i] = a[i]
  BY <1>1, <1>3, <1>4
<1>6. \A i \in 1 .. Len(b) : s[Len(a) + 1 + i] = b[i]
  <2> TAKE i \in 1 .. Len(b)
  <2>1. /\ Len(a) + 1 + i \in 1 .. Len(a) + 1 + Len(b) /\ ~(Len(a) + 1 + i <= Len(a) + 1)
        /\ Len(a) + 1 + i - (Len(a) + 1) = i
    BY <1>1
  <2>2. PICK x \in 1 .. Len(a) + 1 + Len(b) : x = Len(a) + 1 + i
    BY <2>1
  <2>3. s[x] = b[x - (Len(a) + 1)]
    BY ONLY <1>4, <2>1, <2>2
  <2> QED
    BY ONLY <2>1, <2>2, <2>3
<1>7. s[Len(a) + 1] = Bar
  BY <1>1, <1>3, <1>4
<1>8. ASSUME NEW i \in Bars(s)
      PROVE  i \in Bars(a) \/ i = Len(a) + 1 \/ \E j \in Bars(b) : i = Len(a) + 1 + j
  <2>1. i \in 1 .. Len(a) + 1 + Len(b) /\ s[i] = Bar
    BY <1>4, LenProperties DEF Bars
  <2>2. CASE i <= Len(a)
    <3>1. i \in 1 .. Len(a) /\ a[i] = Bar
      BY <1>1, <1>5, <2>1, <2>2
    <3> QED
      BY <1>1, <3>1 DEF Bars
  <2>3. CASE i > Len(a) + 1
    <3>1. PICK j \in 1 .. Len(b) : i = Len(a) + 1 + j
      <4>1. i - (Len(a) + 1) \in 1 .. Len(b) /\ i = Len(a) + 1 + (i - (Len(a) + 1))
        BY <1>1, <2>1, <2>3
      <4> QED
        BY <4>1
    <3>2. b[j] = Bar
      BY <1>6, <2>1, <3>1
    <3> QED
      BY <1>1, <3>1, <3>2 DEF Bars
  <2> QED
    BY <1>1, <2>1, <2>2, <2>3
<1>9. DOMAIN s = 1 .. Len(a) + 1 + Len(b)
  BY <1>4, LenProperties
<1>10. Bars(a) \subseteq Bars(s)
  <2> SUFFICES ASSUME NEW i \in Bars(a) PROVE i \in Bars(s)
    OBVIOUS
  <2>1. i \in 1 .. Len(a) /\ a[i] = Bar
    BY <1>1 DEF Bars
  <2>2. i \in 1 .. Len(a) + 1 + Len(b) /\ s[i] = Bar
    BY <1>1, <1>5, <2>1
  <2> QED
    BY <1>9, <2>2 DEF Bars
<1>11. Len(a) + 1 \in Bars(s)
  BY <1>1, <1>7, <1>9 DEF Bars
<1>12. \A i \in Bars(b) : Len(a) + 1 + i \in Bars(s)
  <2> TAKE i \in Bars(b)
  <2>1. i \in 1 .. Len(b) /\ b[i] = Bar
    BY <1>1 DEF Bars
  <2>2. Len(a) + 1 + i \in 1 .. Len(a) + 1 + Len(b) /\ s[Len(a) + 1 + i] = Bar
    BY <1>1, <1>6, <2>1
  <2> QED
    BY <1>9, <2>2 DEF Bars
<1>13. Bars(s) = Bars(a) \cup {Len(a) + 1} \cup {Len(a) + 1 + i : i \in Bars(b)}
  BY <1>8, <1>10, <1>11, <1>12
<1> QED
  BY <1>4, <1>5, <1>6, <1>7, <1>13

(* Two strings that agree at the places of a part have the same part.      *)
LEMMA SamePart ==
  ASSUME NEW s \in Seq(Nat), NEW a \in Seq(Nat), Len(a) <= Len(s),
         \A x \in 1 .. Len(a) : s[x] = a[x],
         NEW i \in 1 .. Len(a) + 1, NEW j \in 0 .. Len(a)
  PROVE  SubSeq(s, i, j) = SubSeq(a, i, j)
<1>1. Len(a) \in Nat /\ Len(s) \in Nat /\ DOMAIN a = 1 .. Len(a)
  BY LenProperties
<1>2. CASE j < i
  BY <1>1, <1>2, SubSeqEmpty
<1>3. CASE i <= j
  <2>1. /\ i \in 1 .. Len(s) + 1 /\ j \in i - 1 .. Len(s) /\ j \in i - 1 .. Len(a)
        /\ j - i + 1 \in Nat
    BY <1>1, <1>3
  <2>2. PICK p : p = SubSeq(s, i, j)
    OBVIOUS
  <2>3. PICK q : q = SubSeq(a, i, j)
    OBVIOUS
  <2>4. /\ p \in Seq(Nat) /\ Len(p) = j - i + 1
        /\ \A k \in 1 .. j - i + 1 : p[k] = s[i + k - 1]
    BY ONLY <2>1, <2>2, s \in Seq(Nat), PartOf
  <2>5. /\ q \in Seq(Nat) /\ Len(q) = j - i + 1
        /\ \A k \in 1 .. j - i + 1 : q[k] = a[i + k - 1]
    BY <2>1, <2>3, PartOf
  <2>6. \A k \in 1 .. j - i + 1 : i + k - 1 \in 1 .. Len(a)
    BY <1>1, <2>1
  <2>7. \A k \in 1 .. Len(p) : p[k] = q[k]
    BY <2>4, <2>5, <2>6
  <2>8. p = q
    BY <2>4, <2>5, <2>7, SeqEqual
  <2> QED
    BY <2>2, <2>3, <2>8
<1>4. i \in Int /\ j \in Int
  BY <1>1
<1>5. j < i \/ i <= j
  BY ONLY <1>4
<1> QED
  BY ONLY <1>2, <1>3, <1>5

(* A string without a delimiter is its only part.                          *)
LEMMA FreePlaced ==
  ASSUME NEW s, Free(s)
  PROVE  Placed(s) /\ Cardinality(Bars(s)) = 0 /\ Split(s) = <<s>>
<1>1. Cardinality(Bars(s)) = 0 /\ IsFiniteSet(Bars(s))
  BY FS_EmptySet DEF Free
<1>2. Placed(s)
  BY <1>1 DEF Placed, Free
<1>3. SubSeq(s, 1, Len(s)) = s
  BY SubSeqFull DEF Free
<1>4. Split(s) = [n \in 1 .. 1 |-> SubSeq(s, 1, Len(s))]
  BY <1>1 DEF Split
<1>5. Split(s) = <<s>>
  BY <1>3, <1>4
<1> QED
  BY <1>1, <1>2, <1>5

(* Joining adds a last delimiter and moves none.                           *)
LEMMA JoinPlaced ==
  ASSUME NEW a, Placed(a), NEW b, Free(b), NEW s, s = a \o <<Bar>> \o b
  PROVE  /\ Placed(s)
         /\ Cardinality(Bars(s)) = Cardinality(Bars(a)) + 1
         /\ \A n \in 1 .. Cardinality(Bars(a)) : NthBar(s, n) = NthBar(a, n)
         /\ NthBar(s, Cardinality(Bars(a)) + 1) = Len(a) + 1
<1>1. PICK k \in Nat : k = Cardinality(Bars(a))
  BY DEF Placed
<1>2. a \in Seq(Nat) /\ b \in Seq(Nat) /\ IsFiniteSet(Bars(a))
  BY DEF Placed, Free
<1>3. Len(a) \in Nat /\ Len(b) \in Nat /\ DOMAIN a = 1 .. Len(a)
  BY <1>2, LenProperties
<1>4. PICK p \in Nat : p = Len(a) + 1
  BY <1>3
<1>5. /\ s \in Seq(Nat) /\ Len(s) = p + Len(b)
      /\ Bars(s) = Bars(a) \cup {p}
  <2>1. /\ s \in Seq(Nat) /\ Len(s) = Len(a) + 1 + Len(b)
        /\ Bars(s) = Bars(a) \cup {Len(a) + 1} \cup {Len(a) + 1 + i : i \in Bars(b)}
    BY <1>2, JoinedBars
  <2>2. {Len(a) + 1 + i : i \in Bars(b)} = {}
    BY DEF Free
  <2> QED
    BY <1>4, <2>1, <2>2
<1>6. \A i \in Bars(a) : i \in Nat /\ i < p
  BY <1>3, <1>4 DEF Bars
<1>7. p \notin Bars(a)
  BY <1>6
<1>8. Cardinality(Bars(s)) = k + 1 /\ IsFiniteSet(Bars(s))
  <2>1. PICK A : A = Bars(a)
    OBVIOUS
  <2>2. IsFiniteSet(A) /\ p \notin A /\ Cardinality(A) = k
    BY <1>1, <1>2, <1>7, <2>1
  <2>3. IsFiniteSet(A \cup {p}) /\ Cardinality(A \cup {p}) = k + 1
    BY <2>2, FS_AddElement
  <2> QED
    BY <1>5, <2>1, <2>3
<1>9. \A j \in Bars(a) : BarsUpTo(s, j) = BarsUpTo(a, j)
  <2> TAKE j \in Bars(a)
  <2>1. j \in Nat /\ ~(p <= j)
    BY <1>6
  <2> QED
    BY <1>5, <2>1 DEF BarsUpTo
<1>10. BarsUpTo(s, p) = Bars(s)
  <2>1. \A i \in Bars(s) : i <= p
    <3>1. p <= p
      BY <1>4
    <3>2. \A i \in Bars(a) : i <= p
      BY <1>4, <1>6
    <3> QED
      BY <1>5, <3>1, <3>2
  <2> QED
    BY <2>1 DEF BarsUpTo
<1>11. ASSUME NEW n \in 1 .. k PROVE NthBar(s, n) = NthBar(a, n)
  <2>1. n # k + 1
    BY <1>1
  <2>2. {j \in Bars(s) : Cardinality(BarsUpTo(s, j)) = n}
          = {j \in Bars(a) : Cardinality(BarsUpTo(a, j)) = n}
    BY <1>5, <1>8, <1>9, <1>10, <2>1
  <2> QED
    BY <2>2 DEF NthBar, BarsUpTo
<1>12. NthBar(s, k + 1) = p
  <2>1. ASSUME NEW j \in Bars(a) PROVE Cardinality(BarsUpTo(a, j)) # k + 1
    <3>1. BarsUpTo(a, j) \in SUBSET Bars(a)
      BY DEF BarsUpTo
    <3>2. Cardinality(BarsUpTo(a, j)) <= k /\ IsFiniteSet(BarsUpTo(a, j))
      BY <1>1, <1>2, <3>1, FS_Subset
    <3>3. Cardinality(BarsUpTo(a, j)) \in Nat
      BY <3>2, FS_CardinalityType
    <3> QED
      BY <1>1, <3>2, <3>3
  <2>2. {j \in Bars(s) : Cardinality(BarsUpTo(s, j)) = k + 1} = {p}
    BY <1>5, <1>8, <1>9, <1>10, <2>1
  <2> QED
    BY <2>2 DEF NthBar, BarsUpTo
<1>13. \A n \in 1 .. k + 1 : NthBar(s, n) \in 1 .. Len(s)
  <2> TAKE n \in 1 .. k + 1
  <2>1. CASE n = k + 1
    BY <1>3, <1>4, <1>5, <1>12, <2>1
  <2>2. CASE n # k + 1
    <3>1. n \in 1 .. k
      BY <1>1, <2>2
    <3>2. NthBar(a, n) \in 1 .. Len(a)
      BY <1>1, <3>1 DEF Placed
    <3> QED
      BY <1>3, <1>4, <1>5, <1>11, <3>1, <3>2
  <2> QED
    BY <2>1, <2>2
<1>14. Placed(s)
  <2>1. k + 1 \in Nat
    BY <1>1
  <2> QED
    BY <1>5, <1>8, <1>13, <2>1 DEF Placed
<1> QED
  BY <1>1, <1>4, <1>8, <1>11, <1>12, <1>14

(* The first n - 1 parts of f, and b. *)
WithLast(f, n, b) == [i \in 1 .. n |-> IF i = n THEN b ELSE f[i]]

(* ... so splitting finds the new last part after the others.              *)
LEMMA SplitJoined ==
  ASSUME NEW a, Placed(a), NEW b, Free(b), NEW s, s = a \o <<Bar>> \o b
  PROVE  /\ Placed(s)
         /\ Cardinality(Bars(s)) = Cardinality(Bars(a)) + 1
         /\ Split(s) = WithLast(Split(a), Cardinality(Bars(a)) + 2, b)
<1>1. PICK k \in Nat : k = Cardinality(Bars(a))
  BY DEF Placed
<1>2. a \in Seq(Nat) /\ b \in Seq(Nat) /\ Len(a) \in Nat /\ Len(b) \in Nat
  BY LenProperties DEF Placed, Free
<1>3. /\ Placed(s) /\ Cardinality(Bars(s)) = k + 1
      /\ \A n \in 1 .. k : NthBar(s, n) = NthBar(a, n)
      /\ NthBar(s, k + 1) = Len(a) + 1
  BY <1>1, JoinPlaced
<1>4. /\ s \in Seq(Nat) /\ Len(s) = Len(a) + 1 + Len(b)
      /\ \A i \in 1 .. Len(a) : s[i] = a[i]
      /\ \A i \in 1 .. Len(b) : s[Len(a) + 1 + i] = b[i]
  <2>1. s \in Seq(Nat) /\ Len(s) = Len(a) + 1 + Len(b)
    BY <1>2, JoinedBars
  <2>2. \A i \in 1 .. Len(a) : s[i] = a[i]
    BY <1>2, JoinedBars
  <2>3. \A i \in 1 .. Len(b) : s[Len(a) + 1 + i] = b[i]
    BY <1>2, JoinedBars
  <2> QED
    BY <2>1, <2>2, <2>3
<1> DEFINE from1(x, n) == IF n = 1 THEN 1 ELSE NthBar(x, n - 1) + 1
           upto(x, n, c) == IF n = c + 1 THEN Len(x) ELSE NthBar(x, n) - 1
<1>5. Split(a) = [n \in 1 .. k + 1 |-> SubSeq(a, from1(a, n), upto(a, n, k))]
  BY <1>1 DEF Split
<1>6. Split(s) = [n \in 1 .. k + 2 |-> SubSeq(s, from1(s, n), upto(s, n, k + 1))]
  <2>1. k + 1 + 1 = k + 2
    BY <1>1
  <2> QED
    BY <1>3, <2>1 DEF Split
<1>7. \A n \in 1 .. k : NthBar(a, n) \in 1 .. Len(a)
  BY <1>1 DEF Placed
<1>8. ASSUME NEW n \in 1 .. k + 1
      PROVE  SubSeq(s, from1(s, n), upto(s, n, k + 1)) = SubSeq(a, from1(a, n), upto(a, n, k))
  <2>1. PICK i \in 1 .. Len(a) + 1 : i = from1(a, n) /\ i = from1(s, n)
    <3>1. CASE n = 1
      BY <1>2, <3>1
    <3>2. CASE n # 1
      <4>1. n - 1 \in 1 .. k
        BY <3>2
      <4>2. NthBar(a, n - 1) \in 1 .. Len(a) /\ NthBar(s, n - 1) = NthBar(a, n - 1)
        BY <1>3, <1>7, <4>1
      <4> QED
        BY <1>2, <3>2, <4>2
    <3> QED
      BY <3>1, <3>2
  <2>2. PICK j \in 0 .. Len(a) : j = upto(a, n, k) /\ j = upto(s, n, k + 1)
    <3>1. CASE n = k + 1
      <4>1. n # k + 1 + 1 /\ Len(a) + 1 - 1 = Len(a) /\ Len(a) \in 0 .. Len(a)
        BY <1>2, <3>1
      <4>2. upto(a, n, k) = Len(a)
        BY <3>1
      <4>3. upto(s, n, k + 1) = Len(a) + 1 - 1
        BY <1>3, <3>1, <4>1
      <4> QED
        BY <4>1, <4>2, <4>3
    <3>2. CASE n # k + 1
      <4>1. n \in 1 .. k /\ n # k + 1 + 1
        BY <3>2
      <4>2. NthBar(a, n) \in 1 .. Len(a) /\ NthBar(s, n) = NthBar(a, n)
        BY <1>3, <1>7, <4>1
      <4> QED
        BY <1>2, <3>2, <4>1, <4>2
    <3> QED
      BY <3>1, <3>2
  <2>3. SubSeq(s, i, j) = SubSeq(a, i, j)
    BY <1>2, <1>4, SamePart
  <2> QED
    BY <2>1, <2>2, <2>3
<1>9. SubSeq(s, from1(s, k + 2), upto(s, k + 2, k + 1)) = b
  <2>1. PICK i : i = Len(a) + 2
    OBVIOUS
  <2>2. from1(s, k + 2) = i /\ upto(s, k + 2, k + 1) = Len(s)
    <3>1. k + 2 # 1 /\ k + 2 - 1 = k + 1 /\ k + 2 = k + 1 + 1
      OBVIOUS
    <3> QED
      BY <1>2, <1>3, <2>1, <3>1
  <2>3. PICK q : q = SubSeq(s, i, Len(s))
    OBVIOUS
  <2>4. q \in Seq(Nat) /\ Len(q) = Len(b) /\ \A x \in 1 .. Len(b) : q[x] = s[i + x - 1]
    <3>1. i \in 1 .. Len(s) + 1 /\ Len(s) \in i - 1 .. Len(s) /\ Len(s) - i + 1 = Len(b)
      BY <1>2, <1>4, <2>1
    <3>2. /\ q \in Seq(Nat) /\ Len(q) = Len(s) - i + 1
          /\ \A x \in 1 .. Len(s) - i + 1 : q[x] = s[i + x - 1]
      BY ONLY <1>4, <2>3, <3>1, PartOf
    <3> QED
      BY <3>1, <3>2
  <2>5. \A x \in 1 .. Len(b) : i + x - 1 = Len(a) + 1 + x
    BY <1>2, <2>1
  <2>6. \A x \in 1 .. Len(b) : q[x] = b[x]
    BY <1>4, <2>4, <2>5
  <2>7. q = b
    BY <1>2, <2>4, <2>6, SeqEqual
  <2> QED
    BY <2>2, <2>3, <2>7
<1> HIDE DEF from1, upto
<1>10. ASSUME NEW n \in 1 .. k + 2
       PROVE  SubSeq(s, from1(s, n), upto(s, n, k + 1)) = IF n = k + 2 THEN b ELSE Split(a)[n]
  <2>1. CASE n = k + 2
    BY <1>9, <2>1
  <2>2. CASE n # k + 2
    <3>1. n \in 1 .. k + 1
      BY <2>2
    <3> QED
      BY <1>5, <1>8, <2>2, <3>1
  <2> QED
    BY <2>1, <2>2
<1>11. Split(s) = [n \in 1 .. k + 2 |-> IF n = k + 2 THEN b ELSE Split(a)[n]]
  BY <1>6, <1>10
<1> QED
  BY <1>1, <1>3, <1>11 DEF WithLast

(* The parts of a string that was joined from n parts without a delimiter. *)
Cut(s, n, f) ==
  Placed(s) /\ Cardinality(Bars(s)) = n - 1 /\ Split(s) = [i \in 1 .. n |-> f[i]]

(* The first field is one part.                                            *)
LEMMA CutFirst ==
  ASSUME NEW f, Free(f[1])
  PROVE  Cut(f[1], 1, f)
<1>1. Placed(f[1]) /\ Cardinality(Bars(f[1])) = 0 /\ Split(f[1]) = <<f[1]>>
  BY FreePlaced
<1>2. <<f[1]>> = [i \in 1 .. 1 |-> f[i]]
  OBVIOUS
<1> QED
  BY <1>1, <1>2 DEF Cut

(* Each further field is one part more.                                    *)
LEMMA CutNext ==
  ASSUME NEW f, NEW n \in Nat \ {0}, NEW a, Cut(a, n, f), Free(f[n + 1]),
         NEW s, s = a \o <<Bar>> \o f[n + 1]
  PROVE  Cut(s, n + 1, f)
<1>1. Placed(a) /\ Cardinality(Bars(a)) = n - 1 /\ Split(a) = [i \in 1 .. n |-> f[i]]
  BY DEF Cut
<1>2. PICK b : b = f[n + 1] /\ Free(b) /\ s = a \o <<Bar>> \o b
  OBVIOUS
<1>3. /\ Placed(s)
      /\ Cardinality(Bars(s)) = Cardinality(Bars(a)) + 1
      /\ Split(s) = WithLast(Split(a), Cardinality(Bars(a)) + 2, b)
  <2>1. Placed(s)
    BY <1>1, <1>2, SplitJoined
  <2>2. Cardinality(Bars(s)) = Cardinality(Bars(a)) + 1
    BY <1>1, <1>2, SplitJoined
  <2>3. Split(s) = WithLast(Split(a), Cardinality(Bars(a)) + 2, b)
    BY <1>1, <1>2, SplitJoined
  <2> QED
    BY <2>1, <2>2, <2>3
<1>4. n - 1 + 1 = n + 1 - 1 /\ n - 1 + 2 = n + 1
  OBVIOUS
<1>5. Split(s) = [i \in 1 .. n + 1 |-> IF i = n + 1 THEN b ELSE Split(a)[i]]
  BY <1>1, <1>3, <1>4 DEF WithLast
<1>6. \A i \in 1 .. n + 1 : (IF i = n + 1 THEN b ELSE Split(a)[i]) = f[i]
  <2> TAKE i \in 1 .. n + 1
  <2>1. CASE i = n + 1
    BY <1>2, <2>1
  <2>2. CASE i # n + 1
    <3>1. i \in 1 .. n
      BY <2>2
    <3> QED
      BY <1>1, <2>2, <3>1
  <2> QED
    BY <2>1, <2>2
<1>7. Split(s) = [i \in 1 .. n + 1 |-> f[i]]
  BY <1>5, <1>6
<1> QED
  BY <1>1, <1>3, <1>4, <1>7 DEF Cut

(* At least n delimiters.                                                  *)
Many(s, n) == s \in Seq(Nat) /\ IsFiniteSet(Bars(s)) /\ Cardinality(Bars(s)) \in Nat
              /\ Cardinality(Bars(s)) >= n

(* The delimiters of one string.                                           *)
LEMMA ManyFirst ==
  ASSUME NEW a \in Seq(Nat)
  PROVE  /\ Many(a, 0)
         /\ Bars(a) # {} => Many(a, 1)
<1>1. IsFiniteSet(Bars(a))
  <2>1. Len(a) \in Nat /\ DOMAIN a = 1 .. Len(a)
    BY LenProperties
  <2>2. PICK D : D = 1 .. Len(a)
    OBVIOUS
  <2>3. IsFiniteSet(D)
    BY <2>1, <2>2, FS_Interval
  <2>4. Bars(a) \in SUBSET D
    BY <2>1, <2>2 DEF Bars
  <2> QED
    BY <2>3, <2>4, FS_Subset
<1>2. Cardinality(Bars(a)) \in Nat
  BY <1>1, FS_CardinalityType
<1>3. Bars(a) # {} => Cardinality(Bars(a)) # 0
  BY <1>1, FS_EmptySet
<1> QED
  BY <1>1, <1>2, <1>3 DEF Many

(* Joining adds a delimiter, and the one that the second string has.       *)
LEMMA ManyNext ==
  ASSUME NEW n \in Nat, NEW a, Many(a, n), NEW b \in Seq(Nat), NEW s, s = a \o <<Bar>> \o b
  PROVE  /\ Many(s, n + 1)
         /\ Bars(b) # {} => Many(s, n + 2)
<1>1. a \in Seq(Nat) /\ IsFiniteSet(Bars(a)) /\ Cardinality(Bars(a)) \in Nat
      /\ Cardinality(Bars(a)) >= n
  BY DEF Many
<1>2. Len(a) \in Nat /\ \A i \in Bars(a) : i \in Nat /\ i <= Len(a)
  BY <1>1, LenProperties DEF Bars
<1>3. PICK p \in Nat : p = Len(a) + 1
  BY <1>2
<1>4. PICK A : A = Bars(a) \cup {p}
  OBVIOUS
<1>5. IsFiniteSet(A) /\ Cardinality(A) = Cardinality(Bars(a)) + 1
  <2>1. p \notin Bars(a)
    BY <1>2, <1>3
  <2> QED
    BY <1>1, <1>4, <2>1, FS_AddElement
<1>6. s \in Seq(Nat) /\ Bars(s) = Bars(a) \cup {Len(a) + 1} \cup {Len(a) + 1 + i : i \in Bars(b)}
  BY <1>1, JoinedBars
<1>7. A \in SUBSET Bars(s)
  BY <1>3, <1>4, <1>6
<1>8. IsFiniteSet(Bars(s)) /\ Cardinality(Bars(s)) \in Nat
  BY <1>6, ManyFirst DEF Many
<1>9. Cardinality(A) <= Cardinality(Bars(s))
  BY <1>7, <1>8, FS_Subset
<1>10. Many(s, n + 1)
  BY <1>1, <1>5, <1>6, <1>8, <1>9 DEF Many
<1>11. ASSUME Bars(b) # {} PROVE Many(s, n + 2)
  <2>1. PICK i \in Bars(b) : i \in Nat /\ i >= 1
    <3>1. PICK i : i \in Bars(b)
      BY <1>11
    <3>2. DOMAIN b = 1 .. Len(b)
      BY LenProperties
    <3>3. i \in 1 .. Len(b)
      BY <3>1, <3>2 DEF Bars
    <3> QED
      BY <3>1, <3>3
  <2>2. PICK q \in Nat : q = Len(a) + 1 + i
    BY <1>2, <2>1
  <2>3. q \notin A
    BY <1>2, <1>3, <1>4, <2>1, <2>2
  <2>4. PICK C : C = A \cup {q}
    OBVIOUS
  <2>5. IsFiniteSet(C) /\ Cardinality(C) = Cardinality(A) + 1
    BY <1>5, <2>3, <2>4, FS_AddElement
  <2>6. C \in SUBSET Bars(s)
    BY <1>6, <1>7, <2>1, <2>2, <2>4
  <2>7. Cardinality(C) <= Cardinality(Bars(s))
    BY <1>8, <2>6, FS_Subset
  <2> QED
    BY <1>1, <1>5, <1>6, <1>8, <2>5, <2>7 DEF Many
<1> QED
  BY <1>10, <1>11

(* A line of eleven fields: without a delimiter in any of them it is split *)
(* into them, and with one it is split into more.                          *)
Eleven(f) ==
  f[1] \o <<Bar>> \o f[2] \o <<Bar>> \o f[3] \o <<Bar>> \o f[4] \o <<Bar>> \o f[5]
    \o <<Bar>> \o f[6] \o <<Bar>> \o f[7] \o <<Bar>> \o f[8] \o <<Bar>> \o f[9]
    \o <<Bar>> \o f[10] \o <<Bar>> \o f[11]

Join(a, b) == a \o <<Bar>> \o b

(* Eleven fields without a delimiter are the parts of their line.          *)
LEMMA ElevenCut ==
  ASSUME NEW f, \A i \in 1 .. 11 : Free(f[i])
  PROVE  Cut(Eleven(f), 11, f)
<1>1. PICK s1 : s1 = f[1]
  OBVIOUS
<1>2. PICK s2 : s2 = Join(s1, f[2])
  OBVIOUS
<1>3. PICK s3 : s3 = Join(s2, f[3])
  OBVIOUS
<1>4. PICK s4 : s4 = Join(s3, f[4])
  OBVIOUS
<1>5. PICK s5 : s5 = Join(s4, f[5])
  OBVIOUS
<1>6. PICK s6 : s6 = Join(s5, f[6])
  OBVIOUS
<1>7. PICK s7 : s7 = Join(s6, f[7])
  OBVIOUS
<1>8. PICK s8 : s8 = Join(s7, f[8])
  OBVIOUS
<1>9. PICK s9 : s9 = Join(s8, f[9])
  OBVIOUS
<1>10. PICK s10 : s10 = Join(s9, f[10])
  OBVIOUS
<1>11. PICK s11 : s11 = Join(s10, f[11])
  OBVIOUS
<1>12. Eleven(f) = s11
  BY <1>1, <1>2, <1>3, <1>4, <1>5, <1>6, <1>7, <1>8, <1>9, <1>10, <1>11 DEF Eleven, Join
<1>13. ASSUME NEW n \in 1 .. 10, NEW m, m = n + 1, NEW a, NEW s, Cut(a, n, f),
              s = Join(a, f[m])
       PROVE  Cut(s, m, f)
  <2>1. n \in Nat \ {0} /\ Free(f[n + 1])
    OBVIOUS
  <2> QED
    BY <1>13, <2>1, CutNext DEF Join
<1>21. Cut(s1, 1, f)
  BY <1>1, CutFirst
<1>22. Cut(s2, 2, f)
  BY <1>2, <1>13, <1>21
<1>23. Cut(s3, 3, f)
  BY <1>3, <1>13, <1>22
<1>24. Cut(s4, 4, f)
  BY <1>4, <1>13, <1>23
<1>25. Cut(s5, 5, f)
  BY <1>5, <1>13, <1>24
<1>26. Cut(s6, 6, f)
  BY <1>6, <1>13, <1>25
<1>27. Cut(s7, 7, f)
  BY <1>7, <1>13, <1>26
<1>28. Cut(s8, 8, f)
  BY <1>8, <1>13, <1>27
<1>29. Cut(s9, 9, f)
  BY <1>9, <1>13, <1>28
<1>30. Cut(s10, 10, f)
  BY <1>10, <1>13, <1>29
<1>31. Cut(s11, 11, f)
  BY <1>11, <1>13, <1>30
<1> QED
  BY <1>12, <1>31

(* With a delimiter in a field there are more than ten in the line.        *)
LEMMA ElevenMany ==
  ASSUME NEW f, \A i \in 1 .. 11 : f[i] \in Seq(Nat), NEW d \in 1 .. 11, Bars(f[d]) # {}
  PROVE  Many(Eleven(f), 11)
<1>1. PICK s1 : s1 = f[1]
  OBVIOUS
<1>2. PICK s2 : s2 = Join(s1, f[2])
  OBVIOUS
<1>3. PICK s3 : s3 = Join(s2, f[3])
  OBVIOUS
<1>4. PICK s4 : s4 = Join(s3, f[4])
  OBVIOUS
<1>5. PICK s5 : s5 = Join(s4, f[5])
  OBVIOUS
<1>6. PICK s6 : s6 = Join(s5, f[6])
  OBVIOUS
<1>7. PICK s7 : s7 = Join(s6, f[7])
  OBVIOUS
<1>8. PICK s8 : s8 = Join(s7, f[8])
  OBVIOUS
<1>9. PICK s9 : s9 = Join(s8, f[9])
  OBVIOUS
<1>10. PICK s10 : s10 = Join(s9, f[10])
  OBVIOUS
<1>11. PICK s11 : s11 = Join(s10, f[11])
  OBVIOUS
<1>12. Eleven(f) = s11
  BY <1>1, <1>2, <1>3, <1>4, <1>5, <1>6, <1>7, <1>8, <1>9, <1>10, <1>11 DEF Eleven, Join
<1> DEFINE least(n) == IF n >= d THEN n ELSE n - 1
<1>13. ASSUME NEW n \in 1 .. 10, NEW m, m = n + 1, NEW a, NEW s, Many(a, least(n)),
              s = Join(a, f[m])
       PROVE  Many(s, least(m))
  <2>1. PICK b \in Seq(Nat) : b = f[m] /\ s = Join(a, b)
    <3>1. m \in 1 .. 11
      BY <1>13
    <3>2. f[m] \in Seq(Nat)
      BY <3>1
    <3> QED
      BY <1>13, <3>2
  <2>2. PICK k \in Nat : k = least(n) /\ Many(a, k)
    <3>1. least(n) \in Nat
      OBVIOUS
    <3> QED
      BY <1>13, <3>1
  <2>3. Many(s, k + 1) /\ (Bars(b) # {} => Many(s, k + 2))
    BY <2>1, <2>2, ManyNext DEF Join
  <2>4. CASE m = d
    <3>1. k + 2 = least(m)
      BY <1>13, <2>2, <2>4
    <3> QED
      BY <2>1, <2>3, <2>4, <3>1
  <2>5. CASE m # d
    <3>1. k + 1 = least(m)
      BY <1>13, <2>2, <2>5
    <3> QED
      BY <2>3, <3>1
  <2> QED
    BY <2>4, <2>5
<1>21. Many(s1, least(1))
  <2>1. s1 \in Seq(Nat)
    BY <1>1
  <2>2. Many(s1, 0) /\ (Bars(s1) # {} => Many(s1, 1))
    BY <2>1, ManyFirst
  <2> QED
    BY <1>1, <2>2
<1> HIDE DEF least
<1>22. Many(s2, least(2))
  BY <1>2, <1>13, <1>21
<1>23. Many(s3, least(3))
  BY <1>3, <1>13, <1>22
<1>24. Many(s4, least(4))
  BY <1>4, <1>13, <1>23
<1>25. Many(s5, least(5))
  BY <1>5, <1>13, <1>24
<1>26. Many(s6, least(6))
  BY <1>6, <1>13, <1>25
<1>27. Many(s7, least(7))
  BY <1>7, <1>13, <1>26
<1>28. Many(s8, least(8))
  BY <1>8, <1>13, <1>27
<1>29. Many(s9, least(9))
  BY <1>9, <1>13, <1>28
<1>30. Many(s10, least(10))
  BY <1>10, <1>13, <1>29
<1>31. Many(s11, least(11))
  BY <1>11, <1>13, <1>30
<1>32. least(11) = 11
  BY DEF least
<1> QED
  BY <1>12, <1>31, <1>32

-----------------------------------------------------------------------------
(* Messages.                                                               *)

(* Bytes are numbers.                                                      *)
LEMMA Numbers ==
  ASSUME NEW s \in Seq(Byte)
  PROVE  s \in Seq(Nat)
<1>1. Len(s) \in Nat /\ DOMAIN s = 1 .. Len(s) /\ s = [i \in 1 .. Len(s) |-> s[i]]
  BY LenProperties
<1>2. \A i \in 1 .. Len(s) : s[i] \in Nat
  BY ElementOfSeq, ByteNumber
<1>3. s \in [1 .. Len(s) -> Nat]
  BY <1>1, <1>2
<1> QED
  BY <1>1, <1>3, ListOf

(* Base64 writes no delimiter.                                             *)
LEMMA EncodedFree ==
  ASSUME NEW t \in Seq(Byte)
  PROVE  Free(Base64Encode(t))
<1>1. PICK e : e = Base64Encode(t)
  OBVIOUS
<1>2. e \in Seq(SixBitChars)
  <2>1. CASE t = <<>>
    BY <1>1, <2>1 DEF Base64Encode
  <2>2. CASE t # <<>>
    <3>1. e = EncodeBlock(t)
      BY <1>1, <2>2 DEF Base64Encode
    <3> QED
      BY <3>1, EncodedLength
  <2> QED
    BY <2>1, <2>2
<1>3. Len(e) \in Nat /\ DOMAIN e = 1 .. Len(e) /\ e = [i \in 1 .. Len(e) |-> e[i]]
  BY <1>2, LenProperties
<1>4. \A i \in 1 .. Len(e) : e[i] \in Nat /\ e[i] # Bar
  <2>1. \A c \in SixBitChars : c \in Nat /\ c # Bar
    BY DEF SixBitChars, Pad, Bar
  <2> QED
    BY <1>2, <2>1, ElementOfSeq
<1>5. e \in [1 .. Len(e) -> Nat]
  BY <1>3, <1>4
<1>6. e \in Seq(Nat)
  BY <1>3, <1>5, ListOf
<1>7. Bars(e) = {}
  BY <1>3, <1>4 DEF Bars
<1> QED
  BY <1>1, <1>6, <1>7 DEF Free

(* A digit is no delimiter, and is read as what was written.               *)
LEMMA DigitFree ==
  ASSUME NEW n \in 0 .. 9
  PROVE  Free(Digit(n)) /\ Number(Digit(n)) = n
<1>1. Number(Digit(n)) = n
  BY DEF Number, Digit
<1>2. Digit(n) \in Seq(Nat) /\ DOMAIN Digit(n) = {1} /\ Digit(n)[1] = 48 + n
  BY DEF Digit
<1>3. Bars(Digit(n)) = {}
  BY <1>2 DEF Bars, Bar
<1> QED
  BY <1>1, <1>2, <1>3 DEF Free

(* The number of a status stands for it.                                   *)
LEMMA StatusNumbers ==
  ASSUME NEW status \in {"Sent", "Delivered", "Read"}
  PROVE  StatusNumber(status) \in 0 .. 2 /\ Statuses[StatusNumber(status) + 1] = status
<1>1. Len(Statuses) = 3 /\ Statuses[1] = "Sent" /\ Statuses[2] = "Delivered"
      /\ Statuses[3] = "Read"
  BY DEF Statuses
<1>2. PICK I : I = {i \in 1 .. 3 : Statuses[i] = status}
  OBVIOUS
<1>3. PICK n \in 1 .. 3 : I = {n} /\ Statuses[n] = status
  <2>1. CASE status = "Sent"
    BY <1>1, <1>2, <2>1
  <2>2. CASE status = "Delivered"
    BY <1>1, <1>2, <2>2
  <2>3. CASE status = "Read"
    BY <1>1, <1>2, <2>3
  <2> QED
    BY <2>1, <2>2, <2>3
<1>4. Min(I) = n
  BY <1>3 DEF Min
<1>5. StatusNumber(status) = n - 1
  BY <1>1, <1>2, <1>3, <1>4 DEF StatusNumber, SelectInSeq
<1> QED
  BY <1>3, <1>5

Fields(m) ==
  <<m.messageId, m.sender, m.receiver, m.chatId, Digit(m.timestamp),
    Digit(StatusNumber(m.status)), Digit(Flag(m.isGroupMessage)),
    Digit(Flag(m.deletedForAll)), Base64Encode(m.encryptedSessionKey),
    Base64Encode(m.encryptedPayload), Base64Encode(m.encryptedSelfSessionKey)>>

(* Of the fields of a message only the names and the chat can hold a       *)
(* delimiter.                                                              *)
LEMMA FieldsFree ==
  ASSUME NEW m \in Message
  PROVE  /\ \A i \in 1 .. 11 : Fields(m)[i] \in Seq(Nat)
         /\ \A i \in (1 .. 11) \ {2, 3, 4} : Free(Fields(m)[i])
         /\ Fields(m)[2] = m.sender /\ Fields(m)[3] = m.receiver /\ Fields(m)[4] = m.chatId
<1>1. PICK f : f = Fields(m)
  OBVIOUS
<1>2. /\ m.sender \in Seq(Nat) /\ m.receiver \in Seq(Nat) /\ m.chatId \in Seq(Nat)
  BY Numbers DEF Message
<1>3. f[2] = m.sender /\ f[3] = m.receiver /\ f[4] = m.chatId
  BY <1>1 DEF Fields
<1>4. Free(f[1])
  <2>1. f[1] = <<49>>
    BY <1>1 DEF Fields, Message
  <2>2. f[1] = Digit(1)
    BY <2>1 DEF Digit
  <2> QED
    BY <2>2, DigitFree
<1>5. Free(f[5]) /\ Free(f[6]) /\ Free(f[7]) /\ Free(f[8])
  <2>1. m.timestamp \in 0 .. 9 /\ Flag(m.isGroupMessage) \in 0 .. 9
        /\ Flag(m.deletedForAll) \in 0 .. 9
    BY DEF Message, Flag
  <2>2. StatusNumber(m.status) \in 0 .. 9
    <3>1. m.status \in {"Sent", "Delivered", "Read"}
      BY DEF Message
    <3> QED
      BY <3>1, StatusNumbers
  <2>3. /\ f[5] = Digit(m.timestamp) /\ f[6] = Digit(StatusNumber(m.status))
        /\ f[7] = Digit(Flag(m.isGroupMessage)) /\ f[8] = Digit(Flag(m.deletedForAll))
    BY <1>1 DEF Fields
  <2> QED
    BY <2>1, <2>2, <2>3, DigitFree
<1>6. Free(f[9]) /\ Free(f[10]) /\ Free(f[11])
  <2>1. /\ m.encryptedSessionKey \in Seq(Byte) /\ m.encryptedPayload \in Seq(Byte)
        /\ m.encryptedSelfSessionKey \in Seq(Byte)
    BY DEF Message
  <2>2. /\ f[9] = Base64Encode(m.encryptedSessionKey)
        /\ f[10] = Base64Encode(m.encryptedPayload)
        /\ f[11] = Base64Encode(m.encryptedSelfSessionKey)
    BY <1>1 DEF Fields
  <2> QED
    BY <2>1, <2>2, EncodedFree
<1>7. \A i \in (1 .. 11) \ {2, 3, 4} : Free(f[i])
  <2> TAKE i \in (1 .. 11) \ {2, 3, 4}
  <2>1. i \in {1, 5, 6, 7, 8, 9, 10, 11}
    OBVIOUS
  <2> QED
    BY <1>4, <1>5, <1>6, <2>1
<1>8. \A i \in 1 .. 11 : f[i] \in Seq(Nat)
  <2> TAKE i \in 1 .. 11
  <2>1. CASE i \in {2, 3, 4}
    BY <1>2, <1>3, <2>1
  <2>2. CASE i \notin {2, 3, 4}
    BY <1>7, <2>2 DEF Free
  <2> QED
    BY <2>1, <2>2
<1> QED
  BY <1>1, <1>3, <1>7, <1>8

(* A message is read as it was written, unless a '|' takes its line apart. *)
LEMMA LineRead ==
  ASSUME NEW m \in Message
  PROVE  Deserialize(Serialize(m)) =
           IF \E s \in {m.sender, m.receiver, m.chatId} : Bar \in Range(s) THEN None ELSE m
<1>1. PICK f : f = Fields(m)
  OBVIOUS
<1>2. Serialize(m) = Eleven(f)
  BY <1>1 DEF Serialize, Eleven, Fields
<1>3. PICK chars : chars = Eleven(f)
  OBVIOUS
<1>4. /\ \A i \in 1 .. 11 : f[i] \in Seq(Nat)
      /\ \A i \in (1 .. 11) \ {2, 3, 4} : Free(f[i])
      /\ f[2] = m.sender /\ f[3] = m.receiver /\ f[4] = m.chatId
  BY <1>1, FieldsFree
<1>5. \A i \in {2, 3, 4} : Bar \in Range(f[i]) <=> Bars(f[i]) # {}
  BY DEF Bars, Range
<1>6. CASE \E s \in {m.sender, m.receiver, m.chatId} : Bar \in Range(s)
  <2>1. PICK d \in {2, 3, 4} : Bars(f[d]) # {}
    BY <1>4, <1>5, <1>6
  <2>2. Many(chars, 11)
    <3>1. d \in 1 .. 11
      OBVIOUS
    <3> QED
      BY <1>3, <1>4, <2>1, <3>1, ElevenMany
  <2>3. PICK k \in Nat : k = Cardinality(Bars(chars)) /\ k >= 11
    BY <2>2 DEF Many
  <2>4. PICK g : Split(chars) = [n \in 1 .. k + 1 |-> g[n]]
    <3>1. DOMAIN Split(chars) = 1 .. k + 1 /\ Split(chars) = [n \in 1 .. k + 1 |-> Split(chars)[n]]
      BY <2>3 DEF Split
    <3> QED
      BY <3>1
  <2>5. Len(Split(chars)) = k + 1
    BY <2>3, <2>4
  <2>6. k + 1 \notin {10, 11}
    BY <2>3
  <2>7. Deserialize(chars) = None
    BY <2>5, <2>6 DEF Deserialize
  <2> QED
    BY <1>2, <1>3, <1>6, <2>7
<1>7. CASE ~\E s \in {m.sender, m.receiver, m.chatId} : Bar \in Range(s)
  <2>1. \A i \in 1 .. 11 : Free(f[i])
    BY <1>4, <1>5, <1>7 DEF Free
  <2>2. PICK parts : parts = Split(chars)
    OBVIOUS
  <2>3. parts = [i \in 1 .. 11 |-> f[i]]
    BY <1>3, <2>1, <2>2, ElevenCut DEF Cut
  <2>4. Len(parts) = 11
    BY <2>3
  <2>5. /\ parts[1] = m.messageId /\ parts[2] = m.sender /\ parts[3] = m.receiver
        /\ parts[4] = m.chatId /\ parts[5] = Digit(m.timestamp)
        /\ parts[6] = Digit(StatusNumber(m.status))
        /\ parts[7] = Digit(Flag(m.isGroupMessage)) /\ parts[8] = Digit(Flag(m.deletedForAll))
        /\ parts[9] = Base64Encode(m.encryptedSessionKey)
        /\ parts[10] = Base64Encode(m.encryptedPayload)
        /\ parts[11] = Base64Encode(m.encryptedSelfSessionKey)
    BY <1>1, <2>3 DEF Fields
  <2>6. Number(parts[5]) = m.timestamp
    BY <2>5, DigitFree DEF Message
  <2>7. Statuses[Number(parts[6]) + 1] = m.status
    <3>1. m.status \in {"Sent", "Delivered", "Read"}
      BY DEF Message
    <3>2. StatusNumber(m.status) \in 0 .. 9 /\ Statuses[StatusNumber(m.status) + 1] = m.status
      BY <3>1, StatusNumbers
    <3> QED
      BY <2>5, <3>2, DigitFree
  <2>8. (Number(parts[7]) # 0) = m.isGroupMessage /\ (Number(parts[8]) # 0) = m.deletedForAll
    <3>1. \A b \in BOOLEAN : Flag(b) \in 0 .. 9 /\ (Flag(b) # 0) = b
      BY DEF Flag
    <3>2. m.isGroupMessage \in BOOLEAN /\ m.deletedForAll \in BOOLEAN
      BY DEF Message
    <3>3. Number(parts[7]) = Flag(m.isGroupMessage) /\ Number(parts[8]) = Flag(m.deletedForAll)
      BY <2>5, <3>1, <3>2, DigitFree
    <3> QED
      BY <3>1, <3>2, <3>3
  <2>9. /\ Base64Decode(parts[9]) = m.encryptedSessionKey
        /\ Base64Decode(parts[10]) = m.encryptedPayload
        /\ Base64Decode(parts[11]) = m.encryptedSelfSessionKey
    <3>1. /\ m.encryptedSessionKey \in Seq(Byte) /\ m.encryptedPayload \in Seq(Byte)
          /\ m.encryptedSelfSessionKey \in Seq(Byte)
      BY DEF Message
    <3> QED
      BY <2>5, <3>1, Base64Undone
  <2>10. Deserialize(chars) =
           [messageId |-> m.messageId, sender |-> m.sender, receiver |-> m.receiver,
            chatId |-> m.chatId, timestamp |-> m.timestamp, status |-> m.status,
            isGroupMessage |-> m.isGroupMessage, deletedForAll |-> m.deletedForAll,
            encryptedSessionKey |-> m.encryptedSessionKey,
            encryptedPayload |-> m.encryptedPayload,
            encryptedSelfSessionKey |-> m.encryptedSelfSessionKey]
    BY <2>2, <2>4, <2>5, <2>6, <2>7, <2>8, <2>9 DEF Deserialize
  <2>11. Deserialize(chars) = m
    BY <2>10 DEF Message
  <2> QED
    BY <1>2, <1>3, <1>7, <2>11
<1> QED
  BY <1>6, <1>7

-----------------------------------------------------------------------------
(* Conversation keys.                                                      *)

(* The characters of three strings joined.                                 *)
LEMMA JoinedChars ==
  ASSUME NEW a \in Seq(Byte), NEW d \in Seq(Byte), NEW b \in Seq(Byte), NEW s, s = a \o d \o b
  PROVE  /\ Len(s) = Len(a) + Len(d) + Len(b)
         /\ \A i \in 1 .. Len(a) : s[i] = a[i]
         /\ \A i \in 1 .. Len(d) : s[Len(a) + i] = d[i]
         /\ \A i \in 1 .. Len(b) : s[Len(a) + Len(d) + i] = b[i]
<1>1. PICK n \in Nat, m \in Nat, k \in Nat : n = Len(a) /\ m = Len(d) /\ k = Len(b)
  BY LenProperties
<1>2. PICK c : c = a \o d
  OBVIOUS
<1>3. /\ c \in Seq(Byte) /\ Len(c) = n + m
      /\ \A i \in 1 .. n + m : c[i] = IF i <= n THEN a[i] ELSE d[i - n]
  BY <1>1, <1>2, ConcatProperties
<1>4. /\ Len(s) = n + m + k
      /\ \A i \in 1 .. n + m + k : s[i] = IF i <= n + m THEN c[i] ELSE b[i - (n + m)]
  BY <1>1, <1>2, <1>3, ConcatProperties
<1>5. ASSUME NEW i \in 1 .. n PROVE s[i] = a[i]
  <2>1. i \in 1 .. n + m /\ i \in 1 .. n + m + k /\ i <= n /\ i <= n + m
    OBVIOUS
  <2> QED
    BY <1>3, <1>4, <2>1
<1>6. ASSUME NEW i \in 1 .. m PROVE s[n + i] = d[i]
  <2>1. /\ n + i \in 1 .. n + m /\ n + i \in 1 .. n + m + k /\ ~(n + i <= n)
        /\ n + i <= n + m /\ n + i - n = i
    OBVIOUS
  <2>2. s[n + i] = c[n + i]
    BY <1>4, <2>1
  <2>3. c[n + i] = d[n + i - n]
    <3>1. PICK x \in 1 .. n + m : x = n + i
      BY <2>1
    <3>2. c[x] = d[x - n]
      BY <1>3, <2>1, <3>1
    <3> QED
      BY <3>1, <3>2
  <2> QED
    BY <2>1, <2>2, <2>3
<1>7. ASSUME NEW i \in 1 .. k PROVE s[n + m + i] = b[i]
  <2>1. /\ n + m + i \in 1 .. n + m + k /\ ~(n + m + i <= n + m)
        /\ n + m + i - (n + m) = i
    OBVIOUS
  <2>2. s[n + m + i] = b[n + m + i - (n + m)]
    BY <1>4, <2>1
  <2> QED
    BY <2>1, <2>2
<1> QED
  BY <1>1, <1>4, <1>5, <1>6, <1>7

Name(a) == a \in Seq(Byte) /\ Colon \notin Range(a)
KeyOf(a, b) == a \o <<Colon, Colon>> \o b

(* A name has no colon at any place.                                       *)
LEMMA NameChars ==
  ASSUME NEW a, Name(a), NEW i \in 1 .. Len(a)
  PROVE  a[i] # Colon
<1>1. DOMAIN a = 1 .. Len(a)
  BY LenProperties DEF Name
<1> QED
  BY <1>1 DEF Name, Range

(* The characters of a are in s, after the first k.                        *)
Shows(s, k, a) == \A i \in 1 .. Len(a) : s[k + i] = a[i]

(* The characters of two names joined with two colons.                     *)
LEMMA ColonChars ==
  ASSUME NEW a, Name(a), NEW b, Name(b), NEW s, s = KeyOf(a, b)
  PROVE  /\ Len(s) = Len(a) + 2 + Len(b)
         /\ s[Len(a) + 1] = Colon
         /\ Shows(s, 0, a) /\ Shows(s, Len(a) + 2, b)
<1>1. PICK d \in Seq(Byte) : d = <<Colon, Colon>> /\ Len(d) = 2 /\ d[1] = Colon
  <2>1. Colon \in Byte
    BY DEF Colon, Byte
  <2>2. \A x \in Byte : <<x, x>> \in Seq(Byte) /\ Len(<<x, x>>) = 2 /\ <<x, x>>[1] = x
    OBVIOUS
  <2> QED
    BY <2>1, <2>2
<1>2. a \in Seq(Byte) /\ b \in Seq(Byte) /\ s = a \o d \o b
  BY <1>1 DEF Name, KeyOf
<1>3. Len(s) = Len(a) + Len(d) + Len(b)
  BY <1>2, JoinedChars
<1>4. \A i \in 1 .. Len(a) : s[i] = a[i]
  BY <1>2, JoinedChars
<1>5. \A i \in 1 .. Len(d) : s[Len(a) + i] = d[i]
  BY <1>2, JoinedChars
<1>6. \A i \in 1 .. Len(b) : s[Len(a) + Len(d) + i] = b[i]
  BY <1>2, JoinedChars
<1>7. Shows(s, 0, a)
  BY <1>4 DEF Shows
<1>8. Shows(s, Len(a) + 2, b)
  BY <1>1, <1>6 DEF Shows
<1> QED
  BY <1>1, <1>3, <1>5, <1>7, <1>8

(* The name before the first ':' ends where the first two colons are.      *)
LEMMA NotLonger ==
  ASSUME NEW a, Name(a), NEW b, Name(b), NEW c, Name(c), NEW d, Name(d),
         KeyOf(a, b) = KeyOf(c, d)
  PROVE  ~(Len(a) < Len(c))
<1>1. PICK s : s = KeyOf(a, b) /\ s = KeyOf(c, d)
  OBVIOUS
<1>2. SUFFICES ASSUME Len(a) < Len(c) PROVE FALSE
  OBVIOUS
<1>3. s[Len(a) + 1] = Colon
  BY <1>1, ColonChars
<1>4. Shows(s, 0, c)
  BY <1>1, ColonChars
<1>5. Len(a) + 1 \in 1 .. Len(c)
  BY <1>2, LenProperties DEF Name
<1>6. s[Len(a) + 1] = c[Len(a) + 1]
  BY <1>4, <1>5 DEF Shows
<1> QED
  BY <1>3, <1>5, <1>6, NameChars

(* Two colons between names without one can be read in one way only.       *)
LEMMA TwoNames ==
  ASSUME NEW a, Name(a), NEW b, Name(b), NEW c, Name(c), NEW d, Name(d),
         KeyOf(a, b) = KeyOf(c, d)
  PROVE  a = c /\ b = d
<1>1. PICK s : s = KeyOf(a, b) /\ s = KeyOf(c, d)
  OBVIOUS
<1>2. a \in Seq(Byte) /\ b \in Seq(Byte) /\ c \in Seq(Byte) /\ d \in Seq(Byte)
  BY DEF Name
<1>3. Len(a) \in Nat /\ Len(b) \in Nat /\ Len(c) \in Nat /\ Len(d) \in Nat
  BY <1>2, LenProperties
<1>4. Len(a) = Len(c)
  <2>1. ~(Len(a) < Len(c)) /\ ~(Len(c) < Len(a))
    BY NotLonger
  <2> QED
    BY <1>3, <2>1
<1>5. Len(s) = Len(a) + 2 + Len(b) /\ Len(s) = Len(c) + 2 + Len(d)
  BY <1>1, ColonChars
<1>6. Len(b) = Len(d)
  BY <1>3, <1>4, <1>5
<1>7. Shows(s, 0, a) /\ Shows(s, 0, c)
  BY <1>1, ColonChars
<1>8. Shows(s, Len(a) + 2, b) /\ Shows(s, Len(a) + 2, d)
  BY <1>1, <1>4, ColonChars
<1>9. a = c
  BY <1>2, <1>3, <1>4, <1>7, SeqEqual DEF Shows
<1>10. b = d
  BY <1>2, <1>3, <1>6, <1>8, SeqEqual DEF Shows
<1> QED
  BY <1>9, <1>10

(* A prefix has the same characters at the same places.                    *)
LEMMA PrefixChars ==
  ASSUME NEW a \in Seq(Byte), NEW b \in Seq(Byte)
  PROVE  IsPrefix(a, b) <=> Len(a) <= Len(b) /\ \A i \in 1 .. Len(a) : a[i] = b[i]
<1>1. Len(a) \in Nat /\ Len(b) \in Nat
  BY LenProperties
<1>2. SubSeq(a, 1, Len(a)) = a
  BY SubSeqFull
<1>3. CASE Len(a) <= Len(b)
  <2>1. PICK p : p = SubSeq(b, 1, Len(a))
    OBVIOUS
  <2>2. 1 \in 1 .. Len(b) + 1 /\ Len(a) \in 1 - 1 .. Len(b) /\ Len(a) - 1 + 1 = Len(a)
    BY <1>1, <1>3
  <2>3. /\ p \in Seq(Byte) /\ Len(p) = Len(a) - 1 + 1
        /\ \A i \in 1 .. Len(a) - 1 + 1 : p[i] = b[1 + i - 1]
    BY <2>1, <2>2, PartOf
  <2>4. p \in Seq(Byte) /\ Len(p) = Len(a) /\ \A i \in 1 .. Len(a) : p[i] = b[i]
    <3>1. \A i \in 1 .. Len(a) : i \in 1 .. Len(a) - 1 + 1 /\ 1 + i - 1 = i
      BY ONLY <1>1
    <3> QED
      BY ONLY <2>2, <2>3, <3>1
  <2>5. a = p <=> \A i \in 1 .. Len(a) : a[i] = b[i]
    BY <2>4, SeqEqual
  <2> QED
    BY <1>2, <1>3, <2>1, <2>5 DEF IsPrefix
<1>4. CASE ~(Len(a) <= Len(b))
  BY <1>4 DEF IsPrefix
<1> QED
  BY <1>3, <1>4

(* Of two different strings one is less than the other, and not both ways. *)
LEMMA LessAsymmetric ==
  ASSUME NEW a \in Seq(Byte), NEW b \in Seq(Byte), Less(a, b)
  PROVE  ~Less(b, a)
<1>1. /\ Len(a) \in Nat /\ DOMAIN a = 1 .. Len(a)
      /\ Len(b) \in Nat /\ DOMAIN b = 1 .. Len(b)
  BY LenProperties
<1>2. \A i \in 1 .. Len(a) : a[i] \in Nat
  BY ElementOfSeq, ByteNumber
<1>3. \A i \in 1 .. Len(b) : b[i] \in Nat
  BY ElementOfSeq, ByteNumber
<1>4. SUFFICES ASSUME Less(b, a) PROVE FALSE
  OBVIOUS
<1>5. CASE IsStrictPrefix(a, b)
  <2>1. Len(a) <= Len(b) /\ (\A i \in 1 .. Len(a) : a[i] = b[i]) /\ a # b
    BY <1>5, PrefixChars DEF IsStrictPrefix
  <2>2. CASE IsStrictPrefix(b, a)
    <3>1. Len(b) <= Len(a)
      BY <2>2, PrefixChars DEF IsStrictPrefix
    <3>2. Len(a) <= Len(b) /\ Len(a) \in Nat /\ Len(b) \in Nat
      BY <1>1, <2>1
    <3>3. Len(a) = Len(b)
      BY <3>1, <3>2
    <3> QED
      BY <2>1, <3>3, SeqEqual
  <2>3. CASE \E i \in DOMAIN b \cap DOMAIN a : b[i] < a[i] /\ \A j \in 1 .. i - 1 : b[j] = a[j]
    BY <1>1, <1>2, <2>1, <2>3
  <2> QED
    BY <1>4, <2>2, <2>3 DEF Less
<1>6. CASE \E i \in DOMAIN a \cap DOMAIN b : a[i] < b[i] /\ \A j \in 1 .. i - 1 : a[j] = b[j]
  <2>1. PICK i \in DOMAIN a \cap DOMAIN b : a[i] < b[i] /\ \A j \in 1 .. i - 1 : a[j] = b[j]
    BY <1>6
  <2>2. CASE IsStrictPrefix(b, a)
    <3>1. \A k \in 1 .. Len(b) : b[k] = a[k]
      BY <2>2, PrefixChars DEF IsStrictPrefix
    <3> QED
      BY <1>1, <1>2, <2>1, <3>1
  <2>3. CASE \E k \in DOMAIN b \cap DOMAIN a : b[k] < a[k] /\ \A j \in 1 .. k - 1 : b[j] = a[j]
    <3>1. PICK k \in DOMAIN b \cap DOMAIN a : b[k] < a[k] /\ \A j \in 1 .. k - 1 : b[j] = a[j]
      BY <2>3
    <3>2. i \in Nat /\ k \in Nat /\ i >= 1 /\ k >= 1
      BY <1>1
    <3>3. a[i] \in Nat /\ b[i] \in Nat /\ a[k] \in Nat /\ b[k] \in Nat
      BY <1>1, <1>2, <1>3
    <3>4. CASE i < k
      <4>1. i \in 1 .. k - 1
        BY <3>2, <3>4
      <4> QED
        BY <2>1, <3>1, <3>3, <4>1
    <3>5. CASE k < i
      <4>1. k \in 1 .. i - 1
        BY <3>2, <3>5
      <4> QED
        BY <2>1, <3>1, <3>3, <4>1
    <3>6. CASE i = k
      BY <2>1, <3>1, <3>3, <3>6
    <3> QED
      BY <3>2, <3>4, <3>5, <3>6
  <2> QED
    BY <1>4, <2>2, <2>3 DEF Less
<1> QED
  BY <1>5, <1>6 DEF Less

(* A set of natural numbers that is not empty has a least one.             *)
LEMMA LeastNumber ==
  ASSUME NEW T, T \subseteq Nat, T # {}
  PROVE  \E x \in T : \A y \in T : x <= y
<1>1. PICK x \in T : \A y \in T : ~(<<y, x>> \in OpToRel(<, Nat))
  BY NatLessThanWellFounded, WFMin
<1>2. \A y \in T : ~(y < x)
  BY <1>1 DEF OpToRel
<1> QED
  BY <1>2

(* Different strings are told apart at the first place where they differ,  *)
(* or one ends before.                                                     *)
LEMMA LessTotal ==
  ASSUME NEW a \in Seq(Byte), NEW b \in Seq(Byte), a # b
  PROVE  Less(a, b) \/ Less(b, a)
<1>1. /\ Len(a) \in Nat /\ DOMAIN a = 1 .. Len(a)
      /\ Len(b) \in Nat /\ DOMAIN b = 1 .. Len(b)
  BY LenProperties
<1>2. \A i \in 1 .. Len(a) : a[i] \in Nat
  BY ElementOfSeq, ByteNumber
<1>3. \A i \in 1 .. Len(b) : b[i] \in Nat
  BY ElementOfSeq, ByteNumber
<1>4. PICK T : T = {i \in (1 .. Len(a)) \cap (1 .. Len(b)) : a[i] # b[i]}
  OBVIOUS
<1>5. CASE T = {}
  <2>1. \A i \in (1 .. Len(a)) \cap (1 .. Len(b)) : a[i] = b[i]
    BY <1>4, <1>5
  <2>2. CASE Len(a) <= Len(b)
    <3>1. \A i \in 1 .. Len(a) : a[i] = b[i]
      BY <1>1, <2>1, <2>2
    <3> QED
      BY <2>2, <3>1, PrefixChars DEF Less, IsStrictPrefix
  <2>3. CASE Len(b) <= Len(a)
    <3>1. \A i \in 1 .. Len(b) : b[i] = a[i]
      BY <1>1, <2>1, <2>3
    <3> QED
      BY <2>3, <3>1, PrefixChars DEF Less, IsStrictPrefix
  <2> QED
    BY <1>1, <2>2, <2>3
<1>6. CASE T # {}
  <2>1. T \subseteq Nat
    BY <1>1, <1>4
  <2>2. PICK i \in T : \A j \in T : i <= j
    BY <1>6, <2>1, LeastNumber
  <2>3. i \in 1 .. Len(a) /\ i \in 1 .. Len(b) /\ a[i] # b[i] /\ i \in Nat
    BY <1>4, <2>1, <2>2
  <2>4. \A j \in 1 .. i - 1 : a[j] = b[j]
    <3> TAKE j \in 1 .. i - 1
    <3>1. j \in 1 .. Len(a) /\ j \in 1 .. Len(b) /\ ~(i <= j)
      BY <1>1, <2>3
    <3> QED
      BY <1>4, <2>2, <3>1
  <2>5. a[i] < b[i] \/ b[i] < a[i]
    BY <1>2, <1>3, <2>3
  <2> QED
    BY <1>1, <2>3, <2>4, <2>5 DEF Less
<1> QED
  BY <1>5, <1>6

KeyOfPair(a, b, c, d) ==
  MakeConversationKey(a, b) = MakeConversationKey(c, d) <=> {a, b} = {c, d}

(* A conversation has one key, whoever asks, and no other conversation has *)
(* it.                                                                     *)
LEMMA KeyNamesBoth ==
  ASSUME NEW a, Name(a), NEW b, Name(b), NEW c, Name(c), NEW d, Name(d)
  PROVE  KeyOfPair(a, b, c, d)
<1>1. \A x, y : MakeConversationKey(x, y) = IF Less(x, y) THEN KeyOf(x, y) ELSE KeyOf(y, x)
  BY Zenon DEF MakeConversationKey, KeyOf
<1>2. ASSUME MakeConversationKey(a, b) = MakeConversationKey(c, d) PROVE {a, b} = {c, d}
  <2>1. PICK x, y : x \in {a, b} /\ y \in {a, b} /\ {a, b} = {x, y}
                    /\ MakeConversationKey(a, b) = KeyOf(x, y)
    <3>1. CASE Less(a, b)
      BY <1>1, <3>1
    <3>2. CASE ~Less(a, b)
      BY <1>1, <3>2
    <3> QED
      BY <3>1, <3>2
  <2>2. PICK u, v : u \in {c, d} /\ v \in {c, d} /\ {c, d} = {u, v}
                    /\ MakeConversationKey(c, d) = KeyOf(u, v)
    <3>1. CASE Less(c, d)
      BY <1>1, <3>1
    <3>2. CASE ~Less(c, d)
      BY <1>1, <3>2
    <3> QED
      BY <3>1, <3>2
  <2>3. KeyOf(x, y) = KeyOf(u, v) /\ Name(x) /\ Name(y) /\ Name(u) /\ Name(v)
    BY <1>2, <2>1, <2>2
  <2>4. x = u /\ y = v
    BY <2>3, TwoNames
  <2> QED
    BY <2>1, <2>2, <2>4
<1>3. MakeConversationKey(a, b) = MakeConversationKey(b, a)
  <2>1. CASE a = b
    BY <2>1
  <2>2. CASE a # b
    <3>1. Less(a, b) <=> ~Less(b, a)
      BY <2>2, LessAsymmetric, LessTotal DEF Name
    <3> QED
      BY <1>1, <3>1
  <2> QED
    BY <2>1, <2>2
<1>4. ASSUME {a, b} = {c, d} PROVE MakeConversationKey(a, b) = MakeConversationKey(c, d)
  <2>1. (a = c /\ b = d) \/ (a = d /\ b = c)
    BY <1>4
  <2> QED
    BY <1>3, <2>1
<1> QED
  BY <1>2, <1>4 DEF KeyOfPair

-----------------------------------------------------------------------------
(* The message on its way.                                                 *)

Typed ==
  /\ stage \in {"typed", "written", "stored"}
  /\ from \in Users /\ to \in Users /\ chat \in GroupIds \cup {<<>>} /\ text \in Texts

(* What sendMessage and sendGroupMessage make with a session key.          *)
Composed(key) ==
  [messageId |-> <<49>>, sender |-> NameOf[from], receiver |-> NameOf[to],
   chatId |-> chat, timestamp |-> 7, status |-> "Sent",
   isGroupMessage |-> chat # <<>>, deletedForAll |-> FALSE,
   encryptedSessionKey |-> Seal(to, key), encryptedPayload |-> Encrypt(text, key),
   encryptedSelfSessionKey |-> IF chat = <<>> THEN Seal(from, key) ELSE <<>>]

(* The line was written with a key, and the message is still that one, but *)
(* for its status.                                                         *)
MadeWith(key) ==
  /\ line = Serialize(Composed(key))
  /\ \E status \in {"Sent", "Delivered"} : message = [Composed(key) EXCEPT !.status = status]
  /\ stage = "written" => message = Composed(key)

Made == stage # "typed" => \E key \in SessionKeys : MadeWith(key)
Unseen == stage # "stored" => view = None

MInv == Typed /\ Made /\ Unseen /\ EventExact /\ ViewExact

(* A message of the sender for the receiver, whatever its status.          *)
Carries(m, key) ==
  /\ m \in Message
  /\ m.messageId = <<49>> /\ m.sender = NameOf[from] /\ m.receiver = NameOf[to]
  /\ m.chatId = chat /\ m.isGroupMessage = (chat # <<>>)
  /\ m.encryptedSessionKey = Seal(to, key) /\ m.encryptedPayload = Encrypt(text, key)
  /\ m.encryptedSelfSessionKey = IF chat = <<>> THEN Seal(from, key) ELSE <<>>

(* The name of a user has no colon.                                        *)
LEMMA UserNames ==
  ASSUME NEW u \in Users
  PROVE  Name(NameOf[u]) /\ NameOf[u] \in Seq(Byte)
  BY NamesAssumption DEF Name

(* A text and the id of a chat are strings.                                *)
LEMMA TypedStrings ==
  ASSUME Typed
  PROVE  chat \in Seq(Byte) /\ text \in Seq(Byte)
<1>1. <<>> \in Seq(Byte)
  OBVIOUS
<1> QED
  BY <1>1, StringsAssumption DEF Typed

(* What is composed is a message from the sender to the receiver, and with *)
(* another status it still is.                                             *)
LEMMA ComposedCarries ==
  ASSUME Typed, NEW key \in SessionKeys
  PROVE  /\ Composed(key) \in Message /\ Composed(key).status = "Sent"
         /\ \A status \in {"Sent", "Delivered"} :
              /\ Carries([Composed(key) EXCEPT !.status = status], key)
              /\ [Composed(key) EXCEPT !.status = status].status = status
<1>1. key \in Byte /\ from \in Byte /\ to \in Byte /\ from \in Users /\ to \in Users
  BY KeysAssumption DEF Typed
<1>2. \A u \in Byte : Seal(u, key) \in Seq(Byte)
  <2>1. \A x, y, z, w \in Byte : <<x, y, z, w>> \in Seq(Byte)
    OBVIOUS
  <2>2. 0 \in Byte
    BY DEF Byte
  <2> QED
    BY <1>1, <2>1, <2>2 DEF Seal
<1>3. Encrypt(text, key) \in Seq(Byte)
  BY <1>1, TypedStrings, EncryptBytes
<1>4. /\ NameOf[from] \in Seq(Byte) /\ NameOf[to] \in Seq(Byte) /\ chat \in Seq(Byte)
  BY <1>1, UserNames, TypedStrings
<1>5. PICK k : k = Seal(to, key) /\ k \in Seq(Byte)
  BY <1>1, <1>2
<1>6. PICK self : self = (IF chat = <<>> THEN Seal(from, key) ELSE <<>>) /\ self \in Seq(Byte)
  <2>1. <<>> \in Seq(Byte)
    OBVIOUS
  <2>2. (IF chat = <<>> THEN Seal(from, key) ELSE <<>>) \in Seq(Byte)
    BY <1>1, <1>2, <2>1
  <2> QED
    BY <2>2
<1>7. PICK p : p = Encrypt(text, key) /\ p \in Seq(Byte)
  BY <1>3
<1>8. PICK id : id = <<49>>
  OBVIOUS
<1>9. PICK group \in BOOLEAN : group = (chat # <<>>)
  OBVIOUS
<1>10. PICK a, b : a = NameOf[from] /\ b = NameOf[to]
  OBVIOUS
<1>11. Composed(key) =
         [messageId |-> id, sender |-> a, receiver |-> b, chatId |-> chat, timestamp |-> 7,
          status |-> "Sent", isGroupMessage |-> group, deletedForAll |-> FALSE,
          encryptedSessionKey |-> k, encryptedPayload |-> p, encryptedSelfSessionKey |-> self]
  BY <1>5, <1>6, <1>7, <1>8, <1>9, <1>10 DEF Composed
<1>12. PICK c : c = Composed(key)
  OBVIOUS
<1>13. c \in Message /\ c.status = "Sent"
  BY <1>4, <1>5, <1>6, <1>7, <1>8, <1>9, <1>10, <1>11, <1>12 DEF Message
<1>14. /\ c.messageId = id /\ c.sender = a /\ c.receiver = b /\ c.chatId = chat
       /\ c.isGroupMessage = group /\ c.encryptedSessionKey = k /\ c.encryptedPayload = p
       /\ c.encryptedSelfSessionKey = self
  BY <1>11, <1>12
<1>15. ASSUME NEW status \in {"Sent", "Delivered"}
       PROVE  /\ Carries([c EXCEPT !.status = status], key)
              /\ [c EXCEPT !.status = status].status = status
  <2>1. PICK m : m = [c EXCEPT !.status = status]
    OBVIOUS
  <2>2. m \in Message /\ m.status = status
    BY <1>13, <2>1 DEF Message
  <2>3. /\ m.messageId = c.messageId /\ m.sender = c.sender /\ m.receiver = c.receiver
        /\ m.chatId = c.chatId /\ m.isGroupMessage = c.isGroupMessage
        /\ m.encryptedSessionKey = c.encryptedSessionKey
        /\ m.encryptedPayload = c.encryptedPayload
        /\ m.encryptedSelfSessionKey = c.encryptedSelfSessionKey
    BY <1>13, <2>1 DEF Message
  <2>4. Carries(m, key)
    BY <1>5, <1>6, <1>7, <1>8, <1>9, <1>10, <1>14, <2>2, <2>3 DEF Carries
  <2> QED
    BY <2>1, <2>2, <2>4
<1> QED
  BY <1>12, <1>13, <1>15

(* The parties read the text, and nobody else does.                        *)
LEMMA ReadBy ==
  ASSUME Typed, NEW key \in SessionKeys, NEW m, Carries(m, key), NEW u \in Users
  PROVE  Read(u, m) = IF u = to \/ (chat = <<>> /\ u = from) THEN text ELSE None
<1>1. from \in Users /\ to \in Users /\ key \in Byte /\ text \in Seq(Byte)
  BY KeysAssumption, TypedStrings DEF Typed
<1>2. \A v \in Users : NameOf[v] = NameOf[u] => v = u
  BY NamesAssumption
<1>3. \A v : Seal(v, key) # <<>> /\ Unseal(v, Seal(v, key)) = key
             /\ (u # v => Unseal(u, Seal(v, key)) = None)
  BY DEF Seal, Unseal
<1>4. Decrypt(Encrypt(text, key), key) = text
  BY <1>1, DecryptEncrypt
<1>5. key # None
  BY NoneAssumption
<1>6. ASSUME Unseal(u, KeyToUse(u, m)) = key PROVE Read(u, m) = text
  BY <1>4, <1>5, <1>6 DEF Read, Carries
<1>7. ASSUME Unseal(u, KeyToUse(u, m)) = None PROVE Read(u, m) = None
  BY <1>7 DEF Read
<1>8. KeyToUse(u, m) = IF u = from /\ chat = <<>> THEN Seal(from, key) ELSE Seal(to, key)
  <2>1. CASE chat = <<>>
    <3>1. m.encryptedSelfSessionKey = Seal(from, key) /\ m.encryptedSessionKey = Seal(to, key)
          /\ m.sender = NameOf[from]
      BY <2>1 DEF Carries
    <3>2. m.encryptedSelfSessionKey # <<>>
      BY <1>3, <3>1
    <3> QED
      BY <1>1, <1>2, <2>1, <3>1, <3>2 DEF KeyToUse
  <2>2. CASE chat # <<>>
    <3>1. m.encryptedSelfSessionKey = <<>> /\ m.encryptedSessionKey = Seal(to, key)
      BY <2>2 DEF Carries
    <3> QED
      BY <2>2, <3>1 DEF KeyToUse
  <2> QED
    BY <2>1, <2>2
<1>9. CASE u = to \/ (chat = <<>> /\ u = from)
  <2>1. Unseal(u, KeyToUse(u, m)) = key
    BY <1>3, <1>8, <1>9
  <2> QED
    BY <1>6, <1>9, <2>1
<1>10. CASE ~(u = to \/ (chat = <<>> /\ u = from))
  <2>1. Unseal(u, KeyToUse(u, m)) = None
    BY <1>3, <1>8, <1>10
  <2> QED
    BY <1>7, <1>10, <2>1
<1> QED
  BY <1>9, <1>10

(* Each sealed key opens with the private key it was sealed for and with   *)
(* no other, and there is one for the sender of a direct message only.     *)
LEMMA OpensBy ==
  ASSUME Typed, NEW key \in SessionKeys, NEW m, Carries(m, key), NEW u \in Users
  PROVE  Opens(u, m) <=> u = to \/ (chat = <<>> /\ u = from)
<1>1. text # None /\ Decrypt(m.encryptedPayload, key) = text
  <2>1. key \in Byte /\ text \in Seq(Byte) /\ text \in Texts
    BY KeysAssumption, TypedStrings DEF Typed
  <2>2. Decrypt(Encrypt(text, key), key) = text
    BY <2>1, DecryptEncrypt
  <2> QED
    BY <2>1, <2>2, NoneAssumption DEF Carries
<1>2. key # None
  BY NoneAssumption
<1>3. \A v : Seal(v, key) # <<>> /\ Unseal(u, Seal(v, key)) = IF u = v THEN key ELSE None
  BY DEF Seal, Unseal
<1>4. CASE chat = <<>>
  <2>1. {m.encryptedSessionKey, m.encryptedSelfSessionKey} \ {<<>>}
          = {Seal(to, key), Seal(from, key)}
    BY <1>3, <1>4 DEF Carries
  <2>2. Opens(u, m) <=> \E v \in {to, from} :
                          /\ Unseal(u, Seal(v, key)) # None
                          /\ Decrypt(m.encryptedPayload, Unseal(u, Seal(v, key))) # None
    BY <2>1 DEF Opens
  <2> QED
    BY <1>1, <1>2, <1>3, <1>4, <2>2
<1>5. CASE chat # <<>>
  <2>1. {m.encryptedSessionKey, m.encryptedSelfSessionKey} \ {<<>>} = {Seal(to, key)}
    BY <1>3, <1>5 DEF Carries
  <2>2. Opens(u, m) <=> /\ Unseal(u, Seal(to, key)) # None
                        /\ Decrypt(m.encryptedPayload, Unseal(u, Seal(to, key))) # None
    BY <2>1 DEF Opens
  <2> QED
    BY <1>1, <1>2, <1>3, <1>5, <2>2
<1> QED
  BY <1>4, <1>5

(* The message stays one from the sender to the receiver.                  *)
LEMMA MessageCarries ==
  ASSUME Typed, NEW key \in SessionKeys, MadeWith(key)
  PROVE  Carries(message, key) /\ message.status \in {"Sent", "Delivered"}
<1>1. PICK status \in {"Sent", "Delivered"} : message = [Composed(key) EXCEPT !.status = status]
  BY DEF MadeWith
<1> QED
  BY <1>1, ComposedCarries

(* The line of a composed message is refused or read as it was composed.   *)
LEMMA ComposedRead ==
  ASSUME Typed, NEW key \in SessionKeys
  PROVE  Deserialize(Serialize(Composed(key))) = IF Delimited THEN None ELSE Composed(key)
<1>1. PICK m \in Message : m = Composed(key)
  BY ComposedCarries
<1>2. m.sender = NameOf[from] /\ m.receiver = NameOf[to] /\ m.chatId = chat
  BY <1>1 DEF Composed
<1>3. Deserialize(Serialize(m)) =
        IF \E s \in {m.sender, m.receiver, m.chatId} : Bar \in Range(s) THEN None ELSE m
  BY LineRead
<1> QED
  BY <1>1, <1>2, <1>3 DEF Delimited

(* MInv holds at the start.                                                *)
LEMMA InitMInv == Init => MInv
<1> SUFFICES ASSUME Init PROVE MInv
  OBVIOUS
<1>1. Typed /\ Made /\ Unseen
  BY DEF Init, Typed, Made, Unseen
<1>2. EventExact /\ ViewExact
  BY DEF Init, EventExact, ViewExact
<1> QED
  BY <1>1, <1>2 DEF MInv

(* Composing a message keeps MInv.                                         *)
LEMMA ComposeMInv ==
  ASSUME MInv, Compose
  PROVE  MInv'
<1>1. Typed /\ stage = "typed" /\ stage' = "written" /\ view = None /\ view' = None
      /\ from' = from /\ to' = to /\ chat' = chat /\ text' = text
  BY DEF MInv, Compose, Unseen
<1>2. Typed' /\ Unseen' /\ EventExact' /\ ViewExact'
  BY <1>1 DEF Typed, Unseen, EventExact, ViewExact
<1>3. PICK key \in SessionKeys : message' = Composed(key)
  BY DEF Compose, Composed, SealedWith
<1>4. Composed(key)' = Composed(key)
  BY <1>1 DEF Composed
<1>5. line' = Serialize(Composed(key))
  BY <1>3 DEF Compose
<1>6. message' = [Composed(key) EXCEPT !.status = "Sent"]
  <2>1. PICK c \in Message : c = Composed(key) /\ c.status = "Sent"
    BY <1>1, ComposedCarries
  <2>2. c = [c EXCEPT !.status = "Sent"]
    BY <2>1 DEF Message
  <2> QED
    BY <1>3, <2>1, <2>2
<1>7. MadeWith(key)'
  BY <1>3, <1>4, <1>5, <1>6 DEF MadeWith
<1>8. Made'
  BY <1>7 DEF Made
<1> QED
  BY <1>2, <1>8 DEF MInv

(* handleIncoming keeps MInv: it notifies of what was typed.               *)
LEMMA HandleIncomingMInv ==
  ASSUME MInv, HandleIncoming
  PROVE  MInv'
<1>1. Typed /\ stage = "written" /\ stage' = "stored" /\ view = None /\ view' = None
      /\ from' = from /\ to' = to /\ chat' = chat /\ text' = text /\ line' = line
      /\ message' = [message EXCEPT !.status = "Delivered"]
  BY DEF MInv, HandleIncoming, Unseen
<1>2. Typed' /\ Unseen' /\ ViewExact'
  BY <1>1 DEF Typed, Unseen, ViewExact
<1>3. PICK key \in SessionKeys : MadeWith(key)
  BY <1>1 DEF MInv, Made
<1>4. PICK c \in Message : c = Composed(key) /\ c = message /\ c.status = "Sent"
  BY <1>1, <1>3, ComposedCarries DEF MadeWith
<1>5. Carries(c, key)
  <2>1. c = [c EXCEPT !.status = "Sent"]
    BY <1>4 DEF Message
  <2>2. Carries([c EXCEPT !.status = "Sent"], key)
    BY <1>1, <1>4, ComposedCarries
  <2> QED
    BY <2>1, <2>2
<1>6. Composed(key)' = Composed(key)
  BY <1>1 DEF Composed
<1>7. MadeWith(key)'
  <2>1. message' = [Composed(key) EXCEPT !.status = "Delivered"]
    BY <1>1, <1>4
  <2>2. line' = Serialize(Composed(key))
    BY <1>1, <1>3 DEF MadeWith
  <2> QED
    BY <1>1, <1>6, <2>1, <2>2 DEF MadeWith
<1>8. Made'
  BY <1>7 DEF Made
<1>9. Delimited' = Delimited
  BY <1>1 DEF Delimited
<1>10. Deserialize(line) = IF Delimited THEN None ELSE c
  BY <1>1, <1>3, <1>4, ComposedRead DEF MadeWith
<1>11. c # None /\ text # None
  BY <1>1, NoneAssumption DEF Typed
<1>12. message'.messageId = c.messageId
  BY <1>1, <1>4 DEF Message
<1>13. event' = IF Delimited THEN None
                ELSE [fromUser |-> NameOf[from], text |-> text, chatId |-> chat,
                      messageId |-> c.messageId, isGroupMessage |-> chat # <<>>]
  <2>1. CASE Delimited
    <3>1. Deserialize(line) = None
      BY <1>10, <2>1
    <3> QED
      BY <2>1, <3>1 DEF HandleIncoming
  <2>2. CASE ~Delimited
    <3>1. Deserialize(line) = c
      BY <1>10, <2>2
    <3>2. Read(to, c) = text
      <4>1. to \in Users
        BY <1>1 DEF Typed
      <4> QED
        BY <1>1, <1>5, <4>1, ReadBy
    <3>3. c.chatId = chat /\ c.isGroupMessage = (chat # <<>>)
      BY <1>5 DEF Carries
    <3>4. event' = [fromUser |-> NameOf[from], text |-> text, chatId |-> c.chatId,
                    messageId |-> c.messageId, isGroupMessage |-> c.isGroupMessage]
      BY <1>11, <3>1, <3>2 DEF HandleIncoming
    <3> QED
      BY <2>2, <3>3, <3>4
  <2> QED
    BY <2>1, <2>2
<1>14. EventExact'
  BY <1>1, <1>9, <1>12, <1>13 DEF EventExact
<1> QED
  BY <1>2, <1>8, <1>14 DEF MInv

(* A receiver who is offline is notified of nothing.                       *)
LEMMA MissMInv ==
  ASSUME MInv, Miss
  PROVE  MInv'
<1>1. Typed /\ stage = "written" /\ stage' = "stored" /\ view = None /\ view' = None
      /\ from' = from /\ to' = to /\ chat' = chat /\ text' = text /\ line' = line
      /\ message' = message
  BY DEF MInv, Miss, Unseen
<1>2. Typed' /\ Unseen' /\ ViewExact'
  BY <1>1 DEF Typed, Unseen, ViewExact
<1>3. PICK key \in SessionKeys : MadeWith(key)
  BY <1>1 DEF MInv, Made
<1>4. Composed(key)' = Composed(key)
  BY <1>1 DEF Composed
<1>5. MadeWith(key)'
  BY <1>1, <1>3, <1>4 DEF MadeWith
<1>6. Made'
  BY <1>5 DEF Made
<1>7. message.status = "Sent"
  BY <1>1, <1>3, ComposedCarries DEF MadeWith
<1>8. EventExact'
  BY <1>1, <1>7 DEF EventExact
<1> QED
  BY <1>2, <1>6, <1>8 DEF MInv

(* What the view of a party shows.                                         *)
LEMMA ViewOf ==
  ASSUME Typed, NEW key \in SessionKeys, MadeWith(key), NEW u \in Users,
         u = to \/ (chat = <<>> /\ u = from)
  PROVE  /\ View(u) # None /\ View(u).text = text
         /\ View(u).fromUser = NameOf[from] /\ View(u).toUser = NameOf[to]
<1>1. PICK m \in Message : m = message /\ Carries(m, key) /\ m.status \in {"Sent", "Delivered"}
  <2>1. Carries(message, key) /\ message.status \in {"Sent", "Delivered"}
    BY MessageCarries
  <2> QED
    BY <2>1 DEF Carries
<1>2. Read(u, m) = text /\ text \in Texts
  BY <1>1, ReadBy DEF Typed
<1>3. PICK v : v = View(u)
  OBVIOUS
<1>4. v = [messageId |-> m.messageId, fromUser |-> m.sender, toUser |-> m.receiver,
           chatId |-> m.chatId, text |-> text, status |-> m.status,
           isGroupMessage |-> m.isGroupMessage]
  BY <1>1, <1>2, <1>3 DEF View
<1>5. v \in MessageView
  <2>1. /\ m.messageId \in {<<49>>} /\ m.sender \in Seq(Byte) /\ m.receiver \in Seq(Byte)
        /\ m.chatId \in Seq(Byte) /\ m.status \in {"Sent", "Delivered", "Read"}
        /\ m.isGroupMessage \in BOOLEAN
    BY DEF Message
  <2> QED
    BY <1>2, <1>4, <2>1 DEF MessageView
<1>6. v.text = text /\ v.fromUser = m.sender /\ v.toUser = m.receiver
  BY <1>4
<1> QED
  BY <1>1, <1>3, <1>5, <1>6, NoneAssumption DEF Carries

(* Asking for a history changes nothing but the answer.                    *)
LEMMA AskMInv ==
  ASSUME MInv, ViewExact', stage = "stored",
         UNCHANGED <<stage, from, to, chat, text, message, line, event>>
  PROVE  MInv'
<1>1. stage' = stage /\ from' = from /\ to' = to /\ chat' = chat /\ text' = text
      /\ message' = message /\ line' = line /\ event' = event
  OBVIOUS
<1>2. Typed' /\ Unseen'
  BY <1>1 DEF MInv, Typed, Unseen
<1>3. EventExact'
  BY <1>1 DEF MInv, EventExact, Delimited
<1>4. PICK key \in SessionKeys : MadeWith(key)
  BY DEF MInv, Made
<1>5. Composed(key)' = Composed(key)
  BY <1>1 DEF Composed
<1>6. MadeWith(key)'
  BY <1>1, <1>4, <1>5 DEF MadeWith
<1>7. Made'
  BY <1>6 DEF Made
<1> QED
  BY <1>2, <1>3, <1>7 DEF MInv

(* getConversation finds the message under the key of its two parties      *)
(* only.                                                                   *)
LEMMA GetConversationMInv ==
  ASSUME MInv, NEW u \in Users, NEW peer \in Users, GetConversation(u, peer)
  PROVE  MInv'
<1>1. /\ Typed /\ stage = "stored"
      /\ UNCHANGED <<stage, from, to, chat, text, message, line, event>>
  BY DEF MInv, GetConversation
<1>2. PICK key \in SessionKeys : MadeWith(key)
  BY <1>1 DEF MInv, Made
<1>3. /\ message.isGroupMessage = (chat # <<>>) /\ message.sender = NameOf[from]
      /\ message.receiver = NameOf[to]
  BY <1>1, <1>2, MessageCarries DEF Carries
<1>4. from \in Users /\ to \in Users
  BY <1>1 DEF Typed
<1>5. MakeConversationKey(NameOf[u], NameOf[peer]) = MakeConversationKey(NameOf[from], NameOf[to])
        <=> {NameOf[u], NameOf[peer]} = {NameOf[from], NameOf[to]}
  <2>1. Name(NameOf[u]) /\ Name(NameOf[peer]) /\ Name(NameOf[from]) /\ Name(NameOf[to])
    BY <1>4, UserNames
  <2>2. PICK a, b, c, d : a = NameOf[u] /\ b = NameOf[peer] /\ c = NameOf[from] /\ d = NameOf[to]
    OBVIOUS
  <2>3. KeyOfPair(a, b, c, d)
    BY <2>1, <2>2, KeyNamesBoth
  <2> QED
    BY <2>2, <2>3 DEF KeyOfPair
<1> DEFINE party == chat = <<>> /\ {NameOf[u], NameOf[peer]} = {NameOf[from], NameOf[to]}
<1>6. PICK answer : answer = IF party THEN View(u) ELSE None
  OBVIOUS
<1>7. view' = [by |-> u, direct |-> TRUE, of |-> NameOf[peer], answer |-> answer]
  BY <1>3, <1>5, <1>6 DEF GetConversation
<1>8. party => u = to \/ (chat = <<>> /\ u = from)
  <2>1. \A v \in Users : NameOf[v] = NameOf[u] => v = u
    BY NamesAssumption
  <2> QED
    BY <1>4, <2>1
<1>9. party => /\ answer # None /\ answer.text = text
               /\ answer.fromUser = NameOf[from] /\ answer.toUser = NameOf[to]
  BY <1>1, <1>2, <1>6, <1>8, ViewOf
<1>10. ~party => answer = None
  BY <1>6
<1>11. /\ view'.direct = TRUE /\ view'.by = u /\ view'.of = NameOf[peer]
       /\ view'.answer = answer
  BY <1>7
<1>12. ViewExact'
  BY <1>1, <1>9, <1>10, <1>11 DEF ViewExact
<1> QED
  BY <1>1, <1>12, AskMInv

(* getGroupConversation gives a copy to the copy's receiver only.          *)
LEMMA GetGroupConversationMInv ==
  ASSUME MInv, NEW u \in Users, NEW g \in GroupIds, GetGroupConversation(u, g)
  PROVE  MInv'
<1>1. /\ Typed /\ stage = "stored"
      /\ UNCHANGED <<stage, from, to, chat, text, message, line, event>>
  BY DEF MInv, GetGroupConversation
<1>2. PICK key \in SessionKeys : MadeWith(key)
  BY <1>1 DEF MInv, Made
<1>3. /\ message.isGroupMessage = (chat # <<>>) /\ message.chatId = chat
      /\ message.receiver = NameOf[to]
  BY <1>1, <1>2, MessageCarries DEF Carries
<1>4. NameOf[to] = NameOf[u] <=> u = to
  <2>1. to \in Users
    BY <1>1 DEF Typed
  <2> QED
    BY <2>1, NamesAssumption
<1> DEFINE party == chat # <<>> /\ u = to /\ g = chat
<1>5. PICK answer : answer = IF party THEN View(u) ELSE None
  OBVIOUS
<1>6. view' = [by |-> u, direct |-> FALSE, of |-> g, answer |-> answer]
  BY <1>3, <1>4, <1>5 DEF GetGroupConversation
<1>7. party => /\ answer # None /\ answer.text = text
               /\ answer.fromUser = NameOf[from] /\ answer.toUser = NameOf[to]
  BY <1>1, <1>2, <1>5, ViewOf
<1>8. ~party => answer = None
  BY <1>5
<1>9. view'.direct = FALSE /\ view'.by = u /\ view'.of = g /\ view'.answer = answer
  BY <1>6
<1>10. ViewExact'
  BY <1>1, <1>7, <1>8, <1>9 DEF ViewExact
<1> QED
  BY <1>1, <1>10, AskMInv

(* Every step keeps MInv.                                                  *)
LEMMA StepMInv == MInv /\ [Next]_vars => MInv'
<1> SUFFICES ASSUME MInv, [Next]_vars PROVE MInv'
  OBVIOUS
<1>1. CASE Compose
  BY <1>1, ComposeMInv
<1>2. CASE HandleIncoming
  BY <1>2, HandleIncomingMInv
<1>3. CASE Miss
  BY <1>3, MissMInv
<1>4. CASE \E u, peer \in Users : GetConversation(u, peer)
  BY <1>4, GetConversationMInv
<1>5. CASE \E u \in Users, g \in GroupIds : GetGroupConversation(u, g)
  BY <1>5, GetGroupConversationMInv
<1>6. CASE UNCHANGED vars
  <2>1. stage' = stage /\ from' = from /\ to' = to /\ chat' = chat /\ text' = text
        /\ message' = message /\ line' = line /\ event' = event /\ view' = view
    BY <1>6 DEF vars
  <2>2. Typed' /\ Unseen' /\ EventExact' /\ ViewExact'
    BY <2>1 DEF MInv, Typed, Unseen, EventExact, ViewExact, Delimited
  <2>3. Made'
    <3>1. \A key : Composed(key)' = Composed(key)
      BY <2>1 DEF Composed
    <3>2. \A key : MadeWith(key)' = MadeWith(key)
      BY <2>1, <3>1 DEF MadeWith
    <3> QED
      BY <2>1, <3>2 DEF MInv, Made
  <2> QED
    BY <2>2, <2>3 DEF MInv
<1> QED
  BY <1>1, <1>2, <1>3, <1>4, <1>5, <1>6 DEF Next

(* MInv is an invariant of MessagePath.                                    *)
LEMMA AlwaysMInv == Spec => []MInv
  BY InitMInv, StepMInv, PTL DEF Spec

(* What deserialize makes of a line is the message that serialize was      *)
(* given, for every name, every text and both forms of the last field; and *)
(* it refuses exactly the lines with a '|' in a name or in the id of the   *)
(* chat.                                                                   *)
THEOREM LineRestored == Spec => []LineExact
<1>1. MInv => LineExact
  <2> SUFFICES ASSUME MInv, stage # "typed"
               PROVE  Deserialize(line) = IF Delimited THEN None
                                          ELSE [message EXCEPT !.status = "Sent"]
    BY DEF LineExact
  <2>1. Typed
    BY DEF MInv
  <2>2. PICK key \in SessionKeys : MadeWith(key)
    BY DEF MInv, Made
  <2>3. PICK c \in Message : c = Composed(key) /\ c.status = "Sent"
    BY <2>1, ComposedCarries
  <2>4. PICK status \in {"Sent", "Delivered"} : message = [c EXCEPT !.status = status]
    BY <2>2, <2>3 DEF MadeWith
  <2>5. [message EXCEPT !.status = "Sent"] = c
    BY <2>3, <2>4 DEF Message
  <2>6. Deserialize(line) = IF Delimited THEN None ELSE c
    BY <2>1, <2>2, <2>3, ComposedRead DEF MadeWith
  <2> QED
    BY <2>5, <2>6
<1> QED
  BY <1>1, AlwaysMInv, PTL

(* handleIncoming notifies of the text that was typed, of every length,    *)
(* the empty one included; and of nothing if the line was refused.         *)
THEOREM TextNotified == Spec => []EventExact
<1>1. MInv => EventExact
  BY DEF MInv
<1> QED
  BY <1>1, AlwaysMInv, PTL

(* getConversation and getGroupConversation show the message to its        *)
(* parties, whoever of them asks and also where the line was refused, and  *)
(* to nobody else, for all names without a colon.                          *)
THEOREM HistoryShown == Spec => []ViewExact
<1>1. MInv => ViewExact
  BY DEF MInv
<1> QED
  BY <1>1, AlwaysMInv, PTL

(* Whoever tries both sealed keys of a message opens it exactly if he is a *)
(* party: the sender, of a direct message, or the receiver.                *)
THEOREM PartiesRead == Spec => []PartiesOnly
<1>1. MInv => PartiesOnly
  <2> SUFFICES ASSUME MInv, stage # "typed", NEW u \in Users
               PROVE  Opens(u, message) <=> u = to \/ (chat = <<>> /\ u = from)
    BY DEF PartiesOnly
  <2>1. Typed
    BY DEF MInv
  <2>2. PICK key \in SessionKeys : MadeWith(key)
    BY DEF MInv, Made
  <2>3. Carries(message, key)
    BY <2>1, <2>2, MessageCarries
  <2> QED
    BY <2>1, <2>3, OpensBy
<1> QED
  BY <1>1, AlwaysMInv, PTL

=============================================================================
