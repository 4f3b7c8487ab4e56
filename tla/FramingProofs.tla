---------------------------- MODULE FramingProofs ----------------------------
(* What encode_frame writes and what the decoder makes of it, for every    *)
(* key, shift, cursor and packet.                                          *)
EXTENDS Framing, TLAPS, SequenceTheorems, WellFoundedInduction

Cursors == Cursor \cup {NoCursor}

(* The elements of a concatenation.                                        *)
LEMMA Concatenation ==
    ASSUME NEW S, NEW s \in Seq(S), NEW t \in Seq(S)
    PROVE  /\ s \o t \in Seq(S)
           /\ Len(s \o t) = Len(s) + Len(t)
           /\ \A i \in 1..Len(s) : (s \o t)[i] = s[i]
           /\ \A i \in 1..Len(t) : (s \o t)[Len(s) + i] = t[i]
<1>1. Len(s) \in Nat /\ Len(t) \in Nat  BY LenProperties
<1>2. ASSUME NEW i \in 1..Len(t) PROVE (s \o t)[Len(s) + i] = t[i]
  <2>1. /\ Len(s) + i \in 1..Len(s) + Len(t) /\ ~(Len(s) + i <= Len(s))
        /\ Len(s) + i - Len(s) = i
        BY <1>1
  <2>. QED BY <2>1, ConcatProperties
<1>. QED BY <1>1, <1>2, ConcatProperties

(* The same for bytes, in the form the proofs about frames cite.           *)
LEMMA BytesConcatenation ==
    \A s, t \in Seq(Byte) :
        /\ s \o t \in Seq(Byte)
        /\ Len(s \o t) = Len(s) + Len(t)
        /\ \A i \in 1..Len(s) : (s \o t)[i] = s[i]
        /\ \A i \in 1..Len(t) : (s \o t)[Len(s) + i] = t[i]
BY Concatenation

(* What follows position m in a sequence, up to position n.                *)
LEMMA Slice ==
    ASSUME NEW s \in Seq(Byte), NEW m \in Nat, NEW n \in Nat, m <= n, n <= Len(s)
    PROVE  /\ SubSeq(s, m + 1, n) \in Seq(Byte)
           /\ Len(SubSeq(s, m + 1, n)) = n - m
           /\ \A i \in 1..n - m : SubSeq(s, m + 1, n)[i] = s[m + i]
<1>1. \A i \in m + 1..n : s[i] \in Byte  BY ElementOfSeq
<1>2. /\ m + 1 \in Int /\ n \in Int /\ n - (m + 1) + 1 = n - m
      /\ (IF m + 1 <= n THEN n - (m + 1) + 1 ELSE 0) = n - m
      OBVIOUS
<1>3. \A i \in 1..n - m : m + 1 + i - 1 = m + i  OBVIOUS
<1>4. /\ SubSeq(s, m + 1, n) \in Seq(Byte)
      /\ Len(SubSeq(s, m + 1, n)) = IF m + 1 <= n THEN n - (m + 1) + 1 ELSE 0
      /\ \A i \in 1..n - (m + 1) + 1 : SubSeq(s, m + 1, n)[i] = s[m + 1 + i - 1]
  <2>. DEFINE j == m + 1
  <2>1. j \in Int /\ n \in Int /\ \A i \in j..n : s[i] \in Byte  BY <1>1
  <2>. HIDE DEF j
  <2>2. /\ SubSeq(s, j, n) \in Seq(Byte)
        /\ Len(SubSeq(s, j, n)) = IF j <= n THEN n - j + 1 ELSE 0
        /\ \A i \in 1..n - j + 1 : SubSeq(s, j, n)[i] = s[j + i - 1]
        BY <2>1, SubSeqProperties
  <2>. QED BY <2>2, Zenon DEF j
<1>. QED BY <1>2, <1>3, <1>4, Zenon

(* A slice, extended by the slice behind it.                               *)
LEMMA SliceExtended ==
    ASSUME NEW s \in Seq(Byte), NEW m \in Nat, NEW k \in Nat, NEW n \in Nat,
           m <= k, k <= n, n <= Len(s)
    PROVE  SubSeq(s, m + 1, k) \o SubSeq(s, k + 1, n) = SubSeq(s, m + 1, n)
<1>. DEFINE j == m + 1
<1>1. Len(s) \in Nat  BY LenProperties
<1>2. j \in 1..Len(s) + 1 /\ k \in j - 1..Len(s) /\ n \in k..Len(s)  BY <1>1
<1>. HIDE DEF j
<1>3. SubSeq(s, j, k) \o SubSeq(s, k + 1, n) = SubSeq(s, j, n)
      BY <1>2, ConcatAdjacentSubSeq
<1>. QED BY <1>3, Zenon DEF j

(* A slice of a slice.                                                     *)
LEMMA SliceOfSlice ==
    ASSUME NEW s \in Seq(Byte), NEW m \in Nat, NEW k \in Nat, NEW n \in Nat,
           m + k <= n, n <= Len(s)
    PROVE  SubSeq(SubSeq(s, m + 1, n), k + 1, n - m) = SubSeq(s, (m + k) + 1, n)
<1>. DEFINE u == SubSeq(s, m + 1, n)
            l == n - m
            j == m + k
            v == SubSeq(u, k + 1, l)
            w == SubSeq(s, j + 1, n)
<1>1. l \in Nat /\ j \in Nat /\ k <= l /\ j <= n /\ m <= n /\ l - k = n - j  OBVIOUS
<1>2. /\ u \in Seq(Byte) /\ Len(u) = l
      /\ \A i \in 1..l : u[i] = s[m + i]
      BY <1>1, Slice
<1>. HIDE DEF u, l, j
<1>3. l <= Len(u)  BY <1>1, <1>2
<1>4. /\ v \in Seq(Byte) /\ Len(v) = l - k
      /\ \A i \in 1..l - k : v[i] = u[k + i]
      BY <1>1, <1>2, <1>3, Slice
<1>5. /\ w \in Seq(Byte) /\ Len(w) = n - j
      /\ \A i \in 1..n - j : w[i] = s[j + i]
      BY <1>1, Slice
<1>. HIDE DEF v, w
<1>6. ASSUME NEW i \in 1..Len(v) PROVE v[i] = w[i]
  <2>1. i \in 1..l - k /\ i \in 1..n - j  BY <1>1, <1>4, Zenon
  <2>2. k + i \in 1..l /\ m + (k + i) = j + i  BY <1>1, <2>1 DEF j
  <2>. QED BY <1>2, <1>4, <1>5, <2>1, <2>2, Zenon
<1>7. v = w  BY <1>1, <1>4, <1>5, <1>6, SeqEqual, Zenon
<1>. QED BY <1>7, Zenon DEF v, w, u, l, j

(* A slice of what a sequence was before it grew.                          *)
LEMMA SliceOfGrown ==
    ASSUME NEW s \in Seq(Byte), NEW t \in Seq(Byte), NEW m \in Nat, NEW n \in Nat,
           m <= n, n <= Len(s)
    PROVE  SubSeq(s \o t, m + 1, n) = SubSeq(s, m + 1, n)
<1>. DEFINE g == s \o t
            v == SubSeq(g, m + 1, n)
            w == SubSeq(s, m + 1, n)
<1>1. Len(s) \in Nat /\ Len(t) \in Nat  BY LenProperties
<1>2. /\ g \in Seq(Byte) /\ Len(g) = Len(s) + Len(t)
      /\ \A i \in 1..Len(s) : g[i] = s[i]
      BY BytesConcatenation
<1>. HIDE DEF g
<1>3. n <= Len(g)  BY <1>1, <1>2
<1>4. /\ v \in Seq(Byte) /\ Len(v) = n - m
      /\ \A i \in 1..n - m : v[i] = g[m + i]
      BY <1>2, <1>3, Slice
<1>5. /\ w \in Seq(Byte) /\ Len(w) = n - m
      /\ \A i \in 1..n - m : w[i] = s[m + i]
      BY Slice
<1>. HIDE DEF v, w
<1>6. ASSUME NEW i \in 1..Len(v) PROVE v[i] = w[i]
  <2>1. i \in 1..n - m  BY <1>4, Zenon
  <2>2. m + i \in 1..Len(s)  BY <1>1, <2>1
  <2>. QED BY <1>2, <1>4, <1>5, <2>1, <2>2, Zenon
<1>7. v = w  BY <1>4, <1>5, <1>6, SeqEqual, Zenon
<1>. QED BY <1>7, Zenon DEF v, w, g

(* A remainder is within its divisor.                                      *)
LEMMA RemainderRange == \A a \in Nat, m \in Nat : m > 0 => a % m \in 0..m - 1
OBVIOUS

(* The key is a sequence of bytes, and not an empty one.                   *)
LEMMA KeyLength == Len(Key) \in Nat /\ Len(Key) > 0 /\ Key \in Seq(Byte)
<1>1. Len(Key) \in 1..127 /\ Key \in Seq(Byte)  BY TransformAssumption, Zenon
<1>2. \A n \in 1..127 : n \in Nat /\ n > 0  OBVIOUS
<1>. QED BY <1>1, <1>2, Zenon

(* A key byte is a byte, whatever the index.                               *)
LEMMA KeyByteType == \A index \in Nat : KeyByte(index) \in Byte
<1>. SUFFICES ASSUME NEW index \in Nat PROVE KeyByte(index) \in Byte  OBVIOUS
<1>1. Len(Key) \in Nat /\ Len(Key) > 0 /\ Key \in Seq(Byte)  BY KeyLength
<1>2. index % Len(Key) \in 0..Len(Key) - 1  BY <1>1, RemainderRange
<1>. QED BY <1>1, <1>2, ElementOfSeq DEF KeyByte

(* A cursor stays within the key.                                          *)
LEMMA AdvanceType == \A c \in Cursor, n \in Nat : Advance(c, n) \in Cursor
<1>1. Len(Key) \in Nat /\ Len(Key) > 0  BY KeyLength
<1>. QED BY <1>1, RemainderRange DEF Advance, Cursor

(* The two halves of the transform undo each other.                        *)
LEMMA CommandUndone ==
    ASSUME NEW command \in Byte, NEW c \in Nat
    PROVE  /\ EncodeCommand(command, c) \in Byte
           /\ DecodeCommand(EncodeCommand(command, c), c) = command
<1>1. KeyByte(c) \in Byte  BY KeyByteType
<1>2. (command + Shift) % 256 \in Byte  BY TransformAssumption DEF Byte
<1>3. /\ EncodeCommand(command, c) \in Byte
      /\ XorByte(EncodeCommand(command, c), KeyByte(c)) = (command + Shift) % 256
      BY <1>1, <1>2, XorAssumption DEF EncodeCommand
<1>4. ((((command + Shift) % 256) - Shift) % 256) = command  BY TransformAssumption DEF Byte
<1>. QED BY <1>3, <1>4 DEF DecodeCommand

(* XorData keeps the length, and treats each byte by its place.            *)
LEMMA XorDataProperties ==
    ASSUME NEW bytes \in Seq(Byte), NEW c \in Nat
    PROVE  /\ XorData(bytes, c) \in Seq(Byte)
           /\ Len(XorData(bytes, c)) = Len(bytes)
           /\ \A i \in 1..Len(bytes) : XorData(bytes, c)[i] = XorByte(bytes[i], KeyByte(c + i - 1))
<1>1. ASSUME NEW i \in 1..Len(bytes) PROVE XorByte(bytes[i], KeyByte(c + i - 1)) \in Byte
  <2>1. bytes[i] \in Byte /\ c + i - 1 \in Nat  OBVIOUS
  <2>. QED BY <2>1, KeyByteType, XorAssumption
<1>. QED BY <1>1 DEF XorData

(* A number below 65536 is two bytes, and two bytes spell it.              *)
LEMMA TwoBytesUndone ==
    ASSUME NEW n \in Nat, n < Word
    PROVE  \E a, b \in Byte : TwoBytes(n) = <<a, b>> /\ n = a * 256 + b
<1>. DEFINE a == n \div 256
            b == n % 256
<1>1. a \in Byte /\ b \in Byte /\ n = a * 256 + b  BY SMT DEF Byte, Word
<1>2. TwoBytes(n) = <<a, b>>  BY DEF TwoBytes
<1>. HIDE DEF a, b
<1>. QED BY <1>1, <1>2

(* The literals of the length field, where the provers need them.          *)
LEMMA Words ==
    \A n \in Nat : /\ n \div Word \in Nat /\ n % Word \in Nat /\ n % Word < Word
                   /\ n = (n \div Word) * Word + (n % Word)
BY SMT DEF Word

(* A 32-bit length is the four bytes of its two halves.                    *)
LEMMA FourBytes ==
    ASSUME NEW a \in Byte, NEW b \in Byte, NEW x \in Byte, NEW y \in Byte
    PROVE  /\ <<a, b>> \o <<x, y>> \in Seq(Byte)
           /\ Len(<<a, b>> \o <<x, y>>) = 4
           /\ BigEndian(<<a, b>> \o <<x, y>>) = (a * 256 + b) * Word + (x * 256 + y)
<1>. DEFINE s == <<a, b>>
            t == <<x, y>>
<1>1. s \in Seq(Byte) /\ Len(s) = 2 /\ s[1] = a /\ s[2] = b  OBVIOUS
<1>2. t \in Seq(Byte) /\ Len(t) = 2 /\ t[1] = x /\ t[2] = y  OBVIOUS
<1>. HIDE DEF s, t
<1>3. /\ s \o t \in Seq(Byte) /\ Len(s \o t) = 4
      /\ (s \o t)[1] = a /\ (s \o t)[2] = b /\ (s \o t)[3] = x /\ (s \o t)[4] = y
      BY <1>1, <1>2, ConcatProperties
<1>4. BigEndian(s \o t) = (a * 256 + b) * Word + (x * 256 + y)
      BY <1>3, Zenon DEF BigEndian
<1>. QED BY <1>3, <1>4 DEF s, t

(* A length of the width of its frame is read as it was written.           *)
LEMMA LengthUndone ==
    ASSUME NEW p \in Packet, NEW d, Encodable(p, d)
    PROVE  LET wide == UsesLength32(p.command, d)
               n == Len(p.payload)
           IN  /\ LengthBytes(n, wide) \in Seq(Byte)
               /\ Len(LengthBytes(n, wide)) = LengthWidth(wide)
               /\ BigEndian(LengthBytes(n, wide)) = n
<1>. DEFINE wide == UsesLength32(p.command, d)
            n == Len(p.payload)
<1>1. n \in Nat  BY DEF Packet
<1>0. IF wide THEN n \div Word < Word ELSE n < Word  BY Zenon DEF Encodable
<1>. SUFFICES /\ LengthBytes(n, wide) \in Seq(Byte)
              /\ Len(LengthBytes(n, wide)) = LengthWidth(wide)
              /\ BigEndian(LengthBytes(n, wide)) = n
     OBVIOUS
<1>. HIDE DEF n, wide
<1>2. CASE wide
  <2>1. n \div Word < Word  BY <1>0, <1>2, Zenon
  <2>2. n \div Word \in Nat /\ n % Word \in Nat /\ n % Word < Word
        /\ n = (n \div Word) * Word + (n % Word)
        BY <1>1, Words
  <2>3. PICK a, b \in Byte : TwoBytes(n \div Word) = <<a, b>> /\ n \div Word = a * 256 + b
        BY <2>1, <2>2, TwoBytesUndone
  <2>4. PICK x, y \in Byte : TwoBytes(n % Word) = <<x, y>> /\ n % Word = x * 256 + y
        BY <2>2, TwoBytesUndone
  <2>5. LengthBytes(n, wide) = <<a, b>> \o <<x, y>> /\ LengthWidth(wide) = 4
        BY <1>2, <2>3, <2>4, Zenon DEF LengthBytes, LengthWidth
  <2>6. BigEndian(<<a, b>> \o <<x, y>>) = n  BY <2>2, <2>3, <2>4, FourBytes
  <2>7. <<a, b>> \o <<x, y>> \in Seq(Byte) /\ Len(<<a, b>> \o <<x, y>>) = 4  BY FourBytes
  <2>. QED BY <2>5, <2>6, <2>7, Zenon
<1>3. CASE ~wide
  <2>1. n < Word  BY <1>0, <1>3, Zenon
  <2>2. PICK a, b \in Byte : TwoBytes(n) = <<a, b>> /\ n = a * 256 + b
        BY <1>1, <2>1, TwoBytesUndone
  <2>3. LengthBytes(n, wide) = <<a, b>> /\ LengthWidth(wide) = 2
        BY <1>3, <2>2, Zenon DEF LengthBytes, LengthWidth
  <2>4. BigEndian(<<a, b>>) = a * 256 + b  BY SMT DEF BigEndian
  <2>5. <<a, b>> \in Seq(Byte) /\ Len(<<a, b>>) = 2  OBVIOUS
  <2>. QED BY <2>2, <2>3, <2>4, <2>5, Zenon
<1>. QED BY <1>2, <1>3, Zenon

------------------------------------------------------------------------------
(* A byte at distance i behind the command, on the wire.                   *)
Masked(c, wide, byte, i) ==
    IF c = NoCursor \/ wide THEN byte ELSE XorByte(byte, KeyByte(c + i))

(* Masking a byte twice is not masking it at all.                          *)
LEMMA MaskUndone ==
    ASSUME NEW c \in Cursors, NEW wide, NEW byte \in Byte, NEW i \in Nat
    PROVE  /\ Masked(c, wide, byte, i) \in Byte
           /\ Masked(c, wide, Masked(c, wide, byte, i), i) = byte
<1>1. CASE c = NoCursor \/ wide  BY <1>1, Zenon DEF Masked
<1>2. CASE ~(c = NoCursor \/ wide)
  <2>1. c \in Nat /\ c + i \in Nat  BY <1>2, KeyLength DEF Cursors, Cursor
  <2>2. KeyByte(c + i) \in Byte  BY <2>1, KeyByteType
  <2>. QED BY <1>2, <2>2, XorAssumption, Zenon DEF Masked
<1>. QED BY <1>1, <1>2

(* What the decoder takes from the buffer is the text that was masked.     *)
LEMMA ClearText ==
    ASSUME NEW b \in Seq(Byte), NEW c \in Cursors, NEW wide, NEW text \in Seq(Byte),
           NEW from \in Nat, NEW to \in Nat, from >= 2, to <= Len(b),
           Len(text) = to - from + 1,
           \A j \in 1..Len(text) : b[from + j - 1] = Masked(c, wide, text[j], from + j - 2)
    PROVE  Clear(b, c, wide, from, to) = text
<1>. DEFINE u == SubSeq(b, from, to)
<1>1. /\ u \in Seq(Byte) /\ Len(u) = Len(text)
      /\ \A j \in 1..Len(text) : u[j] = b[from + j - 1]
  <2>1. \A j \in from..to : b[j] \in Byte  OBVIOUS
  <2>2. Len(text) \in Nat  OBVIOUS
  <2>. QED BY <2>1, <2>2, SubSeqProperties
<1>. HIDE DEF u
<1>2. CASE c = NoCursor \/ wide
  <2>1. \A j \in 1..Len(text) : u[j] = text[j]  BY <1>1, <1>2, Zenon DEF Masked
  <2>2. u = text  BY <1>1, <2>1, SeqEqual
  <2>. QED BY <1>2, <2>2, Zenon DEF u, Clear
<1>3. CASE ~(c = NoCursor \/ wide)
  <2>. DEFINE x == XorData(u, c + from - 1)
  <2>. DEFINE k == c + from - 1
  <2>1. c \in Nat /\ k \in Nat  BY <1>3, KeyLength DEF Cursors, Cursor
  <2>. HIDE DEF k
  <2>5. /\ XorData(u, k) \in Seq(Byte) /\ Len(XorData(u, k)) = Len(u)
        /\ \A j \in 1..Len(u) : XorData(u, k)[j] = XorByte(u[j], KeyByte(k + j - 1))
        BY <1>1, <2>1, XorDataProperties
  <2>2. /\ x \in Seq(Byte) /\ Len(x) = Len(text)
        /\ \A j \in 1..Len(text) : x[j] = XorByte(u[j], KeyByte(c + from - 1 + j - 1))
        BY <1>1, <2>5, Zenon DEF k
  <2>. HIDE DEF x
  <2>3. ASSUME NEW j \in 1..Len(text) PROVE x[j] = text[j]
    <3>1. c + from - 1 + j - 1 = c + (from + j - 2)  BY <2>1
    <3>0. j \in Nat /\ j >= 1  BY LenProperties
    <3>2. from + j - 2 \in Nat /\ text[j] \in Byte  BY <3>0, ElementOfSeq
    <3>3. x[j] = XorByte(u[j], KeyByte(c + (from + j - 2)))  BY <2>2, <3>1
    <3>4. u[j] = Masked(c, wide, text[j], from + j - 2)  BY <1>1
    <3>5. x[j] = Masked(c, wide, u[j], from + j - 2)  BY <1>3, <3>3, Zenon DEF Masked
    <3>. QED BY <3>2, <3>4, <3>5, MaskUndone
  <2>4. x = text  BY <2>2, <2>3, SeqEqual
  <2>. QED BY <1>3, <2>4, Zenon DEF x, u, Clear
<1>. QED BY <1>2, <1>3

(* The layout of a frame: the command, the length, the payload.            *)
Layout(f, p, d, c, wide, n, W) ==
    /\ n = Len(p.payload) /\ n \in Nat /\ W = LengthWidth(wide) /\ W \in Nat
    /\ f \in Seq(Byte) /\ Len(f) = 1 + W + n /\ FrameSize(p, d) = 1 + W + n
    /\ f[1] = IF c = NoCursor THEN p.command ELSE EncodeCommand(p.command, c)
    /\ \A i \in 1..W : f[1 + i] = Masked(c, wide, LengthBytes(n, wide)[i], i)
    /\ \A i \in 1..n : f[1 + W + i] = Masked(c, wide, p.payload[i], W + i)

LEMMA FrameLayout ==
    ASSUME NEW p \in Packet, NEW d, Encodable(p, d), NEW c \in Cursors
    PROVE  Layout(EncodeFrame(p, d, c), p, d, c, UsesLength32(p.command, d),
                  Len(p.payload), LengthWidth(UsesLength32(p.command, d)))
<1>. DEFINE f == EncodeFrame(p, d, c)
            wide == UsesLength32(p.command, d)
            n == Len(p.payload)
            W == LengthWidth(wide)
            L == LengthBytes(n, wide)
            body == L \o p.payload
            command == IF c = NoCursor THEN p.command ELSE EncodeCommand(p.command, c)
            rest == IF c = NoCursor \/ wide THEN body ELSE XorData(body, c + 1)
<1>1. p.command \in Byte /\ p.payload \in Seq(Byte) /\ n \in Nat  BY DEF Packet
<1>2. L \in Seq(Byte) /\ Len(L) = W /\ BigEndian(L) = n  BY LengthUndone
<1>3. W \in Nat  BY <1>2, LenProperties
<1>4. c # NoCursor => c \in Nat /\ c + 1 \in Nat  BY KeyLength DEF Cursors, Cursor
<1>5. command \in Byte
  <2>1. c # NoCursor => EncodeCommand(p.command, c) \in Byte  BY <1>1, <1>4, CommandUndone
  <2>. QED BY <1>1, <2>1, Zenon
<1>12. FrameSize(p, d) = 1 + W + n  BY Zenon DEF FrameSize
<1>8. f = <<command>> \o rest  BY Zenon DEF EncodeFrame
<1>. HIDE DEF L, n, W, wide, f
<1>6. /\ body \in Seq(Byte) /\ Len(body) = W + n
      /\ \A i \in 1..W : body[i] = L[i]
      /\ \A i \in 1..n : body[W + i] = p.payload[i]
  <2>. DEFINE text == p.payload
  <2>1. text \in Seq(Byte) /\ n = Len(text)  BY <1>1, Zenon DEF n
  <2>. HIDE DEF text
  <2>2. /\ L \o text \in Seq(Byte) /\ Len(L \o text) = Len(L) + Len(text)
        /\ \A i \in 1..Len(L) : (L \o text)[i] = L[i]
        /\ \A i \in 1..Len(text) : (L \o text)[Len(L) + i] = text[i]
        BY <1>2, <2>1, BytesConcatenation, Zenon
  <2>. QED BY <1>2, <2>1, <2>2, Zenon DEF text
<1>. HIDE DEF body
<1>7. /\ rest \in Seq(Byte) /\ Len(rest) = W + n
      /\ \A i \in 1..W + n : rest[i] = Masked(c, wide, body[i], i)
  <2>1. CASE c = NoCursor \/ wide  BY <1>6, <2>1, Zenon DEF Masked
  <2>2. CASE ~(c = NoCursor \/ wide)
    <3>. DEFINE x == XorData(body, c + 1)
    <3>1. /\ x \in Seq(Byte) /\ Len(x) = W + n
          /\ \A i \in 1..W + n : x[i] = XorByte(body[i], KeyByte(c + 1 + i - 1))
          BY <1>4, <1>6, <2>2, XorDataProperties
    <3>. HIDE DEF x
    <3>2. \A i \in 1..W + n : c + 1 + i - 1 = c + i  BY <1>4, <2>2
    <3>3. rest = x  BY <2>2, Zenon DEF x
    <3>4. \A i \in 1..W + n : x[i] = Masked(c, wide, body[i], i)
          BY <2>2, <3>1, <3>2, Zenon DEF Masked
    <3>. QED BY <3>1, <3>3, <3>4, Zenon
  <2>. QED BY <2>1, <2>2
<1>. HIDE DEF command, rest
<1>9. /\ f \in Seq(Byte) /\ Len(f) = 1 + W + n /\ f[1] = command
      /\ \A i \in 1..W + n : f[1 + i] = rest[i]
  <2>1. <<command>> \in Seq(Byte) /\ Len(<<command>>) = 1 /\ <<command>>[1] = command
        BY <1>5
  <2>. DEFINE q == <<command>>
  <2>. HIDE DEF q
  <2>2. q \in Seq(Byte) /\ Len(q) = 1 /\ q[1] = command /\ f = q \o rest
        BY <1>8, <2>1 DEF q
  <2>3. /\ q \o rest \in Seq(Byte) /\ Len(q \o rest) = Len(q) + Len(rest)
        /\ \A i \in 1..Len(q) : (q \o rest)[i] = q[i]
        /\ \A i \in 1..Len(rest) : (q \o rest)[Len(q) + i] = rest[i]
        BY <1>7, <2>2, BytesConcatenation, Zenon
  <2>4. 1 \in 1..Len(q) /\ 1 + (W + n) = 1 + W + n  BY <1>1, <1>3, <2>2
  <2>5. Len(f) = 1 + W + n  BY <1>7, <2>2, <2>3, <2>4, Zenon
  <2>6. f[1] = command  BY <2>2, <2>3, <2>4, Zenon
  <2>7. \A i \in 1..Len(rest) : f[1 + i] = rest[i]  BY <2>2, <2>3, Zenon
  <2>. QED BY <1>7, <2>2, <2>3, <2>5, <2>6, <2>7, Zenon
<1>10. \A i \in 1..W : f[1 + i] = Masked(c, wide, L[i], i)
  <2>1. \A i \in 1..W : i \in 1..W + n  BY <1>1, <1>3
  <2>. QED BY <1>6, <1>7, <1>9, <2>1, Zenon
<1>11. \A i \in 1..n : f[1 + W + i] = Masked(c, wide, p.payload[i], W + i)
  <2>1. \A i \in 1..n : W + i \in 1..W + n /\ 1 + W + i = 1 + (W + i)  BY <1>1, <1>3
  <2>2. ASSUME NEW i \in 1..n PROVE f[1 + W + i] = Masked(c, wide, p.payload[i], W + i)
    <3>1. f[1 + W + i] = rest[W + i]  BY <1>9, <2>1, Zenon
    <3>2. rest[W + i] = Masked(c, wide, body[W + i], W + i)  BY <1>7, <2>1, Zenon
    <3>3. body[W + i] = p.payload[i]  BY <1>6, Zenon
    <3>. QED BY <3>1, <3>2, <3>3, Zenon
  <2>. QED BY <2>2, Zenon
<1>. QED BY <1>1, <1>3, <1>9, <1>10, <1>11, <1>12, Zenon DEF Layout, f, n, W, wide, L, command
------------------------------------------------------------------------------
(* The three ways out of _decode_one when the buffer holds the frame of p, *)
(* whole, in part or with more behind it.                                  *)
Waits(r, b, p, d, c) ==
    r = Undecided("wait", b, c) /\ Len(b) < FrameSize(p, d)

Refuses(r, b, p, c, max) ==
    r = Undecided("oversize", b, c) /\ Len(p.payload) > max

Yields(r, b, p, d, c, max) ==
    /\ r.kind = "packet" /\ r.packet = p
    /\ r.buffer = SubSeq(b, FrameSize(p, d) + 1, Len(b))
    /\ r.cursor = CursorAfter(p, d, c)
    /\ Len(b) >= FrameSize(p, d) /\ Len(p.payload) <= max

(* As far as the buffer agrees with the frame that was encoded, the        *)
(* decoder with the encoder's cursor yields that packet and the encoder's  *)
(* next cursor, or leaves the buffer and the cursor as they are, because   *)
(* bytes are missing or because the payload is too long.                   *)
(* framing.py:53-82, 145-186                                               *)
THEOREM FramingUndone ==
    ASSUME NEW p \in Packet, NEW d, Encodable(p, d), NEW c \in Cursors, NEW max \in Nat,
           NEW b \in Seq(Byte),
           \A i \in 1..Len(b) : i <= FrameSize(p, d) => b[i] = EncodeFrame(p, d, c)[i]
    PROVE  \/ Waits(DecodeOne(b, c, d, max), b, p, d, c)
           \/ Refuses(DecodeOne(b, c, d, max), b, p, c, max)
           \/ Yields(DecodeOne(b, c, d, max), b, p, d, c, max)
<1>. DEFINE f == EncodeFrame(p, d, c)
            r == DecodeOne(b, c, d, max)
            n == Len(p.payload)
            command == IF c = NoCursor THEN b[1] ELSE DecodeCommand(b[1], c)
            wide == UsesLength32(command, d)
            W == LengthWidth(wide)
            L == LengthBytes(n, wide)
            header == 1 + W
            size == BigEndian(Clear(b, c, wide, 2, header))
            frame == header + size
            packet == [command |-> command,
                       payload |-> Clear(b, c, wide, header + 1, frame)]
<1>1. p.command \in Byte /\ p.payload \in Seq(Byte) /\ n \in Nat
      /\ p = [command |-> p.command, payload |-> p.payload]
      BY DEF Packet
<1>2. Len(b) \in Nat  BY LenProperties
<1>3. b = <<>> => r = Undecided("wait", b, c)  BY Zenon DEF DecodeOne
<1>4. b # <<>> => r = IF Len(b) < header THEN Undecided("wait", b, c)
                      ELSE IF size > max THEN Undecided("oversize", b, c)
                      ELSE IF Len(b) < frame THEN Undecided("wait", b, c)
                      ELSE [kind |-> "packet", packet |-> packet,
                            buffer |-> SubSeq(b, frame + 1, Len(b)),
                            cursor |-> CursorAfter(packet, d, c)]
      BY Zenon DEF DecodeOne
<1>5. Layout(f, p, d, c, UsesLength32(p.command, d), n,
             LengthWidth(UsesLength32(p.command, d)))
      BY FrameLayout
<1>6. FrameSize(p, d) \in Nat /\ FrameSize(p, d) >= 1  BY <1>5, SMT DEF Layout
<1>7. ASSUME b = <<>> PROVE Waits(r, b, p, d, c)
  <2>1. Len(b) < FrameSize(p, d)  BY <1>6, <1>7
  <2>. QED BY <1>3, <1>7, <2>1, Zenon DEF Waits
<1>8. ASSUME b # <<>>
      PROVE  Waits(r, b, p, d, c) \/ Refuses(r, b, p, c, max) \/ Yields(r, b, p, d, c, max)
  <2>1. 1 \in 1..Len(b) /\ 1 <= FrameSize(p, d)  BY <1>2, <1>6, <1>8
  <2>2. b[1] = IF c = NoCursor THEN p.command ELSE EncodeCommand(p.command, c)
        BY <1>5, <2>1, Zenon DEF Layout
  <2>3. command = p.command
    <3>1. CASE c = NoCursor  BY <2>2, <3>1, Zenon
    <3>2. CASE c # NoCursor
      <4>1. c \in Nat  BY <3>2, KeyLength DEF Cursors, Cursor
      <4>2. DecodeCommand(EncodeCommand(p.command, c), c) = p.command
            BY <1>1, <4>1, CommandUndone
      <4>. QED BY <2>2, <3>2, <4>2, Zenon
    <3>. QED BY <3>1, <3>2, Zenon
  <2>4. wide = UsesLength32(p.command, d)  BY <2>3, Zenon
  <2>5. Layout(f, p, d, c, wide, n, W)  BY <1>5, <2>4, Zenon
  <2>6. L \in Seq(Byte) /\ Len(L) = W /\ BigEndian(L) = n
        BY <2>4, LengthUndone, Zenon
  <2>. HIDE DEF f, r, n, command, wide, W, L
  <2>7. /\ n \in Nat /\ W \in Nat /\ Len(f) = 1 + W + n /\ FrameSize(p, d) = 1 + W + n
        /\ \A i \in 1..W : f[1 + i] = Masked(c, wide, L[i], i)
        /\ \A i \in 1..n : f[1 + W + i] = Masked(c, wide, p.payload[i], W + i)
        BY <2>5, Zenon DEF Layout, L
  <2>8. ASSUME Len(b) >= header PROVE Clear(b, c, wide, 2, header) = L
    <3>. DEFINE from == 2
    <3>1. ASSUME NEW j \in 1..Len(L)
          PROVE  b[from + j - 1] = Masked(c, wide, L[j], from + j - 2)
      <4>1. /\ 1 + j \in 1..Len(b) /\ 1 + j <= FrameSize(p, d) /\ j \in 1..W
            /\ from + j - 1 = 1 + j /\ from + j - 2 = j
            BY <1>2, <2>6, <2>7, <2>8
      <4>2. b[1 + j] = f[1 + j]  BY <4>1, Zenon DEF f
      <4>3. f[1 + j] = Masked(c, wide, L[j], j)  BY <2>7, <4>1, Zenon
      <4>. QED BY <4>1, <4>2, <4>3
    <3>2. /\ header \in Nat /\ header <= Len(b) /\ Len(L) = header - from + 1
          /\ from \in Nat /\ from >= 2
          BY <2>6, <2>7, <2>8
    <3>. HIDE DEF header, from
    <3>3. Clear(b, c, wide, from, header) = L  BY <2>6, <3>1, <3>2, ClearText
    <3>. QED BY <3>3, Zenon DEF from
  <2>9. Len(b) >= header => size = n  BY <2>6, <2>8, Zenon
  <2>10. ASSUME Len(b) >= header + n PROVE Clear(b, c, wide, header + 1, header + n) = p.payload
    <3>. DEFINE text == p.payload
                from == header + 1
                to == header + n
    <3>1. text \in Seq(Byte) /\ Len(text) = n  BY <1>1, Zenon DEF n
    <3>2. \A i \in 1..n : f[1 + W + i] = Masked(c, wide, text[i], W + i)  BY <2>7, Zenon
    <3>. HIDE DEF text
    <3>3. ASSUME NEW j \in 1..Len(text)
          PROVE  b[from + j - 1] = Masked(c, wide, text[j], from + j - 2)
      <4>1. /\ 1 + W + j \in 1..Len(b) /\ 1 + W + j <= FrameSize(p, d) /\ j \in 1..n
            /\ from + j - 1 = 1 + W + j /\ from + j - 2 = W + j
            BY <1>2, <2>7, <2>10, <3>1
      <4>2. b[1 + W + j] = f[1 + W + j]  BY <4>1, Zenon DEF f
      <4>3. f[1 + W + j] = Masked(c, wide, text[j], W + j)  BY <3>2, <4>1, Zenon
      <4>. QED BY <4>1, <4>2, <4>3, Zenon
    <3>4. /\ from \in Nat /\ to \in Nat /\ from >= 2 /\ to <= Len(b)
          /\ Len(text) = to - from + 1
          BY <2>7, <2>10, <3>1
    <3>. HIDE DEF from, to
    <3>5. Clear(b, c, wide, from, to) = text  BY <3>1, <3>3, <3>4, ClearText
    <3>. QED BY <3>5, Zenon DEF from, to, text
  <2>11. CASE Len(b) < header
    <3>1. r = Undecided("wait", b, c)  BY <1>4, <1>8, <2>11, Zenon DEF r, n, command, wide, W, L
    <3>2. Len(b) < FrameSize(p, d)  BY <1>2, <2>7, <2>11
    <3>. QED BY <3>1, <3>2, Zenon DEF Waits
  <2>12. CASE ~(Len(b) < header)
    <3>1. Len(b) >= header  BY <1>2, <2>7, <2>12
    <3>2. size = n /\ frame = header + n  BY <2>9, <3>1, Zenon
    <3>3. header + n = FrameSize(p, d) /\ header + n \in Nat  BY <2>7
    <3>4. r = IF size > max THEN Undecided("oversize", b, c)
              ELSE IF Len(b) < frame THEN Undecided("wait", b, c)
              ELSE [kind |-> "packet", packet |-> packet,
                    buffer |-> SubSeq(b, frame + 1, Len(b)),
                    cursor |-> CursorAfter(packet, d, c)]
          BY <1>4, <1>8, <2>12, Zenon DEF r, n, command, wide, W, L
    <3>. HIDE DEF header, size, packet, frame
    <3>5. CASE size > max
      <4>1. Len(p.payload) > max  BY <3>2, <3>5, Zenon DEF n
      <4>. QED BY <3>4, <3>5, <4>1, Zenon DEF Refuses
    <3>6. CASE ~(size > max) /\ Len(b) < frame
      <4>1. r = Undecided("wait", b, c) /\ Len(b) < FrameSize(p, d)
            BY <3>2, <3>3, <3>4, <3>6, Zenon
      <4>. QED BY <4>1, Zenon DEF Waits
    <3>7. CASE ~(size > max) /\ ~(Len(b) < frame)
      <4>1. /\ r.kind = "packet" /\ r.packet = packet
            /\ r.buffer = SubSeq(b, frame + 1, Len(b)) /\ r.cursor = CursorAfter(packet, d, c)
            BY <3>4, <3>7, Zenon
      <4>2. Len(b) >= header + n /\ n <= max  BY <1>2, <2>7, <3>2, <3>3, <3>7
      <4>3. Clear(b, c, wide, header + 1, frame) = p.payload
            BY <2>10, <3>2, <4>2, Zenon DEF header
      <4>4. packet = p  BY <1>1, <2>3, <4>3, Zenon DEF packet, command, wide, W
      <4>5. Len(p.payload) <= max /\ Len(b) >= FrameSize(p, d)
            BY <3>3, <4>2, Zenon DEF n
      <4>. QED BY <3>2, <3>3, <4>1, <4>4, <4>5, Zenon DEF Yields
    <3>. QED BY <3>5, <3>6, <3>7, Zenon
  <2>. QED BY <2>11, <2>12, Zenon
<1>. QED BY <1>7, <1>8, Zenon
------------------------------------------------------------------------------
(***************************************************************************)
(* Frames one behind the other.  A sender's history sent tells, for every  *)
(* frame, its packet, where it ends on the stream and the cursor it left;  *)
(* first is the cursor the sender started with.                            *)
(***************************************************************************)
SentFrame == [packet : Packet, end : Nat, cursor : Cursors]

End(sent, k) == IF k = 0 THEN 0 ELSE sent[k].end

CursorBehind(sent, k, first) == IF k = 0 THEN first ELSE sent[k].cursor

(* The stream holds the frame of p from the byte behind from.              *)
Holds(stream, from, p, d, c) ==
    \A i \in 1..FrameSize(p, d) : stream[from + i] = EncodeFrame(p, d, c)[i]

FrameAt(stream, sent, d, first, k) ==
    /\ Encodable(sent[k].packet, d)
    /\ sent[k].end = End(sent, k - 1) + FrameSize(sent[k].packet, d)
    /\ sent[k].end <= Len(stream)
    /\ Holds(stream, End(sent, k - 1), sent[k].packet, d, CursorBehind(sent, k - 1, first))

OnWire(stream, sent, d, first) ==
    /\ stream \in Seq(Byte) /\ sent \in Seq(SentFrame) /\ first \in Cursors
    /\ Len(stream) = End(sent, Len(sent))
    /\ \A k \in 1..Len(sent) : FrameAt(stream, sent, d, first, k)

(* A frame is as long as FrameSize says.                                   *)
LEMMA FrameWritten ==
    ASSUME NEW p \in Packet, NEW d, Encodable(p, d), NEW c \in Cursors
    PROVE  /\ EncodeFrame(p, d, c) \in Seq(Byte)
           /\ Len(EncodeFrame(p, d, c)) = FrameSize(p, d)
           /\ FrameSize(p, d) \in Nat /\ FrameSize(p, d) >= 1
<1>. DEFINE f == EncodeFrame(p, d, c)
            wide == UsesLength32(p.command, d)
            n == Len(p.payload)
            W == LengthWidth(wide)
<1>1. Layout(f, p, d, c, wide, n, W)  BY FrameLayout
<1>. HIDE DEF f, wide, n, W
<1>2. /\ f \in Seq(Byte) /\ Len(f) = 1 + W + n /\ FrameSize(p, d) = 1 + W + n
      /\ n \in Nat /\ W \in Nat
      BY <1>1, Zenon DEF Layout
<1>3. Len(f) = FrameSize(p, d) /\ FrameSize(p, d) \in Nat /\ FrameSize(p, d) >= 1  BY <1>2
<1>. QED BY <1>2, <1>3, Zenon DEF f

(* The cursors there are: none, the start, and the one behind a frame.     *)
LEMMA CursorTypes ==
    ASSUME NEW c \in Cursors
    PROVE  /\ NoCursor \in Cursors /\ 0 \in Cursors
           /\ \A p \in Packet : \A d : Encodable(p, d) => CursorAfter(p, d, c) \in Cursors
<1>1. NoCursor \in Cursors /\ 0 \in Cursors
  <2>1. 0 \in Cursor  BY KeyLength DEF Cursor
  <2>. QED BY <2>1 DEF Cursors
<1>2. ASSUME NEW p \in Packet, NEW d, Encodable(p, d)
      PROVE  CursorAfter(p, d, c) \in Cursors
  <2>. DEFINE n == IF UsesLength32(p.command, d) THEN 1 ELSE FrameSize(p, d)
  <2>1. n \in Nat  BY <1>2, FrameWritten
  <2>. HIDE DEF n
  <2>2. c # NoCursor => Advance(c, n) \in Cursors
        BY <2>1, AdvanceType, Zenon DEF Cursors
  <2>. QED BY <1>1, <2>2, Zenon DEF CursorAfter, n
<1>. QED BY <1>1, <1>2, Zenon

(* Nothing was sent on an empty stream.                                    *)
LEMMA WireStart == ASSUME NEW d, NEW first \in Cursors PROVE OnWire(<<>>, <<>>, d, first)
BY DEF OnWire, End

(* Where the frames that were sent end.                                    *)
LEMMA WireEnds ==
    ASSUME NEW stream, NEW sent, NEW d, NEW first, OnWire(stream, sent, d, first),
           NEW k \in 0..Len(sent)
    PROVE  /\ Len(sent) \in Nat /\ Len(stream) \in Nat
           /\ End(sent, k) \in Nat /\ End(sent, k) <= Len(stream)
           /\ CursorBehind(sent, k, first) \in Cursors
<1>1. stream \in Seq(Byte) /\ sent \in Seq(SentFrame) /\ first \in Cursors
      BY Zenon DEF OnWire
<1>2. Len(sent) \in Nat /\ Len(stream) \in Nat  BY <1>1, LenProperties
<1>3. CASE k = 0
      BY <1>1, <1>2, <1>3 DEF End, CursorBehind
<1>4. CASE k # 0
  <2>1. k \in 1..Len(sent)  BY <1>2, <1>4
  <2>2. sent[k] \in SentFrame  BY <1>1, <2>1, ElementOfSeq
  <2>3. sent[k].end \in Nat /\ sent[k].cursor \in Cursors  BY <2>2 DEF SentFrame
  <2>4. sent[k].end <= Len(stream)  BY <2>1, Zenon DEF OnWire, FrameAt
  <2>. QED BY <1>2, <1>4, <2>3, <2>4, Zenon DEF End, CursorBehind
<1>. QED BY <1>3, <1>4

(* What was sent could be sent.                                            *)
LEMMA SentPacket ==
    ASSUME NEW stream, NEW sent, NEW d, NEW first, OnWire(stream, sent, d, first),
           NEW k \in 1..Len(sent)
    PROVE  sent[k].packet \in Packet /\ Encodable(sent[k].packet, d)
<1>1. sent \in Seq(SentFrame) /\ FrameAt(stream, sent, d, first, k)  BY Zenon DEF OnWire
<1>2. sent[k] \in SentFrame  BY <1>1, ElementOfSeq
<1>3. sent[k].packet \in Packet  BY <1>2 DEF SentFrame
<1>. QED BY <1>1, <1>3, Zenon DEF FrameAt

(* What one more frame leaves as it was.                                   *)
Extends(stream2, sent2, stream, sent, first, n, p, a) ==
    /\ n \in Nat /\ Len(sent2) = n + 1
    /\ \A k \in 0..n : /\ End(sent2, k) = End(sent, k)
                       /\ CursorBehind(sent2, k, first) = CursorBehind(sent, k, first)
    /\ \A k \in 1..n : sent2[k] = sent[k]
    /\ sent2[n + 1].packet = p /\ sent2[n + 1].cursor = a
    /\ Len(stream) <= Len(stream2)
    /\ \A m, j \in Nat : m <= j /\ j <= Len(stream) =>
          SubSeq(stream2, m + 1, j) = SubSeq(stream, m + 1, j)

(* One more frame, encoded with the cursor the last one left.              *)
LEMMA WireGrows ==
    ASSUME NEW stream, NEW sent, NEW d, NEW first, OnWire(stream, sent, d, first),
           NEW n, n = Len(sent), NEW p \in Packet, Encodable(p, d), NEW a \in Cursors
    PROVE  LET f == EncodeFrame(p, d, CursorBehind(sent, n, first))
               item == [packet |-> p, end |-> Len(stream) + Len(f), cursor |-> a]
           IN  /\ OnWire(stream \o f, Append(sent, item), d, first)
               /\ Extends(stream \o f, Append(sent, item), stream, sent, first, n, p, a)
<1>. DEFINE c == CursorBehind(sent, n, first)
            f == EncodeFrame(p, d, c)
            e == Len(stream) + Len(f)
            item == [packet |-> p, end |-> e, cursor |-> a]
            grown == stream \o f
            sent2 == Append(sent, item)
<1>1. stream \in Seq(Byte) /\ sent \in Seq(SentFrame) /\ first \in Cursors
      BY Zenon DEF OnWire
<1>2. n \in Nat /\ n \in 0..n  BY <1>1, LenProperties
<1>3. Len(stream) \in Nat /\ c \in Cursors  BY <1>2, WireEnds
<1>4. f \in Seq(Byte) /\ Len(f) = FrameSize(p, d) /\ FrameSize(p, d) \in Nat
      BY <1>3, FrameWritten
<1>5. /\ e \in Nat /\ item \in SentFrame
      /\ item.packet = p /\ item.end = e /\ item.cursor = a
      BY <1>3, <1>4 DEF SentFrame
<1>. HIDE DEF e, c, f, item
<1>6. /\ sent2 \in Seq(SentFrame) /\ Len(sent2) = n + 1
      /\ \A k \in 1..n : sent2[k] = sent[k]
      /\ sent2[n + 1] = item
      BY <1>1, <1>5, AppendProperties
<1>7. /\ grown \in Seq(Byte) /\ Len(grown) = Len(stream) + Len(f)
      /\ \A i \in 1..Len(stream) : grown[i] = stream[i]
      /\ \A i \in 1..Len(f) : grown[Len(stream) + i] = f[i]
      BY <1>1, <1>4, BytesConcatenation, Zenon
<1>8. ASSUME NEW m \in Nat, NEW j \in Nat, m <= j /\ j <= Len(stream)
      PROVE  SubSeq(grown, m + 1, j) = SubSeq(stream, m + 1, j)
      BY <1>1, <1>4, <1>8, SliceOfGrown
<1>. HIDE DEF grown, sent2
<1>9. ASSUME NEW k \in 0..n
      PROVE  /\ End(sent2, k) = End(sent, k)
             /\ CursorBehind(sent2, k, first) = CursorBehind(sent, k, first)
  <2>1. k = 0 \/ k \in 1..n  BY <1>2
  <2>. QED BY <1>6, <2>1, Zenon DEF End, CursorBehind
<1>10. End(sent, n) = Len(stream) /\ End(sent2, n + 1) = e /\ e = Len(grown)
  <2>1. n + 1 # 0 /\ e = Len(grown)  BY <1>2, <1>7 DEF e
  <2>2. End(sent, n) = Len(stream)  BY Zenon DEF OnWire
  <2>. QED BY <1>5, <1>6, <2>1, <2>2, Zenon DEF End
<1>11. ASSUME NEW k \in 1..n PROVE FrameAt(grown, sent2, d, first, k)
  <2>. DEFINE q == sent[k].packet
              b == End(sent, k - 1)
              g == CursorBehind(sent, k - 1, first)
              z == sent[k].end
  <2>1. k - 1 \in 0..n /\ k \in 0..n /\ k # 0  BY <1>2
  <2>2. q \in Packet  BY SentPacket
  <2>3. b \in Nat /\ g \in Cursors  BY <2>1, WireEnds
  <2>4. End(sent, k) \in Nat /\ End(sent, k) = z  BY <2>1, WireEnds, Zenon DEF End
  <2>5. /\ Encodable(q, d) /\ z = b + FrameSize(q, d) /\ z <= Len(stream)
        /\ Holds(stream, b, q, d, g)
        BY Zenon DEF OnWire, FrameAt
  <2>6. sent2[k] = sent[k] /\ End(sent2, k - 1) = b /\ CursorBehind(sent2, k - 1, first) = g
        BY <1>6, <1>9, <2>1, Zenon
  <2>. HIDE DEF q, b, g, z
  <2>7. FrameSize(q, d) \in Nat /\ z \in Nat  BY <2>2, <2>3, <2>4, <2>5, FrameWritten
  <2>11. /\ z <= Len(grown)
         /\ \A i \in 1..FrameSize(q, d) : b + i \in 1..Len(stream)
    <3>. DEFINE l == Len(stream)
                m == FrameSize(q, d)
                t == Len(grown)
                x == Len(f)
    <3>1. /\ z = b + m /\ z <= l /\ l \in Nat /\ m \in Nat /\ b \in Nat /\ z \in Nat
          /\ t = l + x /\ x \in Nat
          BY <1>3, <1>4, <1>7, <2>3, <2>5, <2>7, Zenon
    <3>. HIDE DEF l, m, t, x
    <3>2. z <= t /\ \A i \in 1..m : b + i \in 1..l  BY <3>1
    <3>. QED BY <3>2, Zenon DEF l, m, t
  <2>8. ASSUME NEW i \in 1..FrameSize(q, d) PROVE grown[b + i] = EncodeFrame(q, d, g)[i]
    <3>1. b + i \in 1..Len(stream)  BY <2>11
    <3>2. stream[b + i] = EncodeFrame(q, d, g)[i]  BY <2>5, Zenon DEF Holds
    <3>. QED BY <1>7, <3>1, <3>2, Zenon
  <2>9. Holds(grown, b, q, d, g)  BY <2>8, Zenon DEF Holds
  <2>. QED BY <2>5, <2>6, <2>9, <2>11, Zenon DEF FrameAt, q, z
<1>12. ASSUME NEW k, k = n + 1 PROVE FrameAt(grown, sent2, d, first, k)
  <2>1. k - 1 = n /\ n \in 0..n  BY <1>2, <1>12
  <2>2. sent2[k].packet = p /\ sent2[k].end = e  BY <1>5, <1>6, <1>12, Zenon
  <2>3. End(sent2, k - 1) = Len(stream) /\ CursorBehind(sent2, k - 1, first) = c
        BY <1>9, <1>10, <2>1, Zenon DEF c
  <2>4. e = Len(stream) + FrameSize(p, d) /\ e <= Len(grown)
    <3>1. e = Len(stream) + FrameSize(p, d)  BY <1>4, Zenon DEF e
    <3>2. e \in Nat /\ e = Len(grown)  BY <1>5, <1>10, Zenon
    <3>3. e <= Len(grown)  BY <3>2
    <3>. QED BY <3>1, <3>3
  <2>5. Holds(grown, Len(stream), p, d, c)  BY <1>4, <1>7, Zenon DEF Holds, f
  <2>. QED BY <2>2, <2>3, <2>4, <2>5, Zenon DEF FrameAt
<1>13. \A k \in 1..n + 1 : k \in 1..n \/ k = n + 1  BY <1>2
<1>14. OnWire(grown, sent2, d, first)
       BY <1>1, <1>6, <1>7, <1>10, <1>11, <1>12, <1>13, Zenon DEF OnWire
<1>15. Len(stream) <= Len(grown)  BY <1>3, <1>4, <1>7
<1>16. sent2[n + 1].packet = p /\ sent2[n + 1].cursor = a  BY <1>5, <1>6, Zenon
<1>17. Extends(grown, sent2, stream, sent, first, n, p, a)
       BY <1>2, <1>6, <1>8, <1>9, <1>15, <1>16, Zenon DEF Extends
<1>. QED BY <1>14, <1>17, Zenon DEF grown, sent2, f, item, e, c

(* What the decoder makes of the bytes behind the k-th frame when those up *)
(* to received are there: the next packet, a refusal of it, or a wait.     *)
NextFrame(r, b, stream, sent, d, c, k, received, max) ==
    \/ k = Len(sent) /\ r = Undecided("wait", b, c)
    \/ /\ k + 1 \in 1..Len(sent)
       /\ \/ r = Undecided("wait", b, c) /\ received < End(sent, k + 1)
          \/ r = Undecided("oversize", b, c) /\ Len(sent[k + 1].packet.payload) > max
          \/ /\ r.kind = "packet" /\ r.packet = sent[k + 1].packet
             /\ r.buffer = SubSeq(stream, End(sent, k + 1) + 1, received)
             /\ r.cursor = CursorAfter(sent[k + 1].packet, d, c)
             /\ End(sent, k + 1) <= received

(* The decoder finds the frames in the order they were sent, whatever part *)
(* of the stream has arrived.                                              *)
LEMMA WireDecoded ==
    ASSUME NEW stream, NEW sent, NEW d, NEW first, OnWire(stream, sent, d, first),
           NEW k \in 0..Len(sent), NEW received \in Nat, NEW max \in Nat,
           End(sent, k) <= received, received <= Len(stream),
           NEW c, c = CursorBehind(sent, k, first)
    PROVE  LET b == SubSeq(stream, End(sent, k) + 1, received)
           IN  NextFrame(DecodeOne(b, c, d, max), b, stream, sent, d, c, k, received, max)
<1>. DEFINE from == End(sent, k)
            b == SubSeq(stream, from + 1, received)
            r == DecodeOne(b, c, d, max)
<1>1. stream \in Seq(Byte)  BY Zenon DEF OnWire
<1>2. /\ Len(sent) \in Nat /\ Len(stream) \in Nat /\ from \in Nat /\ c \in Cursors
      /\ from <= received
      BY WireEnds
<1>3. b = SubSeq(stream, from + 1, received)  OBVIOUS
<1>. SUFFICES NextFrame(r, b, stream, sent, d, c, k, received, max)  OBVIOUS
<1>. HIDE DEF from, b
<1>4. /\ b \in Seq(Byte) /\ Len(b) = received - from
      /\ \A i \in 1..received - from : b[i] = stream[from + i]
  <2>1. /\ SubSeq(stream, from + 1, received) \in Seq(Byte)
        /\ Len(SubSeq(stream, from + 1, received)) = received - from
        /\ \A i \in 1..received - from : SubSeq(stream, from + 1, received)[i] = stream[from + i]
        BY <1>1, <1>2, Slice
  <2>. QED BY <1>3, <2>1, Zenon
<1>5. CASE k = Len(sent)
  <2>1. from = Len(stream)  BY <1>5, Zenon DEF OnWire, from
  <2>2. Len(b) = 0  BY <1>2, <1>4, <2>1
  <2>3. b = <<>>  BY <1>4, <2>2, EmptySeq
  <2>4. r = Undecided("wait", b, c)  BY <2>3, Zenon DEF DecodeOne
  <2>. QED BY <1>5, <2>4, Zenon DEF NextFrame
<1>6. CASE k # Len(sent)
  <2>. DEFINE j == k + 1
              p == sent[j].packet
              n == FrameSize(p, d)
              e == End(sent, j)
  <2>1. j \in 1..Len(sent) /\ j - 1 = k /\ j # 0 /\ j \in 0..Len(sent)  BY <1>2, <1>6
  <2>. HIDE DEF j
  <2>2. p \in Packet /\ Encodable(p, d)  BY <2>1, SentPacket
  <2>3. n \in Nat  BY <1>2, <2>2, FrameWritten
  <2>4. e = from + n /\ Holds(stream, from, p, d, c)
    <3>1. FrameAt(stream, sent, d, first, j)  BY <2>1, Zenon DEF OnWire
    <3>. QED BY <2>1, <3>1, Zenon DEF FrameAt, End, from
  <2>5. e \in Nat  BY <2>1, WireEnds
  <2>. HIDE DEF p, n, e
  <2>6. ASSUME NEW i \in 1..Len(b), i <= FrameSize(p, d)
        PROVE  b[i] = EncodeFrame(p, d, c)[i]
    <3>1. i \in 1..received - from  BY <1>4, Zenon
    <3>2. i \in 1..FrameSize(p, d)  BY <1>2, <2>3, <2>6, <3>1 DEF n
    <3>. QED BY <1>4, <2>4, <3>1, <3>2, Zenon DEF Holds
  <2>7. \/ Waits(r, b, p, d, c)
        \/ Refuses(r, b, p, c, max)
        \/ Yields(r, b, p, d, c, max)
        BY <1>2, <1>4, <2>2, <2>6, FramingUndone
  <2>. HIDE DEF r
  <2>8. CASE Waits(r, b, p, d, c)
    <3>1. r = Undecided("wait", b, c) /\ Len(b) < n  BY <2>8, Zenon DEF Waits, n
    <3>2. received < e  BY <1>2, <1>4, <2>3, <2>4, <3>1
    <3>. QED BY <2>1, <3>1, <3>2, Zenon DEF NextFrame, r, e, j
  <2>9. CASE Refuses(r, b, p, c, max)
        BY <2>1, <2>9, Zenon DEF Refuses, NextFrame, r, p, j
  <2>10. CASE Yields(r, b, p, d, c, max)
    <3>1. /\ r.kind = "packet" /\ r.packet = p /\ r.cursor = CursorAfter(p, d, c)
          /\ r.buffer = SubSeq(b, n + 1, Len(b)) /\ Len(b) >= n
          BY <2>10, Zenon DEF Yields, n
    <3>2. from + n <= received  BY <1>2, <1>4, <2>3, <3>1
    <3>3. SubSeq(SubSeq(stream, from + 1, received), n + 1, received - from)
              = SubSeq(stream, (from + n) + 1, received)
          BY <1>1, <1>2, <2>3, <3>2, SliceOfSlice
    <3>4. r.buffer = SubSeq(stream, e + 1, received)
          BY <1>3, <1>4, <2>4, <3>1, <3>3, Zenon
    <3>5. e <= received  BY <2>4, <3>2, Zenon
    <3>. QED BY <2>1, <3>1, <3>4, <3>5, Zenon DEF NextFrame, r, e, p, j
  <2>. QED BY <2>7, <2>8, <2>9, <2>10
<1>. QED BY <1>5, <1>6

------------------------------------------------------------------------------
(* What the proofs about several frames written at once rest on.           *)

(* Induction, on a set instead of a predicate.                             *)
LEMMA SetInduction ==
    ASSUME NEW S, 0 \in S, \A n \in Nat : n \in S => n + 1 \in S
    PROVE  Nat \subseteq S
<1>. DEFINE R == {p \in Nat \X Nat : p[1] < p[2]}
            T == Nat \ S
<1>1. SUFFICES ASSUME T # {} PROVE FALSE  OBVIOUS
<1>2. IsWellFoundedOn(R, Nat)  BY NatLessThanWellFounded DEF OpToRel
<1>3. \A x, y \in Nat : x < y => <<x, y>> \in R  OBVIOUS
<1>4. T \subseteq Nat  OBVIOUS
<1>. HIDE DEF R
<1>5. PICK x \in T : \A y \in T : ~(<<y, x>> \in R)
  <2>. HIDE DEF T
  <2>. QED BY <1>1, <1>2, <1>4, WFMin
<1>6. x # 0 /\ x \in Nat  OBVIOUS
<1>7. x - 1 \in Nat /\ x - 1 < x  BY <1>6
<1>8. x - 1 \in S  BY <1>3, <1>5, <1>6, <1>7
<1>9. (x - 1) + 1 \in S  BY <1>7, <1>8
<1>10. (x - 1) + 1 = x  BY <1>6
<1>. QED BY <1>9, <1>10

(* The same up to a bound.                                                 *)
LEMMA BoundedInduction ==
    ASSUME NEW S, NEW m \in Nat, 0 \in S, \A n \in 0..m - 1 : n \in S => n + 1 \in S
    PROVE  0..m \subseteq S
<1>. DEFINE T == S \cup {n \in Nat : n > m}
<1>1. 0 \in T  OBVIOUS
<1>2. \A n \in Nat : n \in T => n + 1 \in T
  <2>. SUFFICES ASSUME NEW n \in Nat, n \in T PROVE n + 1 \in T  OBVIOUS
  <2>1. CASE n \in 0..m - 1 /\ n \in S  BY <2>1
  <2>2. CASE ~(n \in 0..m - 1 /\ n \in S)  
    <3>1. n + 1 > m BY <2>2
    <3>. QED BY <3>1
  <2>. QED BY <2>1, <2>2
<1>. HIDE DEF T
<1>3. Nat \subseteq T  BY <1>1, <1>2, SetInduction
<1>. QED BY <1>3 DEF T

(* A function defined by recursion up to a bound exists.                   *)
Recurs(g, S, m, a, step) ==
    g \in [0..m -> S] /\ g[0] = a /\ \A n \in 1..m : g[n] = step[<<g[n - 1], n>>]

LEMMA RecursionUpTo ==
    \A S, m, a, step :
        m \in Nat /\ a \in S /\ step \in [S \X (1..m) -> S] => \E g : Recurs(g, S, m, a, step)
<1>. SUFFICES ASSUME NEW S, NEW m, NEW a, NEW step,
                     m \in Nat, a \in S, step \in [S \X (1..m) -> S]
              PROVE  \E g : Recurs(g, S, m, a, step)
     BY Zenon
<1>. DEFINE Runs(g, k) == g \in [0..k -> S] /\ g[0] = a
                          /\ \A n \in 1..k : g[n] = step[<<g[n - 1], n>>]
            T == {k \in 0..m : \E g : Runs(g, k)}
<1>1. 0 \in T
  <2>. DEFINE h == [n \in 0..0 |-> a]
  <2>1. Runs(h, 0)  OBVIOUS
  <2>2. 0 \in 0..m  OBVIOUS
  <2>. HIDE DEF h, Runs
  <2>. QED BY <2>1, <2>2
<1>2. ASSUME NEW k \in 0..m - 1, k \in T PROVE k + 1 \in T
  <2>1. PICK g : Runs(g, k)  BY <1>2
  <2>. DEFINE h == [n \in 0..k + 1 |-> IF n = k + 1 THEN step[<<g[k], k + 1>>] ELSE g[n]]
  <2>2. k \in 0..k /\ k + 1 \in 1..m /\ k + 1 \in 0..m  OBVIOUS
  <2>3. step[<<g[k], k + 1>>] \in S  BY <2>1, <2>2
  <2>4. h \in [0..k + 1 -> S]  BY <2>1, <2>3
  <2>5. h[0] = a  BY <2>1
  <2>6. ASSUME NEW n \in 1..k + 1 PROVE h[n] = step[<<h[n - 1], n>>]
    <3>1. n - 1 \in 0..k /\ n - 1 # k + 1 /\ n - 1 \in 0..k + 1 /\ n \in 0..k + 1  OBVIOUS
    <3>2. h[n - 1] = g[n - 1]  BY <3>1
    <3>3. CASE n = k + 1
      <4>1. h[n] = step[<<g[k], k + 1>>] /\ n - 1 = k BY <3>1, <3>3
      <4>. QED BY <3>2, <3>3, <4>1
    <3>4. CASE n # k + 1
      <4>1. n \in 1..k  BY <3>4
      <4>2. h[n] = g[n]  BY <3>1, <3>4
      <4>. QED BY <2>1, <3>2, <4>1, <4>2
    <3>. QED BY <3>3, <3>4
  <2>. HIDE DEF h
  <2>7. Runs(h, k + 1)  BY <2>4, <2>5, <2>6
  <2>. QED BY <2>2, <2>7
<1>. HIDE DEF T
<1>3. m \in T
  <2>1. 0..m \subseteq T  BY <1>1, <1>2, BoundedInduction
  <2>. QED BY <2>1
<1>. QED BY <1>3 DEF T, Recurs
=============================================================================
