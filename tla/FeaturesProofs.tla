---------------------------- MODULE FeaturesProofs ----------------------------
(***************************************************************************)
(* Theorems about Features: the flow key, the blob and the bytes that are  *)
(* features, for every captured packet and every payload size, and the     *)
(* rows of a chunk, for flows of any number and length.                    *)
(***************************************************************************)
EXTENDS Features, TLAPS, SequenceTheorems, NaturalsInduction, WellFoundedInduction

(* A port is its high byte and its low byte. *)
LEMMA TwoBytes ==
  ASSUME NEW x \in Int
  PROVE  \E a \in Int, c \in Int :
           /\ a = x % 256 /\ c = x \div 256
           /\ x = (256 * c) + a /\ 0 <= a /\ a <= 255
<1>1. x % 256 \in Int /\ 0 <= x % 256 /\ x % 256 <= 255
  OBVIOUS
<1>2. x \div 256 \in Int /\ x = (256 * (x \div 256)) + (x % 256)
  OBVIOUS
<1>3. QED
  BY <1>1, <1>2

(* ntohs swaps two bytes, so no two ports become one. *)
LEMMA NtohsInjective ==
  ASSUME NEW x \in UInt16, NEW y \in UInt16, ntohs(x) = ntohs(y)
  PROVE  x = y
<1>1. x \in Int /\ 0 <= x /\ x < 256 * 256 /\ y \in Int /\ 0 <= y /\ y < 256 * 256
  BY DEF UInt16
<1>2. PICK a \in Int, c \in Int : /\ a = x % 256 /\ c = x \div 256
                                 /\ x = (256 * c) + a /\ 0 <= a /\ a <= 255
  BY <1>1, TwoBytes
<1>3. PICK b \in Int, d \in Int : /\ b = y % 256 /\ d = y \div 256
                                 /\ y = (256 * d) + b /\ 0 <= b /\ b <= 255
  BY <1>1, TwoBytes
<1>4. a * 256 + c = b * 256 + d
  BY <1>2, <1>3 DEF ntohs
<1>5. x = (256 * c) + a /\ y = (256 * d) + b /\ 0 <= a /\ a <= 255 /\ 0 <= b /\ b <= 255
  BY <1>2, <1>3
<1>6. 0 <= c /\ c <= 255 /\ 0 <= d /\ d <= 255
  BY <1>1, <1>5
<1>7. QED
  BY <1>4, <1>5, <1>6

(* Two packets have one key exactly if they belong to one conversation. *)
LEMMA KeyIff ==
  ASSUME NEW p \in RawPacket, NEW q \in RawPacket
  PROVE  KeyOf(p) = KeyOf(q) <=> SameConversation(p, q)
<1>1. /\ p.ip_src \in Int /\ p.ip_dst \in Int /\ q.ip_src \in Int /\ q.ip_dst \in Int
      /\ p.source \in UInt16 /\ p.dest \in UInt16
      /\ q.source \in UInt16 /\ q.dest \in UInt16
  BY DEF RawPacket
<1> UInt16 \subseteq Int
  BY DEF UInt16
<1>2. AddressesOf(p) = AddressesOf(q) <=> {p.ip_src, p.ip_dst} = {q.ip_src, q.ip_dst}
  <2>1. AddressesOf(p) = AddressesOf(q)
          <=> /\ Lesser(p.ip_src, p.ip_dst) = Lesser(q.ip_src, q.ip_dst)
              /\ Greater(p.ip_src, p.ip_dst) = Greater(q.ip_src, q.ip_dst)
    BY DEF AddressesOf
  <2>2. (/\ Lesser(p.ip_src, p.ip_dst) = Lesser(q.ip_src, q.ip_dst)
         /\ Greater(p.ip_src, p.ip_dst) = Greater(q.ip_src, q.ip_dst))
          <=> {p.ip_src, p.ip_dst} = {q.ip_src, q.ip_dst}
    <3>1. {p.ip_src, p.ip_dst} = {q.ip_src, q.ip_dst}
            <=> \/ p.ip_src = q.ip_src /\ p.ip_dst = q.ip_dst
                \/ p.ip_src = q.ip_dst /\ p.ip_dst = q.ip_src
      BY Zenon
    <3>2. QED
      BY <1>1, <3>1 DEF Lesser, Greater
  <2>3. QED
    BY <2>1, <2>2, Zenon
<1>3. PortsOf(p) = PortsOf(q) <=> {p.source, p.dest} = {q.source, q.dest}
  <2> DEFINE gp == Greater(p.source, p.dest)  lp == Lesser(p.source, p.dest)
             gq == Greater(q.source, q.dest)  lq == Lesser(q.source, q.dest)
  <2>1. gp \in UInt16 /\ lp \in UInt16 /\ gq \in UInt16 /\ lq \in UInt16
    BY <1>1 DEF Greater, Lesser
  <2>2. PortsOf(p) = PortsOf(q) <=> ntohs(gp) = ntohs(gq) /\ ntohs(lp) = ntohs(lq)
    BY DEF PortsOf
  <2>3. {p.source, p.dest} = {q.source, q.dest} <=> lp = lq /\ gp = gq
    <3>1. p.source \in Int /\ p.dest \in Int /\ q.source \in Int /\ q.dest \in Int
      BY <1>1
    <3>2. {p.source, p.dest} = {q.source, q.dest}
            <=> \/ p.source = q.source /\ p.dest = q.dest
                \/ p.source = q.dest /\ p.dest = q.source
      BY Zenon
    <3>3. QED
      BY <3>1, <3>2 DEF Lesser, Greater
  <2> HIDE DEF gp, lp, gq, lq
  <2>4. QED
    BY <2>1, <2>2, <2>3, NtohsInjective
<1>4. KeyOf(p) = KeyOf(q)
        <=> AddressesOf(p) = AddressesOf(q) /\ PortsOf(p) = PortsOf(q) /\ p.ip_p = q.ip_p
  BY DEF KeyOf
<1>5. QED
  BY <1>2, <1>3, <1>4 DEF SameConversation

-----------------------------------------------------------------------------

(* The m elements of s are followed in w by those of t, n in all. *)
Joins(w, s, m, t, n) == \A i \in 1 .. n : w[i] = IF i <= m THEN s[i] ELSE t[i - m]

(* Concatenation in terms of Joins. *)
LEMMA Joined ==
  ASSUME NEW s \in Seq(Int), NEW t \in Seq(Int)
  PROVE  /\ s \o t \in Seq(Int) /\ Len(s \o t) = Len(s) + Len(t)
         /\ Joins(s \o t, s, Len(s), t, Len(s) + Len(t))
<1>1. /\ s \o t \in Seq(Int) /\ Len(s \o t) = Len(s) + Len(t)
      /\ \A i \in 1 .. Len(s) + Len(t) :
           (s \o t)[i] = IF i <= Len(s) THEN s[i] ELSE t[i - Len(s)]
  BY ConcatProperties
<1>2. QED
  BY <1>1, Zenon DEF Joins

(* w consists of l elements of s after the first m. *)
Slices(w, s, m, l) == \A i \in 1 .. l : w[i] = s[m + i]

(* A slice in terms of Slices. *)
LEMMA Sliced ==
  ASSUME NEW s \in Seq(Int), NEW m \in Nat, NEW l \in Nat, m + l <= Len(s)
  PROVE  /\ SubSeq(s, m + 1, m + l) \in Seq(Int) /\ Len(SubSeq(s, m + 1, m + l)) = l
         /\ Slices(SubSeq(s, m + 1, m + l), s, m, l)
<1>1. PICK a \in Int, b \in Int : a = m + 1 /\ b = m + l
  OBVIOUS
<1>2. \A i \in a .. b : s[i] \in Int
  BY <1>1
<1>3. PICK w : w = SubSeq(s, a, b)
  OBVIOUS
<1>4. /\ w \in Seq(Int) /\ Len(w) = (IF a <= b THEN b - a + 1 ELSE 0)
      /\ \A i \in 1 .. b - a + 1 : w[i] = s[a + i - 1]
  <2>1. /\ SubSeq(s, a, b) \in Seq(Int)
        /\ Len(SubSeq(s, a, b)) = (IF a <= b THEN b - a + 1 ELSE 0)
        /\ \A i \in 1 .. b - a + 1 : SubSeq(s, a, b)[i] = s[a + i - 1]
    BY <1>2, SubSeqProperties
  <2>2. QED
    BY <1>3, <2>1, Zenon
<1>5. (IF a <= b THEN b - a + 1 ELSE 0) = l
  BY <1>1
<1>6. b - a + 1 = l /\ \A i \in 1 .. l : a + i - 1 = m + i
  BY <1>1
<1>7. \A i \in 1 .. l : w[i] = s[m + i]
  BY <1>4, <1>6, Zenon
<1>8. QED
  BY <1>1, <1>3, <1>4, <1>5, <1>7, Zenon DEF Slices

(* The length of a copied piece with its padding *)
LEMMA PaddedLen ==
  ASSUME NEW from \in Nat, NEW size \in Nat, NEW n \in 0 .. size
  PROVE  /\ Padded(from, n, size) \in Seq(Int) /\ Len(Padded(from, n, size)) = size
         /\ \A i \in 1 .. size :
              Padded(from, n, size)[i] = IF i <= n THEN from + i - 1 ELSE Pad
<1>1. PICK l \in Nat, k \in Nat : l = size - n /\ k = n
  OBVIOUS
<1>2. PICK s, t, w : s = Bytes(from, n) /\ t = Zeros(size - n) /\ w = Padded(from, n, size)
  OBVIOUS
<1>3. s \in Seq(Int) /\ Len(s) = k /\ \A i \in 1 .. k : s[i] = from + i - 1
  BY <1>1, <1>2 DEF Bytes
<1>4. t \in Seq(Int) /\ Len(t) = l /\ \A i \in 1 .. l : t[i] = Pad
  BY <1>1, <1>2 DEF Zeros, Pad
<1>5. w = s \o t
  BY <1>2, Zenon DEF Padded
<1>6. w \in Seq(Int) /\ Len(w) = k + l /\ Joins(w, s, k, t, k + l)
  <2>1. w \in Seq(Int) /\ Len(w) = Len(s) + Len(t) /\ Joins(w, s, Len(s), t, Len(s) + Len(t))
    BY <1>3, <1>4, <1>5, Joined, Zenon
  <2>2. QED
    BY <1>3, <1>4, <2>1, Zenon
<1>7. Len(w) = size /\ Joins(w, s, k, t, size)
  <2>1. k + l = size
    BY <1>1
  <2>2. QED
    BY <1>6, <2>1, Zenon
<1>8. ASSUME NEW i \in 1 .. size PROVE w[i] = IF i <= n THEN from + i - 1 ELSE Pad
  <2>1. w[i] = IF i <= k THEN s[i] ELSE t[i - k]
    BY <1>7, Zenon DEF Joins
  <2>2. CASE i <= n
    BY <1>1, <1>3, <2>1, <2>2
  <2>3. CASE i > n
    BY <1>1, <1>4, <2>1, <2>3
  <2>4. QED
    BY <2>2, <2>3
<1>9. QED
  BY <1>2, <1>6, <1>7, <1>8, Zenon

(* The lengths a packet gives, and those of the parts of its blob *)
LEMMA PartLens ==
  ASSUME NEW p \in RawPacket, p.ip_p \in {IPPROTO_UDP, IPPROTO_TCP}, NEW n \in Nat
  PROVE  /\ HeaderLen(p) \in 0 .. 60 /\ DataOffset(p) \in 0 .. 68
         /\ PayloadLen(p, n) \in 0 .. n
         /\ \A i \in 1 .. n :
              i <= PayloadLen(p, n) <=> i <= p.ip_len - (HeaderLen(p) + DataOffset(p))
         /\ IpPart(p) \in Seq(Int) /\ Len(IpPart(p)) = 60
         /\ TransportPart(p) \in Seq(Int) /\ Len(TransportPart(p)) = 68
<1>1. HeaderLen(p) \in Nat /\ HeaderLen(p) \in 0 .. 60
  BY DEF RawPacket, HeaderLen
<1>2. DataOffset(p) \in Nat /\ DataOffset(p) \in 0 .. 68
  BY DEF RawPacket, DataOffset
<1>3. /\ PayloadLen(p, n) \in 0 .. n
      /\ \A i \in 1 .. n :
           i <= PayloadLen(p, n) <=> i <= p.ip_len - (HeaderLen(p) + DataOffset(p))
  <2> DEFINE available == p.ip_len - HeaderLen(p) - DataOffset(p)
  <2>1. UInt16 \subseteq Int
    BY DEF UInt16
  <2>2. p.ip_len \in Int
    BY <2>1 DEF RawPacket
  <2>3. available \in Int /\ available = p.ip_len - (HeaderLen(p) + DataOffset(p))
    BY <1>1, <1>2, <2>2
  <2>4. PayloadLen(p, n) = Lesser(Greater(available, 0), n)
    BY DEF PayloadLen
  <2> HIDE DEF available
  <2>5. PICK l \in 0 .. n : l = PayloadLen(p, n) /\ \A i \in 1 .. n : i <= l <=> i <= available
    <3>1. Lesser(Greater(available, 0), n) \in 0 .. n
      BY <2>3 DEF Lesser, Greater
    <3>2. \A i \in 1 .. n : i <= Lesser(Greater(available, 0), n) <=> i <= available
      BY <2>3 DEF Lesser, Greater
    <3>3. QED
      BY <2>4, <3>1, <3>2, Zenon
  <2>6. QED
    BY <2>3, <2>5, Zenon
<1>4. IpPart(p) \in Seq(Int) /\ Len(IpPart(p)) = 60
  <2>1. PICK size \in Nat, from \in Nat : size = 60 /\ from = 0
    OBVIOUS
  <2>2. HeaderLen(p) \in 0 .. size
    BY <1>1, <2>1
  <2>3. Padded(from, HeaderLen(p), size) \in Seq(Int)
    BY <2>2, PaddedLen, Zenon
  <2>4. Len(Padded(from, HeaderLen(p), size)) = size
    BY <2>2, PaddedLen, Zenon
  <2>5. IpPart(p) = Padded(from, HeaderLen(p), size)
    BY <2>1 DEF IpPart
  <2>6. QED
    BY <2>1, <2>3, <2>4, <2>5
<1>5. TransportPart(p) \in Seq(Int) /\ Len(TransportPart(p)) = 68
  <2>1. PICK size \in Nat : size = 60 + 8
    OBVIOUS
  <2>2. DataOffset(p) \in 0 .. size
    BY <1>2, <2>1
  <2>3. Padded(HeaderLen(p), DataOffset(p), size) \in Seq(Int)
    BY <1>1, <2>2, PaddedLen, Zenon
  <2>4. Len(Padded(HeaderLen(p), DataOffset(p), size)) = size
    BY <1>1, <2>2, PaddedLen, Zenon
  <2>5. TransportPart(p) = Padded(HeaderLen(p), DataOffset(p), size)
    BY <2>1, Zenon DEF TransportPart
  <2>6. QED
    BY <2>1, <2>3, <2>4, <2>5
<1>6. QED
  BY <1>1, <1>2, <1>3, <1>4, <1>5, Zenon

(* The padding behind the payload, whose length CopyPayloadToBlob computes *)
(* from that of everything appended so far, completes the payload part.    *)
LEMMA BlobParts ==
  ASSUME NEW p \in RawPacket, p.ip_p \in {IPPROTO_UDP, IPPROTO_TCP}, NEW n \in Nat
  PROVE  /\ BlobOf(p, n) \in Seq(Int) /\ Len(BlobOf(p, n)) = 128 + n
         /\ \A i \in 1 .. 60 : BlobOf(p, n)[i] = IpPart(p)[i]
         /\ \A i \in 1 .. 68 : BlobOf(p, n)[60 + i] = TransportPart(p)[i]
         /\ \A i \in 1 .. n :
              BlobOf(p, n)[128 + i] = IF i <= PayloadLen(p, n)
                                        THEN HeaderLen(p) + DataOffset(p) + i - 1 ELSE Pad
<1>1. PICK h, t : h = IpPart(p) /\ t = TransportPart(p)
  OBVIOUS
<1>2. /\ h \in Seq(Int) /\ Len(h) = 60 /\ t \in Seq(Int) /\ Len(t) = 68
      /\ HeaderLen(p) \in 0 .. 60 /\ DataOffset(p) \in 0 .. 68 /\ PayloadLen(p, n) \in 0 .. n
  BY <1>1, PartLens, Zenon
<1>3. PICK from \in Nat : from = HeaderLen(p) + DataOffset(p)
  <2>1. PICK x \in 0 .. 60, y \in 0 .. 68 : x = HeaderLen(p) /\ y = DataOffset(p)
    BY <1>2, Zenon
  <2>2. x + y \in Nat
    OBVIOUS
  <2>3. QED
    BY <2>1, <2>2, Zenon
<1>4. PICK l \in Nat : l = PayloadLen(p, n) /\ l \in 0 .. n
  BY <1>2
<1>5. PICK m \in Nat : m = n - l /\ l + m = n
  BY <1>4
<1>6. PICK d, z : d = Bytes(from, l) /\ z = Zeros(m)
  OBVIOUS
<1>7. d \in Seq(Int) /\ Len(d) = l /\ \A i \in 1 .. l : d[i] = from + i - 1
  BY <1>6 DEF Bytes
<1>8. z \in Seq(Int) /\ Len(z) = m /\ \A i \in 1 .. m : z[i] = Pad
  BY <1>6 DEF Zeros, Pad
<1>9. PICK u, v, w : u = h \o t /\ v = u \o d /\ w = v \o z
  OBVIOUS
<1>10. u \in Seq(Int) /\ Len(u) = 128 /\ Joins(u, h, 60, t, 128)
  <2>1. u \in Seq(Int) /\ Len(u) = Len(h) + Len(t) /\ Joins(u, h, Len(h), t, Len(h) + Len(t))
    BY <1>2, <1>9, Joined, Zenon
  <2>2. 60 + 68 = 128
    OBVIOUS
  <2>3. QED
    BY <1>2, <2>1, <2>2, Zenon
<1>11. v \in Seq(Int) /\ Len(v) = 128 + l /\ Joins(v, u, 128, d, 128 + l)
  <2>1. v \in Seq(Int) /\ Len(v) = Len(u) + Len(d) /\ Joins(v, u, Len(u), d, Len(u) + Len(d))
    <3>1. u \in Seq(Int) /\ d \in Seq(Int)
      BY <1>7, <1>10, Zenon
    <3>2. QED
      BY <1>9, <3>1, Joined, Zenon
  <2>2. QED
    BY <1>7, <1>10, <2>1, Zenon
<1>12. w \in Seq(Int) /\ Len(w) = 128 + l + m /\ Joins(w, v, 128 + l, z, 128 + l + m)
  <2>1. w \in Seq(Int) /\ Len(w) = Len(v) + Len(z) /\ Joins(w, v, Len(v), z, Len(v) + Len(z))
    <3>1. v \in Seq(Int) /\ z \in Seq(Int)
      BY <1>8, <1>11, Zenon
    <3>2. QED
      BY <1>9, <3>1, Joined, Zenon
  <2>2. QED
    BY <1>8, <1>11, <2>1, Zenon
<1>13. w = BlobOf(p, n)
  <2>1. v = Copied(p, n)
    BY <1>1, <1>3, <1>4, <1>6, <1>9, Zenon DEF Copied
  <2>2. n + 128 - Len(v) = m
    BY <1>4, <1>5, <1>11
  <2>3. QED
    BY <1>6, <1>9, <2>1, <2>2, Zenon DEF BlobOf
<1>14. 128 + l + m = 128 + n
  BY <1>5
<1>15. \A i \in 1 .. 128 : u[i] = IF i <= 60 THEN h[i] ELSE t[i - 60]
  BY <1>10, Zenon DEF Joins
<1>16. \A i \in 1 .. 128 + l : v[i] = IF i <= 128 THEN u[i] ELSE d[i - 128]
  BY <1>11, Zenon DEF Joins
<1>17. \A i \in 1 .. 128 + n : w[i] = IF i <= 128 + l THEN v[i] ELSE z[i - (128 + l)]
  BY <1>12, <1>14, Zenon DEF Joins
<1>18. \A i \in 1 .. 128 : w[i] = u[i]
  BY <1>4, <1>16, <1>17
<1>19. ASSUME NEW i \in 1 .. 60 PROVE w[i] = h[i]
  BY <1>15, <1>18
<1>20. ASSUME NEW i \in 1 .. 68 PROVE w[60 + i] = t[i]
  BY <1>15, <1>18
<1>21. ASSUME NEW i \in 1 .. n
       PROVE  w[128 + i] = IF i <= l THEN from + i - 1 ELSE Pad
  <2>1. CASE i <= l
    <3>1. PICK j \in Int : j = 128 + i
      OBVIOUS
    <3>2. j \in 1 .. 128 + l /\ ~(j <= 128) /\ j - 128 = i /\ i \in 1 .. l
      BY <1>4, <2>1, <3>1
    <3>3. j \in 1 .. 128 + n /\ j <= 128 + l
      BY <1>4, <3>2
    <3>4. v[j] = d[j - 128] /\ w[j] = v[j]
      BY <1>16, <1>17, <3>2, <3>3, Zenon
    <3>5. QED
      BY <1>7, <2>1, <3>1, <3>2, <3>4, Zenon
  <2>2. CASE ~(i <= l)
    <3>1. PICK j \in Int : j = 128 + i
      OBVIOUS
    <3>2. j \in 1 .. 128 + n /\ ~(j <= 128 + l)
      BY <1>4, <2>2, <3>1
    <3>3. j - (128 + l) \in 1 .. m
      BY <1>4, <1>5, <2>2, <3>1
    <3>4. w[j] = z[j - (128 + l)]
      BY <1>17, <3>2, Zenon
    <3>5. QED
      BY <1>8, <2>2, <3>1, <3>3, <3>4, Zenon
  <2>3. QED
    BY <2>1, <2>2
<1>22. w \in Seq(Int) /\ Len(w) = 128 + n
  BY <1>12, <1>14, Zenon
<1>23. ASSUME NEW i \in 1 .. n
       PROVE  w[128 + i] = IF i <= PayloadLen(p, n)
                             THEN HeaderLen(p) + DataOffset(p) + i - 1 ELSE Pad
  BY <1>3, <1>4, <1>21, Zenon
<1>24. QED
  BY <1>1, <1>13, <1>19, <1>20, <1>22, <1>23, Zenon

(* The three parts of a blob, each at its place *)
LEMMA BlobHolds ==
  ASSUME NEW p \in RawPacket, p.ip_p \in {IPPROTO_UDP, IPPROTO_TCP}, NEW n \in Nat
  PROVE  /\ Holds(BlobOf(p, n), 0, 60, 0, HeaderLen(p))
         /\ Holds(BlobOf(p, n), 60, 68, HeaderLen(p), DataOffset(p))
         /\ Holds(BlobOf(p, n), 128, n, HeaderLen(p) + DataOffset(p),
                  p.ip_len - (HeaderLen(p) + DataOffset(p)))
<1>1. HeaderLen(p) \in 0 .. 60 /\ DataOffset(p) \in 0 .. 68
  BY PartLens, Zenon
<1>2. PICK w : w = BlobOf(p, n)
  OBVIOUS
<1>3. ASSUME NEW i \in 1 .. 60
      PROVE  w[0 + i] = IF i <= HeaderLen(p) THEN 0 + i - 1 ELSE Pad
  <2>1. PICK size \in Nat, from \in Nat : size = 60 /\ from = 0
    OBVIOUS
  <2>2. i \in 1 .. size /\ HeaderLen(p) \in 0 .. size
    BY <1>1, <2>1
  <2>3. w[i] = Padded(from, HeaderLen(p), size)[i]
    BY <1>2, <2>1, <2>2, BlobParts, Zenon DEF IpPart
  <2>4. w[i] = IF i <= HeaderLen(p) THEN from + i - 1 ELSE Pad
    BY <2>2, <2>3, PaddedLen, Zenon
  <2>5. 0 + i = i
    OBVIOUS
  <2>6. QED
    BY <2>1, <2>4, <2>5, Zenon
<1>4. ASSUME NEW j \in 1 .. 68
      PROVE  w[60 + j] = IF j <= DataOffset(p) THEN HeaderLen(p) + j - 1 ELSE Pad
  <2>1. PICK size \in Nat : size = 60 + 8 /\ size = 68
    OBVIOUS
  <2>2. j \in 1 .. size /\ DataOffset(p) \in 0 .. size /\ HeaderLen(p) \in Nat
    BY <1>1, <2>1
  <2>3. w[60 + j] = Padded(HeaderLen(p), DataOffset(p), size)[j]
    <3>1. \A k \in 1 .. 68 : w[60 + k] = TransportPart(p)[k]
      BY <1>2, BlobParts, Zenon
    <3>2. TransportPart(p) = Padded(HeaderLen(p), DataOffset(p), size)
      BY <2>1, Zenon DEF TransportPart
    <3>3. QED
      BY <3>1, <3>2, Zenon
  <2>4. QED
    BY <2>2, <2>3, PaddedLen, Zenon
<1>5. ASSUME NEW i \in 1 .. n
      PROVE  w[128 + i] = IF i <= p.ip_len - (HeaderLen(p) + DataOffset(p))
                            THEN HeaderLen(p) + DataOffset(p) + i - 1 ELSE Pad
  <2>1. w[128 + i] = IF i <= PayloadLen(p, n)
                       THEN HeaderLen(p) + DataOffset(p) + i - 1 ELSE Pad
    BY <1>2, BlobParts, Zenon
  <2>2. i <= PayloadLen(p, n) <=> i <= p.ip_len - (HeaderLen(p) + DataOffset(p))
    BY PartLens, Zenon
  <2>3. QED
    BY <2>1, <2>2, Zenon
<1>6. QED
  BY <1>2, <1>3, <1>4, <1>5, Zenon DEF Holds

(* A byte of the blob is padding, or comes from this offset of the packet. *)
LEMMA BlobAt ==
  ASSUME NEW p \in RawPacket, p.ip_p \in {IPPROTO_UDP, IPPROTO_TCP}, NEW n \in Nat,
         NEW i \in 1 .. 128 + n, BlobOf(p, n)[i] # Pad
  PROVE  /\ i <= 60 => i <= HeaderLen(p) /\ BlobOf(p, n)[i] = i - 1
         /\ i > 60 /\ i <= 128 => BlobOf(p, n)[i] = HeaderLen(p) + (i - 60) - 1
         /\ i > 128 => BlobOf(p, n)[i] = HeaderLen(p) + DataOffset(p) + (i - 128) - 1
<1>1. PICK w : w = BlobOf(p, n)
  OBVIOUS
<1>2. HeaderLen(p) \in 0 .. 60 /\ DataOffset(p) \in 0 .. 68
  BY PartLens, Zenon
<1>3. \A j \in 1 .. 60 : w[0 + j] = IF j <= HeaderLen(p) THEN 0 + j - 1 ELSE Pad
  BY <1>1, BlobHolds, Zenon DEF Holds
<1>4. \A j \in 1 .. 68 : w[60 + j] = IF j <= DataOffset(p) THEN HeaderLen(p) + j - 1 ELSE Pad
  BY <1>1, BlobHolds, Zenon DEF Holds
<1>5. \A j \in 1 .. n :
        w[128 + j] = IF j <= p.ip_len - (HeaderLen(p) + DataOffset(p))
                       THEN HeaderLen(p) + DataOffset(p) + j - 1 ELSE Pad
  BY <1>1, BlobHolds, Zenon DEF Holds
<1>6. CASE i <= 60
  <2>1. i \in 1 .. 60 /\ 0 + i = i /\ 0 + i - 1 = i - 1 /\ ~(i > 60) /\ ~(i > 128)
    BY <1>6
  <2>2. w[i] = IF i <= HeaderLen(p) THEN i - 1 ELSE Pad
    BY <1>3, <2>1, Zenon
  <2>3. QED
    BY <1>1, <2>1, <2>2, Zenon
<1>7. CASE i > 60 /\ i <= 128
  <2>1. i - 60 \in 1 .. 68 /\ 60 + (i - 60) = i /\ ~(i <= 60) /\ ~(i > 128)
    BY <1>7
  <2>2. w[i] = IF i - 60 <= DataOffset(p) THEN HeaderLen(p) + (i - 60) - 1 ELSE Pad
    BY <1>4, <2>1, Zenon
  <2>3. QED
    BY <1>1, <2>1, <2>2, Zenon
<1>8. CASE i > 128
  <2>1. i - 128 \in 1 .. n /\ 128 + (i - 128) = i /\ ~(i <= 60) /\ ~(i <= 128)
    BY <1>8
  <2>2. w[i] = IF i - 128 <= p.ip_len - (HeaderLen(p) + DataOffset(p))
                 THEN HeaderLen(p) + DataOffset(p) + (i - 128) - 1 ELSE Pad
    BY <1>5, <2>1, Zenon
  <2>3. QED
    BY <1>1, <2>1, <2>2, Zenon
<1>9. QED
  BY <1>6, <1>7, <1>8

(* Which bytes of a blob PacketToTensor keeps *)
Kept(q, i) ==
  \E k \in 1 .. 148 : /\ PacketToTensor(q)[i] = FromBlob(q)[k]
                      /\ i = 136 => k = 148
                      /\ k \notin 13 .. 20
                      /\ q.protocol = IPPROTO_TCP => k \notin 61 .. 64

(* Every byte of a feature row is one of the 148 bytes, outside the        *)
(* addresses and, for TCP, the ports; the last is the last of them.        *)
LEMMA RowAt ==
  ASSUME NEW q, q.mBlobData \in Seq(Int)
  PROVE  DOMAIN PacketToTensor(q) = 1 .. 136 /\ \A i \in 1 .. 136 : Kept(q, i)
<1>1. PICK end \in {60, 120} : end = IF q.protocol = IPPROTO_TCP THEN 60 ELSE 120
  OBVIOUS
<1>2. PICK s : s = FromBlob(q)
  OBVIOUS
<1>3. s \in Seq(Int) /\ Len(s) \in Nat /\ Len(s) >= 148
  <2>1. \A k \in 1 .. 148 : (IF k <= Len(q.mBlobData) THEN q.mBlobData[k] ELSE Beyond) \in Int
    BY DEF Beyond
  <2>2. QED
    BY <1>2, <2>1 DEF FromBlob, n_digits
<1>4. PICK a, b, c : a = SubSeq(s, 1, 12) /\ b = SubSeq(s, 21, end) /\ c = SubSeq(s, end + 5, 148)
  OBVIOUS
<1>5. PICK x, y : x = a \o b /\ y = x \o c
  OBVIOUS
<1>6. y = PacketToTensor(q)
  BY <1>1, <1>2, <1>4, <1>5, Zenon DEF PacketToTensor, n_digits
<1>7. a \in Seq(Int) /\ Len(a) = 12 /\ \A j \in 1 .. 12 : a[j] = s[j]
  <2>1. PICK m \in Nat, l \in Nat : m = 0 /\ l = 12
    OBVIOUS
  <2>2. m + l <= Len(s) /\ m + 1 = 1 /\ m + l = 12
    BY <1>3, <2>1
  <2>3. a = SubSeq(s, m + 1, m + l)
    BY <1>4, <2>2, Zenon
  <2>4. /\ SubSeq(s, m + 1, m + l) \in Seq(Int) /\ Len(SubSeq(s, m + 1, m + l)) = l
        /\ Slices(SubSeq(s, m + 1, m + l), s, m, l)
    BY <1>3, <2>2, Sliced, Zenon
  <2>5. \A j \in 1 .. l : a[j] = s[m + j]
    BY <2>3, <2>4, Zenon DEF Slices
  <2>6. \A j \in 1 .. l : m + j = j
    BY <2>1
  <2>7. ASSUME NEW j \in 1 .. l PROVE a[j] = s[j]
    <3>1. a[j] = s[m + j] /\ m + j = j
      BY <2>5, <2>6, Zenon
    <3>2. QED
      BY <3>1, Zenon
  <2>8. QED
    BY <2>1, <2>3, <2>4, <2>7, Zenon
<1>8. PICK lb \in Nat : lb = end - 20
  BY <1>1
<1>9. b \in Seq(Int) /\ Len(b) = lb /\ Slices(b, s, 20, lb)
  <2>1. PICK m \in Nat : m = 20
    OBVIOUS
  <2>2. m + lb <= Len(s) /\ m + 1 = 21 /\ m + lb = end
    BY <1>1, <1>3, <1>8, <2>1
  <2>3. b = SubSeq(s, m + 1, m + lb)
    BY <1>4, <2>2, Zenon
  <2>4. /\ SubSeq(s, m + 1, m + lb) \in Seq(Int) /\ Len(SubSeq(s, m + 1, m + lb)) = lb
        /\ Slices(SubSeq(s, m + 1, m + lb), s, m, lb)
    BY <1>3, <2>2, Sliced, Zenon
  <2>5. QED
    BY <2>1, <2>3, <2>4, Zenon
<1>10. PICK lc \in Nat, m \in Nat : lc = 144 - end /\ m = end + 4
  <2>1. 144 - end \in Nat /\ end + 4 \in Nat
    BY <1>1
  <2>2. QED
    BY <2>1, Zenon
<1>11. c \in Seq(Int) /\ Len(c) = lc /\ Slices(c, s, m, lc)
  <2>1. m + lc <= Len(s) /\ m + 1 = end + 5 /\ m + lc = 148
    BY <1>1, <1>3, <1>10
  <2>2. c = SubSeq(s, m + 1, m + lc)
    BY <1>4, <2>1, Zenon
  <2>3. QED
    <3>1. /\ SubSeq(s, m + 1, m + lc) \in Seq(Int) /\ Len(SubSeq(s, m + 1, m + lc)) = lc
          /\ Slices(SubSeq(s, m + 1, m + lc), s, m, lc)
      BY <1>3, <2>1, Sliced, Zenon
    <3>2. QED
      BY <2>2, <3>1, Zenon
<1>12. PICK l \in Nat : l = end - 8 /\ 12 + lb = l /\ l + lc = 136
  BY <1>1, <1>8, <1>10
<1>13. x \in Seq(Int) /\ Len(x) = l /\ Joins(x, a, 12, b, l)
  <2>1. x \in Seq(Int) /\ Len(x) = Len(a) + Len(b) /\ Joins(x, a, Len(a), b, Len(a) + Len(b))
    <3>1. a \in Seq(Int) /\ b \in Seq(Int)
      BY <1>7, <1>9, Zenon
    <3>2. QED
      BY <1>5, <3>1, Joined, Zenon
  <2>2. QED
    BY <1>7, <1>9, <1>12, <2>1, Zenon
<1>14. y \in Seq(Int) /\ Len(y) = 136 /\ Joins(y, x, l, c, 136)
  <2>1. y \in Seq(Int) /\ Len(y) = Len(x) + Len(c) /\ Joins(y, x, Len(x), c, Len(x) + Len(c))
    <3>1. x \in Seq(Int) /\ c \in Seq(Int)
      BY <1>11, <1>13, Zenon
    <3>2. QED
      BY <1>5, <3>1, Joined, Zenon
  <2>2. QED
    BY <1>11, <1>12, <1>13, <2>1, Zenon
<1>15. DOMAIN y = 1 .. 136
  BY <1>14
<1> SUFFICES ASSUME NEW i \in 1 .. 136 PROVE Kept(q, i)
  BY <1>6, <1>15, Zenon
<1>16. y[i] = IF i <= l THEN x[i] ELSE c[i - l]
  BY <1>14, Zenon DEF Joins
<1>17. i <= l => x[i] = IF i <= 12 THEN a[i] ELSE b[i - 12]
  <2>1. \A j \in 1 .. l : x[j] = IF j <= 12 THEN a[j] ELSE b[j - 12]
    BY <1>13, Zenon DEF Joins
  <2>2. QED
    BY <1>12, <2>1
<1>18. PICK k : k = IF i <= 12 THEN i ELSE IF i <= l THEN i + 8 ELSE i + 12
  OBVIOUS
<1>19. y[i] = s[k]
  <2>1. \A j \in 1 .. 12 : a[j] = s[j]
    BY <1>7, Zenon
  <2>2. \A j \in 1 .. lb : b[j] = s[20 + j]
    BY <1>9, Zenon DEF Slices
  <2>3. \A j \in 1 .. lc : c[j] = s[m + j]
    BY <1>11, Zenon DEF Slices
  <2>4. CASE i <= 12
    <3>1. i \in 1 .. 12 /\ i <= l
      BY <1>1, <1>12, <2>4
    <3>2. y[i] = a[i] /\ k = i
      BY <1>16, <1>17, <1>18, <2>4, <3>1, Zenon
    <3>3. QED
      BY <2>1, <3>1, <3>2, Zenon
  <2>5. CASE i > 12 /\ i <= l
    <3>1. i - 12 \in 1 .. lb /\ 20 + (i - 12) = i + 8 /\ ~(i <= 12)
      BY <1>12, <2>5
    <3>2. y[i] = b[i - 12] /\ k = i + 8
      BY <1>16, <1>17, <1>18, <2>5, <3>1, Zenon
    <3>3. QED
      BY <2>2, <3>1, <3>2, Zenon
  <2>6. CASE i > l
    <3>1. i - l \in 1 .. lc /\ m + (i - l) = i + 12 /\ ~(i <= 12) /\ ~(i <= l)
      BY <1>1, <1>10, <1>12, <2>6
    <3>2. y[i] = c[i - l] /\ k = i + 12
      BY <1>16, <1>18, <3>1, Zenon
    <3>3. QED
      BY <2>3, <3>1, <3>2, Zenon
  <2>7. QED
    BY <1>12, <2>4, <2>5, <2>6
<1>20. /\ k \in 1 .. 148 /\ k \notin 13 .. 20
       /\ i = 136 => k = 148
       /\ end = 60 => k \notin 61 .. 64
  BY <1>1, <1>12, <1>18
<1>21. QED
  BY <1>1, <1>2, <1>6, <1>19, <1>20, Zenon DEF Kept

-----------------------------------------------------------------------------
(* torch::concat of tensors, and the offsets of their rows *)

(* Every set of naturals has a least element. *)
LEMMA LeastNat ==
  ASSUME NEW T \in SUBSET Nat, T # {}
  PROVE  \E x \in T : \A y \in T : x <= y
<1>1. IsWellFoundedOn(OpToRel(<, Nat), Nat)
  BY NatLessThanWellFounded
<1>2. PICK x \in T : \A y \in T : ~ (<<y, x>> \in OpToRel(<, Nat))
  BY <1>1, WFMin
<1>3. \A y \in T : <<y, x>> \in Nat \X Nat
  OBVIOUS
<1>4. \A y \in T : ~ (<<y, x>>[1] < <<y, x>>[2])
  BY <1>2, <1>3, Zenon DEF OpToRel
<1> QED
  BY <1>4

(* h holds the concatenations of the first tensors of seqs. *)
Concats(h, seqs, k) ==
  \A i \in 1 .. k : h[i] = IF i = 1 THEN seqs[i] ELSE h[i-1] \o seqs[i]

(* The rows before those of tensor i *)
Before(h, i) == IF i = 1 THEN 0 ELSE Len(h[i-1])

(* The concatenations exist: the least number of tensors without them      *)
(* would have a predecessor with them.                                     *)
LEMMA ConcatsExist ==
  ASSUME NEW S, NEW k \in Nat, NEW seqs \in [1 .. k -> Seq(S)]
  PROVE  \E h \in [1 .. k -> Seq(S)] : Concats(h, seqs, k)
<1> DEFINE Has(n) == \E h \in [1 .. n -> Seq(S)] : Concats(h, seqs, n)
           bad == {n \in 0 .. k : ~Has(n)}
<1>1. bad = {}
  <2> SUFFICES ASSUME bad # {} PROVE FALSE
    OBVIOUS
  <2>1. bad \in SUBSET Nat
    OBVIOUS
  <2>2. PICK n \in bad : \A m \in bad : n <= m
    BY <2>1, LeastNat
  <2>3. n \in 0 .. k /\ ~Has(n)
    OBVIOUS
  <2>4. CASE n = 0
    <3>1. [i \in 1 .. n |-> <<>>] \in [1 .. n -> Seq(S)] /\ 1 .. n = {}
      BY <2>4
    <3>2. Concats([i \in 1 .. n |-> <<>>], seqs, n)
      BY <3>1, Zenon DEF Concats
    <3> QED
      BY <2>3, <3>1, <3>2, Zenon
  <2>5. CASE n # 0
    <3>1. n - 1 \in 0 .. k /\ ~(n <= n - 1)
      BY <2>3, <2>5
    <3>2. Has(n - 1)
      BY <2>2, <3>1
    <3>3. PICK h \in [1 .. n - 1 -> Seq(S)] : Concats(h, seqs, n - 1)
      BY <3>2
    <3>4. PICK l : l = IF n = 1 THEN seqs[n] ELSE h[n - 1] \o seqs[n]
      OBVIOUS
    <3>5. l \in Seq(S)
      <4>1. seqs[n] \in Seq(S)
        BY <2>3, <2>5
      <4>2. n # 1 => h[n - 1] \in Seq(S)
        BY <2>3, <2>5
      <4> QED
        BY <3>4, <4>1, <4>2, ConcatProperties
    <3>6. PICK f : f = [i \in 1 .. n |-> IF i = n THEN l ELSE h[i]]
      OBVIOUS
    <3>7. \A i \in 1 .. n : i # n => i \in 1 .. n - 1
      BY <2>3
    <3>8. f \in [1 .. n -> Seq(S)]
      BY <3>5, <3>6, <3>7
    <3>9. ASSUME NEW i \in 1 .. n
          PROVE  f[i] = IF i = 1 THEN seqs[i] ELSE f[i-1] \o seqs[i]
      <4>1. i # 1 => i - 1 \in 1 .. n /\ i - 1 # n
        BY <2>3
      <4>2. i # 1 => f[i-1] = h[i-1]
        BY <3>6, <4>1, Zenon
      <4>3. CASE i = n
        BY <3>4, <3>6, <4>2, <4>3, Zenon
      <4>4. CASE i # n
        <5>1. i \in 1 .. n - 1 /\ f[i] = h[i]
          BY <3>6, <3>7, <4>4, Zenon
        <5>2. h[i] = IF i = 1 THEN seqs[i] ELSE h[i-1] \o seqs[i]
          BY <3>3, <5>1, Zenon DEF Concats
        <5> QED
          BY <4>2, <5>1, <5>2, Zenon
      <4> QED
        BY <4>3, <4>4
    <3>10. Concats(f, seqs, n)
      BY <3>9, Zenon DEF Concats
    <3> QED
      BY <2>3, <3>8, <3>10, Zenon
  <2> QED
    BY <2>4, <2>5
<1> QED
  BY <1>1

(* FlattenSeq is the last of them: the CHOOSE behind it picks a function   *)
(* that satisfies its recursion, and no two differ.                        *)
LEMMA FlattenIsLast ==
  ASSUME NEW seqs, NEW k \in Nat \ {0}, Len(seqs) = k,
         NEW T, NEW h \in [1 .. k -> T], Concats(h, seqs, k)
  PROVE  FlattenSeq(seqs) = h[k]
<1> DEFINE Fits(f) == f = [i \in 1 .. k |-> IF i = 1 THEN seqs[i] ELSE f[i-1] \o seqs[i]]
           g == CHOOSE f : Fits(f)
<1>1. FlattenSeq(seqs) = g[k]
  BY DEF FlattenSeq
<1>2. Fits(h)
  BY DEF Concats
<1> HIDE DEF Fits
<1>3. Fits(g)
  BY <1>2
<1> HIDE DEF g
<1>4. \A i \in 1 .. k : g[i] = IF i = 1 THEN seqs[i] ELSE g[i-1] \o seqs[i]
  BY <1>3 DEF Fits
<1>5. \A i \in 1 .. k : h[i] = IF i = 1 THEN seqs[i] ELSE h[i-1] \o seqs[i]
  BY <1>2 DEF Fits
<1> DEFINE bad == {i \in 1 .. k : g[i] # h[i]}
<1>6. bad = {}
  <2> SUFFICES ASSUME bad # {} PROVE FALSE
    OBVIOUS
  <2>1. bad \in SUBSET Nat
    OBVIOUS
  <2>2. PICK i \in bad : \A j \in bad : i <= j
    BY <2>1, LeastNat
  <2>3. i \in 1 .. k /\ g[i] # h[i]
    OBVIOUS
  <2>4. i # 1
    BY <1>4, <1>5, <2>3
  <2>5. i - 1 \in 1 .. k /\ ~(i <= i - 1)
    BY <2>3, <2>4
  <2>6. g[i-1] = h[i-1]
    BY <2>2, <2>5
  <2> QED
    BY <1>4, <1>5, <2>3, <2>4, <2>6
<1> QED
  <2>1. k \in 1 .. k
    OBVIOUS
  <2> QED
    BY <1>1, <1>6, <2>1

(* x is row j of tensor i in the concatenation w. *)
RowKept(w, x, y) == x \in 1 .. Len(w) /\ w[x] = y

(* Row j of tensor i is found after the rows of the tensors before it. *)
LEMMA FlattenRow ==
  ASSUME NEW S, NEW k \in Nat, NEW seqs \in [1 .. k -> Seq(S)],
         NEW h \in [1 .. k -> Seq(S)], Concats(h, seqs, k),
         NEW i \in 1 .. k, NEW j \in 1 .. Len(seqs[i])
  PROVE  /\ FlattenSeq(seqs) \in Seq(S) /\ Before(h, i) \in Nat
         /\ RowKept(FlattenSeq(seqs), Before(h, i) + j, seqs[i][j])
<1>1. k \in Nat \ {0} /\ k \in 1 .. k /\ k \in i .. k /\ i \in Nat
  OBVIOUS
<1>2. Len(seqs) = k
  <2>1. seqs \in Seq(Seq(S))
    OBVIOUS
  <2> QED
    BY <2>1
<1>3. FlattenSeq(seqs) = h[k]
  BY <1>1, <1>2, FlattenIsLast
<1>4. \A n \in 1 .. k : h[n] \in Seq(S) /\ Len(h[n]) \in Nat /\ seqs[n] \in Seq(S)
  OBVIOUS
<1>5. PICK b \in Nat : b = Before(h, i)
  BY <1>4 DEF Before
<1>6. PICK x, y : x \in Nat /\ x = b + j /\ y = seqs[i][j]
  OBVIOUS
<1>7. RowKept(h[i], x, y)
  <2>1. CASE i = 1
    <3>1. h[i] = seqs[i] /\ b = 0
      BY <1>5, <2>1 DEF Concats, Before
    <3> QED
      BY <1>6, <3>1 DEF RowKept
  <2>2. CASE i # 1
    <3>1. PICK s, t : s = h[i-1] /\ t = seqs[i]
      OBVIOUS
    <3>2. i - 1 \in 1 .. k
      BY <2>2
    <3>3. s \in Seq(S) /\ t \in Seq(S) /\ h[i] = s \o t /\ b = Len(s)
      BY <1>4, <1>5, <2>2, <3>1, <3>2, Zenon DEF Concats, Before
    <3>4. x \in 1 .. Len(s) + Len(t) /\ ~(x <= Len(s)) /\ x - Len(s) = j
      BY <1>6, <3>1, <3>3
    <3>5. /\ Len(s \o t) = Len(s) + Len(t)
          /\ \A n \in 1 .. Len(s) + Len(t) :
               (s \o t)[n] = IF n <= Len(s) THEN s[n] ELSE t[n - Len(s)]
      BY <3>3, ConcatProperties
    <3> QED
      BY <1>6, <3>1, <3>3, <3>4, <3>5, Zenon DEF RowKept
  <2> QED
    BY <2>1, <2>2
<1> DEFINE bad == {n \in i .. k : ~RowKept(h[n], x, y)}
<1>8. bad = {}
  <2> SUFFICES ASSUME bad # {} PROVE FALSE
    OBVIOUS
  <2>1. bad \in SUBSET Nat
    OBVIOUS
  <2>2. PICK n \in bad : \A m \in bad : n <= m
    BY <2>1, LeastNat
  <2>3. n \in i .. k /\ ~RowKept(h[n], x, y) /\ n # i
    BY <1>7
  <2>4. n - 1 \in i .. k /\ n - 1 \in 1 .. k /\ n \in 1 .. k /\ n # 1 /\ ~(n <= n - 1)
    BY <2>3
  <2>5. RowKept(h[n-1], x, y)
    BY <2>2, <2>4
  <2>6. PICK s, t : s = h[n-1] /\ t = seqs[n]
    OBVIOUS
  <2>7. s \in Seq(S) /\ t \in Seq(S) /\ h[n] = s \o t
    BY <1>4, <2>4, <2>6, Zenon DEF Concats
  <2>8. x \in 1 .. Len(s) /\ s[x] = y
    BY <2>5, <2>6, Zenon DEF RowKept
  <2>9. x \in 1 .. Len(s) + Len(t) /\ x <= Len(s)
    BY <2>7, <2>8
  <2>10. /\ Len(s \o t) = Len(s) + Len(t)
         /\ \A m \in 1 .. Len(s) + Len(t) :
              (s \o t)[m] = IF m <= Len(s) THEN s[m] ELSE t[m - Len(s)]
    BY <2>7, ConcatProperties
  <2>11. RowKept(h[n], x, y)
    BY <2>7, <2>8, <2>9, <2>10, Zenon DEF RowKept
  <2> QED
    BY <2>3, <2>11
<1>9. RowKept(h[k], x, y)
  BY <1>1, <1>8
<1> QED
  BY <1>1, <1>3, <1>4, <1>5, <1>6, <1>9, Zenon

(* The offsets that BuildSlideWindow sums up *)
Offsets(seqs, k) ==
  CHOOSE f : f = [n \in 0 .. k |-> IF n = 0 THEN 0 ELSE f[n-1] + Len(seqs[n])]

OffsetRight(seqs, k, h, i) == Offsets(seqs, k)[i-1] = Before(h, i)

(* They are the rows before each tensor. *)
LEMMA OffsetIs ==
  ASSUME NEW S, NEW k \in Nat, NEW seqs \in [1 .. k -> Seq(S)],
         NEW h \in [1 .. k -> Seq(S)], Concats(h, seqs, k),
         NEW i \in 1 .. k
  PROVE  OffsetRight(seqs, k, h, i)
<1>0. PICK g : g = Offsets(seqs, k)
  OBVIOUS
<1> DEFINE Fits(f) == f = [n \in 0 .. k |-> IF n = 0 THEN 0 ELSE f[n-1] + Len(seqs[n])]
           o == [n \in 0 .. k |-> IF n = 0 THEN 0 ELSE Len(h[n])]
<1>1. \A n \in 1 .. k : h[n] \in Seq(S) /\ Len(h[n]) \in Nat /\ seqs[n] \in Seq(S)
                        /\ Len(seqs[n]) \in Nat
  OBVIOUS
<1>2. \A n \in 0 .. k : o[n] = IF n = 0 THEN 0 ELSE o[n-1] + Len(seqs[n])
  <2> SUFFICES ASSUME NEW n \in 0 .. k, n # 0 PROVE o[n] = o[n-1] + Len(seqs[n])
    OBVIOUS
  <2>1. n \in 1 .. k /\ n - 1 \in 0 .. k /\ o[n] = Len(h[n])
    OBVIOUS
  <2>2. CASE n = 1
    <3>1. h[n] = seqs[n] /\ o[n-1] = 0
      BY <2>1, <2>2 DEF Concats
    <3>2. PICK l \in Nat : l = Len(seqs[n])
      BY <1>1, <2>1, Zenon
    <3>3. l = 0 + l
      OBVIOUS
    <3> QED
      BY <2>1, <3>1, <3>2, <3>3, Zenon
  <2>3. CASE n # 1
    <3>1. n - 1 \in 1 .. k /\ o[n-1] = Len(h[n-1])
      BY <2>1, <2>3
    <3>2. PICK s, t : s = h[n-1] /\ t = seqs[n]
      OBVIOUS
    <3>3. s \in Seq(S) /\ t \in Seq(S) /\ h[n] = s \o t
      BY <1>1, <2>1, <2>3, <3>1, <3>2, Zenon DEF Concats
    <3>4. Len(s \o t) = Len(s) + Len(t)
      BY <3>3, ConcatProperties
    <3> QED
      BY <2>1, <3>1, <3>2, <3>3, <3>4, Zenon
  <2> QED
    BY <2>2, <2>3
<1>3. Fits(o)
  BY <1>2, Zenon
<1>4. g = CHOOSE f : Fits(f)
  BY <1>0 DEF Offsets
<1> HIDE DEF Fits
<1>5. Fits(g)
  BY <1>3, <1>4
<1>6. \A n \in 0 .. k : g[n] = IF n = 0 THEN 0 ELSE g[n-1] + Len(seqs[n])
  BY <1>5 DEF Fits
<1> HIDE DEF o
<1> DEFINE bad == {n \in 0 .. k : g[n] # o[n]}
<1>7. bad = {}
  <2> SUFFICES ASSUME bad # {} PROVE FALSE
    OBVIOUS
  <2>1. bad \in SUBSET Nat
    OBVIOUS
  <2>2. PICK n \in bad : \A m \in bad : n <= m
    BY <2>1, LeastNat
  <2>3. n \in 0 .. k /\ g[n] # o[n]
    OBVIOUS
  <2>4. n # 0
    BY <1>2, <1>6, <2>3
  <2>5. n - 1 \in 0 .. k /\ ~(n <= n - 1)
    BY <2>3, <2>4
  <2>6. g[n-1] = o[n-1]
    BY <2>2, <2>5
  <2> QED
    BY <1>2, <1>6, <2>3, <2>4, <2>6, Zenon
<1>8. g[i-1] = o[i-1] /\ i - 1 \in 0 .. k
  BY <1>7
<1> QED
  BY <1>0, <1>8 DEF o, Before, OffsetRight

-----------------------------------------------------------------------------
(* The windows of one flow *)

(* Window w of a flow: four packets from the w-th group of five *)
WindowAt(flow, w) == [j \in 1 .. 4 |-> flow[5 * (w - 1) + j]]

(* The last packet of a window is among those FlowToTensor keeps. *)
LEMMA WindowRange ==
  ASSUME NEW n \in Nat, NEW w \in 1 .. n \div 5
  PROVE  5 * w <= n - (n % 5)
<1>1. n \div 5 \in Nat /\ n % 5 \in Nat /\ n = (5 * (n \div 5)) + (n % 5)
  OBVIOUS
<1> QED
  BY <1>1

(* FlowToTensor keeps a multiple of five and no window gets lost. *)
LEMMA WindowCount ==
  ASSUME NEW n \in Nat
  PROVE  /\ n - (n % 5) \in 0 .. n /\ (n - (n % 5)) \div 5 = n \div 5 /\ n \div 5 \in Nat
         /\ n - (n % 5) = 0 <=> n < 5
         /\ n \div 5 = 0 <=> n < 5
  OBVIOUS

(* FlowToTensor keeps the first packets. *)
LEMMA TensorOf ==
  ASSUME NEW flow \in Seq(Row)
  PROVE  /\ FlowToTensor(flow) \in Seq(Row)
         /\ Len(FlowToTensor(flow)) = Len(flow) - (Len(flow) % 5)
         /\ \A x \in 1 .. Len(flow) - (Len(flow) % 5) : FlowToTensor(flow)[x] = flow[x]
<1>1. PICK n \in Nat, e \in Nat : n = Len(flow) /\ e = n - (n % 5) /\ e <= n
  BY WindowCount
<1>2. FlowToTensor(flow) = SubSeq(flow, 1, e)
  BY <1>1 DEF FlowToTensor, width
<1>3. PICK a \in Int : a = 1
  OBVIOUS
<1>4. \A x \in a .. e : flow[x] \in Row
  BY <1>1, <1>3
<1>5. /\ SubSeq(flow, a, e) \in Seq(Row)
      /\ Len(SubSeq(flow, a, e)) = (IF a <= e THEN e - a + 1 ELSE 0)
      /\ \A x \in 1 .. e - a + 1 : SubSeq(flow, a, e)[x] = flow[a + x - 1]
  BY <1>4, SubSeqProperties
<1>6. (IF a <= e THEN e - a + 1 ELSE 0) = e /\ e - a + 1 = e /\ \A x \in 1 .. e : a + x - 1 = x
  BY <1>3
<1>7. \A x \in 1 .. e : SubSeq(flow, a, e)[x] = flow[x]
  BY <1>5, <1>6, Zenon
<1> QED
  BY <1>1, <1>2, <1>3, <1>5, <1>6, <1>7, Zenon

(* A flow gives no window exactly if it has fewer than five packets. *)
LEMMA NoWindow ==
  ASSUME NEW flow \in Seq(Row)
  PROVE  HasNoWindow(flow) <=> Len(flow) < 5
<1>1. PICK n \in Nat : n = Len(flow)
  OBVIOUS
<1>2. PICK s : s = FlowToTensor(flow)
  OBVIOUS
<1>3. s \in Seq(Row) /\ Len(s) = n - (n % 5)
  BY <1>1, <1>2, TensorOf, Zenon
<1>4. s = <<>> <=> Len(s) = 0
  BY <1>3
<1>5. n - (n % 5) = 0 <=> n < 5
  BY WindowCount
<1> QED
  BY <1>1, <1>2, <1>3, <1>4, <1>5, Zenon DEF HasNoWindow

(* reshape, slice and reshape give the windows of the flow in order. *)
LEMMA ViewdIs ==
  ASSUME NEW flow \in Seq(Row)
  PROVE  /\ Viewd(flow) \in Seq(Seq(Row)) /\ Len(Viewd(flow)) = Len(flow) \div 5
         /\ \A w \in 1 .. Len(flow) \div 5 : Viewd(flow)[w] = WindowAt(flow, w)
<1>1. PICK n \in Nat, e \in Nat : n = Len(flow) /\ e = n - (n % 5)
  BY WindowCount
<1>2. PICK s : s = FlowToTensor(flow)
  OBVIOUS
<1>3. s \in Seq(Row) /\ Len(s) = e /\ \A x \in 1 .. e : s[x] = flow[x]
  BY <1>1, <1>2, TensorOf, Zenon
<1>4. PICK c \in Nat : c = n \div 5 /\ e \div 5 = c
  BY <1>1, WindowCount
<1>5. Viewd(flow) = [w \in 1 .. c |-> SubSeq(s, 5 * w - 4, 5 * w - 1)]
  <2>1. Viewd(flow) = [w \in 1 .. Len(s) \div 5 |-> SubSeq(s, 5 * w - 4, 5 * w - 1)]
    BY <1>2, Zenon DEF Viewd, Windows
  <2> QED
    BY <1>3, <1>4, <2>1, Zenon
<1>6. ASSUME NEW w \in 1 .. c
      PROVE  /\ SubSeq(s, 5 * w - 4, 5 * w - 1) \in Seq(Row)
             /\ SubSeq(s, 5 * w - 4, 5 * w - 1) = WindowAt(flow, w)
  <2>1. PICK a \in Int, b \in Int, z \in Int : a = 5 * w - 4 /\ b = 5 * w - 1 /\ z = 5 * (w - 1)
    BY <1>4
  <2>2. 5 * w <= e
    BY <1>1, <1>4, WindowRange
  <2>3. /\ 1 <= a /\ b <= e /\ b - a + 1 = 4 /\ a <= b
        /\ \A j \in 1 .. 4 : a + j - 1 = z + j /\ z + j \in 1 .. e
    BY <1>4, <2>1, <2>2
  <2>4. \A x \in a .. b : s[x] \in Row
    BY <1>3, <2>3
  <2>5. PICK v : v = SubSeq(s, a, b)
    OBVIOUS
  <2>6. /\ v \in Seq(Row) /\ Len(v) = (IF a <= b THEN b - a + 1 ELSE 0)
        /\ \A x \in 1 .. b - a + 1 : v[x] = s[a + x - 1]
    <3>1. /\ SubSeq(s, a, b) \in Seq(Row)
          /\ Len(SubSeq(s, a, b)) = (IF a <= b THEN b - a + 1 ELSE 0)
          /\ \A x \in 1 .. b - a + 1 : SubSeq(s, a, b)[x] = s[a + x - 1]
      BY <2>4, SubSeqProperties
    <3> QED
      BY <2>5, <3>1, Zenon
  <2>7. Len(v) = 4 /\ \A j \in 1 .. 4 : v[j] = flow[z + j]
    BY <1>3, <2>3, <2>6, Zenon
  <2>8. v = [j \in 1 .. 4 |-> v[j]]
    <3>1. v = [j \in 1 .. Len(v) |-> v[j]]
      BY <2>6
    <3> QED
      BY <2>7, <3>1, Zenon
  <2>9. v = [j \in 1 .. 4 |-> flow[z + j]]
    BY <2>7, <2>8, Zenon
  <2> QED
    BY <2>1, <2>5, <2>6, <2>9, Zenon DEF WindowAt
<1>7. Viewd(flow) \in [1 .. c -> Seq(Row)]
  BY <1>5, <1>6, Zenon
<1>8. Viewd(flow) \in Seq(Seq(Row)) /\ Len(Viewd(flow)) = c
  <2>1. PICK v : v = Viewd(flow)
    OBVIOUS
  <2>2. v \in Seq(Seq(Row)) /\ DOMAIN v = 1 .. c
    BY <1>7, <2>1
  <2>3. Len(v) = c
    BY <2>2
  <2> QED
    BY <2>1, <2>2, <2>3
<1> QED
  BY <1>1, <1>4, <1>5, <1>6, <1>8, Zenon

(* WindowsOf, which does not speak of the tensor, collects these windows. *)
LEMMA WindowsOfIs ==
  ASSUME NEW flow \in Seq(Row)
  PROVE  WindowsOf(flow) = {[encoding |-> WindowAt(flow, w)] : w \in 1 .. Len(flow) \div 5}
<1>1. PICK n \in Nat : n = Len(flow)
  OBVIOUS
<1>2. WindowsOf(flow) = {[encoding |-> [j \in 1 .. 4 |-> flow[5 * k + j]]] :
                           k \in {k \in 0 .. n : 5 * k + 5 <= n}}
  BY <1>1, Zenon DEF WindowsOf
<1>3. \A w \in 1 .. n \div 5 : w - 1 \in {k \in 0 .. n : 5 * k + 5 <= n}
  <2>1. n \div 5 \in Nat /\ n % 5 \in Nat /\ n = (5 * (n \div 5)) + (n % 5)
    OBVIOUS
  <2> QED
    BY <2>1
<1>4. \A k \in {k \in 0 .. n : 5 * k + 5 <= n} : k + 1 \in 1 .. n \div 5 /\ (k + 1) - 1 = k
  <2>1. n \div 5 \in Nat /\ n % 5 \in 0 .. 4 /\ n = (5 * (n \div 5)) + (n % 5)
    OBVIOUS
  <2> QED
    BY <2>1
<1>5. \A w \in 1 .. n \div 5 :
        \E k \in {k \in 0 .. n : 5 * k + 5 <= n} :
          WindowAt(flow, w) = [j \in 1 .. 4 |-> flow[5 * k + j]]
  BY <1>3, Zenon DEF WindowAt
<1>6. \A k \in {k \in 0 .. n : 5 * k + 5 <= n} :
        \E w \in 1 .. n \div 5 : [j \in 1 .. 4 |-> flow[5 * k + j]] = WindowAt(flow, w)
  <2> SUFFICES ASSUME NEW k \in {k \in 0 .. n : 5 * k + 5 <= n}
               PROVE  \E w \in 1 .. n \div 5 : [j \in 1 .. 4 |-> flow[5 * k + j]] = WindowAt(flow, w)
    OBVIOUS
  <2>1. PICK w : w = k + 1
    OBVIOUS
  <2>2. w \in 1 .. n \div 5 /\ w - 1 = k
    BY <1>4, <2>1, Zenon
  <2>3. WindowAt(flow, w) = [j \in 1 .. 4 |-> flow[5 * k + j]]
    BY <2>2, Zenon DEF WindowAt
  <2> QED
    BY <2>2, <2>3, Zenon
<1>7. ASSUME NEW z \in WindowsOf(flow)
      PROVE  \E w \in 1 .. n \div 5 : z = [encoding |-> WindowAt(flow, w)]
  <2>1. PICK k \in {k \in 0 .. n : 5 * k + 5 <= n} :
          z = [encoding |-> [j \in 1 .. 4 |-> flow[5 * k + j]]]
    BY <1>2, Zenon
  <2>2. PICK w \in 1 .. n \div 5 : [j \in 1 .. 4 |-> flow[5 * k + j]] = WindowAt(flow, w)
    BY <1>6, Zenon
  <2> QED
    BY <2>1, <2>2, Zenon
<1>8. ASSUME NEW w \in 1 .. n \div 5 PROVE [encoding |-> WindowAt(flow, w)] \in WindowsOf(flow)
  <2>1. PICK k \in {k \in 0 .. n : 5 * k + 5 <= n} :
          WindowAt(flow, w) = [j \in 1 .. 4 |-> flow[5 * k + j]]
    BY <1>5, Zenon
  <2> QED
    BY <1>2, <2>1, Zenon
<1> QED
  BY <1>1, <1>7, <1>8, Zenon

-----------------------------------------------------------------------------
(* The batches and the merge *)

(* The loop of BatchEncode runs for any tensor with a row. *)
LEMMA SomeBatch ==
  ASSUME NEW n \in Nat \ {0}
  PROVE  (n + BatchSize - 1) \div BatchSize \in Nat \ {0}
<1>1. PICK size \in Nat \ {0} : size = BatchSize
  BY BatchAssumption
<1>2. PICK m, q : m \in Nat /\ m = n + size - 1 /\ m >= size /\ q = m \div size
  OBVIOUS
<1>3. q \in Nat /\ m < q * size + size
  BY <1>2
<1>4. q # 0
  <2> SUFFICES ASSUME q = 0 PROVE FALSE
    OBVIOUS
  <2>1. q * size = 0
    OBVIOUS
  <2> QED
    BY <1>2, <1>3, <2>1
<1> QED
  BY <1>1, <1>2, <1>3, <1>4, Zenon

(* However often the tensor is repeated, its encodings come first. *)
LEMMA BatchRow ==
  ASSUME NEW S, NEW data \in Seq(S), NEW x \in 1 .. Len(data)
  PROVE  BatchEncode(data)[x] = [encoding |-> data[x]]
<1>1. PICK n \in Nat \ {0} : n = Len(data)
  OBVIOUS
<1>2. PICK B \in Nat \ {0} : B = (n + BatchSize - 1) \div BatchSize
  BY SomeBatch
<1>3. PICK fd : fd = Forward(data)
  OBVIOUS
<1>4. PICK T : T = [encoding : S]
  OBVIOUS
<1>5. fd \in Seq(T) /\ Len(fd) = n /\ fd[x] = [encoding |-> data[x]]
  <2>1. fd = [i \in 1 .. n |-> [encoding |-> data[i]]]
    BY <1>1, <1>3 DEF Forward
  <2>2. \A i \in 1 .. n : [encoding |-> data[i]] \in T
    BY <1>1, <1>4
  <2>3. fd \in [1 .. n -> T]
    BY <2>1, <2>2, Zenon
  <2>4. fd \in Seq(T) /\ DOMAIN fd = 1 .. n
    BY <2>3
  <2>5. Len(fd) = n
    BY <2>4
  <2>6. x \in 1 .. n
    BY <1>1
  <2> QED
    BY <2>1, <2>4, <2>5, <2>6, Zenon
<1>6. PICK seqs \in [1 .. B -> Seq(T)] : seqs = [b \in 1 .. B |-> fd]
  BY <1>5, <1>4, Zenon
<1>7. BatchEncode(data) = FlattenSeq(seqs)
  BY <1>1, <1>2, <1>3, <1>6, Zenon DEF BatchEncode
<1>8. PICK h \in [1 .. B -> Seq(T)] : Concats(h, seqs, B)
  BY ConcatsExist, Zenon
<1>9. PICK i \in 1 .. B : i = 1
  OBVIOUS
<1>10. seqs[i] = fd /\ x \in 1 .. Len(seqs[i])
  BY <1>1, <1>5, <1>6, Zenon
<1>11. RowKept(FlattenSeq(seqs), Before(h, i) + x, seqs[i][x])
  BY <1>8, <1>10, FlattenRow
<1>12. Before(h, i) + x = x
  <2>1. Before(h, i) = 0
    BY <1>9 DEF Before
  <2>2. 0 + x = x
    OBVIOUS
  <2> QED
    BY <2>1, <2>2, Zenon
<1> QED
  BY <1>5, <1>7, <1>10, <1>11, <1>12, Zenon DEF RowKept

(* Slicing the encodings of the whole tensor gives each flow its own. *)
LEMMA Merged ==
  ASSUME NEW list \in Seq(Seq(Row)), NEW i \in DOMAIN list,
         NEW built, built = BuildSlideWindow(list)
  PROVE  /\ DOMAIN MergeFlow(BatchEncode(built.windows), built.index) = DOMAIN list
         /\ MergeFlow(BatchEncode(built.windows), built.index)[i] = WindowsOf(list[i])
<1>1. PICK k \in Nat : k = Len(list) /\ DOMAIN list = 1 .. k
  OBVIOUS
<1>2. PICK wl : wl = [n \in DOMAIN list |-> Viewd(list[n])]
  OBVIOUS
<1>3. PICK g : g = Offsets(wl, k)
  OBVIOUS
<1>4. /\ built.windows = FlattenSeq(wl)
      /\ built.index = [n \in DOMAIN list |-> <<g[n-1], g[n-1] + Len(wl[n])>>]
  BY <1>1, <1>2, <1>3 DEF BuildSlideWindow, Offsets
<1>5. PICK S : S = Seq(Row)
  OBVIOUS
<1>6. \A n \in 1 .. k : list[n] \in Seq(Row)
  BY <1>1
<1>7. wl \in [1 .. k -> Seq(S)]
  <2>1. \A n \in 1 .. k : Viewd(list[n]) \in Seq(S)
    BY <1>5, <1>6, ViewdIs, Zenon
  <2> QED
    BY <1>1, <1>2, <2>1, Zenon
<1>8. PICK h \in [1 .. k -> Seq(S)] : Concats(h, wl, k)
  BY <1>7, ConcatsExist, Zenon
<1>9. i \in 1 .. k
  BY <1>1
<1>10. PICK b \in Nat : b = Before(h, i)
  <2>1. \A n \in 1 .. k : Len(h[n]) \in Nat
    OBVIOUS
  <2>2. i # 1 => i - 1 \in 1 .. k
    BY <1>9
  <2>3. 0 \in Nat
    OBVIOUS
  <2> QED
    BY <2>1, <2>2, <2>3, Zenon DEF Before
<1>11. g[i-1] = b
  <2>1. OffsetRight(wl, k, h, i)
    BY <1>7, <1>8, <1>9, OffsetIs, Zenon
  <2> QED
    BY <1>3, <1>10, <2>1, Zenon DEF OffsetRight
<1>12. PICK flow \in Seq(Row), c \in Nat : flow = list[i] /\ c = Len(flow) \div 5
  <2>1. list[i] \in Seq(Row) /\ Len(list[i]) \in Nat
    BY <1>6, <1>9
  <2>2. Len(list[i]) \div 5 \in Nat
    BY <2>1, WindowCount
  <2> QED
    BY <2>1, <2>2, Zenon
<1>13. Len(wl[i]) = c /\ \A w \in 1 .. c : wl[i][w] = WindowAt(flow, w)
  BY <1>2, <1>12, ViewdIs, Zenon
<1>14. PICK enc : enc = BatchEncode(built.windows)
  OBVIOUS
<1>15. ASSUME NEW w \in 1 .. c PROVE enc[b + w] = [encoding |-> WindowAt(flow, w)]
  <2>1. PICK data, x : data = FlattenSeq(wl) /\ x = b + w
    OBVIOUS
  <2>2. w \in 1 .. Len(wl[i])
    BY <1>13, Zenon
  <2>3. FlattenSeq(wl) \in Seq(S) /\ RowKept(FlattenSeq(wl), Before(h, i) + w, wl[i][w])
    BY <1>7, <1>8, <1>9, <2>2, FlattenRow, Zenon
  <2>4. data \in Seq(S) /\ x \in 1 .. Len(data) /\ data[x] = WindowAt(flow, w)
    BY <1>10, <1>13, <2>1, <2>3, Zenon DEF RowKept
  <2>5. BatchEncode(data)[x] = [encoding |-> data[x]]
    BY <2>4, BatchRow, Zenon
  <2> QED
    BY <1>4, <1>14, <2>1, <2>4, <2>5, Zenon
<1>16. PICK index : index = built.index
  OBVIOUS
<1>17. DOMAIN index = DOMAIN list /\ index[i][1] = b /\ index[i][2] = b + c
  <2>1. index[i] = <<b, b + c>>
    BY <1>4, <1>11, <1>13, <1>16, Zenon
  <2>2. DOMAIN index = DOMAIN list
    BY <1>4, <1>16, Zenon
  <2> QED
    BY <2>1, <2>2
<1>18. MergeFlow(enc, index) = [n \in DOMAIN list |-> {enc[x] : x \in index[n][1] + 1 .. index[n][2]}]
  BY <1>17, Zenon DEF MergeFlow
<1>19. MergeFlow(enc, index)[i] = {enc[x] : x \in b + 1 .. b + c}
  BY <1>17, <1>18, Zenon
<1>20. {enc[x] : x \in b + 1 .. b + c} = {[encoding |-> WindowAt(flow, w)] : w \in 1 .. c}
  <2>1. \A w \in 1 .. c : b + w \in b + 1 .. b + c
    OBVIOUS
  <2>2. \A x \in b + 1 .. b + c : x - b \in 1 .. c /\ b + (x - b) = x
    OBVIOUS
  <2>3. \A x \in b + 1 .. b + c : \E w \in 1 .. c : enc[x] = [encoding |-> WindowAt(flow, w)]
    BY <1>15, <2>2, Zenon
  <2>4. \A w \in 1 .. c : \E x \in b + 1 .. b + c : [encoding |-> WindowAt(flow, w)] = enc[x]
    BY <1>15, <2>1, Zenon
  <2> QED
    BY <2>3, <2>4, Zenon
<1> QED
  BY <1>12, <1>14, <1>16, <1>18, <1>19, <1>20, WindowsOfIs, Zenon

(* A chunk is encoded flow by flow, unless one of them has no window. *)
LEMMA EncodedIs ==
  ASSUME NEW list \in Seq(Seq(Row))
  PROVE  EncodeFlowTensors(list) =
           [i \in DOMAIN list |-> IF \E n \in DOMAIN list : Len(list[n]) < 5
                                    THEN RandRow ELSE WindowsOf(list[i])]
<1>1. \A n \in DOMAIN list : HasNoWindow(list[n]) <=> Len(list[n]) < 5
  <2>1. \A n \in DOMAIN list : list[n] \in Seq(Row)
    OBVIOUS
  <2> QED
    BY <2>1, NoWindow, Zenon
<1>2. CASE \E n \in DOMAIN list : Len(list[n]) < 5
  BY <1>1, <1>2, Zenon DEF EncodeFlowTensors
<1>3. CASE ~\E n \in DOMAIN list : Len(list[n]) < 5
  <2>1. PICK built : built = BuildSlideWindow(list)
    OBVIOUS
  <2>2. PICK m : m = MergeFlow(BatchEncode(built.windows), built.index)
    OBVIOUS
  <2>3. EncodeFlowTensors(list) = m
    BY <1>1, <1>3, <2>1, <2>2, Zenon DEF EncodeFlowTensors
  <2>4. DOMAIN built.index = DOMAIN list
    BY <2>1 DEF BuildSlideWindow
  <2>5. m = [i \in DOMAIN list |-> m[i]]
    BY <2>2, <2>4, Zenon DEF MergeFlow
  <2>6. \A i \in DOMAIN list : m[i] = WindowsOf(list[i])
    BY <2>1, <2>2, Merged, Zenon
  <2>7. m = [i \in DOMAIN list |-> WindowsOf(list[i])]
    BY <2>5, <2>6, Zenon
  <2> QED
    BY <1>3, <2>3, <2>7, Zenon
<1> QED
  BY <1>2, <1>3

-----------------------------------------------------------------------------

(* A parsed packet is the parse of the captured one. *)
ParsedFromRaw ==
  /\ raw \in Packets \cup {Nothing}
  /\ payload \in Payloads
  /\ parsed # Nothing => /\ raw \in Packets /\ present(raw) /\ payload >= 0
                         /\ parsed = ParsedPacket(raw, payload)

(* parse_packet is the only writer of a parsed packet. *)
LEMMA ParsedInvariant == Spec => []ParsedFromRaw
<1>1. Init => ParsedFromRaw
  BY DEF Init, ParsedFromRaw
<1>2. ParsedFromRaw /\ [Next]_vars => ParsedFromRaw'
  <2> SUFFICES ASSUME ParsedFromRaw, [Next]_vars PROVE ParsedFromRaw'
    OBVIOUS
  <2> USE DEF ParsedFromRaw
  <2>1. CASE Parse
    BY <2>1 DEF Parse
  <2>2. CASE ToTensor
    BY <2>2 DEF ToTensor
  <2>3. CASE Encode
    BY <2>3 DEF Encode
  <2>4. CASE UNCHANGED vars
    BY <2>4 DEF vars
  <2>5. QED
    BY <2>1, <2>2, <2>3, <2>4 DEF Next
<1>3. QED
  BY <1>1, <1>2, PTL DEF Spec

(* A row of features is one of the packet captured. *)
RowFromRaw ==
  /\ payload \in Payloads
  /\ row # Nothing => /\ raw \in Packets /\ present(raw) /\ payload >= 0
                      /\ row = PacketToTensor(ParsedPacket(raw, payload))

(* A feature row is that of the captured packet. *)
LEMMA RowInvariant == Spec => []RowFromRaw
<1>1. Init => RowFromRaw
  BY DEF Init, RowFromRaw
<1>2. ParsedFromRaw /\ RowFromRaw /\ [Next]_vars => RowFromRaw'
  <2> SUFFICES ASSUME ParsedFromRaw, RowFromRaw, [Next]_vars PROVE RowFromRaw'
    OBVIOUS
  <2> USE DEF RowFromRaw
  <2>1. CASE Parse
    BY <2>1 DEF Parse
  <2>2. CASE ToTensor
    BY <2>2 DEF ToTensor, ParsedFromRaw
  <2>3. CASE Encode
    BY <2>3 DEF Encode
  <2>4. CASE UNCHANGED vars
    BY <2>4 DEF vars
  <2>5. QED
    BY <2>1, <2>2, <2>3, <2>4 DEF Next
<1>3. QED
  BY <1>1, <1>2, ParsedInvariant, PTL DEF Spec

(* For every set of captured packets: merge_to_existing_flow files both    *)
(* directions of a conversation, and nothing else, under one key.          *)
THEOREM FlowKeyed == Spec => []KeyIsConversation
<1>1. ParsedFromRaw => KeyIsConversation
  <2> SUFFICES ASSUME ParsedFromRaw, parsed # Nothing, NEW p \in Packets
               PROVE  parsed.mKey = KeyOf(p) <=> SameConversation(raw, p)
    BY DEF KeyIsConversation
  <2>1. raw \in RawPacket /\ p \in RawPacket
    BY PacketsAssumption DEF ParsedFromRaw
  <2>2. parsed.mKey = KeyOf(raw)
    BY DEF ParsedFromRaw, ParsedPacket
  <2>3. QED
    BY <2>1, <2>2, KeyIff
<1>2. QED
  BY <1>1, ParsedInvariant, PTL

(* For every payload size and all header lengths: processIPv4Packet and    *)
(* CopyPayloadToBlob give the two headers and the payload of every packet  *)
(* the same places.                                                        *)
THEOREM PartsAligned == Spec => []BlobAligned
<1>1. ParsedFromRaw => BlobAligned
  <2> SUFFICES ASSUME ParsedFromRaw, parsed # Nothing PROVE BlobAligned
    BY DEF BlobAligned
  <2>1. raw \in RawPacket /\ raw.ip_p \in {IPPROTO_UDP, IPPROTO_TCP}
    BY PacketsAssumption DEF ParsedFromRaw, present
  <2>2. payload \in Nat
    BY PayloadsAssumption DEF ParsedFromRaw
  <2>3. parsed.mBlobData = BlobOf(raw, payload)
    BY DEF ParsedFromRaw, ParsedPacket
  <2>4. Len(parsed.mBlobData) = 128 + payload
    BY <2>1, <2>2, <2>3, BlobParts, Zenon
  <2>5. /\ Holds(parsed.mBlobData, 0, 60, 0, HeaderLen(raw))
        /\ Holds(parsed.mBlobData, 60, 68, HeaderLen(raw), DataOffset(raw))
        /\ Holds(parsed.mBlobData, 128, payload, HeaderLen(raw) + DataOffset(raw),
                 raw.ip_len - (HeaderLen(raw) + DataOffset(raw)))
    BY <2>1, <2>2, <2>3, BlobHolds, Zenon
  <2>6. QED
    BY <2>4, <2>5, Zenon DEF BlobAligned
<1>2. QED
  BY <1>1, ParsedInvariant, PTL

(* The k-th byte that PacketToTensor reads of the captured packet *)
ReadAt(k) == IF k <= 128 + payload THEN BlobOf(raw, payload)[k] ELSE Beyond

(* The i-th byte of the row is the k-th byte read, outside the addresses   *)
(* and, for TCP, the ports.                                                *)
MadeFrom(i, k) ==
  /\ row[i] = ReadAt(k)
  /\ i = 136 => k = 148
  /\ k \notin 13 .. 20
  /\ raw.ip_p = IPPROTO_TCP => k \notin 61 .. 64

(* The row of a packet and the bytes it consists of *)
LEMMA RowBytes ==
  ASSUME RowFromRaw, row # Nothing
  PROVE  /\ raw \in RawPacket /\ raw.ip_p \in {IPPROTO_UDP, IPPROTO_TCP} /\ payload \in Nat
         /\ DOMAIN row = 1 .. 136
         /\ \A i \in 1 .. 136 : \E k \in 1 .. 148 : MadeFrom(i, k)
<1>1. /\ raw \in RawPacket /\ raw.ip_p \in {IPPROTO_UDP, IPPROTO_TCP} /\ payload \in Nat
  BY PacketsAssumption, PayloadsAssumption DEF RowFromRaw, present
<1>2. PICK q : q = ParsedPacket(raw, payload)
  OBVIOUS
<1>3. q.mBlobData = BlobOf(raw, payload) /\ q.protocol = raw.ip_p
  BY <1>2 DEF ParsedPacket
<1>4. q.mBlobData \in Seq(Int) /\ Len(q.mBlobData) = 128 + payload
  BY <1>1, <1>3, BlobParts, Zenon
<1>5. row = PacketToTensor(q)
  BY <1>2, Zenon DEF RowFromRaw
<1>6. DOMAIN row = 1 .. 136 /\ \A i \in 1 .. 136 : Kept(q, i)
  BY <1>4, <1>5, RowAt, Zenon
<1>7. \A k \in 1 .. 148 :
        FromBlob(q)[k] = ReadAt(k)
  <2>1. \A k \in 1 .. 148 :
          FromBlob(q)[k] = IF k <= Len(q.mBlobData) THEN q.mBlobData[k] ELSE Beyond
    BY Zenon DEF FromBlob, n_digits
  <2>2. QED
    BY <1>3, <1>4, <2>1, Zenon DEF ReadAt
<1>8. ASSUME NEW i \in 1 .. 136
      PROVE  \E k \in 1 .. 148 : MadeFrom(i, k)
  <2>1. PICK k \in 1 .. 148 : /\ PacketToTensor(q)[i] = FromBlob(q)[k]
                              /\ i = 136 => k = 148
                              /\ k \notin 13 .. 20
                              /\ q.protocol = IPPROTO_TCP => k \notin 61 .. 64
    BY <1>6, Zenon DEF Kept
  <2>2. row[i] = ReadAt(k)
    BY <1>5, <1>7, <2>1, Zenon
  <2>3. raw.ip_p = IPPROTO_TCP => k \notin 61 .. 64
    BY <1>3, <2>1, Zenon
  <2>4. QED
    BY <2>1, <2>2, <2>3, Zenon DEF MadeFrom
<1>9. QED
  BY <1>1, <1>6, <1>8, Zenon

(* For every payload size and every packet: PacketToTensor reads behind    *)
(* the blob exactly if the payload is smaller than 20 bytes.               *)
THEOREM RowWithinBlob == Spec => []RowInBlob
<1>1. RowFromRaw => RowInBlob
  <2> SUFFICES ASSUME RowFromRaw, row # Nothing
               PROVE  (\E i \in DOMAIN row : row[i] = Beyond) <=> payload < 20
    BY DEF RowInBlob
  <2>1. /\ raw \in RawPacket /\ raw.ip_p \in {IPPROTO_UDP, IPPROTO_TCP} /\ payload \in Nat
        /\ DOMAIN row = 1 .. 136
    BY RowBytes, Zenon
  <2>2. HeaderLen(raw) \in 0 .. 60 /\ DataOffset(raw) \in 0 .. 68
    BY <2>1, PartLens, Zenon
  <2>3. ASSUME payload < 20 PROVE \E i \in DOMAIN row : row[i] = Beyond
    <3>1. 136 \in 1 .. 136 /\ ~(148 <= 128 + payload)
      BY <2>1, <2>3
    <3>2. PICK k \in 1 .. 148 : MadeFrom(136, k)
      BY <3>1, RowBytes, Zenon
    <3>3. row[136] = ReadAt(k) /\ k = 148
      BY <3>2, Zenon DEF MadeFrom
    <3>4. row[136] = Beyond
      BY <3>1, <3>3, Zenon DEF ReadAt
    <3>5. QED
      BY <2>1, <3>1, <3>4, Zenon
  <2>4. ASSUME ~(payload < 20), NEW i \in DOMAIN row PROVE row[i] # Beyond
    <3>1. PICK k \in 1 .. 148 : MadeFrom(i, k)
      BY <2>1, RowBytes, Zenon
    <3>2. k <= 128 + payload /\ k \in 1 .. 128 + payload
      BY <2>1, <2>4
    <3>3. row[i] = BlobOf(raw, payload)[k]
      BY <3>1, <3>2, Zenon DEF ReadAt, MadeFrom
    <3>4. CASE row[i] = Pad
      BY <3>4 DEF Pad, Beyond
    <3>5. CASE row[i] # Pad
      <4>1. /\ k <= 60 => row[i] = k - 1
            /\ k > 60 /\ k <= 128 => row[i] = HeaderLen(raw) + (k - 60) - 1
            /\ k > 128 => row[i] = HeaderLen(raw) + DataOffset(raw) + (k - 128) - 1
        BY <2>1, <3>2, <3>3, <3>5, BlobAt
      <4>2. QED
        BY <2>2, <4>1 DEF Beyond
    <3>6. QED
      BY <3>4, <3>5
  <2>5. QED
    BY <2>3, <2>4, Zenon
<1>2. QED
  BY <1>1, RowInvariant, PTL

(* For every payload size and all header lengths of at least five words:   *)
(* PacketToTensor keeps no byte of an address and, for TCP, none of a      *)
(* port, since processIPv4Packet starts the transport part at byte 60      *)
(* however long the IP header is.                                          *)
THEOREM EndpointsCutOut == Spec => []EndpointsHidden
<1>1. RowFromRaw => EndpointsHidden
  <2> SUFFICES ASSUME RowFromRaw, row # Nothing, raw.ip_hl >= 5, raw.doff >= 5,
                      NEW i \in DOMAIN row
               PROVE  /\ row[i] \notin Addresses
                      /\ raw.ip_p = IPPROTO_TCP => row[i] \notin Ports(raw)
    BY DEF EndpointsHidden
  <2>1. /\ raw \in RawPacket /\ raw.ip_p \in {IPPROTO_UDP, IPPROTO_TCP} /\ payload \in Nat
        /\ DOMAIN row = 1 .. 136
    BY RowBytes, Zenon
  <2>2. PICK k \in 1 .. 148 : MadeFrom(i, k)
    BY <2>1, RowBytes, Zenon
  <2>3. HeaderLen(raw) \in 20 .. 60 /\ DataOffset(raw) \in 8 .. 60
    BY <2>1 DEF HeaderLen, DataOffset, RawPacket
  <2>4. CASE row[i] = Pad
    BY <2>3, <2>4 DEF Pad, Addresses, Ports
  <2>5. CASE row[i] = Beyond
    BY <2>3, <2>5 DEF Beyond, Addresses, Ports
  <2>6. CASE row[i] # Pad /\ row[i] # Beyond
    <3>1. k <= 128 + payload /\ row[i] = BlobOf(raw, payload)[k]
      BY <2>2, <2>6, Zenon DEF ReadAt, MadeFrom
    <3>2. k \in 1 .. 128 + payload
      BY <2>1, <3>1
    <3>3. /\ k <= 60 => k <= HeaderLen(raw) /\ row[i] = k - 1
          /\ k > 60 /\ k <= 128 => row[i] = HeaderLen(raw) + (k - 60) - 1
          /\ k > 128 => row[i] = HeaderLen(raw) + DataOffset(raw) + (k - 128) - 1
      BY <2>1, <2>6, <3>1, <3>2, BlobAt, Zenon
    <3>4. QED
      <4>1. k \notin 13 .. 20 /\ (raw.ip_p = IPPROTO_TCP => k \notin 61 .. 64)
        BY <2>2, Zenon DEF MadeFrom
      <4>2. QED
        BY <2>3, <3>3, <4>1 DEF Addresses, Ports
  <2>7. QED
    BY <2>4, <2>5, <2>6
<1>2. QED
  BY <1>1, RowInvariant, PTL

(* The rows of a chunk are the encoding of its flows. *)
RowsFromFlows ==
  /\ flows \in FlowLists \cup {Nothing}
  /\ rows # Nothing => flows \in FlowLists /\ rows = EncodeFlowTensors(flows)

(* encode_flow_tensors is the only writer of the rows. *)
LEMMA RowsInvariant == Spec => []RowsFromFlows
<1>1. Init => RowsFromFlows
  BY DEF Init, RowsFromFlows
<1>2. RowsFromFlows /\ [Next]_vars => RowsFromFlows'
  <2> SUFFICES ASSUME RowsFromFlows, [Next]_vars PROVE RowsFromFlows'
    OBVIOUS
  <2> USE DEF RowsFromFlows
  <2>1. CASE Parse
    BY <2>1 DEF Parse
  <2>2. CASE ToTensor
    BY <2>2 DEF ToTensor
  <2>3. CASE Encode
    BY <2>3 DEF Encode
  <2>4. CASE UNCHANGED vars
    BY <2>4 DEF vars
  <2>5. QED
    BY <2>1, <2>2, <2>3, <2>4 DEF Next
<1>3. QED
  BY <1>1, <1>2, PTL DEF Spec

(* For every chunk of flows of any lengths and every batch size:           *)
(* BuildSlideWindow, BatchEncode and MergeFlow give each flow the          *)
(* encodings of its own windows, or every flow of the chunk a random row   *)
(* if one has fewer than five packets.                                     *)
THEOREM FlowsEncodedAlone == Spec => []FeaturesExact
<1>1. RowsFromFlows => FeaturesExact
  <2> SUFFICES ASSUME RowsFromFlows, rows # Nothing PROVE FeaturesExact
    BY DEF FeaturesExact
  <2>1. flows \in Seq(Seq(Row)) /\ rows = EncodeFlowTensors(flows)
    BY FlowListsAssumption DEF RowsFromFlows
  <2>2. PICK list \in Seq(Seq(Row)) : list = flows
    BY <2>1
  <2> QED
    BY <2>1, <2>2, EncodedIs, Zenon DEF FeaturesExact
<1>2. QED
  BY <1>1, RowsInvariant, PTL

=============================================================================
