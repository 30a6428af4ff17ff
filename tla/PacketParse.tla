----------------------------- MODULE PacketParse -----------------------------
(***************************************************************************)
(* parsed_packet: what the parser makes of the bytes of a captured packet. *)
(*                                                                         *)
(* A raw packet is a record of the header fields the parser looks at.      *)
(* Addresses and ports are the numbers the fields hold on a little-endian  *)
(* host (s_addr, source, dest), before ntohs.  The blob is a sequence that *)
(* says of each byte where it was copied from, as an offset from the start *)
(* of the IP header, or Pad.  The parameter payload is opt.payload.        *)
(***************************************************************************)
EXTENDS Integers, Sequences

IPPROTO_TCP == 6
IPPROTO_UDP == 17
Pad == -1      \* a zero of the padding
Beyond == -2   \* whatever lies in memory behind the blob
Lesser(x, y) == IF x <= y THEN x ELSE y
Greater(x, y) == IF x <= y THEN y ELSE x

UInt16 == {n \in Nat : n < 256 * 256}

(* The header fields of a captured packet; ipv4 and inner_ipv4 say that    *)
(* the Ethernet type, and the one four bytes further on, is IPv4.          *)
RawPacket ==
  [vlan : BOOLEAN, ipv4 : BOOLEAN, inner_ipv4 : BOOLEAN, ip_p : Nat,
   ip_src : Nat, ip_dst : Nat, source : UInt16, dest : UInt16,
   ip_hl : 0 .. 15, ip_len : UInt16, doff : 0 .. 15]

-----------------------------------------------------------------------------
(* The flow key *)

ntohs(x) == (x % 256) * 256 + (x \div 256)

(* Addresses in ascending, ports in descending order of the numbers as     *)
(* they are on the wire.                                                   *)
PortsUnordered(p) == <<ntohs(p.source), ntohs(p.dest)>>
PortsOf(p) == <<ntohs(Greater(p.source, p.dest)), ntohs(Lesser(p.source, p.dest))>>
AddressesOf(p) == <<Lesser(p.ip_src, p.ip_dst), Greater(p.ip_src, p.ip_dst)>>
KeyOf(p) == <<AddressesOf(p), PortsOf(p), p.ip_p>>

-----------------------------------------------------------------------------
(* The blob *)

Bytes(from, n) == [i \in 1 .. n |-> from + i - 1]
Zeros(n) == [i \in 1 .. n |-> Pad]
Padded(from, n, size) == Bytes(from, n) \o Zeros(size - n)

HeaderLen(p) == p.ip_hl * 4
DataOffset(p) == IF p.ip_p = IPPROTO_TCP THEN p.doff * 4 ELSE 8

IpPart(p) == Padded(0, HeaderLen(p), 60)

(* The transport header, padded to the 60 bytes of the longest TCP header  *)
(* and the 8 of a UDP header                                               *)
TransportUnpadded(p) == Bytes(HeaderLen(p), DataOffset(p)) \o Zeros(8)
TransportPart(p) == Padded(HeaderLen(p), DataOffset(p), 60 + 8)

(* CopyPayloadToBlob: the payload is appended, and then the whole blob is  *)
(* padded to the length it should have.                                    *)
PayloadLen(p, payload) ==
  Lesser(Greater(p.ip_len - HeaderLen(p) - DataOffset(p), 0), payload)

Copied(p, payload) ==
  IpPart(p) \o TransportPart(p)
    \o Bytes(HeaderLen(p) + DataOffset(p), PayloadLen(p, payload))

BlobOf(p, payload) ==
  Copied(p, payload) \o Zeros(payload + 128 - Len(Copied(p, payload)))

-----------------------------------------------------------------------------

(* A VLAN tag moves the Ethernet header by sizeof(vlan_header), once. *)
IsIPv4(p) == IF p.vlan THEN p.inner_ipv4 ELSE p.ipv4

present(p) == IsIPv4(p) /\ p.ip_p \in {IPPROTO_UDP, IPPROTO_TCP}

ParsedPacket(p, payload) ==
  [protocol |-> p.ip_p, mKey |-> KeyOf(p), mBlobData |-> BlobOf(p, payload)]

(* from_blob takes n_digits bytes from where the blob begins, however long *)
(* it is.                                                                  *)
TooManyDigits == 152
n_digits == 148
FromBlob(q) ==
  [k \in 1 .. n_digits |-> IF k <= Len(q.mBlobData) THEN q.mBlobData[k] ELSE Beyond]

(* PacketToTensor: the bytes of a parsed packet that are features *)
PacketToTensorWhole(q) == SubSeq(FromBlob(q), 1, 136)
PacketToTensor(q) ==
  LET ft == FromBlob(q)
      end == IF q.protocol = IPPROTO_TCP THEN 60 ELSE 120
  IN  SubSeq(ft, 1, 12) \o SubSeq(ft, 21, end) \o SubSeq(ft, end + 5, n_digits)

=============================================================================
