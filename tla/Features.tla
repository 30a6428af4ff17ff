------------------------------ MODULE Features ------------------------------
(***************************************************************************)
(* The two ends of the data path, run on one input each: a captured packet *)
(* is parsed and turned into a row of features, a chunk of flows is        *)
(* encoded.  PacketParse and Transform hold the operators.                 *)
(***************************************************************************)
EXTENDS PacketParse, Transform

CONSTANTS
  Packets,    \* the captured packets tried
  Payloads,   \* the values of opt.payload tried
  Row,        \* what a flow consists of: its packets
  FlowLists,  \* the chunks of flows tried
  Nothing     \* no input, or no result

ASSUME PacketsAssumption == Packets \subseteq RawPacket
ASSUME PayloadsAssumption == Payloads \subseteq Int
ASSUME FlowListsAssumption == FlowLists \subseteq Seq(Seq(Row))
ASSUME NothingAssumption ==
  /\ Nothing \notin Packets /\ Nothing \notin FlowLists
  /\ \A p \in Packets, n \in Payloads : n >= 0 => Nothing # ParsedPacket(p, n)
  /\ \A f \in FlowLists : Nothing # EncodeFlowTensors(f)

VARIABLES
  payload, \* opt.payload
  raw,     \* the captured packet
  parsed,  \* the packet MakeFlow gets
  row,     \* its row of the flow tensor
  flows,   \* the chunk of flows
  rows     \* the encodings of the chunk

vars == <<payload, raw, parsed, row, flows, rows>>

Init ==
  /\ payload \in Payloads
  /\ parsed = Nothing /\ row = Nothing /\ rows = Nothing
  /\ \/ raw \in Packets /\ flows = Nothing
     \/ raw = Nothing /\ flows \in FlowLists

(* parse_raw_packets keeps a packet only if it is present().  With a       *)
(* negative payload append throws, as payload_len is unsigned, and the     *)
(* packet is never constructed.                                            *)
Parse ==
  /\ raw # Nothing
  /\ present(raw)
  /\ payload >= 0
  /\ parsed' = ParsedPacket(raw, payload)
  /\ UNCHANGED <<payload, raw, row, flows, rows>>

ToTensor ==
  /\ parsed # Nothing
  /\ row' = PacketToTensor(parsed)
  /\ UNCHANGED <<payload, raw, parsed, flows, rows>>

Encode ==
  /\ flows # Nothing
  /\ rows' = EncodeFlowTensors(flows)
  /\ UNCHANGED <<payload, raw, parsed, row, flows>>

Next == Parse \/ ToTensor \/ Encode

Spec == Init /\ [][Next]_vars

-----------------------------------------------------------------------------
(* Properties *)

SameConversation(p, q) ==
  /\ p.ip_p = q.ip_p
  /\ {p.ip_src, p.ip_dst} = {q.ip_src, q.ip_dst}
  /\ {p.source, p.dest} = {q.source, q.dest}

(* The key merge_to_existing_flow files a packet under: both directions of *)
(* a conversation get one key, and packets of another protocol, address    *)
(* pair or port pair get another.  Which port belongs to which address is  *)
(* not part of it.                                                         *)
KeyIsConversation ==
  parsed # Nothing =>
    \A p \in Packets : parsed.mKey = KeyOf(p) <=> SameConversation(raw, p)

(* From place start + 1 on, the blob has size places for the n bytes at    *)
(* offset from of the packet, and zeros where there are fewer.             *)
Holds(blob, start, size, from, n) ==
  \A i \in 1 .. size : blob[start + i] = IF i <= n THEN from + i - 1 ELSE Pad

(* Whatever the header lengths say, the IP header, the transport header    *)
(* and the payload have the same places in the blob of every packet, which *)
(* the slices of PacketToTensor rely on.                                   *)
BlobAligned ==
  parsed # Nothing =>
    LET blob == parsed.mBlobData
        headers == HeaderLen(raw) + DataOffset(raw)
    IN  /\ Len(blob) = 128 + payload
        /\ Holds(blob, 0, 60, 0, HeaderLen(raw))
        /\ Holds(blob, 60, 68, HeaderLen(raw), DataOffset(raw))
        /\ Holds(blob, 128, payload, headers, raw.ip_len - headers)

(* PacketToTensor, which always reads 148 bytes, reads behind the blob     *)
(* with the payload sizes below the default of 20 (the usage text calls 0  *)
(* the default) and with no other, however short the packet itself is.     *)
RowInBlob ==
  row # Nothing => ((\E i \in DOMAIN row : row[i] = Beyond) <=> payload < 20)

Addresses == 12 .. 19
Ports(p) == HeaderLen(p) .. HeaderLen(p) + 3

(* The slices of PacketToTensor cut the endpoints out: no byte of an       *)
(* address, and for TCP no byte of a port, is a feature of a packet with   *)
(* well-formed headers, wherever its headers end.                          *)
EndpointsHidden ==
  (row # Nothing /\ raw.ip_hl >= 5 /\ raw.doff >= 5) =>
    \A i \in DOMAIN row : /\ row[i] \notin Addresses
                          /\ raw.ip_p = IPPROTO_TCP => row[i] \notin Ports(raw)

(* The encoding of a flow, defined without the batch: the first four of    *)
(* every five packets                                                      *)
WindowsOf(flow) ==
  {[encoding |-> [j \in 1 .. 4 |-> flow[5 * k + j]]] :
     k \in {k \in 0 .. Len(flow) : 5 * k + 5 <= Len(flow)}}

(* Building one tensor for all flows, encoding it in batches and slicing   *)
(* it again gives each flow the encoding it would have alone, in order,    *)
(* although every iteration of BatchEncode repeats the whole tensor.  One  *)
(* flow without a window makes all rows of its chunk random.               *)
FeaturesExact ==
  rows # Nothing =>
    rows = [i \in DOMAIN flows |->
              IF \E k \in DOMAIN flows : Len(flows[k]) < 5
                THEN RandRow ELSE WindowsOf(flows[i])]

=============================================================================
