------------------------------ MODULE MCFeatures ------------------------------
(***************************************************************************)
(* Instances of Features: header lengths at their limits, ports whose      *)
(* order changes with the byte order, and flows around multiples of five.  *)
(***************************************************************************)
EXTENDS Features

CONSTANTS
  MaxCount,  \* packets of a flow
  MaxFlows   \* flows of a chunk

Base ==
  [vlan |-> FALSE, ipv4 |-> TRUE, inner_ipv4 |-> FALSE, ip_p |-> IPPROTO_TCP,
   ip_src |-> 1, ip_dst |-> 2, source |-> 1, dest |-> 256,
   ip_hl |-> 5, ip_len |-> 60, doff |-> 5]

Endpoints ==
  {[Base EXCEPT !.ip_p = pr, !.ip_src = s, !.ip_dst = d, !.source = sp, !.dest = dp] :
     pr \in {IPPROTO_TCP, IPPROTO_UDP}, s \in 1 .. 2, d \in 1 .. 2,
     sp \in {1, 256, 257}, dp \in {1, 256, 257}}

Layouts ==
  {[Base EXCEPT !.ip_p = pr, !.ip_hl = h, !.doff = o, !.ip_len = l] :
     pr \in {1, IPPROTO_TCP, IPPROTO_UDP}, h \in {0, 5, 6, 15}, o \in {0, 5, 15},
     l \in {0, 41, 1500}}

Links ==
  {[Base EXCEPT !.vlan = v, !.ipv4 = e, !.inner_ipv4 = i] :
     v \in BOOLEAN, e \in BOOLEAN, i \in BOOLEAN}

MCPackets == Endpoints \cup Layouts \cup Links

(* Refused by append, the default of the usage text, below, at and above   *)
(* the default of the code                                                 *)
MCPayloads == {-1, 0, 8, 19, 20, 40}

Counts == UNION {[1 .. n -> 0 .. MaxCount] : n \in 1 .. MaxFlows}

MCRow == (1 .. MaxFlows) \X (1 .. MaxCount)

MCFlowLists ==
  {[i \in DOMAIN c |-> [j \in 1 .. c[i] |-> <<i, j>>]] : c \in Counts}

=============================================================================
