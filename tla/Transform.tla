------------------------------ MODULE Transform ------------------------------
(***************************************************************************)
(* encode_flow_tensors: how the packets of a chunk of flows are cut into   *)
(* windows, encoded in one tensor and gathered again per flow.             *)
(*                                                                         *)
(* A flow is the sequence of its packets; a row of a tensor is what it was *)
(* computed from.  The normalisation of a window and the maximum over      *)
(* windows are not computed: the encoding of a window is a record of it,   *)
(* and a maximum is the set of the encodings it is taken over.             *)
(***************************************************************************)
EXTENDS Integers, Sequences, SequencesExt

CONSTANT BatchSize  \* batch_size of BatchEncode, 8192 in encode_flow_tensors

ASSUME BatchAssumption == BatchSize \in Nat \ {0}

width == 5

(* A row of torch::rand, computed from no window *)
RandRow == {}

(* FlowToTensor drops the packets that fill no window. *)
FlowToTensor(flow) == SubSeq(flow, 1, Len(flow) - (Len(flow) % width))

(* reshape({-1, 5, 136}).slice(1, 0, 4).reshape({-1, 544}) *)
Windows(tensor) ==
  [w \in 1 .. Len(tensor) \div 5 |-> SubSeq(tensor, 5 * w - 4, 5 * w - 1)]

Viewd(flow) == Windows(FlowToTensor(flow))

(* window_list, concatenated, and for each flow the range of its windows;  *)
(* offset[i] is offset after the i-th flow.                                *)
BuildSlideWindowLocal(flow_list) ==
  LET window_list == [i \in DOMAIN flow_list |-> Viewd(flow_list[i])]
  IN  [windows |-> FlattenSeq(window_list),
       index |-> [i \in DOMAIN flow_list |-> <<0, Len(window_list[i])>>]]
BuildSlideWindow(flow_list) ==
  LET window_list == [i \in DOMAIN flow_list |-> Viewd(flow_list[i])]
      offset[i \in 0 .. Len(flow_list)] ==
        IF i = 0 THEN 0 ELSE offset[i-1] + Len(window_list[i])
  IN  [windows |-> FlattenSeq(window_list),
       index |-> [i \in DOMAIN flow_list |->
                    <<offset[i-1], offset[i-1] + Len(window_list[i])>>]]

(* The model encodes each row of its input by itself. *)
Forward(data) == [i \in DOMAIN data |-> [encoding |-> data[i]]]

(* Each iteration passes the whole of data to the model, not batch_data. *)
BatchEncode(data) ==
  FlattenSeq([b \in 1 .. (Len(data) + BatchSize - 1) \div BatchSize |-> Forward(data)])

MergeFlow(encoded_flows, index_arr) ==
  [i \in DOMAIN index_arr |->
     {encoded_flows[k] : k \in index_arr[i][1] + 1 .. index_arr[i][2]}]

(* A flow without a window has an empty slice, over which the torch::max   *)
(* of MergeFlow throws; if no flow of the chunk has one, BatchEncode has   *)
(* nothing to concat and throws already.  The handler of either returns    *)
(* random rows for the whole chunk.                                        *)
HasNoWindow(flow) == FlowToTensor(flow) = <<>>

EncodeFlowTensors(flow_list) ==
  IF \E i \in DOMAIN flow_list : HasNoWindow(flow_list[i])
    THEN [i \in DOMAIN flow_list |-> RandRow]
    ELSE LET built == BuildSlideWindow(flow_list)
         IN  MergeFlow(BatchEncode(built.windows), built.index)

=============================================================================
