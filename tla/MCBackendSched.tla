--------------------------- MODULE MCBackendSched ---------------------------
(***************************************************************************)
(* Instances of BackendSched for TLC: how a model is spread over backends,  *)
(* and what the backends can do.                                            *)
(***************************************************************************)
EXTENDS BackendSched

Part(backend, inputs, reads) ==
    [backend |-> backend, inputs |-> inputs, reads |-> reads]

(* The embeddings on the CPU, the layers on two devices; the layers read    *)
(* the output of the part before first, and the mask after it.              *)
TwoDevices == << Part(CPU, <<>>,     {0}),
                 Part(1,   <<1, 0>>, {0, 1}),
                 Part(2,   <<2, 0>>, {0, 2}) >>

(* The same, with the mask copied first. *)
MaskFirst  == << Part(CPU, <<>>,     {0}),
                 Part(1,   <<0, 1>>, {0, 1}),
                 Part(2,   <<0, 2>>, {0, 2}) >>

(* One device, some layers and the output on the CPU. *)
CPULast    == << Part(1,   <<0>>,    {0}),
                 Part(CPU, <<1>>,    {0, 1}),
                 Part(1,   <<2>>,    {0, 2}),
                 Part(CPU, <<3>>,    {0, 3}) >>

Machine(splits, n_copies, peer, reuse, callback, unsorted) ==
    [splits |-> splits, n_copies |-> n_copies, peer |-> peer, reuse |-> reuse,
     callback |-> callback, unsorted |-> unsorted]

MCConfigs ==
    { Machine(TwoDevices, 2, FALSE, FALSE, FALSE, FALSE),
      Machine(TwoDevices, 2, TRUE,  FALSE, TRUE,  FALSE),
      Machine(MaskFirst,  2, TRUE,  FALSE, FALSE, FALSE),
      Machine(TwoDevices, 1, TRUE,  TRUE,  FALSE, FALSE),
      Machine(CPULast,    2, FALSE, FALSE, FALSE, TRUE) }

(* Each of these lets a split be computed from, or the rows be filled with, *)
(* something else.                                                          *)
MCPeer     == { Machine(TwoDevices, 2, TRUE,  FALSE, FALSE, FALSE) }
MCReuse    == { Machine(TwoDevices, 2, FALSE, TRUE,  FALSE, FALSE) }
MCUnsorted == { Machine(TwoDevices, 1, FALSE, FALSE, FALSE, TRUE) }
=============================================================================
