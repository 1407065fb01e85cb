--------------------------- MODULE MCServerQueue ---------------------------
(***************************************************************************)
(* The instance of ServerQueue for TLC: two clients, and the pairs of       *)
(* requests that they make.                                                 *)
(***************************************************************************)
EXTENDS ServerQueue

CONSTANTS c1, c2

Req(mode, n, id_slot, bad) ==
    [mode |-> mode, n |-> n, id_slot |-> id_slot, bad |-> bad]

Pair(r1, r2) == (c1 :> r1) @@ (c2 :> r2)

MCRequests ==
    { (* a completion that streams, and one that does not, for slot 1 *)
      Pair(Req("stream", 1, 0, {}), Req("multi", 1, 1, {})),
      (* two tasks for slot 1, the second of them unusable, and a slot_op *)
      Pair(Req("multi", 2, 1, {2}), Req("slot_op", 1, 1, {})),
      (* scores, while the server is observed *)
      Pair(Req("rerank", 2, 0, {}), Req("monitor", 1, 0, {})),
      (* two tasks for slot 1, and one for a slot that does not exist *)
      Pair(Req("multi", 2, 1, {}), Req("multi", 1, 3, {})),
      (* an operation on a slot that does not exist *)
      Pair(Req("stream", 1, 0, {}), Req("slot_op", 1, 3, {})) }
=============================================================================
