--------------------------- MODULE MCServerSlots ---------------------------
(***************************************************************************)
(* Instances of ServerSlots for TLC: the prompts and the command lines.     *)
(***************************************************************************)
EXTENDS ServerSlots

Task(type, prompt, cache_prompt, lora, n_predict, n_keep) ==
    [type |-> type, prompt |-> prompt, cache_prompt |-> cache_prompt,
     lora |-> lora, n_predict |-> n_predict, n_keep |-> n_keep]

Server(n_parallel, ctx_shift, n_cache_reuse, n_draft, partial_rm, n_swa) ==
    [n_parallel |-> n_parallel, ctx_shift |-> ctx_shift,
     n_cache_reuse |-> n_cache_reuse, n_draft |-> n_draft, partial_rm |-> partial_rm, n_swa |-> n_swa]

MCRequests ==
    { Task("completion", <<2>>,                TRUE, 0, 3, 0),
      Task("completion", <<2, 1>>,             TRUE, 0, 2, 0),
      Task("completion", <<1, 2, 1, 1>>,       TRUE, 0, 2, 0),
      Task("completion", <<1, 1, 2, 1, 2, 2, 1, 2>>, TRUE, 0, 1, 1),
      Task("completion", <<1, 2>>,             FALSE, 1, 1, 0),
      Task("embedding",  <<1, 2>>,             TRUE, 0, 1, 0) }

MCConfigs ==
    { Server(1, TRUE,  1, 0, TRUE,  0),
      Server(1, FALSE, 0, 0, FALSE, 0),
      Server(1, FALSE, 0, 1, TRUE,  2),
      Server(2, TRUE,  0, 1, TRUE,  0),
      Server(2, FALSE, 1, 0, TRUE,  0) }
=============================================================================
