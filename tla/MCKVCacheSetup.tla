--------------------------- MODULE MCKVCacheSetup ---------------------------
(* Four backends and the kinds of models that the runner tells apart: dense, *)
(* windowed, compressed, hybrid with Mamba, sharing caches between layers.   *)
EXTENDS KVCacheSetup

MCBackends ==
  [halves |-> [block_dim |-> 1, sizes |-> {1, 2}, threshold |-> NoThreshold, support |-> 3],
   blocks |-> [block_dim |-> 0, sizes |-> {1}, threshold |-> 2, support |-> 2],
   latent |-> [block_dim |-> 0, sizes |-> {2, 4}, threshold |-> 4, support |-> 2],
   mamba  |-> [block_dim |-> 0, sizes |-> {4}, threshold |-> 1, support |-> 2]]

Spec0 == [type |-> "full", block_size |-> 2, storage |-> 2, cell |-> 1, page |-> 4,
          padded |-> FALSE, states |-> <<>>, spec_blocks |-> 0]
Window == [Spec0 EXCEPT !.type = "window"]
OneToken == [Spec0 EXCEPT !.block_size = 1, !.storage = 1, !.cell = 2]
Encoder == [Spec0 EXCEPT !.type = "encoder_only"]
\* four tokens compressed into two entries, in a page with room to spare
Latent == [Spec0 EXCEPT !.type = "mla", !.block_size = 4, !.cell = 2, !.page = 6, !.padded = TRUE]
Index == [Spec0 EXCEPT !.type = "mla", !.block_size = 4, !.cell = 3, !.page = 6]
State == [Spec0 EXCEPT !.type = "mamba", !.block_size = 4, !.states = <<1, 2>>,
          !.spec_blocks = 1, !.padded = TRUE]

L(i, spec, backend, heads, target) ==
  [index |-> i, spec |-> spec, backend |-> backend, heads |-> heads, target |-> target]
M(ls, gs, ts) ==
  [layers |-> ls, groups |-> gs, tensors |-> ts,
   prefix_caching |-> FALSE, fast_prefill |-> FALSE, cross_layers |-> FALSE]
G(names, spec) == [names |-> names, spec |-> spec]

Dense(spec, backend, heads) ==
  M([a |-> L(1, spec, backend, 2, Unset), b |-> L(2, spec, backend, heads, Unset)],
    <<G({"a", "b"}, spec)>>, {{"a"}, {"b"}})
Windowed(backend) ==
  M([a |-> L(1, Spec0, backend, 2, Unset), b |-> L(2, Window, backend, 2, Unset)],
    <<G({"a"}, Spec0), G({"b"}, Window)>>, {{"a", "b"}})
HybridModel(backend, cached) ==
  [M([a |-> L(1, Spec0, backend, 2, Unset), s |-> L(2, State, "mamba", 0, Unset)],
     <<G({"a"}, Spec0), G({"s"}, State)>>, {{"a", "s"}}) EXCEPT !.prefix_caching = cached]
Sharing(early) ==
  [M([a |-> L(1, Spec0, "halves", 2, Unset), b |-> L(2, Window, "halves", 2, Unset),
      c |-> L(3, Window, "halves", 2, "b"), d |-> L(4, Spec0, "halves", 2, "a")],
     <<G({"a"}, Spec0), G({"b"}, Window)>>, {{"a", "b"}}) EXCEPT !.fast_prefill = early]
Compressed ==
  M([a |-> L(1, Latent, "latent", 2, Unset), i |-> L(2, Index, "latent", 4, Unset)],
    <<G({"a"}, Latent), G({"i"}, Index)>>, {{"a", "i"}})
WithEncoder ==
  M([a |-> L(1, Spec0, "halves", 2, Unset), e |-> L(2, Encoder, "halves", 2, Unset)],
    <<G({"a"}, Spec0)>>, {{"a"}})
HybridSharing ==
  M([a |-> L(1, Spec0, "halves", 2, Unset), s |-> L(2, State, "mamba", 0, Unset),
     c |-> L(3, Spec0, "halves", 2, "a")],
    <<G({"a"}, Spec0), G({"s"}, State)>>, {{"a", "s"}})

MCModels ==
  {Dense(Spec0, "halves", 2), Dense(Spec0, "blocks", 4), Dense(OneToken, "blocks", 2),
   [Dense(Spec0, "blocks", 2) EXCEPT !.cross_layers = TRUE],
   Windowed("halves"), Windowed("blocks"), HybridModel("halves", FALSE),
   HybridModel("halves", TRUE), HybridModel("blocks", FALSE), Sharing(FALSE),
   Sharing(TRUE), Compressed, WithEncoder, HybridSharing}
=============================================================================
