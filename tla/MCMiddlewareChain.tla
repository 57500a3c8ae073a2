-------------------------- MODULE MCMiddlewareChain --------------------------
(* Model checking of MiddlewareChain: the middlewares that are registered,   *)
(* two of them under one name.                                               *)
EXTENDS MiddlewareChain

Named(name, kind) == [name |-> name, kind |-> kind]

MCMiddlewares ==
    {Named("m", "metrics"), Named("t", "timeout"), Named("e", "encryption"),
     Named("f", "fn"), Named("t", "otelMetrics")}

Symmetry == Permutations(KeyIds) \cup Permutations(Keys)
=============================================================================
