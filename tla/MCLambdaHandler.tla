--------------------------- MODULE MCLambdaHandler ---------------------------
(* Model checking of LambdaHandler: a good record, one that may fail in      *)
(* every way, one whose body does not parse, one push, one direct call.      *)
EXTENDS LambdaHandler, TLC

MCType == ("good" :> "t1") @@ ("bad" :> "t2") @@ ("garbled" :> "garbage")
             @@ ("push" :> "t2") @@ ("direct" :> "t1")
=============================================================================
