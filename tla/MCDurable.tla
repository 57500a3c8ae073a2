------------------------------ MODULE MCDurable ------------------------------
(* Model checking of Durable: versions of a handler that add, drop, swap and *)
(* repeat calls.                                                             *)
EXTENDS Durable

MCPrograms ==
    LET now == Call("now", "now")
        random == Call("random", "random")
        a == Call("side_effect", "a")
        b == Call("side_effect", "b")
    IN {<<now, a, b>>, <<now, b>>, <<a, a>>, <<random, a>>}
=============================================================================
