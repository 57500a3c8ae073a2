------------------------------- MODULE MCClient -------------------------------
EXTENDS Client

\* Names at, over and within the limits, with every class at every end.
MCTypeNames ==
    {<<>>, <<"a">>, <<"d">>, <<".">>, <<"a", "d">>, <<"a", "x">>, <<"a", ".">>, <<".", "a">>,
     <<"a", ".", "a">>, <<"a", ".", "d">>, <<"a", ".", ".", "a">>, <<"a", "d", "a", "d">>,
     <<"a", "a", ".", "a", "d">>}
MCQueueNames ==
    {<<>>, <<"d">>, <<"x">>, <<"a", ".">>, <<".", "a">>, <<"a", ".", "d">>,
     <<"a", "x", "d">>, <<"a", ".", ".", "d">>, <<"a", "a", "a", "a">>, <<"a", "a", "a", "a", "a">>}

MCArgs ==
    {Scalar, Object(Scalar), Array(<<>>), Array(<<Scalar>>), Array(<<Object(Scalar)>>),
     Array(<<Scalar, Object(Scalar)>>)}

MCMoreItems == {NewItem(<<"x">>, Object(Scalar))}

\* Callbacks without options, with one to be cut, and with a delay that may be too long.
MCCallbackItems ==
    LET Step(options) == [NewItem(<<"a">>, Array(<<Scalar>>)) EXCEPT !.options = options]
    IN {Step(<<>>),
        Step(<<[kind |-> "Timeout", value |-> 5], [kind |-> "Queue", value |-> <<"d">>]>>),
        Step(<<[kind |-> "Delay", value |-> 15]>>)}

MCFirstItems ==
    [enqueue |-> {NewItem(type, Scalar) : type \in MCTypeNames}
                     \cup {NewItem(<<"a">>, args) : args \in MCArgs},
     batch   |-> {NewItem(<<"x">>, args) : args \in MCArgs}] @@ [kind \in Kinds |-> MCMoreItems]
=============================================================================
