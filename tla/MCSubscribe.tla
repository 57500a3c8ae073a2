----------------------------- MODULE MCSubscribe -----------------------------
EXTENDS Subscribe

MCLines ==
    {<<>>, <<"data", "v">>, <<"data", "m1", "m2">>, <<"data">>, <<"event", "v">>,
     <<"id", "v">>, <<"v">>}
=============================================================================
