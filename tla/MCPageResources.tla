-------------------------- MODULE MCPageResources --------------------------
(***************************************************************************)
(* An instance of PageResources for TLC: a style element, a preload link   *)
(* and a stylesheet link with the same address.                            *)
(***************************************************************************)
EXTENDS PageResources

MCTree == <<1, 2, 3>>
MCLinks == {2, 3}
MCPages ==
  {[in |-> <<TRUE, TRUE, TRUE>>,
    rel |-> <<"none", "preload", "stylesheet">>,
    url |-> <<"a", "a", "a">>,
    text |-> <<0, 0, 0>>]}
=============================================================================
