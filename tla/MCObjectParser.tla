--------------------------- MODULE MCObjectParser ---------------------------
(***************************************************************************)
(* Model checking of ObjectParser: every boundary of the integer and       *)
(* length encodings, keys with a common prefix, a stack of two containers. *)
(***************************************************************************)
EXTENDS ObjectParser

Pos(b) == ZeroExt(b)
Neg(b) == Extend(b, 255)

MCWords ==
    {Pos(<<b>>) : b \in {0, 1, 127, 128, 255}}
    \cup {Pos(b) : b \in {<<1, 0>>, <<127, 255>>, <<128, 0>>, <<255, 255>>,
                          <<1, 0, 0>>, <<127, 255, 255, 255>>, <<128, 0, 0, 0>>,
                          <<255, 255, 255, 255>>, <<1, 0, 0, 0, 0>>}}
    \cup {Neg(<<b>>) : b \in {255, 224, 223, 129, 128, 127}}
    \cup {Neg(b) : b \in {<<128, 0>>, <<128, 1>>, <<127, 255>>, <<128, 0, 0, 0>>,
                          <<127, 255, 255, 255>>}}
    \cup {MinS(8), MaxS(8)}

Run(n) == [i \in 1..n |-> 97]

MCStrings == {<<>>, <<97>>, <<97, 98>>, <<92, 110>>, <<34>>,
              Run(31), Run(32), Run(255), Run(256)}

MCScalars ==
    {<<t, w>> : t \in {"signed", "unsigned"}, w \in MCWords}
    \cup {<<t, r>> : t \in {"float", "double"}, r \in {0, 14, 16, Inf}}
    \cup {<<"string", s>> : s \in MCStrings}
    \cup {<<"binary", s>> : s \in {<<>>, <<1, 2>>, Run(255), Run(256)}}
    \cup {<<"bool", TRUE>>, <<"bool", FALSE>>, <<"null">>}

MCInnerScalars == {<<"signed", Pos(<<98>>)>>, <<"string", <<98>>>>, <<"string", <<>>>>,
                   <<"bool", FALSE>>, <<"null">>, <<"double", 16>>}

MCAllScalars == MCScalars \cup MCInnerScalars

MCKeys == {<<97>>, <<98>>, <<97, 98>>}
=============================================================================
