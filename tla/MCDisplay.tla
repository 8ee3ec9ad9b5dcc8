----------------------------- MODULE MCDisplay -----------------------------
(* Three cells, one of them markdown and one with the outputs of an earlier *)
(* session; a piece of a line, a traceback and an SVG.                      *)
EXTENDS Display

MCStream == Stream("stdout", <<0>>)
MCSvg == Data("image/svg+xml" :> 2 @@ "text/plain" :> 1)
MCContents ==
    [id \in 1 .. 3 |->
        [id |-> id, type |-> IF id = 2 THEN "markdown" ELSE "code",
         source |-> IF id = 3 THEN <<>> ELSE <<id, id>>, count |-> 0,
         outputs |-> IF id = 1 THEN <<MCStream, MCStream, MCSvg>> ELSE <<>>]]
MCStart == {<<1, 2>>}
MCPriority == <<"image/png", "image/svg+xml", "text/plain">>
MCMessages ==
    {MCStream, MCSvg, Error(<<[kind |-> "cell", count |-> 1, line |-> 2]>>)}
=============================================================================
