--------------------------- MODULE MCTerminalBus ---------------------------
(* An input terminal, one with longer data, an output terminal and an      *)
(* empty line.                                                             *)
EXTENDS TerminalBus

CONSTANTS i, j, o, x

TheKinds   == {i, j, o, x}
TheKnown   == {i, j, o}
TheInputs  == {i, j}
TheOutputs == {o}
TheLonger  == {j}
TheLines   == {<<i, o>>, <<x, j>>, <<>>}
=============================================================================
