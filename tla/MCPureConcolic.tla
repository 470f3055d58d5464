--------------------------- MODULE MCPureConcolic ---------------------------
(* A program that generates no, one or two test cases, and input files whose *)
(* names are part of each other or the hash of a content.                    *)
EXTENDS PureConcolic

MCHash == [c \in 1..4 |-> <<"h1", "h2", "h3", "h4">>[c]]
MCOccurs == {<<"a", "ab">>}
MCTestCases == <<<<2, 3>>, <<4>>, <<3>>, <<>>>>
=============================================================================
