-------------------------------- MODULE MCSign --------------------------------
(***************************************************************************)
(* Instance of Sign for TLC: one file under a relative and a longer path,  *)
(* with contents shorter than the text buffer, as long, and longer, where  *)
(* the end of one content looks like a component of a path.                *)
(***************************************************************************)
EXTENDS Sign

MCPaths == {<<"a">>, <<"dir", "a">>}
MCContents == {<< >>, <<"x">>, <<"x", "y">>, <<"x", "y", "dir">>}
=============================================================================
