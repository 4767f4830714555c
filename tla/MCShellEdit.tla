---------------------------- MODULE MCShellEdit -----------------------------
(* ShellEdit with lines of two characters, a history of two lines and up to *)
(* three submitted lines, so that the history ring wraps.                   *)
EXTENDS ShellEdit
MCCompletions == {<<>>, <<"a">>, <<"a", "a">>}
=============================================================================
