--------------------------- MODULE MCShellScreen ----------------------------
(* ShellScreen on a grid of five by two, with a prompt of one character    *)
(* and lines of up to three.  A line typed at the left margin wraps only   *)
(* under redraw_from; after a text of two without a new line (echo -n) it  *)
(* wraps as it is typed.                                                   *)
EXTENDS ShellScreen
MCPrompt == <<"b">>
MCTexts == {<<"a">>, <<"b", "b">>}

(* Each of the three things `harm' records, taken to be harmless.          *)
InsideHarmless == harm = {"inside"} => TextKept
BlinkHarmless  == harm = {"blink"} => CursorIsOnlyInverse
WrapHarmless   == harm = {"wrap"} => LineOnScreen
=============================================================================
