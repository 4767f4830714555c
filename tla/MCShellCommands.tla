-------------------------- MODULE MCShellCommands ---------------------------
(* A tree three levels deep in which a file's name occurs at every level,   *)
(* an archive of one deep file, one that uses a file as a directory, and one *)
(* cut off in the data of its last file.                                    *)
EXTENDS ShellCommands

D == <<"d">>
E == <<"e">>
F == <<"f">>
Dot == <<".">>
DotDot == <<".", ".">>

Entry(path, kind, data) == [path |-> path, kind |-> kind, data |-> data, cut |-> FALSE]
CutOff(path, data) == [path |-> path, kind |-> "file", data |-> data, cut |-> TRUE]

MCArchives ==
  LET deep == Entry(<<D, E, F>>, "file", <<"x", "\n", "y">>)
      file == Entry(<<F>>, "file", <<"a", " ", "A", "\n">>)
  IN  { {Entry(<<D>>, "dir", <<>>), file, Entry(<<D, E>>, "dir", <<>>),
         Entry(<<D, F>>, "file", <<>>), deep},
        {deep},
        {Entry(<<D>>, "dir", <<>>), file, Entry(<<F, E>>, "file", <<"z">>)},
        {Entry(<<D>>, "dir", <<>>), file, CutOff(<<D, E, F>>, <<"z">>)} }

\* The order of COMMANDS, without those of other modules and of the hardware.
MCCommands ==
  << [name |-> <<"e", "c", "h", "o">>, run |-> "echo"],
     [name |-> <<"w", "c">>, run |-> "wc"],
     [name |-> <<"h", "e", "a", "d">>, run |-> "head"],
     [name |-> <<"t", "a", "i", "l">>, run |-> "tail"],
     [name |-> <<"g", "r", "e", "p">>, run |-> "grep"],
     [name |-> <<"l", "s">>, run |-> "ls"],
     [name |-> <<"c", "a", "t">>, run |-> "cat"],
     [name |-> <<"s", "t", "a", "t">>, run |-> "stat"],
     [name |-> <<"c", "d">>, run |-> "cd"],
     [name |-> <<"p", "w", "d">>, run |-> "pwd"],
     [name |-> <<"e", "x", "p", "o", "r", "t">>, run |-> "export"],
     [name |-> <<"h", "e", "l", "p">>, run |-> "help"] >>

Sp == <<" ">>
Semi == <<";">>
And == <<"&", "&">>
CmdName(run) == Names[SelectInSeq(Commands, LAMBDA c : c.run = run)]
Cmd(run, arg) == CmdName(run) \o Sp \o arg
Cd(arg) == Cmd("cd", arg)
Quoted(s) == <<"'">> \o s \o <<"'">>

MCLines ==
  { Cd(D), Cd(DotDot), Cd(<<"-">>), CmdName("cd"),
    Cd(<<"d", "/", "f">>),                                   \* not a directory
    Cd(D) \o Semi \o Cd(<<"$", "P", "W", "D", "/", "e">>),   \* b sees a's PWD
    Cd(<<"-">>) \o Semi \o Cmd("echo", <<"$", "P", "W", "D">>),
    Cd(E) \o Semi \o CmdName("ls") \o And \o Cmd("cat", F),
    Cmd("export", <<"X", "=", "d", ";", "f">>),              \* split at the ";"
    <<"X">> \o Sp \o D,                                      \* unknown
    Cmd("export", Quoted(<<"X", "=", "f", ";", " ", "c", "d">>)),
    Cmd("stat", <<"$", "{", "X", "}">>) \o Semi \o Cmd("cat", <<"$", "X">>),
    Cmd("grep", <<"-", "i", "n", " ", "a", " ", "~", "f">>) \o Semi
      \o Cmd("tail", <<"-", "n", "1", " ", "/", "f">>) }

MCTexts ==
  BoundedSeq({"a", "1", "-", "'", ";", " "}, 4) \cup BoundedSeq({"a", "&", "\"", "'", "$"}, 4)
    \cup {<<"-", "a", " ", "-", "-", " ", "-", "b">>, <<"-", "a", "b", " ", "1", "2", " ", "c">>, <<"-", "i", " ", "1", "a", " ", "f">>,
          <<"-", "n", "1", "0", " ", "2", " ", "-">>, <<"a", " ", "-", "-", " ", "-", "-", " ", "1">>}
    \cup {Cmd("head", <<"-", "n", "5", " ", "f">>), Cmd("wc", F), Cmd("help", <<"c", "d">>), CmdName("help"),
          CmdName("export"), CmdName("pwd")}

MCPaths ==
  LET comps == UNION {[1..n -> {D, E, F, Dot, DotDot}] : n \in 1..2}
               \cup {<<D, DotDot, D>>, <<D, E, DotDot>>, <<D, E, F>>, <<DotDot, DotDot, D>>}
      rel(c) == Tail(PathText(c))
  IN  {rel(c) : c \in comps} \cup {PathText(c) : c \in comps}

MCPartials ==
  {Cmd("cat", p) : p \in {<<>>, D, <<"d", "/">>, <<"d", "/", "e">>, <<"/">>, <<".", ".", "/", "f">>,
                          <<"f", "/">>, <<"d", "/", ".", ".", "/", "d">>, <<"x", " ", "/">>}}
  \cup {<<"h", "e">>, <<"c">>, Sp, Cmd("help", <<"h">>)}

-----------------------------------------------------------------------------
(* The pure functions against their definitions, on all small inputs.      *)

Words == BoundedSeq({"a", "b"}, 3)

ASSUME DistanceIsLevenshtein ==
  \A a, b \in Words : edit_distance(a, b) = Levenshtein(a, b)

ASSUME PrefixIsLongestCommon ==
  \A cs \in [1..3 -> Words] : longest_common_prefix(cs) = Len(LongestCommonPrefix(Range(cs)))

ASSUME HeadAndTailMeet ==
  \A s \in BoundedSeq({"a", " ", "\n"}, 4) :
    LET n == Len(LinesOf(s))
    IN  \A k \in 0..n : HeadLines(s, k) \o TailLines(s, n - k) = TailLines(s, n + 1)
=============================================================================
