---------------------------- MODULE ShellScreen -----------------------------
(***************************************************************************)
(* What the shell draws: the text grid and the software cursor of          *)
(* hal/src/framebuffer.rs (FramebufferWriter), driven by the key handlers  *)
(* of kernel/src/shell.rs and by the blink of the timer handler.           *)
(*                                                                         *)
(* A key handler takes the WRITER lock several times.  `todo' holds its    *)
(* remaining lock sections, each a sequence of writer operations; between  *)
(* two sections cursor_tick finds the lock free and draws.  The line       *)
(* itself and its history are in ShellEdit; here a history key loads any   *)
(* line.  Colours other than the cursor's inversion are left out.          *)
(*                                                                         *)
(* Three things a user or the timer may do leave the screen wrong.  The    *)
(* history variable `harm' records them until the screen is next cleared,  *)
(* and the properties say that nothing else spoils it.                     *)
(***************************************************************************)
EXTENDS Naturals, Sequences, SequencesExt

CONSTANTS
  Cols, Rows,   \* the glyph grid
  BUF_CAP,      \* characters in a line
  Char,         \* printable characters other than the space
  Prompt,       \* the prompt's characters
  Texts,        \* what a command, or a list of candidates, prints
  MaxSpoiled    \* bound: keys pressed on a spoiled screen before it is cleared

\* The prompt and the longest line may wrap, but stay on the screen when the
\* last row scrolls.
ASSUME GridAssumption ==
  /\ Rows \in Nat \ {0} /\ MaxSpoiled \in Nat /\ Cols \in Nat \ {0} /\ BUF_CAP \in Nat
  /\ Prompt \in Seq(Char) /\ Texts \subseteq Seq(Char)
  /\ Cols * (Rows - 1) >= Len(Prompt) + BUF_CAP

VARIABLES
  w,     \* the FramebufferWriter, and prompt_col
  text,  \* history: the character last written to each cell
  buf, cursor_pos,
  todo,  \* lock sections the running key handler has still to do
  harm,  \* history: what has spoiled the screen since it was last cleared
  late   \* history: keys pressed since then

vars == <<w, text, buf, cursor_pos, todo, harm, late>>

Blank == [ch |-> " ", inv |-> FALSE]
BlankRow == [c \in 0..Cols-1 |-> Blank]

-----------------------------------------------------------------------------
(* FramebufferWriter.                                                      *)

\* write_glyph at the cursor.
Glyph(v, ch, inv) == [v EXCEPT !.cells[v.row][v.col] = [ch |-> ch, inv |-> inv]]

draw_cursor_cell(v, visible) == Glyph(v, v.cursor_char, visible)

\* Mutant: the cursor is a solid block.
ShowBlock(v, ch) ==
  Glyph([v EXCEPT !.cursor_char = ch, !.blink_on = TRUE], "block", TRUE)

cursor_show(v, ch) ==
  draw_cursor_cell([v EXCEPT !.cursor_char = ch, !.blink_on = TRUE], TRUE)

cursor_hide(v) == draw_cursor_cell([v EXCEPT !.blink_on = FALSE], FALSE)

tick_cursor(v) == draw_cursor_cell([v EXCEPT !.blink_on = ~@], ~v.blink_on)

set_col(v, c) == [v EXCEPT !.col = IF c < Cols THEN c ELSE Cols - 1]

clear(v) == [v EXCEPT !.cells = [r \in 0..Rows-1 |-> BlankRow], !.col = 0, !.row = 0,
                      !.blink_on = FALSE, !.cursor_char = " "]

\* The end of write_char: scroll_up, with the row pinned to the last line.
Scroll(v) ==
  IF v.row < Rows THEN v
  ELSE [v EXCEPT !.row = Rows - 1,
                 !.cells = [r \in 0..Rows-1 |-> IF r = Rows - 1 THEN BlankRow ELSE v.cells[r+1]]]

\* One cell back, over the left margin too; none at the top left corner.
StepBack(v) ==
  IF v.col > 0      THEN [v EXCEPT !.col = @ - 1]
  ELSE IF v.row > 0 THEN [v EXCEPT !.col = Cols - 1, !.row = @ - 1]
  ELSE v

backspace(v) ==
  LET h == cursor_hide(v)
  IN  IF v.col = 0 /\ v.row = 0 THEN h ELSE Glyph(StepBack(h), " ", FALSE)

newline(v) == [v EXCEPT !.col = 0, !.row = @ + 1]

\* Mutant: the cursor is not erased first.
WriteOver(v, ch) ==
  Scroll(IF ch = "nl" THEN newline(v)
         ELSE LET g == Glyph(v, ch, FALSE)
              IN  IF v.col + 1 >= Cols THEN newline(g) ELSE [g EXCEPT !.col = @ + 1])

\* Erase the cursor, write the character or end the line, wrap, scroll.
write_char(v, ch) ==
  LET h == cursor_hide(v) IN
  Scroll(IF ch = "nl" THEN newline(h)
         ELSE LET g == Glyph(h, ch, FALSE)
              IN  IF v.col + 1 >= Cols THEN newline(g) ELSE [g EXCEPT !.col = @ + 1])

\* One writer operation; "mark" is print_prompt's reading of the column.
Do(v, op) ==
  CASE op[1] = "put"    -> write_char(v, op[2])
    [] op[1] = "bs"     -> backspace(v)
    [] op[1] = "hide"   -> cursor_hide(v)
    [] op[1] = "show"   -> cursor_show(v, op[2])
    [] op[1] = "setcol" -> set_col(v, op[2])
    [] op[1] = "clear"  -> clear(v)
    [] op[1] = "mark"   -> [v EXCEPT !.prompt_col = v.col]

\* The text an operation leaves, as if there were no cursor to draw.
Chars(cells) == [r \in 0..Rows-1 |-> [c \in 0..Cols-1 |-> cells[r][c].ch]]
Under(v, t, op) ==
  IF op[1] \in {"put", "bs", "clear"}
    THEN LET u == Do([v EXCEPT !.cells = [r \in 0..Rows-1 |->
                         [c \in 0..Cols-1 |-> [ch |-> t[r][c], inv |-> FALSE]]],
                       !.cursor_char = t[v.row][v.col]], op)
         IN  Chars(u.cells)
    ELSE t

-----------------------------------------------------------------------------
(* The shell's lock sections.                                              *)

put(ch)  == << <<"put", ch>> >>
puts(s)  == [i \in 1..Len(s) |-> put(s[i])]

\* print! of a text: one section.
print(s) == [i \in 1..Len(s) |-> <<"put", s[i]>>]

\* Mutant: one backspace too few.
bsShort(n) == [i \in 1..n-1 |-> << <<"bs">> >>]

\* One backspace per character, each a section.
bs(n)    == [i \in 1..n |-> << <<"bs">> >>]

\* cursor_char of a line s with the cursor at p.
CursorChar(s, p) == IF p < Len(s) THEN s[p + 1] ELSE " "
show(s, p) == << <<"show", CursorChar(s, p)>> >>

\* hide, reposition, show: one section.
Jump(s, p) ==
  << << <<"hide">>, <<"setcol", w.prompt_col + p>>, <<"show", CursorChar(s, p)>> >> >>

\* redraw_from
Redraw(s, from, p) ==
  << << <<"hide">>, <<"setcol", w.prompt_col + from>> >> >>
    \o puts(SubSeq(s, from + 1, Len(s))) \o << put(" ") >>
    \o << << <<"setcol", w.prompt_col + p>>, <<"show", CursorChar(s, p)>> >> >>

\* print_prompt, which prints the prompt in parts; the column is read in a
\* section of its own.
print_prompt == puts(Prompt) \o << << <<"mark">> >>, << <<"show", " ">> >> >>

Init ==
  /\ w = [cells |-> [r \in 0..Rows-1 |-> BlankRow], row |-> 0, col |-> 0,
          blink_on |-> FALSE, cursor_char |-> " ", prompt_col |-> 0]
  /\ text = Chars(w.cells)
  /\ buf = <<>> /\ cursor_pos = 0
  /\ todo = print_prompt
  /\ harm = {} /\ late = 0

Clears(section) == <<"clear">> \in ToSet(section)

\* A key: the line becomes s with the cursor at p, and the handler draws.
Draws(s, p, sections) ==
  /\ todo = <<>>
  /\ late < MaxSpoiled \/ harm = {} \/ \E i \in DOMAIN sections : Clears(sections[i])
  /\ late' = IF harm = {} \/ late = MaxSpoiled THEN late ELSE late + 1
  /\ buf' = s /\ cursor_pos' = p
  /\ todo' = sections
  /\ UNCHANGED <<w, text>>

\* push_char shows the cursor at the end.
Key(s, p, sections) == Draws(s, p, sections \o << show(s, p) >>)

AtEnd == cursor_pos = Len(buf)

\* The handlers that print or erase from where the cursor is take it to be at
\* the end of the line, and cursor_char to be a space.
EndKey == harm' = harm \cup (IF AtEnd THEN {} ELSE {"inside"})

\* The handlers that move inside the line only set the column: the line, and
\* n cells more, must leave the last column of the prompt's row free.
RowKey(s, n) == harm' = harm \cup (IF w.prompt_col + Len(s) + n < Cols THEN {} ELSE {"wrap"})

\* At the end of the line, or inside it; redraw_from shows the cursor then.
Insert(ch) ==
  LET s == InsertAt(buf, cursor_pos + 1, ch) IN
  /\ Len(buf) < BUF_CAP
  /\ \/ AtEnd /\ UNCHANGED harm /\ Key(s, cursor_pos + 1, << put(ch) >>)
     \/ ~AtEnd /\ RowKey(s, 1) /\ Draws(s, cursor_pos + 1, Redraw(s, cursor_pos, cursor_pos + 1))

Backspace ==
  LET s == RemoveAt(buf, cursor_pos) IN
  /\ cursor_pos > 0
  /\ \/ AtEnd /\ UNCHANGED harm /\ Key(s, cursor_pos - 1, bs(1))
     \/ ~AtEnd /\ RowKey(s, 1) /\ Key(s, cursor_pos - 1, Redraw(s, cursor_pos - 1, cursor_pos - 1))

\* cursor_left, cursor_right, cursor_to_start and cursor_to_end
CursorKey ==
  /\ RowKey(buf, 0)
  /\ \E p \in {cursor_pos - 1, cursor_pos + 1, 0, Len(buf)} \cap 0..Len(buf) :
       Key(buf, p, Jump(buf, p))

\* A key that has nothing to do: the line is full, empty or at its end, there
\* is no history or no completion.
Idle == Key(buf, cursor_pos, <<>>) /\ UNCHANGED harm

\* ctrl_u and, for a part of the line, ctrl_w: one backspace per character.
Erase ==
  /\ EndKey
  /\ \E n \in 1..Len(buf) : Key(SubSeq(buf, 1, Len(buf) - n), Len(buf) - n, bs(n))

\* history_up and history_down: erase_line in one section, reprint_buf.
LoadLine ==
  /\ EndKey
  /\ \E n \in 0..BUF_CAP : \E s \in [1..n -> Char] :
       Key(s, n, << [i \in 1..Len(buf) |-> <<"bs">>] >> \o puts(s) \o << show(s, n) >>)

\* Tab: append what is missing of the only candidate or of all, which may be
\* nothing, or list the candidates and start the line again.
Complete ==
  /\ EndKey
  /\ buf # <<>>
  /\ \/ \E t \in {<<>>} \cup {<<ch>> : ch \in Char} :
          /\ Len(buf \o t) <= BUF_CAP
          /\ Key(buf \o t, Len(buf \o t), puts(t))
     \/ \E s \in Texts : Key(buf, Len(buf),
          << put("nl"), print(s), put("nl") >> \o print_prompt \o puts(buf)
             \o << show(buf, Len(buf)) >>)

\* ctrl_l
CtrlL ==
  /\ Key(buf, Len(buf), << << <<"clear">> >> >> \o print_prompt \o puts(buf)
                          \o << show(buf, Len(buf)) >>)
  /\ UNCHANGED harm

\* What a command does to the screen: nothing, a text with or without a new
\* line after it (echo -n), an empty line, or cmd_clear.
Output ==
  {<<>>, put("nl"), << <<"clear">> >>} \cup UNION {{print(s), print(Append(s, "nl"))} : s \in Texts}

\* submit: the line ends, the command runs, a prompt follows.
Enter ==
  /\ EndKey
  /\ \E out \in Output : Key(<<>>, 0, << put("nl"), out >> \o print_prompt)

\* println!("^C") is one section.
CtrlC ==
  /\ EndKey
  /\ \E s \in Texts : Key(<<>>, 0, << print(Append(s, "nl")) >> \o print_prompt)

\* The next lock section of the handler.
Draw ==
  /\ todo # <<>>
  /\ LET r == FoldLeft(LAMBDA x, op : [v |-> Do(x.v, op), t |-> Under(x.v, x.t, op)],
                       [v |-> w, t |-> text], Head(todo))
     IN  w' = r.v /\ text' = r.t
  /\ harm' = IF Clears(Head(todo)) THEN {} ELSE harm
  /\ late' = IF Clears(Head(todo)) THEN 0 ELSE late
  /\ todo' = Tail(todo)
  /\ UNCHANGED <<buf, cursor_pos>>

\* The handler is about to move the cursor without hiding it: the last
\* section of redraw_from.
AtSetCol == todo # <<>> /\ Head(todo) # <<>> /\ Head(todo)[1][1] = "setcol"

\* cursor_tick, with the lock free.
Tick ==
  /\ w' = tick_cursor(w)
  /\ harm' = harm \cup (IF AtSetCol THEN {"blink"} ELSE {})
  /\ UNCHANGED <<text, buf, cursor_pos, todo, late>>

Next ==
  \/ \E ch \in Char : Insert(ch)
  \/ Backspace \/ CursorKey \/ Erase \/ Idle \/ LoadLine \/ Complete \/ CtrlL \/ Enter \/ CtrlC
  \/ Draw \/ Tick

Spec == Init /\ [][Next]_vars

-----------------------------------------------------------------------------
(* Properties.                                                             *)

\* The screen shows what was written, whatever the cursor drew over it.
TextKept == todo = <<>> => Chars(w.cells) = text

CursorIsOnlyInverse ==
  \A r \in 0..Rows-1, c \in 0..Cols-1 :
    w.cells[r][c].inv <=> w.blink_on /\ r = w.row /\ c = w.col

\* The character at a cell, counted from the top left.
CharAt(i) == w.cells[i \div Cols][i % Cols].ch

\* The prompt and the line, from wherever on a row the prompt began, nothing
\* after them, and the cursor where the line editor says.
LineOnScreen ==
  todo = <<>> =>
    LET at == w.row * Cols + w.col
        start == at - (Len(Prompt) + cursor_pos)
        shown == Prompt \o buf
    IN  /\ at >= Len(Prompt) + cursor_pos
        /\ \A i \in start..Rows*Cols-1 :
             CharAt(i) = IF i - start < Len(shown) THEN shown[i - start + 1] ELSE " "

\* draw_cursor_cell restores cursor_char, "so moving the cursor never erases
\* text": true except after a key that prints or erases from inside the line,
\* a blink before redraw_from's last section, or a move inside a line that
\* does not fit its row.  Only these three spoil the text, wherever else the
\* blink falls, and clearing the screen (^L or clear) ends each of them.
TextIntact == harm = {} => TextKept

\* set_col leaves the cursor's visibility to its callers, and only
\* redraw_from's last section moves a cursor that a blink may just have drawn:
\* unless one fell there since the screen was cleared, the only inverted cell
\* is the one at the cursor while it is shown, between any two lock sections,
\* after scrolling, and also on a screen whose text is spoiled.
OneCursor == "blink" \notin harm => CursorIsOnlyInverse

\* The key handlers: after every key the prompt and the line are on the
\* screen, also when a line has wrapped, scrolled and shrunk back over the
\* margin, when the prompt began in the middle of a row (echo -n), and when
\* a spoiled screen has been cleared in the middle of a line.
LineShown == harm = {} => LineOnScreen
=============================================================================
