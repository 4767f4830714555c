----------------------------- MODULE ShellEdit ------------------------------
(***************************************************************************)
(* The line editor and command history of kernel/src/shell.rs: one action  *)
(* per key that Shell::push_char dispatches on.  A line is a sequence of   *)
(* characters: the arrays buf, live_buf and history[i] with their lengths, *)
(* whose cells beyond the length are never read.  What the keys draw is    *)
(* not part of this module.                                                *)
(***************************************************************************)
EXTENDS Naturals, Sequences, SequencesExt

CONSTANTS
  BUF_CAP,      \* characters in a line
  HIST_CAP,     \* lines in the history ring
  Char,         \* printable characters, the space " " among them
  Completions,  \* what completion may append to a line, <<>> among them
  MaxSubmits    \* bound: lines entered into the history

ASSUME CapsAssumption ==
  /\ BUF_CAP \in Nat \ {0} /\ HIST_CAP \in Nat \ {0} /\ MaxSubmits \in Nat
  /\ " " \in Char /\ Completions \subseteq Seq(Char)

VARIABLES
  buf,          \* the line being edited: buf[..len]
  cursor_pos,
  history,      \* history[slot][..hist_len[slot]]
  hist_count,
  hist_cursor,  \* 0: editing the live line; n: showing the n-th last entry
  live,         \* live_buf[..live_len]
  log,          \* history: every line entered into the history, in order
  draft,        \* history: the line when hist_cursor was last 0
  touched       \* history: the line was edited since a history key

hist == <<history, hist_count, log>>
vars == <<buf, cursor_pos, history, hist_count, hist_cursor, live, log, draft, touched>>

Available == Min({hist_count, HIST_CAP})

Init ==
  /\ buf = <<>> /\ cursor_pos = 0
  /\ history = [i \in 0..HIST_CAP-1 |-> <<>>]
  /\ hist_count = 0 /\ hist_cursor = 0
  /\ live = <<>> /\ log = <<>> /\ draft = <<>> /\ touched = FALSE

\* The two histories that follow every step.
Note(edited) ==
  /\ draft' = IF hist_cursor' = 0 THEN buf' ELSE draft
  /\ touched' = edited

-----------------------------------------------------------------------------
(* Editing keys.                                                           *)

\* The line becomes s with the cursor at p; the history is left alone.
EditTo(s, p) ==
  /\ buf' = s /\ cursor_pos' = p
  /\ UNCHANGED <<hist, hist_cursor, live>>
  /\ Note(TRUE)

\* A printable character, at the end of the line or in it.
Insert(ch) ==
  Len(buf) < BUF_CAP /\ EditTo(InsertAt(buf, cursor_pos + 1, ch), cursor_pos + 1)

Backspace == cursor_pos > 0 /\ EditTo(RemoveAt(buf, cursor_pos), cursor_pos - 1)

CursorTo(p) ==
  /\ cursor_pos' = p
  /\ UNCHANGED <<buf, hist, hist_cursor, live>>
  /\ Note(touched)

CursorLeft  == cursor_pos > 0 /\ CursorTo(cursor_pos - 1)
CursorRight == cursor_pos < Len(buf) /\ CursorTo(cursor_pos + 1)
CursorStart == CursorTo(0)
CursorEnd   == CursorTo(Len(buf))

\* ctrl_u, through clear_line.
CtrlU == EditTo(<<>>, 0)

\* The line without its trailing spaces and the word before them, counted
\* from the end of the line wherever the cursor is.
WithoutLastWord(s) ==
  LET w == CHOOSE n \in 0..Len(s) : /\ \A i \in n+1..Len(s) : s[i] = " "
                                    /\ n = 0 \/ s[n] # " "
      cut == CHOOSE n \in 0..w : /\ \A i \in n+1..w : s[i] # " "
                                 /\ n = 0 \/ s[n] = " "
  IN  SubSeq(s, 1, cut)

\* ctrl_w: the cursor follows only when a character is removed.
CtrlW == buf # <<>> /\ EditTo(WithoutLastWord(buf), Len(WithoutLastWord(buf)))

\* ctrl_c: drop the line and leave the history.
CtrlC ==
  /\ buf' = <<>> /\ cursor_pos' = 0 /\ hist_cursor' = 0
  /\ UNCHANGED <<hist, live>>
  /\ Note(FALSE)

\* ctrl_l: redraw; print_prompt moves the cursor to the end of the line.
CtrlL == CursorTo(Len(buf))

\* What complete can append: characters are pushed while there is room.
Extend(s, ext) == SubSeq(s \o ext, 1, Min({Len(s) + Len(ext), BUF_CAP}))

\* Tab on a line that is not blank: append the rest of the only candidate
\* or of the common prefix, or list the candidates and redraw.  In both
\* cases the cursor ends at the end of the line, where text was appended.
Complete(ext) ==
  /\ \E i \in 1..Len(buf) : buf[i] # " "
  /\ buf' = Extend(buf, ext)
  /\ cursor_pos' = Len(buf')
  /\ UNCHANGED <<hist, hist_cursor, live>>
  /\ Note(touched \/ buf' # buf)

-----------------------------------------------------------------------------
(* History keys.                                                           *)

\* Mutant: the line is compared with the slot it will go to.
IsDupOfNextSlot(s) == hist_count > 0 /\ history[hist_count % HIST_CAP] = s

\* The line equals the last one entered.
IsDup(s) == hist_count > 0 /\ history[(hist_count - 1) % HIST_CAP] = s

\* Enter: record the line, run it, start an empty one.
Submit ==
  /\ IF buf # <<>> /\ ~IsDup(buf)
       THEN /\ hist_count < MaxSubmits
            /\ history' = [history EXCEPT ![hist_count % HIST_CAP] = buf]
            /\ hist_count' = hist_count + 1
            /\ log' = Append(log, buf)
       ELSE UNCHANGED hist
  /\ hist_cursor' = 0
  /\ buf' = <<>> /\ cursor_pos' = 0
  /\ UNCHANGED live
  /\ Note(FALSE)

\* Mutant: the entry is counted from the front of the ring.
LoadFromFront ==
  /\ buf' = history[(hist_cursor' - 1) % HIST_CAP]
  /\ cursor_pos' = Len(buf')

\* load_history_entry: the hist_cursor'-th last line, cursor at its end.
LoadEntry ==
  /\ buf' = history[(hist_count - hist_cursor') % HIST_CAP]
  /\ cursor_pos' = Len(buf')

\* Mutant: the shown line is saved at every step up.
SaveAlways == live' = buf

\* The live line is saved when it is left, and only then.
SaveLive == live' = IF hist_cursor = 0 THEN buf ELSE live

HistoryUp ==
  /\ hist_cursor < Available
  /\ SaveLive
  /\ hist_cursor' = hist_cursor + 1
  /\ LoadEntry
  /\ UNCHANGED hist
  /\ Note(FALSE)

HistoryDown ==
  /\ hist_cursor > 0
  /\ hist_cursor' = hist_cursor - 1
  /\ IF hist_cursor' = 0
       THEN buf' = live /\ cursor_pos' = Len(live)
       ELSE LoadEntry
  /\ UNCHANGED <<hist, live>>
  /\ Note(FALSE)

\* The lines `history n' prints, oldest first.
HistoryListing(n) ==
  LET limit == Min({n, Available})
      skip == Available - limit
      start == (hist_count - Available + skip) % HIST_CAP
  IN  [i \in 1..limit |-> history[(start + i - 1) % HIST_CAP]]

Next ==
  \/ \E ch \in Char : Insert(ch)
  \/ Backspace \/ CursorLeft \/ CursorRight \/ CursorStart \/ CursorEnd
  \/ CtrlU \/ CtrlW \/ CtrlC \/ CtrlL
  \/ \E ext \in Completions : Complete(ext)
  \/ Submit \/ HistoryUp \/ HistoryDown

Spec == Init /\ [][Next]_vars

-----------------------------------------------------------------------------
(* Properties.                                                             *)

\* submit and the ring: the entries still reachable are the last HIST_CAP
\* lines entered, also after the ring has wrapped, none is empty or equal to
\* the one before it, and `history n' prints the last n, oldest first.
RingIsRecentLog ==
  /\ Len(log) = hist_count
  /\ \A k \in 1..Available :
       history[(hist_count - k) % HIST_CAP] = log[hist_count - k + 1]
  /\ \A i \in 1..Len(log) : log[i] # <<>> /\ (i > 1 => log[i] # log[i - 1])
  /\ \A n \in 0..HIST_CAP+1 :
       LET m == Min({n, Available})
       IN  HistoryListing(n) = SubSeq(log, Len(log) - m + 1, Len(log))

\* history_up and history_down: until the line is edited, it is the
\* hist_cursor-th last line entered.
BrowsingShowsEntry ==
  hist_cursor > 0 /\ ~touched => buf = log[Len(log) - hist_cursor + 1]

\* Leaving the live line for the history and coming back restores it,
\* whatever was done to the entries in between.
LiveLineRestored ==
  [][hist_cursor > 0 /\ hist_cursor' = 0 /\ HistoryDown => buf' = draft]_vars
=============================================================================
