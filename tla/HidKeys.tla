------------------------------ MODULE HidKeys -------------------------------
(***************************************************************************)
(* The USB keyboard's reports and process_hid_report of                    *)
(* kernel/src/keyboard.rs.  A report is a snapshot: the modifiers and the  *)
(* keys held.  The handler goes through the keys of a report and types     *)
(* those that were not in the previous one.  The keyboard (external)       *)
(* replaces a report that was not yet fetched by the next one, a transfer  *)
(* may be lost to an error (XhciKbd), and a keyboard with more keys held   *)
(* than a report has room for reports the rollover code in every place.    *)
(***************************************************************************)
EXTENDS Naturals, Sequences, FiniteSets, SequencesExt

CONSTANTS
  Keys,        \* keys of the keyboard
  KeySlots,    \* places for keys in a report (6)
  MayRollover, \* the user may hold more keys than that
  MaxPresses   \* bound: key presses

Mods == {"Shift", "Ctrl"}
ASSUME KeysAssumption == Keys \subseteq {"A", "One", "Up", "Caps"} \cup Mods
ASSUME SizeAssumption ==
  KeySlots \in Nat \ {0} /\ MaxPresses \in Nat /\ MayRollover \in BOOLEAN

VARIABLES
  held,     \* keys held down, but for the modifiers, in the order of the presses
  mods,     \* modifiers held down
  pending,  \* the report waiting to be fetched, or NoReport
  prev,     \* HID_PREV
  caps,     \* HID_CAPS_LOCK
  job,      \* process_hid_report: its report, its caps, the next place (or 0)
  typed,    \* history: what was pushed, with its key
  want,     \* history: what the presses mean, with their keys
  pressed,  \* history: all keys pressed
  missed,   \* history: a report was replaced or lost, or had no room
  forgot    \* history: how often HID_PREV lost a key to a rollover report

user == <<held, mods, want, pressed>>
vars == <<user, pending, prev, caps, job, typed, missed, forgot>>

NoReport == [mods |-> {}, keys |-> <<"none">>]
NoJob == [report |-> NoReport, caps |-> FALSE, next |-> 0]

\* The report of a keyboard on which these keys and modifiers are held.
Snapshot(keys, ms) ==
  [mods |-> ms,
   keys |-> IF Len(keys) <= KeySlots THEN keys ELSE [i \in 1..KeySlots |-> "rollover"]]

Init ==
  /\ held = <<>> /\ mods = {} /\ pending = NoReport /\ prev = {} /\ caps = FALSE
  /\ job = NoJob
  /\ typed = <<>> /\ want = <<>> /\ pressed = <<>> /\ missed = FALSE
  /\ forgot = [k \in Keys |-> 0]

\* Mutant: caps lock inverts shift for every key.
AsciiCapsAll(k, shift, capsLock) ==
  CASE k = "A"   -> IF shift # capsLock THEN "A" ELSE "a"
    [] k = "One" -> IF shift # capsLock THEN "!" ELSE "1"

\* hid_to_ascii for a letter and for a key that is not one.
hid_to_ascii(k, shift, capsLock) ==
  CASE k = "A"   -> IF shift # capsLock THEN "A" ELSE "a"
    [] k = "One" -> IF shift THEN "!" ELSE "1"

\* What a new key pushes; ctrl turns letters into control codes.
Pushes(k, ms, capsLock) ==
  CASE k = "Caps" -> <<>>
    [] k = "Up"   -> <<[key |-> k, ch |-> "up"]>>
    [] OTHER      -> <<[key |-> k,
                        ch |-> IF k = "A" /\ "Ctrl" \in ms THEN "^a"
                               ELSE hid_to_ascii(k, "Shift" \in ms, capsLock)]>>

\* The keystroke's meaning to the user: a letter's case is shift or caps
\* lock, but not both; caps lock leaves other keys alone.
Meaning(k, ms, capsLock) ==
  CASE k \in Mods \cup {"Caps"} -> <<>>
    [] k = "Up"  -> <<[key |-> k, ch |-> "up"]>>
    [] k = "One" -> <<[key |-> k, ch |-> IF "Shift" \in ms THEN "!" ELSE "1"]>>
    [] k = "A"   -> <<[key |-> k, ch |-> IF "Ctrl" \in ms THEN "^a"
                                         ELSE IF ("Shift" \in ms) = capsLock
                                         THEN "a" ELSE "A"]>>

-----------------------------------------------------------------------------
(* The user and the keyboard.                                              *)

Presses(k) == Cardinality({i \in DOMAIN pressed : pressed[i] = k})

\* Caps lock is on after an odd number of presses.
CapsDown == Presses("Caps") % 2 = 1

Changed(keys, ms) ==
  /\ held' = keys /\ mods' = ms /\ pending' = Snapshot(keys, ms)
  /\ missed' = (missed \/ pending # NoReport \/ Len(keys) > KeySlots)

Press(k) ==
  /\ k \notin mods \cup Range(held) /\ Len(pressed) < MaxPresses
  /\ IF k \in Mods THEN Changed(held, mods \cup {k})
     ELSE /\ MayRollover \/ Len(held) < KeySlots
          /\ Changed(Append(held, k), mods)
  /\ want' = want \o Meaning(k, mods, CapsDown)
  /\ pressed' = Append(pressed, k)
  /\ UNCHANGED <<prev, caps, job, typed, forgot>>

Release(k) ==
  /\ \/ k \in mods /\ Changed(held, mods \ {k})
     \/ \E i \in DOMAIN held : held[i] = k /\ Changed(RemoveAt(held, i), mods)
  /\ UNCHANGED <<prev, caps, job, typed, want, pressed, forgot>>

\* The transfer fails: take_hid_report drops the event.
Lose ==
  /\ pending # NoReport
  /\ pending' = NoReport /\ missed' = TRUE
  /\ UNCHANGED <<user, prev, caps, job, typed, forgot>>

-----------------------------------------------------------------------------
(* process_hid_report.                                                     *)

\* A report is fetched; caps is read once, before the keys are looked at.
ReportBegin ==
  /\ job = NoJob /\ pending # NoReport
  /\ job' = [report |-> pending, caps |-> caps, next |-> 1]
  /\ pending' = NoReport
  /\ UNCHANGED <<user, prev, caps, typed, missed, forgot>>

\* Mutant: every key of the report is new.
IsNewAlways(k) == k # "rollover"

\* The key was not held in the previous report.
IsNew(k) == k # "rollover" /\ k \notin prev

\* One pass of the loop.
ReportKey ==
  /\ job.next \in 1..Len(job.report.keys)
  /\ LET k == job.report.keys[job.next] IN
     /\ typed' = IF IsNew(k) THEN typed \o Pushes(k, job.report.mods, job.caps) ELSE typed
     /\ caps' = IF IsNew(k) /\ k = "Caps" THEN ~job.caps ELSE caps
  /\ job' = [job EXCEPT !.next = @ + 1]
  /\ UNCHANGED <<user, pending, prev, missed, forgot>>

\* HID_PREV after a report.
NextPrev(r) == Range(r.keys)

ReportEnd ==
  /\ job.next = Len(job.report.keys) + 1
  /\ prev' = NextPrev(job.report)
  /\ forgot' = [k \in Keys |-> IF k \in prev /\ "rollover" \in Range(job.report.keys)
                               THEN forgot[k] + 1 ELSE forgot[k]]
  /\ job' = NoJob
  /\ UNCHANGED <<user, pending, caps, typed, missed>>

Next ==
  \/ \E k \in Keys : Press(k) \/ Release(k)
  \/ Lose \/ ReportBegin \/ ReportKey \/ ReportEnd

Spec == Init /\ [][Next]_vars

-----------------------------------------------------------------------------
(* Properties.                                                             *)

\* process_hid_report: when every report is fetched, what is typed is what
\* the presses mean, once each and in order.
TypedAsPressed ==
  ~missed => /\ IsPrefix(typed, want)
             /\ pending = NoReport /\ job = NoJob => typed = want

Typed(k) == Cardinality({i \in DOMAIN typed : typed[i].key = k})

\* process_hid_report compares with the previous report: however many
\* reports are lost or replaced, no key is typed more often than it was
\* pressed, but for a key that was held when more keys were pressed than a
\* report has room for: each such report makes it count as new once more.
NoPhantomKeys == \A k \in Keys : Typed(k) <= Presses(k) + forgot[k]
=============================================================================
