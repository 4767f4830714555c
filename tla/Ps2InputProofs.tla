--------------------------- MODULE Ps2InputProofs ---------------------------
(***************************************************************************)
(* Proofs about the PS/2 path: its two readers process every byte the      *)
(* controller holds, in order, some twice; and process_scancode, run over  *)
(* such a sequence, never leaves a modifier behind.                        *)
(***************************************************************************)
EXTENDS Ps2Input, SequenceTheorems, FiniteSetTheorems, TLAPS

-----------------------------------------------------------------------------
(* The inductive invariant.                                                *)

\* The index of the byte the decoder has seen last.
LastRead == IF processed = <<>> THEN base ELSE processed[Len(processed)]

\* The bytes the modelled keyboard sends.
Bytes == {"FE", "E0", "48", "C8", "LShift", "RShift", "Ctrl", "Caps", "A",
          "LShift-", "RShift-", "Ctrl-", "Caps-", "A-"}

Types ==
  /\ phase \in {"boot", "run"} /\ sent \in Seq(Bytes) /\ processed \in Seq(Nat)
  /\ base \in Nat /\ loaded \in Nat /\ obf \in BOOLEAN /\ irq \in BOOLEAN
  /\ extended \in BOOLEAN
  /\ mods \in [shift : BOOLEAN, ctrl : BOOLEAN, caps : BOOLEAN]

\* The decoder is one byte behind a full register and level with an empty
\* one; an interrupt is only pending for a byte that came after boot.
Position ==
  /\ base <= loaded /\ loaded <= Len(sent)
  /\ phase = "boot" => ~irq /\ isr = "none" /\ processed = <<>> /\ loaded = base
                       /\ loaded = Len(sent) /\ held = {}
  /\ phase = "run" => /\ LastRead = IF obf THEN loaded - 1 ELSE loaded
                      /\ irq \/ obf => base < loaded

\* A make code among the bytes seen, and no break code since.
Down(makes, breaks) ==
  \E i \in 1..LastRead : sent[i] \in makes /\ \A j \in i+1..LastRead : sent[j] \notin breaks

\* EXTENDED and MODIFIERS are what the bytes up to the last one seen say,
\* whether or not that one was seen twice.
DecoderTracks ==
  /\ extended => LastRead \in 1..Len(sent) /\ sent[LastRead] = "E0"
  /\ mods.shift => Down(Shifts, {"LShift-", "RShift-"})
  /\ mods.ctrl => Down({"Ctrl"}, {"Ctrl-"})

\* A prefix is followed by the second byte of its key.
PrefixFollowed ==
  \A i \in 1..Len(sent) : sent[i] = "E0" => i < Len(sent) /\ sent[i + 1] \in {"48", "C8"}

\* A modifier that was pressed is held, or its break code was sent later.
HeldOrReleased(k, break) ==
  \A i \in 1..Len(sent) : sent[i] = k => k \in held \/ \E j \in i+1..Len(sent) : sent[j] = break

KeyboardTracks ==
  /\ PrefixFollowed
  /\ HeldOrReleased("LShift", "LShift-")
  /\ HeldOrReleased("RShift", "RShift-")
  /\ HeldOrReleased("Ctrl", "Ctrl-")

\* The readers skip no byte: each byte processed is the one before it again,
\* or the next.
NoByteSkipped ==
  \A i \in 1..Len(processed) :
    IF i = 1 THEN processed[i] = base + 1
             ELSE processed[i] = processed[i - 1] \/ processed[i] = processed[i - 1] + 1

Ps2Inv == Types /\ Position /\ DecoderTracks /\ KeyboardTracks /\ NoByteSkipped

-----------------------------------------------------------------------------
(* The keyboard's side.                                                    *)

\* What is appended to `sent' leaves what the decoder has seen alone.
LEMMA SentGrows ==
  ASSUME Types, Position, DecoderTracks, NoByteSkipped, NEW s \in Seq(Bytes),
         sent' = sent \o s, UNCHANGED <<phase, isr, loaded, base, obf, irq, decoder>>,
         phase = "run"
  PROVE  Types' /\ Position' /\ DecoderTracks' /\ NoByteSkipped'
<1>1. Len(sent) \in Nat /\ Len(s) \in Nat /\ Len(sent') = Len(sent) + Len(s) /\ sent' \in Seq(Bytes)
  BY DEF Types
<1>2. \A i \in 1..Len(sent) : sent'[i] = sent[i] /\ i \in 1..Len(sent')
  BY <1>1 DEF Types
<1>3. UNCHANGED <<extended, mods, processed, base>> /\ LastRead' = LastRead
  BY DEF decoder, LastRead
<1>4. Types'
  BY <1>1, <1>3 DEF Types
<1>5. Position'
  BY <1>1, <1>3 DEF Position, Types
<1>6. LastRead \in Int /\ LastRead <= Len(sent)
  BY <1>1 DEF Position, Types
<1>7. \A i \in 1..LastRead : sent'[i] = sent[i]
  <2>1. \A i \in 1..LastRead : i \in 1..Len(sent)
    BY <1>1, <1>6
  <2> QED BY <1>2, <2>1
<1>8. ASSUME NEW A, NEW B, Down(A, B) PROVE Down(A, B)'
  <2>1. PICK i \in 1..LastRead : sent[i] \in A /\ \A j \in i+1..LastRead : sent[j] \notin B
    BY <1>8 DEF Down
  <2>2. \A j \in i+1..LastRead : j \in 1..LastRead
    BY <1>6
  <2>3. sent'[i] \in A /\ \A j \in i+1..LastRead : sent'[j] \notin B
    BY <1>7, <2>1, <2>2
  <2> QED BY <1>3, <2>3 DEF Down
<1>9. DecoderTracks'
  <2>1. extended' => LastRead' \in 1..Len(sent') /\ sent'[LastRead'] = "E0"
    BY <1>2, <1>3 DEF DecoderTracks
  <2>2. mods.shift => Down(Shifts, {"LShift-", "RShift-"})'
    BY <1>8 DEF DecoderTracks, Shifts
  <2>3. mods.ctrl => Down({"Ctrl"}, {"Ctrl-"})'
    BY <1>8 DEF DecoderTracks
  <2> QED BY <1>3, <2>1, <2>2, <2>3 DEF DecoderTracks, Shifts
<1>10. NoByteSkipped'
  BY <1>3 DEF NoByteSkipped
<1> QED BY <1>4, <1>5, <1>9, <1>10

\* Codes of the keys.
LEMMA Codes ==
  ASSUME NEW k \in Keys
  PROVE  /\ Make(k) \in Seq(Bytes) /\ Break(k) \in Seq(Bytes)
         /\ \/ Make(k) = <<"E0", "48">> /\ Break(k) = <<"E0", "C8">>
            \/ /\ Make(k) = <<k>> /\ k # "E0"
               /\ \E b \in Bytes : Break(k) = <<b>> /\ b # "E0" /\ b \notin {"LShift", "RShift", "Ctrl"}
         /\ k = "LShift" => Break(k) = <<"LShift-">>
         /\ k = "RShift" => Break(k) = <<"RShift-">>
         /\ k = "Ctrl" => Break(k) = <<"Ctrl-">>
<1>0. k \in {"LShift", "RShift", "Ctrl", "Caps", "A", "Up"}
  BY KeysAssumption
<1>1. CASE k = "LShift"
  <2>1. Make(k) = <<k>> /\ Break(k) = <<"LShift-">>
    BY <1>1 DEF Make, Break
  <2>2. <<k>> \in Seq(Bytes) /\ <<"LShift-">> \in Seq(Bytes)
    BY <1>1 DEF Bytes
  <2>3. "LShift-" \in Bytes /\ "LShift-" # "E0" /\ "LShift-" \notin {"LShift", "RShift", "Ctrl"} /\ k # "E0"
    BY <1>1 DEF Bytes
  <2> QED BY <1>1, <2>1, <2>2, <2>3
<1>2. CASE k = "RShift"
  <2>1. Make(k) = <<k>> /\ Break(k) = <<"RShift-">>
    BY <1>2 DEF Make, Break
  <2>2. <<k>> \in Seq(Bytes) /\ <<"RShift-">> \in Seq(Bytes)
    BY <1>2 DEF Bytes
  <2>3. "RShift-" \in Bytes /\ "RShift-" # "E0" /\ "RShift-" \notin {"LShift", "RShift", "Ctrl"} /\ k # "E0"
    BY <1>2 DEF Bytes
  <2> QED BY <1>2, <2>1, <2>2, <2>3
<1>3. CASE k = "Ctrl"
  <2>1. Make(k) = <<k>> /\ Break(k) = <<"Ctrl-">>
    BY <1>3 DEF Make, Break
  <2>2. <<k>> \in Seq(Bytes) /\ <<"Ctrl-">> \in Seq(Bytes)
    BY <1>3 DEF Bytes
  <2>3. "Ctrl-" \in Bytes /\ "Ctrl-" # "E0" /\ "Ctrl-" \notin {"LShift", "RShift", "Ctrl"} /\ k # "E0"
    BY <1>3 DEF Bytes
  <2> QED BY <1>3, <2>1, <2>2, <2>3
<1>4. CASE k = "Caps"
  <2>1. Make(k) = <<k>> /\ Break(k) = <<"Caps-">>
    BY <1>4 DEF Make, Break
  <2>2. <<k>> \in Seq(Bytes) /\ <<"Caps-">> \in Seq(Bytes)
    BY <1>4 DEF Bytes
  <2>3. "Caps-" \in Bytes /\ "Caps-" # "E0" /\ "Caps-" \notin {"LShift", "RShift", "Ctrl"} /\ k # "E0"
    BY <1>4 DEF Bytes
  <2> QED BY <1>4, <2>1, <2>2, <2>3
<1>5. CASE k = "A"
  <2>1. Make(k) = <<k>> /\ Break(k) = <<"A-">>
    BY <1>5 DEF Make, Break
  <2>2. <<k>> \in Seq(Bytes) /\ <<"A-">> \in Seq(Bytes)
    BY <1>5 DEF Bytes
  <2>3. "A-" \in Bytes /\ "A-" # "E0" /\ "A-" \notin {"LShift", "RShift", "Ctrl"} /\ k # "E0"
    BY <1>5 DEF Bytes
  <2> QED BY <1>5, <2>1, <2>2, <2>3
<1>6. CASE k = "Up"
  <2>1. Make(k) = <<"E0", "48">> /\ Break(k) = <<"E0", "C8">>
    BY <1>6 DEF Make, Break
  <2>2. <<"E0", "48">> \in Seq(Bytes) /\ <<"E0", "C8">> \in Seq(Bytes)
    BY DEF Bytes
  <2> QED BY <1>6, <2>1, <2>2
<1> QED BY <1>0, <1>1, <1>2, <1>3, <1>4, <1>5, <1>6

\* The bytes of one key event, appended: one byte, or a prefix and its byte.
LEMMA PrefixKept ==
  ASSUME sent \in Seq(Bytes), PrefixFollowed, NEW s,
         s = <<"E0", "48">> \/ s = <<"E0", "C8">> \/ (\E b \in Bytes : s = <<b>> /\ b # "E0"),
         sent' = sent \o s
  PROVE  PrefixFollowed'
<1>1. Len(sent) \in Nat
  OBVIOUS
<1>2. CASE s = <<"E0", "48">> \/ s = <<"E0", "C8">>
  <2>1. /\ Len(sent') = Len(sent) + 2 /\ sent'[Len(sent) + 2] \in {"48", "C8"}
        /\ \A i \in 1..Len(sent) : sent'[i] = sent[i]
    <3>1. s \in Seq(Bytes) /\ Len(s) = 2 /\ s[2] \in {"48", "C8"}
      BY <1>2 DEF Bytes
    <3>2. /\ Len(sent') = Len(sent) + Len(s)
          /\ \A i \in 1..Len(sent) + Len(s) :
               sent'[i] = IF i <= Len(sent) THEN sent[i] ELSE s[i - Len(sent)]
      BY <1>1, <3>1, ConcatProperties
    <3>3. Len(sent) + 2 \in 1..Len(sent) + Len(s) /\ (Len(sent) + 2) - Len(sent) = 2
      BY <1>1, <3>1, <3>2
    <3>4. sent'[Len(sent) + 2] = s[2]
      BY <1>1, <3>2, <3>3
    <3> QED BY <1>1, <3>1, <3>2, <3>4
  <2>2. ASSUME NEW i \in 1..Len(sent'), sent'[i] = "E0"
        PROVE  i < Len(sent') /\ sent'[i + 1] \in {"48", "C8"}
    <3>1. i \in 1..Len(sent) \/ i = Len(sent) + 1 \/ i = Len(sent) + 2
      BY <1>1, <2>1
    <3>2. CASE i \in 1..Len(sent)
      <4>1. i < Len(sent) /\ sent[i + 1] \in {"48", "C8"} /\ i + 1 \in 1..Len(sent)
        BY <1>1, <2>1, <2>2, <3>2 DEF PrefixFollowed
      <4> QED BY <1>1, <2>1, <4>1
    <3>3. CASE i = Len(sent) + 1
      BY <1>1, <2>1, <3>3
    <3>4. CASE i = Len(sent) + 2
      BY <1>1, <2>1, <2>2, <3>4
    <3> QED BY <3>1, <3>2, <3>3, <3>4
  <2> QED BY <2>2 DEF PrefixFollowed
<1>3. ASSUME NEW b \in Bytes, s = <<b>>, b # "E0" PROVE PrefixFollowed'
  <2>1. /\ Len(sent') = Len(sent) + 1 /\ sent'[Len(sent) + 1] = b
        /\ \A i \in 1..Len(sent) : sent'[i] = sent[i]
    BY <1>3
  <2>2. ASSUME NEW i \in 1..Len(sent'), sent'[i] = "E0"
        PROVE  i < Len(sent') /\ sent'[i + 1] \in {"48", "C8"}
    <3>1. i \in 1..Len(sent)
      BY <1>1, <1>3, <2>1, <2>2
    <3>2. i < Len(sent) /\ sent[i + 1] \in {"48", "C8"} /\ i + 1 \in 1..Len(sent)
      BY <1>1, <2>1, <2>2, <3>1 DEF PrefixFollowed
    <3> QED BY <1>1, <2>1, <3>2
  <2> QED BY <2>2 DEF PrefixFollowed
<1> QED BY <1>2, <1>3

\* A key's modifier is held after its make code; a break code that ends the
\* press comes after every make code.
LEMMA PressKeeps ==
  ASSUME sent \in Seq(Bytes), NEW k, NEW brk, HeldOrReleased(k, brk), NEW s \in Seq(Bytes),
         sent' = sent \o s, k \in held => k \in held',
         k \in held' \/ \A i \in 1..Len(s) : s[i] # k
  PROVE  HeldOrReleased(k, brk)'
<1>1. /\ Len(sent) \in Nat /\ Len(s) \in Nat /\ Len(sent') = Len(sent) + Len(s)
      /\ \A i \in 1..Len(sent) + Len(s) :
           sent'[i] = IF i <= Len(sent) THEN sent[i] ELSE s[i - Len(sent)]
  BY ConcatProperties
<1>2. ASSUME NEW i \in 1..Len(sent'), sent'[i] = k, k \notin held'
      PROVE  \E j \in i+1..Len(sent') : sent'[j] = brk
  <2>1. i \in 1..Len(sent)
    <3>1. i \in 1..Len(sent) \/ (i - Len(sent) \in 1..Len(s) /\ ~ (i <= Len(sent)))
      BY <1>1
    <3> QED BY <1>1, <1>2, <3>1
  <2>2. sent[i] = k /\ k \notin held
    BY <1>1, <1>2, <2>1
  <2>3. PICK j \in i+1..Len(sent) : sent[j] = brk
    BY <2>1, <2>2 DEF HeldOrReleased
  <2>4. j \in i+1..Len(sent') /\ j \in 1..Len(sent) + Len(s) /\ j <= Len(sent)
    BY <1>1, <2>1
  <2> QED BY <1>1, <2>3, <2>4
<1> QED BY <1>2 DEF HeldOrReleased

\* A break code ends the press of its own key only.
LEMMA ReleaseKeeps ==
  ASSUME sent \in Seq(Bytes), NEW k, NEW brk, NEW b \in Bytes, HeldOrReleased(k, brk),
         sent' = sent \o <<b>>, b # k, b = brk \/ (k \in held => k \in held')
  PROVE  HeldOrReleased(k, brk)'
<1>1. /\ Len(sent) \in Nat /\ Len(sent') = Len(sent) + 1
      /\ sent'[Len(sent) + 1] = b
      /\ \A i \in 1..Len(sent) : sent'[i] = sent[i]
  OBVIOUS
<1>2. ASSUME NEW i \in 1..Len(sent'), sent'[i] = k, k \notin held'
      PROVE  \E j \in i+1..Len(sent') : sent'[j] = brk
  <2>1. i \in 1..Len(sent) /\ sent[i] = k
    BY <1>1, <1>2
  <2>2. CASE b = brk
    <3>1. Len(sent) + 1 \in i+1..Len(sent')
      BY <1>1, <2>1
    <3> QED BY <1>1, <2>2, <3>1
  <2>3. CASE k \notin held
    <3>1. PICK j \in i+1..Len(sent) : sent[j] = brk
      BY <2>1, <2>3 DEF HeldOrReleased
    <3>2. j \in i+1..Len(sent') /\ j \in 1..Len(sent)
      BY <1>1, <2>1
    <3> QED BY <1>1, <3>1, <3>2
  <2> QED BY <1>2, <2>2, <2>3
<1> QED BY <1>2 DEF HeldOrReleased

\* A key pressed: its make code is sent, and it is held.
LEMMA PressStep ==
  ASSUME Ps2Inv, NEW k \in Keys, Press(k)
  PROVE  Ps2Inv'
<1>1. /\ phase = "run" /\ held' = held \cup {k} /\ sent' = sent \o Make(k)
      /\ UNCHANGED <<phase, kbdReady, isr, loaded, base, obf, irq, decoder>>
  BY DEF Press
<1>2. Make(k) \in Seq(Bytes)
  BY Codes
<1>3. Types' /\ Position' /\ DecoderTracks' /\ NoByteSkipped'
  BY <1>1, <1>2, SentGrows DEF Ps2Inv
<1>4. Make(k) = <<"E0", "48">> \/ (\E b \in Bytes : Make(k) = <<b>> /\ b # "E0")
  <2>1. k \in Bytes \/ k = "Up"
    BY KeysAssumption DEF Bytes
  <2>2. k = "Up" => Make(k) = <<"E0", "48">>
    BY DEF Make
  <2> QED BY <2>1, <2>2, Codes
<1>5. PrefixFollowed'
  BY <1>1, <1>4, PrefixKept DEF Ps2Inv, KeyboardTracks, Types
<1>6. ASSUME NEW m \in {"LShift", "RShift", "Ctrl"}, NEW brk, HeldOrReleased(m, brk)
      PROVE  HeldOrReleased(m, brk)'
  <2>1. m \in held' \/ \A i \in 1..Len(Make(k)) : Make(k)[i] # m
    <3>1. CASE k = m
      BY <1>1, <3>1
    <3>2. CASE k # m
      <4>1. Make(k) = <<k>> \/ Make(k) = <<"E0", "48">>
        BY Codes
      <4> QED BY <3>2, <4>1
    <3> QED BY <3>1, <3>2
  <2> QED BY <1>1, <1>2, <1>6, <2>1, PressKeeps DEF Ps2Inv, Types
<1>7. KeyboardTracks'
  BY <1>5, <1>6 DEF Ps2Inv, KeyboardTracks
<1> QED BY <1>3, <1>7 DEF Ps2Inv

\* A key released: its break code is sent.
LEMMA ReleaseStep ==
  ASSUME Ps2Inv, NEW k \in Keys, Release(k)
  PROVE  Ps2Inv'
<1>1. /\ k \in held /\ held' = held \ {k} /\ sent' = sent \o Break(k)
      /\ UNCHANGED <<phase, kbdReady, isr, loaded, base, obf, irq, decoder>>
  BY DEF Release
<1>2. Break(k) \in Seq(Bytes) /\ phase = "run"
  BY <1>1, Codes DEF Ps2Inv, Position, Types
<1>3. Types' /\ Position' /\ DecoderTracks' /\ NoByteSkipped'
  BY <1>1, <1>2, SentGrows DEF Ps2Inv
<1>4. PrefixFollowed'
  <2>1. Break(k) = <<"E0", "C8">> \/ \E b \in Bytes : Break(k) = <<b>> /\ b # "E0"
    BY Codes
  <2> QED BY <1>1, <2>1, PrefixKept DEF Ps2Inv, KeyboardTracks, Types
<1>5. ASSUME NEW m \in {"LShift", "RShift", "Ctrl"}, NEW brk, HeldOrReleased(m, brk),
             k = m => Break(k) = <<brk>>
      PROVE  HeldOrReleased(m, brk)'
  <2>1. CASE k = "Up"
    <3>1. Break(k) = <<"E0", "C8">> /\ k # m
      BY <2>1 DEF Break
    <3>2. PICK s : s = <<"E0", "C8">>
      OBVIOUS
    <3>3. s \in Seq(Bytes) /\ \A i \in 1..Len(s) : s[i] # m
      BY <3>2 DEF Bytes
    <3>4. m \in held => m \in held'
      BY <1>1, <3>1
    <3> QED BY <1>1, <1>5, <3>1, <3>2, <3>3, <3>4, PressKeeps DEF Ps2Inv, Types
  <2>2. CASE k # "Up"
    <3>1. PICK b \in Bytes : Break(k) = <<b>> /\ b \notin {"LShift", "RShift", "Ctrl"}
      BY <2>2, Codes DEF Make
    <3>2. b = brk \/ (m \in held => m \in held')
      BY <1>1, <1>5, <3>1
    <3> QED BY <1>1, <1>5, <3>1, <3>2, ReleaseKeeps DEF Ps2Inv, Types
  <2> QED BY <2>1, <2>2
<1>6. KeyboardTracks'
  BY <1>4, <1>5, Codes DEF Ps2Inv, KeyboardTracks
<1> QED BY <1>3, <1>6 DEF Ps2Inv

-----------------------------------------------------------------------------
(* The decoder's side.                                                     *)

\* process_scancode on the byte after the last one, or on that one again.
LEMMA ScancodeStep ==
  ASSUME Ps2Inv, NEW n \in 1..Len(sent), n = LastRead \/ n = LastRead + 1,
         processed = <<>> => n = base + 1,
         process_scancode(n), UNCHANGED <<sent, base>>
  PROVE  /\ LastRead' = n /\ DecoderTracks' /\ NoByteSkipped' /\ processed' \in Seq(Nat)
         /\ extended' \in BOOLEAN
         /\ mods' \in [shift : BOOLEAN, ctrl : BOOLEAN, caps : BOOLEAN]
<1>1. /\ extended' = (sent[n] = "E0")
      /\ mods' = IF extended \/ sent[n] = "E0" THEN mods ELSE NextMods(sent[n])
      /\ processed' = Append(processed, n)
  BY DEF process_scancode, NextExtended
<1>2. /\ processed \in Seq(Nat) /\ base \in Nat /\ n \in Nat /\ Len(sent) \in Nat
      /\ Len(processed) \in Nat
      /\ mods \in [shift : BOOLEAN, ctrl : BOOLEAN, caps : BOOLEAN]
  BY DEF Ps2Inv, Types
<1>3. /\ processed' \in Seq(Nat) /\ Len(processed') = Len(processed) + 1
      /\ processed'[Len(processed) + 1] = n
      /\ \A i \in 1..Len(processed) : processed'[i] = processed[i]
  BY <1>1, <1>2
<1>4. processed' # <<>> /\ LastRead' = n
  BY <1>2, <1>3 DEF LastRead
<1>5. LastRead \in Int
  <2>1. processed # <<>> => Len(processed) \in 1..Len(processed)
    BY <1>2, EmptySeq
  <2> QED BY <1>2, <2>1 DEF LastRead
<1>6. NoByteSkipped'
  <2> SUFFICES ASSUME NEW i \in 1..Len(processed')
               PROVE  IF i = 1 THEN processed'[i] = base + 1
                      ELSE \/ processed'[i] = processed'[i - 1]
                           \/ processed'[i] = processed'[i - 1] + 1
    BY DEF NoByteSkipped
  <2>1. CASE i \in 1..Len(processed)
    <3>1. i # 1 => i - 1 \in 1..Len(processed)
      BY <1>2, <2>1
    <3> QED BY <1>3, <2>1, <3>1 DEF Ps2Inv, NoByteSkipped
  <2>2. CASE i = Len(processed) + 1 /\ i = 1
    <3>1. processed = <<>>
      BY <1>2, <2>2, EmptySeq
    <3> QED BY <1>3, <2>2, <3>1
  <2>3. CASE i = Len(processed) + 1 /\ i # 1
    <3>1. i - 1 \in 1..Len(processed) /\ i - 1 = Len(processed) /\ processed # <<>>
      BY <1>2, <2>3
    <3>2. LastRead = processed[i - 1]
      BY <3>1 DEF LastRead
    <3> QED BY <1>3, <2>3, <3>1, <3>2
  <2>4. i \in 1..Len(processed) \/ i = Len(processed) + 1
    BY <1>2, <1>3
  <2> QED BY <2>1, <2>2, <2>3, <2>4
<1>7. NextMods(sent[n]) \in [shift : BOOLEAN, ctrl : BOOLEAN, caps : BOOLEAN]
  BY <1>2 DEF NextMods
<1>8. mods' \in [shift : BOOLEAN, ctrl : BOOLEAN, caps : BOOLEAN]
  BY <1>1, <1>2, <1>7
<1>9. extended => sent[n] \in {"E0", "48", "C8"}
  <2> SUFFICES ASSUME extended PROVE sent[n] \in {"E0", "48", "C8"}
    OBVIOUS
  <2>1. LastRead \in 1..Len(sent) /\ sent[LastRead] = "E0"
    BY DEF Ps2Inv, DecoderTracks
  <2>2. sent[LastRead + 1] \in {"48", "C8"}
    BY <2>1 DEF Ps2Inv, KeyboardTracks, PrefixFollowed
  <2> QED BY <2>1, <2>2
<1>10. mods'.shift => sent[n] \in Shifts \/ (mods.shift /\ sent[n] \notin {"LShift-", "RShift-"})
  <2>1. CASE extended \/ sent[n] = "E0"
    <3>1. sent[n] \in {"E0", "48", "C8"} /\ mods' = mods
      BY <1>1, <1>9, <2>1
    <3> QED BY <3>1
  <2>2. CASE ~ extended /\ sent[n] # "E0"
    <3>1. mods' = NextMods(sent[n])
      BY <1>1, <2>2
    <3>2. NextMods(sent[n]).shift =>
            sent[n] \in Shifts \/ (mods.shift /\ sent[n] \notin {"LShift-", "RShift-"})
      BY <1>2 DEF NextMods, Shifts
    <3> QED BY <3>1, <3>2
  <2> QED BY <2>1, <2>2
<1>11. mods'.ctrl => sent[n] \in {"Ctrl"} \/ (mods.ctrl /\ sent[n] \notin {"Ctrl-"})
  <2>1. CASE extended \/ sent[n] = "E0"
    <3>1. sent[n] \in {"E0", "48", "C8"} /\ mods' = mods
      BY <1>1, <1>9, <2>1
    <3> QED BY <3>1
  <2>2. CASE ~ extended /\ sent[n] # "E0"
    <3>1. mods' = NextMods(sent[n])
      BY <1>1, <2>2
    <3>2. NextMods(sent[n]).ctrl => sent[n] \in {"Ctrl"} \/ (mods.ctrl /\ sent[n] \notin {"Ctrl-"})
      BY <1>2 DEF NextMods, Shifts
    <3> QED BY <3>1, <3>2
  <2> QED BY <2>1, <2>2
<1>12. ASSUME NEW M, NEW B, sent[n] \in M \/ (Down(M, B) /\ sent[n] \notin B)
       PROVE  \E i \in 1..n : sent[i] \in M /\ \A j \in i+1..n : sent[j] \notin B
  <2>1. CASE sent[n] \in M
    <3>1. n \in 1..n /\ \A j \in n+1..n : FALSE
      BY <1>2
    <3> QED BY <2>1, <3>1
  <2>2. CASE Down(M, B) /\ sent[n] \notin B
    <3>1. PICK i \in 1..LastRead : sent[i] \in M /\ \A j \in i+1..LastRead : sent[j] \notin B
      BY <2>2 DEF Down
    <3>2. i \in 1..n /\ \A j \in i+1..n : j \in i+1..LastRead \/ j = n
      BY <1>2, <1>5
    <3> QED BY <2>2, <3>1, <3>2
  <2> QED BY <1>12, <2>1, <2>2
<1>13. DecoderTracks'
  <2>1. extended' => LastRead' \in 1..Len(sent') /\ sent'[LastRead'] = "E0"
    BY <1>1, <1>4
  <2>2. mods'.shift => Down(Shifts, {"LShift-", "RShift-"})'
    <3>1. mods'.shift =>
            \E i \in 1..n : sent[i] \in Shifts /\ \A j \in i+1..n : sent[j] \notin {"LShift-", "RShift-"}
      BY <1>10, <1>12 DEF Ps2Inv, DecoderTracks
    <3> QED BY <1>4, <3>1 DEF Down, Shifts
  <2>3. mods'.ctrl => Down({"Ctrl"}, {"Ctrl-"})'
    <3>1. mods'.ctrl =>
            \E i \in 1..n : sent[i] \in {"Ctrl"} /\ \A j \in i+1..n : sent[j] \notin {"Ctrl-"}
      BY <1>11, <1>12 DEF Ps2Inv, DecoderTracks
    <3> QED BY <1>4, <3>1 DEF Down
  <2> QED BY <2>1, <2>2, <2>3 DEF DecoderTracks
<1>14. extended' \in BOOLEAN
  BY <1>1
<1> QED BY <1>3, <1>4, <1>6, <1>8, <1>13, <1>14

\* A reader that reads the port in "run", with an interrupt pending or the
\* register full, gets the last byte seen or the next.
LEMMA ReadStep ==
  ASSUME Ps2Inv, phase = "run", irq \/ obf, process_scancode(loaded), obf' = FALSE,
         irq' \in BOOLEAN, irq' => irq, UNCHANGED <<phase, sent, loaded, base, held>>
  PROVE  Ps2Inv'
<1>1. /\ base \in Nat /\ loaded \in Nat /\ base < loaded /\ loaded <= Len(sent)
      /\ Len(sent) \in Nat /\ LastRead = IF obf THEN loaded - 1 ELSE loaded
  BY DEF Ps2Inv, Types, Position
<1>2. loaded \in 1..Len(sent) /\ (loaded = LastRead \/ loaded = LastRead + 1)
  BY <1>1
<1>3. processed = <<>> => loaded = base + 1
  <2>1. processed = <<>> => LastRead = base
    BY DEF LastRead
  <2> QED BY <1>1, <2>1
<1>4. /\ LastRead' = loaded /\ DecoderTracks' /\ NoByteSkipped' /\ processed' \in Seq(Nat)
      /\ extended' \in BOOLEAN
      /\ mods' \in [shift : BOOLEAN, ctrl : BOOLEAN, caps : BOOLEAN]
  <2>1. PICK n : n = loaded
    OBVIOUS
  <2>2. process_scancode(n)
    BY <2>1
  <2>3. LastRead' = n /\ DecoderTracks' /\ NoByteSkipped' /\ processed' \in Seq(Nat)
    BY <1>2, <1>3, <2>1, <2>2, ScancodeStep
  <2>4. /\ extended' \in BOOLEAN
        /\ mods' \in [shift : BOOLEAN, ctrl : BOOLEAN, caps : BOOLEAN]
    BY <1>2, <1>3, <2>1, <2>2, ScancodeStep
  <2> QED BY <2>1, <2>3, <2>4
<1>5. Types'
  BY <1>4 DEF Ps2Inv, Types
<1>6. Position'
  BY <1>1, <1>4 DEF Ps2Inv, Position, Types
<1>7. KeyboardTracks'
  BY DEF Ps2Inv, KeyboardTracks, PrefixFollowed, HeldOrReleased
<1> QED BY <1>4, <1>5, <1>6, <1>7 DEF Ps2Inv

\* Steps that leave the bytes and the decoder alone.
LEMMA Quietly ==
  ASSUME Ps2Inv, UNCHANGED <<sent, base, held, decoder>>, Types', Position'
  PROVE  Ps2Inv'
<1>1. LastRead' = LastRead /\ UNCHANGED <<extended, mods, processed>>
  BY DEF LastRead, decoder
<1>2. DecoderTracks'
  BY <1>1 DEF Ps2Inv, DecoderTracks, Down, Shifts
<1>3. KeyboardTracks' /\ NoByteSkipped'
  BY <1>1 DEF Ps2Inv, KeyboardTracks, PrefixFollowed, HeldOrReleased, NoByteSkipped
<1> QED BY <1>2, <1>3 DEF Ps2Inv

-----------------------------------------------------------------------------
(* What a decoder that sees every byte of q once makes of the first n of   *)
(* them: the modifiers, and how many keystrokes.                           *)

DownAt(q, n, makes, breaks) ==
  \E i \in 1..n : q[i] \in makes /\ \A j \in i+1..n : q[j] \notin breaks
ShiftAt(q, n) == DownAt(q, n, Shifts, {"LShift-", "RShift-"})
CtrlAt(q, n) == DownAt(q, n, {"Ctrl"}, {"Ctrl-"})
CountAt(q, n, bytes) == Cardinality({i \in 1..n : q[i] \in bytes})
CapsAt(q, n) == CountAt(q, n, {"Caps"}) % 2 = 1
PrefixAt(q, n) == n > 0 /\ q[n] = "E0"

\* The bytes that push a keystroke into the ring, and which one.
Strokes == {"A", "48"}
Meaning(q, n) ==
  IF q[n] = "48" THEN "up" ELSE Letter(ShiftAt(q, n - 1), CapsAt(q, n - 1), CtrlAt(q, n - 1))

Outputs == {"^a", "A", "a", "up"}

\* The keystrokes w are the meanings of the bytes q.
Means(q, w) ==
  /\ w \in Seq(Outputs) /\ Len(w) = CountAt(q, Len(q), Strokes)
  /\ \A n \in 1..Len(q) : q[n] \in Strokes => w[CountAt(q, n, Strokes)] = Meaning(q, n)

\* The modifiers in the bytes q are those of the keys h held down.
HeldIs(q, h) ==
  /\ ShiftAt(q, Len(q)) <=> h \cap Shifts # {}
  /\ CtrlAt(q, Len(q)) <=> "Ctrl" \in h

\* "48" is only sent after a prefix.
UpPrefixed(q) == \A n \in 1..Len(q) : q[n] = "48" => PrefixAt(q, n - 1)

\* As long as no byte was read twice, the decoder is exactly where the
\* bytes up to the last one read put it.
DecoderExact ==
  /\ mods.shift <=> ShiftAt(sent, LastRead)
  /\ mods.ctrl <=> CtrlAt(sent, LastRead)
  /\ mods.caps <=> CapsAt(sent, LastRead)
  /\ extended <=> PrefixAt(sent, LastRead)
  /\ typed \in Seq(Outputs) /\ Len(typed) = CountAt(sent, LastRead, Strokes)
  /\ \A k \in 1..Len(typed) : typed[k] = want[k]

TypedInv ==
  /\ held \subseteq Keys /\ HeldIs(sent, held) /\ UpPrefixed(sent) /\ Means(sent, want)
  /\ ~ReadTwice => DecoderExact

\* One byte more.
LEMMA DownStep ==
  ASSUME NEW q, NEW n \in Nat, NEW M, NEW B
  PROVE  DownAt(q, n + 1, M, B) <=> q[n + 1] \in M \/ (q[n + 1] \notin B /\ DownAt(q, n, M, B))
<1>1. ASSUME q[n + 1] \in M PROVE DownAt(q, n + 1, M, B)
  <2>1. n + 1 \in 1..n+1 /\ \A j \in (n+1)+1..n+1 : FALSE
    OBVIOUS
  <2> QED BY <1>1, <2>1 DEF DownAt
<1>2. ASSUME q[n + 1] \notin B, DownAt(q, n, M, B) PROVE DownAt(q, n + 1, M, B)
  <2>1. PICK i \in 1..n : q[i] \in M /\ \A j \in i+1..n : q[j] \notin B
    BY <1>2 DEF DownAt
  <2>2. i \in 1..n+1 /\ \A j \in i+1..n+1 : j \in i+1..n \/ j = n + 1
    OBVIOUS
  <2> QED BY <1>2, <2>1, <2>2 DEF DownAt
<1>3. ASSUME DownAt(q, n + 1, M, B), q[n + 1] \notin M PROVE q[n + 1] \notin B /\ DownAt(q, n, M, B)
  <2>1. PICK i \in 1..n+1 : q[i] \in M /\ \A j \in i+1..n+1 : q[j] \notin B
    BY <1>3 DEF DownAt
  <2>2. i \in 1..n /\ n + 1 \in i+1..n+1 /\ \A j \in i+1..n : j \in i+1..n+1
    BY <1>3, <2>1
  <2> QED BY <2>1, <2>2 DEF DownAt
<1> QED BY <1>1, <1>2, <1>3

LEMMA CountStep ==
  ASSUME NEW q, NEW n \in Nat, NEW S
  PROVE  /\ CountAt(q, n, S) \in Nat
         /\ CountAt(q, n + 1, S) = IF q[n + 1] \in S THEN CountAt(q, n, S) + 1 ELSE CountAt(q, n, S)
<1> DEFINE A == {i \in 1..n : q[i] \in S}
<1> DEFINE C == {i \in 1..n+1 : q[i] \in S}
<1>1. IsFiniteSet(A) /\ Cardinality(A) \in Nat
  <2>1. IsFiniteSet(1..n)
    BY FS_Interval
  <2>2. A \subseteq 1..n
    OBVIOUS
  <2> QED BY <2>1, <2>2, FS_Subset, FS_CardinalityType
<1>2. CASE q[n + 1] \in S
  <2>1. C = A \cup {n + 1} /\ n + 1 \notin A
    BY <1>2
  <2>2. Cardinality(C) = Cardinality(A) + 1
    BY <1>1, <2>1, FS_AddElement
  <2> QED BY <1>1, <1>2, <2>2 DEF CountAt
<1>3. CASE q[n + 1] \notin S
  <2>1. C = A
    BY <1>3
  <2> QED BY <1>1, <1>3, <2>1 DEF CountAt
<1> QED BY <1>2, <1>3

LEMMA CountZero ==
  ASSUME NEW q, NEW S PROVE CountAt(q, 0, S) = 0
<1>1. {i \in 1..0 : q[i] \in S} = {}
  OBVIOUS
<1> QED BY <1>1, FS_EmptySet DEF CountAt

\* More bytes have as many keystrokes, or more.
LEMMA CountGrows ==
  ASSUME NEW q, NEW m \in Nat, NEW n \in Nat, m <= n, NEW S
  PROVE  CountAt(q, m, S) <= CountAt(q, n, S)
<1> DEFINE A == {i \in 1..m : q[i] \in S}
<1> DEFINE C == {i \in 1..n : q[i] \in S}
<1>1. IsFiniteSet(C)
  <2>1. IsFiniteSet(1..n)
    BY FS_Interval
  <2>2. C \subseteq 1..n
    OBVIOUS
  <2> QED BY <2>1, <2>2, FS_Subset
<1>2. A \subseteq C
  OBVIOUS
<1> QED BY <1>1, <1>2, FS_Subset DEF CountAt

\* What the first n bytes mean depends on no others.
LEMMA SameStart ==
  ASSUME NEW q, NEW r, NEW n \in Nat, \A i \in 1..n : q[i] = r[i]
  PROVE  /\ \A M, B : DownAt(q, n, M, B) <=> DownAt(r, n, M, B)
         /\ \A S : CountAt(q, n, S) = CountAt(r, n, S)
<1>1. ASSUME NEW M, NEW B PROVE DownAt(q, n, M, B) <=> DownAt(r, n, M, B)
  <2>1. \A i \in 1..n : \A j \in i+1..n : j \in 1..n
    OBVIOUS
  <2>2. ASSUME DownAt(q, n, M, B) PROVE DownAt(r, n, M, B)
    BY <2>1, <2>2 DEF DownAt
  <2>3. ASSUME DownAt(r, n, M, B) PROVE DownAt(q, n, M, B)
    BY <2>1, <2>3 DEF DownAt
  <2> QED BY <2>2, <2>3
<1>2. ASSUME NEW S PROVE CountAt(q, n, S) = CountAt(r, n, S)
  <2>1. {i \in 1..n : q[i] \in S} = {i \in 1..n : r[i] \in S}
    OBVIOUS
  <2> QED BY <2>1 DEF CountAt
<1> QED BY <1>1, <1>2

LEMMA ModifiersAreFlags ==
  \A q, n : ShiftAt(q, n) \in BOOLEAN /\ CtrlAt(q, n) \in BOOLEAN /\ CapsAt(q, n) \in BOOLEAN
<1>1. \A q, n, M, B : DownAt(q, n, M, B) \in BOOLEAN
  BY DEF DownAt
<1> QED BY <1>1 DEF ShiftAt, CtrlAt, CapsAt

\* The keystroke of the letter depends on the three flags only.
LEMMA LetterOf ==
  ASSUME NEW s1 \in BOOLEAN, NEW s2 \in BOOLEAN, NEW c1 \in BOOLEAN, NEW c2 \in BOOLEAN,
         NEW l1 \in BOOLEAN, NEW l2 \in BOOLEAN, s1 <=> s2, c1 <=> c2, l1 <=> l2
  PROVE  Letter(s1, c1, l1) = Letter(s2, c2, l2) /\ Letter(s1, c1, l1) \in Outputs
<1>1. s1 = s2 /\ c1 = c2 /\ l1 = l2
  OBVIOUS
<1>2. Letter(s1, c1, l1) \in Outputs
  BY DEF Letter, Outputs
<1> QED BY <1>1, <1>2

\* The same for the modifiers and for what a byte means.
LEMMA SameMeaning ==
  ASSUME NEW q, NEW r, NEW n \in Nat, \A i \in 1..n : q[i] = r[i]
  PROVE  /\ ShiftAt(q, n) <=> ShiftAt(r, n)
         /\ CtrlAt(q, n) <=> CtrlAt(r, n)
         /\ CapsAt(q, n) <=> CapsAt(r, n)
         /\ PrefixAt(q, n) <=> PrefixAt(r, n)
         /\ n > 0 => Meaning(q, n) = Meaning(r, n)
<1>1. ASSUME NEW m \in Nat, m <= n
      PROVE  /\ ShiftAt(q, m) <=> ShiftAt(r, m)
             /\ CtrlAt(q, m) <=> CtrlAt(r, m)
             /\ CapsAt(q, m) <=> CapsAt(r, m)
  <2>1. \A i \in 1..m : q[i] = r[i]
    BY <1>1
  <2> QED BY <2>1, SameStart DEF ShiftAt, CtrlAt, CapsAt
<1>2. PrefixAt(q, n) <=> PrefixAt(r, n)
  BY DEF PrefixAt
<1>3. ASSUME n > 0 PROVE Meaning(q, n) = Meaning(r, n)
  <2>1. n - 1 \in Nat /\ n - 1 <= n /\ n \in 1..n
    BY <1>3
  <2>2. q[n] = r[n]
    BY <2>1
  <2>3. Letter(ShiftAt(q, n - 1), CapsAt(q, n - 1), CtrlAt(q, n - 1))
        = Letter(ShiftAt(r, n - 1), CapsAt(r, n - 1), CtrlAt(r, n - 1))
    BY <1>1, <2>1, ModifiersAreFlags, LetterOf
  <2> QED BY <2>2, <2>3 DEF Meaning
<1> QED BY <1>1, <1>2, <1>3

\* The modifiers after one byte more are those process_scancode computes.
LEMMA ModifierStep ==
  ASSUME NEW q, NEW n \in Nat
  PROVE  /\ ShiftAt(q, n + 1) <=> q[n + 1] \in Shifts
                                   \/ (q[n + 1] \notin {"LShift-", "RShift-"} /\ ShiftAt(q, n))
         /\ CtrlAt(q, n + 1) <=> q[n + 1] = "Ctrl" \/ (q[n + 1] # "Ctrl-" /\ CtrlAt(q, n))
         /\ CapsAt(q, n + 1) <=> (q[n + 1] = "Caps" /\ ~CapsAt(q, n))
                                  \/ (q[n + 1] # "Caps" /\ CapsAt(q, n))
<1>1. ShiftAt(q, n + 1) <=> q[n + 1] \in Shifts
                             \/ (q[n + 1] \notin {"LShift-", "RShift-"} /\ ShiftAt(q, n))
  BY DownStep DEF ShiftAt
<1>2. CtrlAt(q, n + 1) <=> q[n + 1] = "Ctrl" \/ (q[n + 1] # "Ctrl-" /\ CtrlAt(q, n))
  BY DownStep DEF CtrlAt
<1>3. CapsAt(q, n + 1) <=> (q[n + 1] = "Caps" /\ ~CapsAt(q, n))
                            \/ (q[n + 1] # "Caps" /\ CapsAt(q, n))
  <2>1. PICK c \in Nat : c = CountAt(q, n, {"Caps"})
    BY CountStep
  <2>2. CountAt(q, n + 1, {"Caps"}) = IF q[n + 1] = "Caps" THEN c + 1 ELSE c
    BY <2>1, CountStep
  <2>3. (c + 1) % 2 = 1 <=> ~ (c % 2 = 1)
    OBVIOUS
  <2> QED BY <2>1, <2>2, <2>3 DEF CapsAt
<1> QED BY <1>1, <1>2, <1>3

\* One byte more is sent: the keystrokes it means are appended.
LEMMA ByteSent ==
  ASSUME NEW q \in Seq(Bytes), NEW b \in Bytes, NEW w, Means(q, w), UpPrefixed(q),
         b = "48" => PrefixAt(q, Len(q)), NEW r, r = Append(q, b), NEW x \in Outputs,
         b \in Strokes => x = Meaning(r, Len(r))
  PROVE  /\ UpPrefixed(r)
         /\ Means(r, IF b \in Strokes THEN Append(w, x) ELSE w)
<1>1. /\ Len(q) \in Nat /\ r \in Seq(Bytes) /\ Len(r) = Len(q) + 1 /\ r[Len(q) + 1] = b
      /\ \A i \in 1..Len(q) : r[i] = q[i]
  OBVIOUS
<1>2. ASSUME NEW n \in 0..Len(q)
      PROVE  /\ CountAt(r, n, Strokes) = CountAt(q, n, Strokes)
             /\ PrefixAt(r, n) <=> PrefixAt(q, n)
             /\ n > 0 => Meaning(r, n) = Meaning(q, n)
  <2>1. n \in Nat /\ \A i \in 1..n : r[i] = q[i]
    BY <1>1
  <2>2. CountAt(r, n, Strokes) = CountAt(q, n, Strokes)
    <3>1. \A S : CountAt(r, n, S) = CountAt(q, n, S)
      BY <2>1, SameStart, Zenon
    <3> QED BY <3>1, Zenon
  <2>3. (PrefixAt(r, n) <=> PrefixAt(q, n)) /\ (n > 0 => Meaning(r, n) = Meaning(q, n))
    BY <2>1, SameMeaning
  <2> QED BY <2>2, <2>3
<1>3. UpPrefixed(r)
  <2> SUFFICES ASSUME NEW n \in 1..Len(r), r[n] = "48" PROVE PrefixAt(r, n - 1)
    BY DEF UpPrefixed
  <2>1. n - 1 \in 0..Len(q)
    BY <1>1
  <2>2. PrefixAt(q, n - 1)
    BY <1>1 DEF UpPrefixed
  <2> QED BY <1>2, <2>1, <2>2
<1>4. /\ Len(w) = CountAt(q, Len(q), Strokes) /\ w \in Seq(Outputs) /\ Len(w) \in Nat
      /\ CountAt(r, Len(q), Strokes) = Len(w)
      /\ \A n \in 1..Len(q) : q[n] \in Strokes => w[CountAt(q, n, Strokes)] = Meaning(q, n)
  BY <1>1, <1>2 DEF Means
<1>5. CountAt(r, Len(r), Strokes) = IF b \in Strokes THEN Len(w) + 1 ELSE Len(w)
  <2>1. CountAt(r, Len(q) + 1, Strokes) = IF r[Len(q) + 1] \in Strokes
          THEN CountAt(r, Len(q), Strokes) + 1 ELSE CountAt(r, Len(q), Strokes)
    BY <1>1, CountStep, Zenon
  <2> QED BY <1>1, <1>4, <2>1
<1>6. ASSUME NEW n \in 1..Len(q), q[n] \in Strokes
      PROVE  /\ CountAt(r, n, Strokes) \in 1..Len(w)
             /\ w[CountAt(r, n, Strokes)] = Meaning(r, n)
  <2>1. n - 1 \in Nat /\ n \in Nat /\ n <= Len(q) /\ (n - 1) + 1 = n /\ n \in 0..Len(q) /\ n > 0
    BY <1>1
  <2>2. CountAt(q, n, Strokes) <= Len(w)
    BY <1>1, <1>4, <2>1, CountGrows
  <2>3. CountAt(q, n - 1, Strokes) \in Nat /\ CountAt(q, n, Strokes) = CountAt(q, n - 1, Strokes) + 1
    BY <1>6, <2>1, CountStep
  <2>4. CountAt(q, n, Strokes) \in 1..Len(w)
    BY <1>4, <2>2, <2>3
  <2> QED BY <1>2, <1>4, <1>6, <2>1, <2>4
<1>7. CASE b \notin Strokes
  <2>1. ASSUME NEW n \in 1..Len(r), r[n] \in Strokes PROVE w[CountAt(r, n, Strokes)] = Meaning(r, n)
    <3>1. n \in 1..Len(q) /\ q[n] \in Strokes
      BY <1>1, <1>7, <2>1
    <3> QED BY <1>6, <3>1
  <2> QED BY <1>3, <1>4, <1>5, <1>7, <2>1 DEF Means
<1>8. CASE b \in Strokes
  <2>1. /\ Append(w, x) \in Seq(Outputs) /\ Len(Append(w, x)) = Len(w) + 1
        /\ Append(w, x)[Len(w) + 1] = x
        /\ \A k \in 1..Len(w) : Append(w, x)[k] = w[k]
    BY <1>4
  <2>2. ASSUME NEW n \in 1..Len(r), r[n] \in Strokes
        PROVE  Append(w, x)[CountAt(r, n, Strokes)] = Meaning(r, n)
    <3>1. CASE n \in 1..Len(q)
      <4>1. q[n] \in Strokes
        BY <1>1, <2>2, <3>1
      <4>2. CountAt(r, n, Strokes) \in 1..Len(w) /\ w[CountAt(r, n, Strokes)] = Meaning(r, n)
        BY <1>6, <3>1, <4>1
      <4>3. Append(w, x)[CountAt(r, n, Strokes)] = w[CountAt(r, n, Strokes)]
        BY <2>1, <4>2
      <4> QED BY <4>2, <4>3
    <3>2. CASE n = Len(r)
      <4>1. CountAt(r, n, Strokes) = Len(w) + 1
        BY <1>5, <1>8, <3>2
      <4> QED BY <1>8, <2>1, <3>2, <4>1
    <3>3. n \in 1..Len(q) \/ n = Len(r)
      BY <1>1
    <3> QED BY <3>1, <3>2, <3>3
  <2> QED BY <1>3, <1>5, <1>8, <2>1, <2>2 DEF Means
<1> QED BY <1>7, <1>8

\* What the byte means, and what it does to the modifiers.
LEMMA ByteMeans ==
  ASSUME NEW q \in Seq(Bytes), NEW b \in Bytes, NEW r, r = Append(q, b)
  PROVE  /\ r \in Seq(Bytes) /\ Len(r) = Len(q) + 1
         /\ b = "A" => Meaning(r, Len(r)) = Letter(ShiftAt(q, Len(q)), CapsAt(q, Len(q)), CtrlAt(q, Len(q)))
         /\ b = "48" => Meaning(r, Len(r)) = "up"
         /\ PrefixAt(r, Len(r)) <=> b = "E0"
         /\ ShiftAt(r, Len(r)) <=> b \in Shifts
                                    \/ (b \notin {"LShift-", "RShift-"} /\ ShiftAt(q, Len(q)))
         /\ CtrlAt(r, Len(r)) <=> b = "Ctrl" \/ (b # "Ctrl-" /\ CtrlAt(q, Len(q)))
<1>1. /\ Len(q) \in Nat /\ r \in Seq(Bytes) /\ Len(r) = Len(q) + 1 /\ r[Len(q) + 1] = b
      /\ \A i \in 1..Len(q) : r[i] = q[i] /\ Len(r) - 1 = Len(q)
  OBVIOUS
<1>2. /\ ShiftAt(r, Len(q)) <=> ShiftAt(q, Len(q))
      /\ CtrlAt(r, Len(q)) <=> CtrlAt(q, Len(q))
      /\ CapsAt(r, Len(q)) <=> CapsAt(q, Len(q))
  BY <1>1, SameMeaning
<1>3. ASSUME b = "A"
      PROVE  Meaning(r, Len(r)) = Letter(ShiftAt(q, Len(q)), CapsAt(q, Len(q)), CtrlAt(q, Len(q)))
  <2>1. Meaning(r, Len(r)) = Letter(ShiftAt(r, Len(q)), CapsAt(r, Len(q)), CtrlAt(r, Len(q)))
    <3>1. r[Len(r)] # "48" /\ Len(r) - 1 = Len(q)
      BY <1>1, <1>3
    <3> QED BY <3>1 DEF Meaning
  <2> QED BY <1>2, <2>1, ModifiersAreFlags, LetterOf
<1>4. b = "48" => Meaning(r, Len(r)) = "up"
  BY <1>1 DEF Meaning
<1>5. PrefixAt(r, Len(r)) <=> b = "E0"
  BY <1>1 DEF PrefixAt
<1>6. /\ ShiftAt(r, Len(r)) <=> b \in Shifts
                                 \/ (b \notin {"LShift-", "RShift-"} /\ ShiftAt(q, Len(q)))
      /\ CtrlAt(r, Len(r)) <=> b = "Ctrl" \/ (b # "Ctrl-" /\ CtrlAt(q, Len(q)))
  BY <1>1, <1>2, ModifierStep
<1> QED BY <1>1, <1>3, <1>4, <1>5, <1>6

\* Bytes and keystrokes that are appended leave the decoder where it was.
LEMMA DecoderBehind ==
  ASSUME Ps2Inv, Ps2Inv', Means(sent, want), ~ReadTwice => DecoderExact, UNCHANGED decoder,
         LastRead' = LastRead, LastRead \in 0..Len(sent),
         \A i \in 1..Len(sent) : sent'[i] = sent[i],
         \A k \in 1..Len(want) : want'[k] = want[k]
  PROVE  (~ReadTwice => DecoderExact)'
<1>1. UNCHANGED <<extended, mods, processed, typed>> /\ ReadTwice' = ReadTwice
  BY DEF decoder, ReadTwice
<1>2. SUFFICES ASSUME ~ReadTwice PROVE DecoderExact'
  BY <1>1
<1>3. DecoderExact
  BY <1>2
<1>4. LastRead \in Nat /\ Len(sent) \in Nat /\ LastRead <= Len(sent) /\ \A i \in 1..LastRead : sent'[i] = sent[i]
  BY DEF Ps2Inv, Types
<1>5. /\ ShiftAt(sent', LastRead) <=> ShiftAt(sent, LastRead)
      /\ CtrlAt(sent', LastRead) <=> CtrlAt(sent, LastRead)
      /\ CapsAt(sent', LastRead) <=> CapsAt(sent, LastRead)
      /\ PrefixAt(sent', LastRead) <=> PrefixAt(sent, LastRead)
      /\ CountAt(sent', LastRead, Strokes) = CountAt(sent, LastRead, Strokes)
  BY <1>4, SameMeaning, SameStart
<1>6. Len(typed) <= Len(want) /\ Len(typed) \in Nat /\ Len(want) \in Nat
  <2>1. CountAt(sent, LastRead, Strokes) <= CountAt(sent, Len(sent), Strokes)
    BY <1>4, CountGrows
  <2> QED BY <1>3, <2>1 DEF DecoderExact, Means
<1>7. \A k \in 1..Len(typed) : typed[k] = want'[k]
  BY <1>3, <1>6 DEF DecoderExact
<1>8. /\ mods'.shift <=> ShiftAt(sent', LastRead')
      /\ mods'.ctrl <=> CtrlAt(sent', LastRead')
      /\ mods'.caps <=> CapsAt(sent', LastRead')
      /\ extended' <=> PrefixAt(sent', LastRead')
  BY <1>1, <1>3, <1>5 DEF DecoderExact
<1>9. typed' \in Seq(Outputs) /\ Len(typed') = CountAt(sent', LastRead', Strokes)
  BY <1>1, <1>3, <1>5 DEF DecoderExact
<1>10. DecoderExact' = /\ mods'.shift <=> ShiftAt(sent', LastRead')
                       /\ mods'.ctrl <=> CtrlAt(sent', LastRead')
                       /\ mods'.caps <=> CapsAt(sent', LastRead')
                       /\ extended' <=> PrefixAt(sent', LastRead')
                       /\ typed' \in Seq(Outputs) /\ Len(typed') = CountAt(sent', LastRead', Strokes)
                       /\ \A k \in 1..Len(typed') : typed'[k] = want'[k]
  BY DEF DecoderExact, ShiftAt, CtrlAt, CapsAt, PrefixAt, CountAt, DownAt, Strokes, Shifts, LastRead
<1> QED BY <1>1, <1>7, <1>8, <1>9, <1>10

LEMMA LastReadWithin ==
  ASSUME Ps2Inv PROVE LastRead \in 0..Len(sent)
<1>1. /\ phase \in {"boot", "run"} /\ base \in Nat /\ loaded \in Nat /\ Len(sent) \in Nat
      /\ base <= loaded /\ loaded <= Len(sent)
  BY DEF Ps2Inv, Types, Position
<1>2. CASE phase = "boot"
  <2>1. processed = <<>>
    BY <1>2 DEF Ps2Inv, Position
  <2> QED BY <1>1, <2>1 DEF LastRead
<1>3. CASE phase = "run"
  <2>1. LastRead = (IF obf THEN loaded - 1 ELSE loaded) /\ (obf => base < loaded)
    BY <1>3 DEF Ps2Inv, Position
  <2> QED BY <1>1, <2>1
<1> QED BY <1>1, <1>2, <1>3

\* A byte that is no keystroke changes the modifiers as ByteMeans says.
LEMMA SilentByte ==
  ASSUME NEW q \in Seq(Bytes), NEW b \in Bytes \ Strokes, NEW w, Means(q, w), UpPrefixed(q),
         NEW r, r = Append(q, b)
  PROVE  UpPrefixed(r) /\ Means(r, w) /\ r \in Seq(Bytes)
<1>1. "up" \in Outputs /\ b # "48" /\ b \in Bytes
  BY DEF Outputs, Strokes
<1>2. UpPrefixed(r) /\ Means(r, IF b \in Strokes THEN Append(w, "up") ELSE w)
  BY <1>1, ByteSent
<1> QED BY <1>1, <1>2, ByteMeans

\* A key pressed: the keyboard means what the modifiers held make of it.
LEMMA TypedPress ==
  ASSUME Ps2Inv, Ps2Inv', TypedInv, NEW k \in Keys, Press(k)
  PROVE  TypedInv'
<1>1. /\ held' = held \cup {k} /\ sent' = sent \o Make(k) /\ sent \in Seq(Bytes) /\ Len(sent) \in Nat
      /\ UNCHANGED <<loaded, base, decoder>>
  BY DEF Press, Ps2Inv, Types
<1>2. /\ want \in Seq(Outputs) /\ held \subseteq Keys /\ Means(sent, want) /\ UpPrefixed(sent)
      /\ HeldIs(sent, held)
  BY DEF TypedInv, Means
<1>3. k \in {"LShift", "RShift", "Ctrl", "Caps", "A", "Up"}
  BY KeysAssumption
<1>4. LastRead' = LastRead /\ LastRead \in 0..Len(sent)
  BY <1>1, LastReadWithin DEF LastRead, decoder
<1>5. CASE k = "Up"
  <2>1. PICK r : r = Append(sent, "E0")
    OBVIOUS
  <2>2. "E0" \in Bytes \ Strokes /\ "48" \in Bytes /\ "48" \in Strokes /\ "up" \in Outputs
    BY DEF Bytes, Strokes, Outputs
  <2>3. UpPrefixed(r) /\ Means(r, want) /\ r \in Seq(Bytes) /\ PrefixAt(r, Len(r))
    BY <1>1, <1>2, <2>1, <2>2, SilentByte, ByteMeans
  <2>4. PICK t : t = Append(r, "48")
    OBVIOUS
  <2>5. t = sent'
    <3>1. sent' = sent \o <<"E0", "48">>
      BY <1>1, <1>5 DEF Make
    <3> QED BY <1>1, <2>1, <2>2, <2>3, <2>4, <3>1
  <2>6. Meaning(t, Len(t)) = "up"
    BY <2>2, <2>3, <2>4, ByteMeans
  <2>7. UpPrefixed(t) /\ Means(t, Append(want, "up"))
    <3>1. UpPrefixed(t) /\ Means(t, IF "48" \in Strokes THEN Append(want, "up") ELSE want)
      BY <2>2, <2>3, <2>4, <2>6, ByteSent
    <3> QED BY <2>2, <3>1
  <2>8. want' = Append(want, "up")
    BY <1>5 DEF Press
  <2>9. HeldIs(t, held')
    <3>1. (ShiftAt(r, Len(r)) <=> ShiftAt(sent, Len(sent))) /\ (CtrlAt(r, Len(r)) <=> CtrlAt(sent, Len(sent)))
      BY <1>1, <2>1, <2>2, ByteMeans DEF Shifts
    <3>2. (ShiftAt(t, Len(t)) <=> ShiftAt(r, Len(r))) /\ (CtrlAt(t, Len(t)) <=> CtrlAt(r, Len(r)))
      BY <2>2, <2>3, <2>4, ByteMeans DEF Shifts
    <3> QED BY <1>1, <1>2, <1>5, <3>1, <3>2 DEF HeldIs, Shifts
  <2>10. (~ReadTwice => DecoderExact)'
    <3>1. /\ \A i \in 1..Len(sent) : sent'[i] = sent[i]
          /\ \A i \in 1..Len(want) : want'[i] = want[i]
      BY <1>1, <1>2, <2>1, <2>2, <2>3, <2>4, <2>5, <2>8
    <3> QED BY <1>1, <1>2, <1>4, <3>1, DecoderBehind DEF TypedInv
  <2>11. held' \subseteq Keys /\ HeldIs(sent', held') /\ UpPrefixed(sent') /\ Means(sent', want')
    BY <1>1, <1>2, <2>5, <2>7, <2>8, <2>9
  <2> QED BY <2>10, <2>11 DEF TypedInv
<1>6. CASE k = "A"
  <2>1. PICK r : r = Append(sent, "A")
    OBVIOUS
  <2>2. "A" \in Bytes /\ "A" \in Strokes /\ "A" # "48"
    BY DEF Bytes, Strokes
  <2>3. r = sent'
    <3>1. sent' = sent \o <<"A">>
      BY <1>1, <1>6 DEF Make
    <3> QED BY <1>1, <2>1, <2>2, <3>1
  <2>4. PICK x : x = Letter(held \cap Shifts # {}, CapsOn, "Ctrl" \in held)
    OBVIOUS
  <2>5. want' = Append(want, x)
    BY <1>6, <2>4 DEF Press
  <2>6. x = Meaning(r, Len(r)) /\ x \in Outputs
    <3>1. CapsOn <=> CapsAt(sent, Len(sent))
      BY DEF CapsOn, CapsAt, CountAt
    <3>2. (held \cap Shifts # {}) \in BOOLEAN /\ CapsOn \in BOOLEAN /\ ("Ctrl" \in held) \in BOOLEAN
      BY DEF CapsOn
    <3>3. /\ (held \cap Shifts # {}) <=> ShiftAt(sent, Len(sent))
          /\ ("Ctrl" \in held) <=> CtrlAt(sent, Len(sent))
      BY <1>2 DEF HeldIs
    <3>4. x = Letter(ShiftAt(sent, Len(sent)), CapsAt(sent, Len(sent)), CtrlAt(sent, Len(sent))) /\ x \in Outputs
      BY <2>4, <3>1, <3>2, <3>3, ModifiersAreFlags, LetterOf
    <3>5. Meaning(r, Len(r)) = Letter(ShiftAt(sent, Len(sent)), CapsAt(sent, Len(sent)), CtrlAt(sent, Len(sent)))
      BY <1>1, <2>1, <2>2, ByteMeans
    <3> QED BY <3>4, <3>5
  <2>7. UpPrefixed(r) /\ Means(r, Append(want, x))
    <3>1. UpPrefixed(r) /\ Means(r, IF "A" \in Strokes THEN Append(want, x) ELSE want)
      BY <1>1, <1>2, <2>1, <2>2, <2>6, ByteSent
    <3> QED BY <2>2, <3>1
  <2>8. HeldIs(r, held')
    <3>1. (ShiftAt(r, Len(r)) <=> ShiftAt(sent, Len(sent))) /\ (CtrlAt(r, Len(r)) <=> CtrlAt(sent, Len(sent)))
      BY <1>1, <2>1, <2>2, ByteMeans DEF Shifts
    <3> QED BY <1>1, <1>2, <1>6, <3>1 DEF HeldIs, Shifts
  <2>9. (~ReadTwice => DecoderExact)'
    <3>1. /\ \A i \in 1..Len(sent) : sent'[i] = sent[i]
          /\ \A i \in 1..Len(want) : want'[i] = want[i]
      BY <1>1, <1>2, <2>1, <2>2, <2>3, <2>5, <2>6
    <3> QED BY <1>1, <1>2, <1>4, <3>1, DecoderBehind DEF TypedInv
  <2>10. held' \subseteq Keys /\ HeldIs(sent', held') /\ UpPrefixed(sent') /\ Means(sent', want')
    BY <1>1, <1>2, <2>3, <2>5, <2>7, <2>8
  <2> QED BY <2>9, <2>10 DEF TypedInv
<1>7. CASE k \in {"LShift", "RShift", "Ctrl", "Caps"}
  <2>1. PICK r : r = Append(sent, k)
    OBVIOUS
  <2>2. k \in Bytes \ Strokes
    BY <1>7 DEF Bytes, Strokes
  <2>3. r = sent'
    <3>1. sent' = sent \o <<k>>
      BY <1>1, <1>7 DEF Make
    <3> QED BY <1>1, <2>1, <2>2, <3>1
  <2>4. want' = want
    BY <1>7 DEF Press
  <2>5. UpPrefixed(r) /\ Means(r, want)
    BY <1>1, <1>2, <2>1, <2>2, SilentByte
  <2>6. HeldIs(r, held')
    <3>1. /\ ShiftAt(r, Len(r)) <=> k \in Shifts \/ ShiftAt(sent, Len(sent))
          /\ CtrlAt(r, Len(r)) <=> k = "Ctrl" \/ CtrlAt(sent, Len(sent))
      BY <1>1, <1>7, <2>1, <2>2, ByteMeans
    <3> QED BY <1>1, <1>2, <3>1 DEF HeldIs
  <2>7. (~ReadTwice => DecoderExact)'
    <3>1. \A i \in 1..Len(sent) : sent'[i] = sent[i]
      BY <1>1, <2>1, <2>2, <2>3
    <3> QED BY <1>1, <1>2, <1>4, <2>4, <3>1, DecoderBehind DEF TypedInv
  <2>8. held' \subseteq Keys /\ HeldIs(sent', held') /\ UpPrefixed(sent') /\ Means(sent', want')
    BY <1>1, <1>2, <2>3, <2>4, <2>5, <2>6
  <2> QED BY <2>7, <2>8 DEF TypedInv
<1> QED BY <1>3, <1>5, <1>6, <1>7

\* A key released.  With one shift key at most, its break code says what is
\* true: no shift key is held.
LEMMA TypedRelease ==
  ASSUME ~(Shifts \subseteq Keys), Ps2Inv, Ps2Inv', TypedInv, NEW k \in Keys, Release(k)
  PROVE  TypedInv'
<1>1. /\ held' = held \ {k} /\ sent' = sent \o Break(k) /\ sent \in Seq(Bytes) /\ Len(sent) \in Nat
      /\ UNCHANGED <<loaded, base, decoder, want>>
  BY DEF Release, Ps2Inv, Types
<1>2. /\ want \in Seq(Outputs) /\ held \subseteq Keys /\ Means(sent, want) /\ UpPrefixed(sent)
      /\ HeldIs(sent, held)
  BY DEF TypedInv, Means
<1>3. k \in {"LShift", "RShift", "Ctrl", "Caps", "A", "Up"}
  BY KeysAssumption
<1>4. LastRead' = LastRead /\ LastRead \in 0..Len(sent)
  BY <1>1, LastReadWithin DEF LastRead, decoder
<1>5. CASE k = "Up"
  <2>1. PICK r : r = Append(sent, "E0")
    OBVIOUS
  <2>2. "E0" \in Bytes \ Strokes /\ "C8" \in Bytes \ Strokes
    BY DEF Bytes, Strokes
  <2>3. UpPrefixed(r) /\ Means(r, want) /\ r \in Seq(Bytes)
    BY <1>1, <1>2, <2>1, <2>2, SilentByte
  <2>4. PICK t : t = Append(r, "C8")
    OBVIOUS
  <2>5. t = sent'
    <3>1. sent' = sent \o <<"E0", "C8">>
      BY <1>1, <1>5 DEF Break
    <3> QED BY <1>1, <2>1, <2>2, <2>3, <2>4, <3>1
  <2>6. UpPrefixed(t) /\ Means(t, want)
    BY <2>2, <2>3, <2>4, SilentByte
  <2>7. HeldIs(t, held')
    <3>1. (ShiftAt(r, Len(r)) <=> ShiftAt(sent, Len(sent))) /\ (CtrlAt(r, Len(r)) <=> CtrlAt(sent, Len(sent)))
      BY <1>1, <2>1, <2>2, ByteMeans DEF Shifts
    <3>2. (ShiftAt(t, Len(t)) <=> ShiftAt(r, Len(r))) /\ (CtrlAt(t, Len(t)) <=> CtrlAt(r, Len(r)))
      BY <2>2, <2>3, <2>4, ByteMeans DEF Shifts
    <3> QED BY <1>1, <1>2, <1>5, <3>1, <3>2 DEF HeldIs, Shifts
  <2>8. (~ReadTwice => DecoderExact)'
    <3>1. \A i \in 1..Len(sent) : sent'[i] = sent[i]
      BY <1>1, <2>1, <2>2, <2>3, <2>4, <2>5
    <3> QED BY <1>1, <1>2, <1>4, <3>1, DecoderBehind DEF TypedInv
  <2>9. held' \subseteq Keys /\ HeldIs(sent', held') /\ UpPrefixed(sent') /\ Means(sent', want')
    BY <1>1, <1>2, <2>5, <2>6, <2>7
  <2> QED BY <2>8, <2>9 DEF TypedInv
<1>6. CASE k # "Up"
  <2>1. PICK b \in Bytes \ Strokes :
          /\ Break(k) = <<b>> /\ b \notin Shifts /\ b # "Ctrl"
          /\ b \in {"LShift-", "RShift-"} <=> k \in Shifts
          /\ b = "Ctrl-" <=> k = "Ctrl"
    <3>1. /\ k = "LShift" => Break(k) = <<"LShift-">>
          /\ k = "RShift" => Break(k) = <<"RShift-">>
          /\ k = "Ctrl" => Break(k) = <<"Ctrl-">>
          /\ k = "Caps" => Break(k) = <<"Caps-">>
          /\ k = "A" => Break(k) = <<"A-">>
      BY <1>3, <1>6 DEF Break
    <3>2. {"LShift-", "RShift-", "Ctrl-", "Caps-", "A-"} \subseteq Bytes \ Strokes
      BY DEF Bytes, Strokes
    <3> QED BY <1>3, <1>6, <3>1, <3>2 DEF Shifts
  <2>2. PICK r : r = Append(sent, b)
    OBVIOUS
  <2>3. r = sent'
    BY <1>1, <2>1, <2>2
  <2>4. UpPrefixed(r) /\ Means(r, want)
    BY <1>1, <1>2, <2>2, SilentByte
  <2>5. HeldIs(r, held')
    <3>1. /\ ShiftAt(r, Len(r)) <=> k \notin Shifts /\ ShiftAt(sent, Len(sent))
          /\ CtrlAt(r, Len(r)) <=> k # "Ctrl" /\ CtrlAt(sent, Len(sent))
      BY <1>1, <2>1, <2>2, ByteMeans
    <3>2. k \in Shifts => held' \cap Shifts = {}
      BY <1>1, <1>2 DEF Shifts
    <3> QED BY <1>1, <1>2, <3>1, <3>2 DEF HeldIs
  <2>6. (~ReadTwice => DecoderExact)'
    <3>1. \A i \in 1..Len(sent) : sent'[i] = sent[i]
      BY <1>1, <2>1, <2>2, <2>3
    <3> QED BY <1>1, <1>2, <1>4, <3>1, DecoderBehind DEF TypedInv
  <2>7. held' \subseteq Keys /\ HeldIs(sent', held') /\ UpPrefixed(sent') /\ Means(sent', want')
    BY <1>1, <1>2, <2>3, <2>4, <2>5
  <2> QED BY <2>6, <2>7 DEF TypedInv
<1> QED BY <1>5, <1>6

\* process_scancode on a byte: unless it is the last one again, the decoder
\* takes the step the byte asks for.
LEMMA TypedRead ==
  ASSUME Ps2Inv, Ps2Inv', TypedInv, NEW n \in 1..Len(sent), n = LastRead \/ n = LastRead + 1,
         processed = <<>> => n = base + 1, process_scancode(n), UNCHANGED <<sent, base, held, want>>
  PROVE  TypedInv'
<1>1. /\ extended' = (sent[n] = "E0")
      /\ mods' = IF extended \/ sent[n] = "E0" THEN mods ELSE NextMods(sent[n])
      /\ typed' = typed \o Pushes(sent[n])
      /\ processed' = Append(processed, n)
  BY DEF process_scancode, NextExtended
<1>2. /\ processed \in Seq(Nat) /\ base \in Nat /\ n \in Nat /\ Len(sent) \in Nat
      /\ Len(processed) \in Nat
      /\ mods \in [shift : BOOLEAN, ctrl : BOOLEAN, caps : BOOLEAN] /\ extended \in BOOLEAN
  BY DEF Ps2Inv, Types
<1>3. /\ Len(processed') = Len(processed) + 1 /\ processed'[Len(processed) + 1] = n
      /\ \A i \in 1..Len(processed) : processed'[i] = processed[i]
  BY <1>1, <1>2
<1>4. LastRead' = n
  <2>1. processed' # <<>>
    BY <1>2, <1>3
  <2> QED BY <1>2, <1>3, <2>1 DEF LastRead
<1>5. SUFFICES ASSUME ~ReadTwice' PROVE DecoderExact'
  BY DEF TypedInv
<1>6. ~ReadTwice
  <2> SUFFICES ASSUME NEW i \in 2..Len(processed), processed[i] = processed[i - 1] PROVE FALSE
    BY DEF ReadTwice
  <2>1. i \in 2..Len(processed') /\ i \in 1..Len(processed) /\ i - 1 \in 1..Len(processed)
    BY <1>2, <1>3
  <2> QED BY <1>3, <1>5, <2>1 DEF ReadTwice
<1>7. n = LastRead + 1 /\ LastRead \in Nat
  <2>1. LastRead \in 0..Len(sent)
    BY LastReadWithin
  <2>2. CASE processed = <<>>
    BY <1>2, <2>2 DEF LastRead
  <2>3. CASE processed # <<>>
    <3>1. Len(processed) \in 1..Len(processed) /\ LastRead = processed[Len(processed)]
      BY <1>2, <2>3, EmptySeq DEF LastRead
    <3>2. Len(processed) + 1 \in 2..Len(processed') /\ (Len(processed) + 1) - 1 = Len(processed)
      BY <1>2, <1>3, <3>1
    <3>3. n # LastRead
      BY <1>3, <1>5, <3>1, <3>2 DEF ReadTwice
    <3> QED BY <1>2, <2>1, <3>3
  <2> QED BY <2>2, <2>3
<1>8. DecoderExact /\ Means(sent, want) /\ UpPrefixed(sent) /\ PrefixFollowed
  BY <1>6 DEF TypedInv, Ps2Inv, KeyboardTracks
<1>9. PICK m \in Nat : m = LastRead /\ n = m + 1
  BY <1>7
<1>10. /\ mods.shift <=> ShiftAt(sent, m)
       /\ mods.ctrl <=> CtrlAt(sent, m)
       /\ mods.caps <=> CapsAt(sent, m)
       /\ extended <=> PrefixAt(sent, m)
       /\ typed \in Seq(Outputs) /\ Len(typed) = CountAt(sent, m, Strokes)
       /\ \A k \in 1..Len(typed) : typed[k] = want[k]
  BY <1>8, <1>9 DEF DecoderExact
<1>11. /\ extended => sent[n] \in {"48", "C8"}
       /\ sent[n] = "48" => extended
  <2>1. ASSUME extended PROVE sent[n] \in {"48", "C8"}
    <3>1. m > 0 /\ sent[m] = "E0"
      BY <1>10, <2>1 DEF PrefixAt
    <3>2. m \in 1..Len(sent)
      BY <1>2, <1>9, <3>1
    <3> QED BY <1>8, <1>9, <3>1, <3>2 DEF PrefixFollowed
  <2>2. ASSUME sent[n] = "48" PROVE extended
    <3>1. PrefixAt(sent, n - 1) /\ n - 1 = m
      BY <1>8, <1>9, <2>2 DEF UpPrefixed
    <3> QED BY <1>10, <3>1
  <2> QED BY <2>1, <2>2
<1>12. /\ ShiftAt(sent, n) <=> sent[n] \in Shifts \/ (sent[n] \notin {"LShift-", "RShift-"} /\ ShiftAt(sent, m))
       /\ CtrlAt(sent, n) <=> sent[n] = "Ctrl" \/ (sent[n] # "Ctrl-" /\ CtrlAt(sent, m))
       /\ CapsAt(sent, n) <=> (sent[n] = "Caps" /\ ~CapsAt(sent, m)) \/ (sent[n] # "Caps" /\ CapsAt(sent, m))
  BY <1>9, ModifierStep
<1>13. /\ mods'.shift <=> ShiftAt(sent, n)
       /\ mods'.ctrl <=> CtrlAt(sent, n)
       /\ mods'.caps <=> CapsAt(sent, n)
  <2>1. CASE extended \/ sent[n] = "E0"
    <3>1. mods' = mods /\ sent[n] \in {"E0", "48", "C8"}
      BY <1>1, <1>11, <2>1
    <3> QED BY <1>10, <1>12, <3>1 DEF Shifts
  <2>2. CASE ~extended /\ sent[n] # "E0"
    <3>1. mods' = NextMods(sent[n])
      BY <1>1, <2>2
    <3>2. /\ NextMods(sent[n]).shift <=> sent[n] \in Shifts \/ (sent[n] \notin {"LShift-", "RShift-"} /\ mods.shift)
          /\ NextMods(sent[n]).ctrl <=> sent[n] = "Ctrl" \/ (sent[n] # "Ctrl-" /\ mods.ctrl)
          /\ NextMods(sent[n]).caps <=> (sent[n] = "Caps" /\ ~mods.caps) \/ (sent[n] # "Caps" /\ mods.caps)
      BY <1>2 DEF NextMods, Shifts
    <3> QED BY <1>10, <1>12, <3>1, <3>2
  <2> QED BY <2>1, <2>2
<1>14. extended' <=> PrefixAt(sent, n)
  <2>1. PrefixAt(sent, n) <=> sent[n] = "E0"
    BY DEF PrefixAt
  <2> QED BY <1>1, <2>1
<1>15. /\ CountAt(sent, n, Strokes) = IF sent[n] \in Strokes THEN Len(typed) + 1 ELSE Len(typed)
       /\ Len(typed) \in Nat
  <2>1. CountAt(sent, m + 1, Strokes) = IF sent[m + 1] \in Strokes
          THEN CountAt(sent, m, Strokes) + 1 ELSE CountAt(sent, m, Strokes)
    BY CountStep, Zenon
  <2> QED BY <1>9, <1>10, <2>1
<1>16. CASE sent[n] \notin Strokes
  <2>1. Pushes(sent[n]) = <<>>
    BY <1>16 DEF Pushes, Strokes
  <2>2. typed' = typed
    BY <1>1, <1>10, <2>1
  <2>3. /\ typed' \in Seq(Outputs) /\ Len(typed') = CountAt(sent', LastRead', Strokes)
        /\ \A k \in 1..Len(typed') : typed'[k] = want'[k]
    BY <1>4, <1>10, <1>15, <1>16, <2>2
  <2> QED BY <1>4, <1>13, <1>14, <2>3 DEF DecoderExact
<1>17. CASE sent[n] \in Strokes
  <2>1. PICK x : x = Meaning(sent, n)
    OBVIOUS
  <2>2. Pushes(sent[n]) = <<x>> /\ x \in Outputs
    <3>1. CASE sent[n] = "48"
      BY <1>11, <2>1, <3>1 DEF Pushes, Meaning, Outputs
    <3>2. CASE sent[n] = "A"
      <4>1. Pushes(sent[n]) = <<Letter(mods.shift, mods.caps, mods.ctrl)>>
        BY <1>11, <3>2 DEF Pushes
      <4>2. x = Letter(ShiftAt(sent, m), CapsAt(sent, m), CtrlAt(sent, m))
        <5>1. n - 1 = m
          BY <1>9
        <5> QED BY <2>1, <3>2, <5>1 DEF Meaning
      <4>3. mods.shift \in BOOLEAN /\ mods.caps \in BOOLEAN /\ mods.ctrl \in BOOLEAN
        BY <1>2
      <4>4. /\ Letter(mods.shift, mods.caps, mods.ctrl) = Letter(ShiftAt(sent, m), CapsAt(sent, m), CtrlAt(sent, m))
            /\ Letter(mods.shift, mods.caps, mods.ctrl) \in Outputs
        BY <1>10, <4>3, ModifiersAreFlags, LetterOf
      <4> QED BY <4>1, <4>2, <4>4
    <3> QED BY <1>17, <3>1, <3>2 DEF Strokes
  <2>3. want[Len(typed) + 1] = x
    BY <1>8, <1>15, <1>17, <2>1 DEF Means
  <2>4. /\ typed' \in Seq(Outputs) /\ Len(typed') = Len(typed) + 1 /\ typed'[Len(typed) + 1] = x
        /\ \A k \in 1..Len(typed) : typed'[k] = typed[k]
    BY <1>1, <1>10, <2>2
  <2>5. \A k \in 1..Len(typed') : typed'[k] = want[k]
    <3>1. \A k \in 1..Len(typed') : k \in 1..Len(typed) \/ k = Len(typed) + 1
      BY <1>15, <2>4
    <3> QED BY <1>10, <2>3, <2>4, <3>1
  <2>6. /\ typed' \in Seq(Outputs) /\ Len(typed') = CountAt(sent', LastRead', Strokes)
        /\ \A k \in 1..Len(typed') : typed'[k] = want'[k]
    BY <1>4, <1>15, <1>17, <2>4, <2>5
  <2> QED BY <1>4, <1>13, <1>14, <2>6 DEF DecoderExact
<1> QED BY <1>16, <1>17

\* Steps that leave the bytes, the keys and the decoder alone.
LEMMA TypedQuietly ==
  ASSUME TypedInv, UNCHANGED <<sent, base, held, want, decoder>>
  PROVE  TypedInv'
<1>1. UNCHANGED <<extended, mods, processed, typed>> /\ LastRead' = LastRead
  BY DEF decoder, LastRead
<1>2. ReadTwice' <=> ReadTwice
  BY <1>1 DEF ReadTwice
<1>3. DecoderExact => DecoderExact'
  BY <1>1 DEF DecoderExact
<1> QED BY <1>2, <1>3 DEF TypedInv

-----------------------------------------------------------------------------
(* Theorems.                                                               *)

\* The invariant holds in every state, for every set of keys and both
\* bounds.
THEOREM Ps2Invariant == Spec => []Ps2Inv
<1>1. Init => Ps2Inv
  <2> SUFFICES ASSUME Init PROVE Ps2Inv
    OBVIOUS
  <2>1. (sent = <<>> /\ loaded = 0) \/ (sent = <<"FE">> /\ loaded = 1)
    BY DEF Init
  <2>2. sent \in Seq(Bytes) /\ loaded = Len(sent) /\ loaded \in Nat
    <3>1. <<>> \in Seq(Bytes) /\ Len(<<>>) = 0 /\ <<"FE">> \in Seq(Bytes) /\ Len(<<"FE">>) = 1
      BY DEF Bytes
    <3>2. CASE sent = <<>> /\ loaded = 0
      BY <3>1, <3>2
    <3>3. CASE sent = <<"FE">> /\ loaded = 1
      BY <3>1, <3>3
    <3> QED BY <2>1, <3>2, <3>3
  <2>3. \A i \in 1..Len(sent) : sent[i] = "FE"
    BY <2>1
  <2>4. Types
    <3>1. processed \in Seq(Nat)
      BY DEF Init
    <3>2. obf \in BOOLEAN /\ irq \in BOOLEAN /\ extended \in BOOLEAN /\ phase \in {"boot", "run"}
      BY DEF Init
    <3>3. mods \in [shift : BOOLEAN, ctrl : BOOLEAN, caps : BOOLEAN] /\ base = loaded
      BY DEF Init
    <3> QED BY <2>2, <3>1, <3>2, <3>3 DEF Types
  <2>5. Position
    BY <2>2 DEF Init, Position
  <2>6. DecoderTracks
    BY DEF Init, DecoderTracks
  <2>7. KeyboardTracks
    BY <2>3 DEF KeyboardTracks, PrefixFollowed, HeldOrReleased
  <2>8. NoByteSkipped
    BY DEF Init, NoByteSkipped
  <2> QED BY <2>4, <2>5, <2>6, <2>7, <2>8 DEF Ps2Inv
<1>2. Ps2Inv /\ [Next]_vars => Ps2Inv'
  <2> SUFFICES ASSUME Ps2Inv, [Next]_vars PROVE Ps2Inv'
    OBVIOUS
  <2>1. ASSUME NEW k \in Keys, Press(k) PROVE Ps2Inv'
    BY <2>1, PressStep
  <2>2. ASSUME NEW k \in Keys, Release(k) PROVE Ps2Inv'
    BY <2>2, ReleaseStep
  <2>3. CASE Load
    <3>1. Types' /\ UNCHANGED <<sent, base, held, decoder>>
      BY <2>3 DEF Load, Ps2Inv, Types, decoder
    <3>2. Position'
      <4>1. /\ ~obf /\ obf' /\ loaded < Len(sent) /\ loaded' = loaded + 1
            /\ UNCHANGED <<phase, isr, sent, base, held>> /\ LastRead' = LastRead
        BY <2>3 DEF Load, LastRead, decoder
      <4>2. loaded \in Nat /\ base \in Nat /\ Len(sent) \in Nat /\ phase = "run"
        BY <4>1 DEF Ps2Inv, Types, Position
      <4> QED BY <4>1, <4>2 DEF Ps2Inv, Position
    <3> QED BY <3>1, <3>2, Quietly
  <2>4. CASE BootRead
    <3>1. Types' /\ UNCHANGED <<sent, base, held, decoder>>
      BY <2>4 DEF BootRead, Ps2Inv, Types, decoder
    <3>2. Position'
      BY <2>4 DEF BootRead, Ps2Inv, Position, Types, LastRead, decoder
    <3> QED BY <3>1, <3>2, Quietly
  <2>5. CASE XhciUp \/ TimerEnter
    <3>1. Types' /\ UNCHANGED <<sent, base, held, decoder>>
      BY <2>5 DEF XhciUp, TimerEnter, Ps2Inv, Types, decoder
    <3>2. Position'
      BY <2>5 DEF XhciUp, TimerEnter, Ps2Inv, Position, LastRead, decoder
    <3> QED BY <3>1, <3>2, Quietly
  <2>6. CASE KeyboardHandler
    <3>1. phase = "run" /\ irq' = FALSE
      BY <2>6 DEF KeyboardHandler, Ps2Inv, Position, Types
    <3> QED BY <2>6, <3>1, ReadStep DEF KeyboardHandler
  <2>7. CASE TimerPoll
    <3>0. phase = "run"
      BY <2>7 DEF TimerPoll, Ps2Inv, Position, Types
    <3>1. CASE ~kbdReady /\ obf
      <4>1. irq' = irq /\ irq \in BOOLEAN
        BY <2>7 DEF TimerPoll, Ps2Inv, Types
      <4>2. process_scancode(loaded) /\ obf' = FALSE
        BY <2>7, <3>1 DEF TimerPoll
      <4>3. UNCHANGED <<phase, sent, loaded, base, held>>
        BY <2>7 DEF TimerPoll
      <4> QED BY <3>0, <3>1, <4>1, <4>2, <4>3, ReadStep
    <3>2. CASE ~(~kbdReady /\ obf)
      <4>1. UNCHANGED <<obf, decoder, phase, sent, loaded, base, irq, held>>
        BY <2>7, <3>2 DEF TimerPoll
      <4>2. Types'
        BY <4>1 DEF Ps2Inv, Types, decoder
      <4>3. Position'
        BY <3>0, <4>1 DEF Ps2Inv, Position, LastRead, decoder
      <4> QED BY <4>1, <4>2, <4>3, Quietly
    <3> QED BY <3>1, <3>2
  <2>8. CASE UNCHANGED vars
    <3>1. Types' /\ UNCHANGED <<sent, base, held, decoder>>
      BY <2>8 DEF vars, Ps2Inv, Types, decoder
    <3>2. Position'
      BY <2>8 DEF vars, Ps2Inv, Position, LastRead
    <3> QED BY <3>1, <3>2, Quietly
  <2> QED BY <2>1, <2>2, <2>3, <2>4, <2>5, <2>6, <2>7, <2>8 DEF Next, Handlers
<1> QED BY <1>1, <1>2, PTL DEF Spec

\* The two readers of port 0x60, whatever their interleaving with the
\* controller, skip no byte that arrives after boot: the bytes processed are
\* the bytes sent, in order, some repeated.
THEOREM ReadersSkipNothing == Spec => []NoByteSkipped
<1>1. Ps2Inv => NoByteSkipped
  BY DEF Ps2Inv
<1> QED BY <1>1, Ps2Invariant, PTL

\* process_scancode: with every byte processed and no modifier held, none is
\* set, although bytes may have been processed twice.
THEOREM NoStuckModifier == Spec => []ModifiersNeverStick
<1>1. Ps2Inv => ModifiersNeverStick
  <2> SUFFICES ASSUME Ps2Inv, Quiet, held \cap {"LShift", "RShift", "Ctrl"} = {}
               PROVE  ~mods.shift /\ ~mods.ctrl
    BY DEF ModifiersNeverStick
  <2>1. ~obf /\ loaded = Len(sent)
    BY DEF Quiet
  <2>2. LastRead = Len(sent) /\ Len(sent) \in Nat
    <3>1. phase = "boot" => processed = <<>> /\ loaded = base
      BY DEF Ps2Inv, Position
    <3>2. phase = "run" => LastRead = loaded
      BY <2>1 DEF Ps2Inv, Position
    <3>3. phase \in {"boot", "run"} /\ Len(sent) \in Nat
      BY DEF Ps2Inv, Types
    <3> QED BY <2>1, <3>1, <3>2, <3>3 DEF LastRead
  <2>3. ASSUME Down(Shifts, {"LShift-", "RShift-"}) PROVE FALSE
    <3>1. PICK i \in 1..Len(sent) : sent[i] \in Shifts /\ \A j \in i+1..Len(sent) : sent[j] \notin {"LShift-", "RShift-"}
      BY <2>2, <2>3 DEF Down
    <3>2. CASE sent[i] = "LShift"
      BY <3>1, <3>2 DEF Ps2Inv, KeyboardTracks, HeldOrReleased
    <3>3. CASE sent[i] = "RShift"
      BY <3>1, <3>3 DEF Ps2Inv, KeyboardTracks, HeldOrReleased
    <3> QED BY <3>1, <3>2, <3>3 DEF Shifts
  <2>4. ASSUME Down({"Ctrl"}, {"Ctrl-"}) PROVE FALSE
    <3>1. PICK i \in 1..Len(sent) : sent[i] \in {"Ctrl"} /\ \A j \in i+1..Len(sent) : sent[j] \notin {"Ctrl-"}
      BY <2>2, <2>4 DEF Down
    <3> QED BY <3>1 DEF Ps2Inv, KeyboardTracks, HeldOrReleased
  <2> QED BY <2>3, <2>4 DEF Ps2Inv, DecoderTracks
<1> QED BY <1>1, Ps2Invariant, PTL

\* On a keyboard with at most one of the two shift keys, whose break codes
\* therefore agree with what is held, process_scancode turns the bytes into
\* the keystrokes the user meant, in order and each once, unless a reader got
\* a byte a second time; whichever of the two readers gets which byte.
THEOREM TypedIsPressed ==
  ASSUME ~(Shifts \subseteq Keys)
  PROVE  Spec => []TypedAsPressed
<1>1. Init => TypedInv
  <2> SUFFICES ASSUME Init PROVE TypedInv
    OBVIOUS
  <2>1. /\ processed = <<>> /\ LastRead = Len(sent) /\ held = {} /\ want = <<>> /\ typed = <<>>
        /\ ~mods.shift /\ ~mods.ctrl /\ ~mods.caps /\ ~extended
        /\ sent = <<>> \/ sent = <<"FE">>
    <3>1. Len(<<>>) = 0 /\ Len(<<"FE">>) = 1
      OBVIOUS
    <3> QED BY <3>1 DEF Init, LastRead
  <2>2. PICK q : q = <<>>
    OBVIOUS
  <2>3. q \in Seq(Bytes) /\ Len(q) = 0 /\ want \in Seq(Outputs) /\ Len(want) = 0
    BY <2>1, <2>2
  <2>4. CountAt(q, 0, Strokes) = 0 /\ CountAt(q, 0, {"Caps"}) = 0
    BY CountZero
  <2>5. ~ShiftAt(q, 0) /\ ~CtrlAt(q, 0)
    BY DEF ShiftAt, CtrlAt, DownAt
  <2>6. ~CapsAt(q, 0) /\ ~PrefixAt(q, 0)
    BY <2>4 DEF CapsAt, PrefixAt
  <2>7. Means(q, want) /\ UpPrefixed(q)
    BY <2>3, <2>4 DEF Means, UpPrefixed
  <2>8. PICK r : r = Append(q, "FE")
    OBVIOUS
  <2>9. "FE" \in Bytes \ Strokes /\ "FE" \notin Shifts /\ "FE" # "Caps"
    BY DEF Bytes, Strokes, Shifts
  <2>10. /\ r = <<"FE">> /\ r \in Seq(Bytes) /\ Len(r) = 1 /\ r[1] = "FE"
         /\ Means(r, want) /\ UpPrefixed(r)
    <3>1. Means(r, want) /\ UpPrefixed(r)
      BY <2>3, <2>7, <2>8, <2>9, SilentByte
    <3> QED BY <2>2, <2>3, <2>8, <2>9, <3>1
  <2>11. ~ShiftAt(r, Len(r)) /\ ~CtrlAt(r, Len(r)) /\ ~PrefixAt(r, Len(r))
    <3>1. \A i \in 1..1 : r[i] = "FE"
      BY <2>10
    <3>2. "FE" \notin Shifts /\ "FE" \notin {"Ctrl"} /\ "FE" # "E0"
      BY DEF Shifts
    <3> QED BY <2>10, <3>1, <3>2 DEF ShiftAt, CtrlAt, DownAt, PrefixAt
  <2>12. ~CapsAt(r, Len(r))
    <3>1. {i \in 1..1 : r[i] \in {"Caps"}} = {}
      BY <2>10
    <3>2. CountAt(r, 1, {"Caps"}) = 0
      BY <3>1, FS_EmptySet DEF CountAt
    <3> QED BY <2>10, <3>2 DEF CapsAt
  <2>13. /\ Means(sent, want) /\ UpPrefixed(sent)
         /\ ~ShiftAt(sent, Len(sent)) /\ ~CtrlAt(sent, Len(sent))
         /\ ~CapsAt(sent, Len(sent)) /\ ~PrefixAt(sent, Len(sent))
    <3>1. CASE sent = q
      BY <2>3, <2>5, <2>6, <2>7, <3>1
    <3>2. CASE sent = r
      BY <2>10, <2>11, <2>12, <3>2
    <3> QED BY <2>1, <2>2, <2>10, <3>1, <3>2
  <2>14. HeldIs(sent, held)
    BY <2>1, <2>13 DEF HeldIs
  <2>15. typed \in Seq(Outputs) /\ Len(typed) = CountAt(sent, Len(sent), Strokes)
    BY <2>1, <2>3, <2>13 DEF Means
  <2>16. DecoderExact
    BY <2>1, <2>3, <2>13, <2>15 DEF DecoderExact
  <2> QED BY <2>1, <2>13, <2>14, <2>16 DEF TypedInv
<1>2. Ps2Inv /\ Ps2Inv' /\ TypedInv /\ [Next]_vars => TypedInv'
  <2> SUFFICES ASSUME Ps2Inv, Ps2Inv', TypedInv, [Next]_vars PROVE TypedInv'
    OBVIOUS
  <2>1. ASSUME NEW k \in Keys, Press(k) PROVE TypedInv'
    BY <2>1, TypedPress
  <2>2. ASSUME NEW k \in Keys, Release(k) PROVE TypedInv'
    BY <2>2, TypedRelease
  <2>3. CASE Load \/ BootRead \/ XhciUp \/ TimerEnter \/ UNCHANGED vars
    <3>1. UNCHANGED <<sent, base, held, want, decoder>>
      BY <2>3 DEF Load, BootRead, XhciUp, TimerEnter, vars, decoder
    <3> QED BY <3>1, TypedQuietly
  <2>4. ASSUME phase = "run", irq \/ obf, process_scancode(loaded), UNCHANGED <<sent, base, held, want>>
        PROVE  TypedInv'
    <3>1. /\ base \in Nat /\ loaded \in Nat /\ base < loaded /\ loaded <= Len(sent)
          /\ Len(sent) \in Nat /\ LastRead = IF obf THEN loaded - 1 ELSE loaded
      BY <2>4 DEF Ps2Inv, Types, Position
    <3>2. PICK n : n = loaded
      OBVIOUS
    <3>3. n \in 1..Len(sent) /\ (n = LastRead \/ n = LastRead + 1)
      BY <3>1, <3>2
    <3>4. processed = <<>> => n = base + 1
      <4>1. processed = <<>> => LastRead = base
        BY DEF LastRead
      <4> QED BY <3>1, <3>2, <4>1
    <3>5. process_scancode(n)
      BY <2>4, <3>2
    <3> QED BY <2>4, <3>3, <3>4, <3>5, TypedRead
  <2>5. CASE KeyboardHandler
    <3>1. phase = "run"
      BY <2>5 DEF KeyboardHandler, Ps2Inv, Position, Types
    <3> QED BY <2>4, <2>5, <3>1 DEF KeyboardHandler
  <2>6. CASE TimerPoll
    <3>1. phase = "run"
      BY <2>6 DEF TimerPoll, Ps2Inv, Position, Types
    <3>2. CASE ~kbdReady /\ obf
      <4>1. process_scancode(loaded) /\ UNCHANGED <<sent, base, held, want>>
        BY <2>6, <3>2 DEF TimerPoll
      <4> QED BY <2>4, <3>1, <3>2, <4>1
    <3>3. CASE ~(~kbdReady /\ obf)
      <4>1. UNCHANGED <<sent, base, held, want, decoder>>
        BY <2>6, <3>3 DEF TimerPoll
      <4> QED BY <4>1, TypedQuietly
    <3> QED BY <3>2, <3>3
  <2> QED BY <2>1, <2>2, <2>3, <2>5, <2>6 DEF Next, Handlers
<1>3. Ps2Inv /\ TypedInv => TypedAsPressed
  <2> SUFFICES ASSUME Ps2Inv, TypedInv, ~ReadTwice
               PROVE  IsPrefix(typed, want) /\ (Quiet => typed = want)
    BY DEF TypedAsPressed
  <2>1. DecoderExact /\ Means(sent, want)
    BY DEF TypedInv
  <2>2. /\ typed \in Seq(Outputs) /\ want \in Seq(Outputs) /\ Len(sent) \in Nat
        /\ Len(typed) = CountAt(sent, LastRead, Strokes)
        /\ Len(want) = CountAt(sent, Len(sent), Strokes)
        /\ \A k \in 1..Len(typed) : typed[k] = want[k]
    BY <2>1 DEF DecoderExact, Means, Ps2Inv, Types
  <2>3. LastRead \in Nat /\ LastRead <= Len(sent)
    BY <2>2, LastReadWithin
  <2>4. Len(typed) <= Len(want)
    BY <2>2, <2>3, CountGrows
  <2>5. IsPrefix(typed, want)
    <3>1. SubSeq(typed, 1, Len(typed)) = SubSeq(want, 1, Len(typed))
      BY <2>2, <2>4
    <3> QED BY <2>4, <3>1 DEF IsPrefix
  <2>6. ASSUME Quiet PROVE typed = want
    <3>1. ~obf /\ loaded = Len(sent)
      BY <2>6 DEF Quiet
    <3>2. phase = "boot" => processed = <<>> /\ loaded = base
      BY DEF Ps2Inv, Position
    <3>3. phase = "run" => LastRead = loaded
      BY <3>1 DEF Ps2Inv, Position
    <3>4. LastRead = Len(sent)
      BY <3>1, <3>2, <3>3 DEF LastRead, Ps2Inv, Types
    <3>5. Len(typed) = Len(want)
      BY <2>2, <3>4
    <3> QED BY <2>2, <3>5, SeqEqual
  <2> QED BY <2>5, <2>6
<1> QED BY <1>1, <1>2, <1>3, Ps2Invariant, PTL DEF Spec

=============================================================================
