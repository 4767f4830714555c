----------------------------- MODULE BootProofs -----------------------------
(***************************************************************************)
(* Proofs about Boot for every machine, blink period and number of logged  *)
(* reports: the spin locks (IrqLocks) and the routing of the interrupts    *)
(* (IrqRouting) under every interleaving of main flow, handlers and        *)
(* devices.                                                                *)
(***************************************************************************)
EXTENDS Boot, TLAPS

-----------------------------------------------------------------------------
(* The script of the main flow, spelled out.                               *)

OpAt(i) ==
  CASE i \in {1, 4, 10, 17, 19, 24, 28, 36, 38} -> <<"lock", "WRITER">>
    [] i \in {2, 5, 11, 18, 20, 25, 29, 37, 39} -> <<"unlock", "WRITER">>
    [] i \in {7, 12, 15, 21, 34} -> <<"lock", "SERIAL1">>
    [] i \in {8, 13, 16, 22, 35} -> <<"unlock", "SERIAL1">>
    [] i \in {23, 27} -> <<"lock", "SHELL">>
    [] i \in {26, 30} -> <<"unlock", "SHELL">>
    [] i = 3  -> <<"read", "port">>
    [] i = 6  -> <<"calibrate", "pit">>
    [] i = 9  -> <<"timer", "on">>
    [] i = 14 -> <<"ready", "on">>
    [] i = 31 -> <<"hlt", "sleep">>
    [] i = 32 -> <<"hlt", "wake">>
    [] i = 33 -> <<"force", "unlock">>

\* The length of the main flow with its panic path.
LEMMA ScriptLength ==
  Len(Script) = 39 /\ LoopStart = 27 /\ PanicStart = 33 /\ Halted = 40
BY SMTT(60) DEF Script, BootScript, LoopScript, PanicScript, Message,
                LoopStart, PanicStart, Halted

\* Each position of the main flow holds the operation that OpAt names.
LEMMA ScriptAt == \A i \in 1..39 : Script[i] = OpAt(i)
BY SMTT(60) DEF Script, BootScript, LoopScript, PanicScript, Message, OpAt

\* The locks that the main flow may hold at position p, given that no panic
\* has come in the middle: each message gives its lock back in the next
\* operation, and SHELL is held for at most three.
InMessage(p, l) == p \in 1..39 /\ Script[p] = <<"unlock", l>>
InShell(p) == p \in {24, 25, 26, 28, 29, 30}

\* What the script says about locks, position by position.
LEMMA ScriptLocks ==
  ASSUME NEW p \in 1..39
  PROVE  /\ Script[p][1] \in {"lock", "unlock"} =>
              Script[p][2] \in {"SERIAL1", "WRITER", "SHELL"}
         /\ \A l \in {"SERIAL1", "WRITER"} :
              Script[p][1] = "lock" /\ Script[p][2] = l
                => InMessage(After(p), l) /\ After(p) # PanicStart
         /\ \A l \in {"SERIAL1", "WRITER"} :
              InMessage(p, l) => Script[p][1] = "unlock" /\ Script[p][2] = l
         /\ Script[p][1] = "lock" /\ Script[p][2] = "SHELL"
              => InShell(After(p)) /\ ~InShell(p) /\ p < PanicStart
         /\ Script[p][1] = "unlock" /\ Script[p][2] = "SHELL" => ~InShell(After(p))
         /\ InShell(p) /\ Script[p] # <<"unlock", "SHELL">> => InShell(After(p))
         /\ Script[p][1] = "force" <=> p = PanicStart
         /\ p \in LoopStart..PanicStart-1 => ~InMessage(p, "SERIAL1")
         /\ After(p) \in 1..40 /\ (p < PanicStart => After(p) < PanicStart)
         /\ After(p) # PanicStart
<1>0. p \in 1..39 /\ Script[p] = OpAt(p)
  BY ScriptAt
<1>1. After(p) = (IF p = 32 THEN 27 ELSE p + 1)
  BY ScriptLength DEF After
<1>2. \A q \in 1..39 : Script[q] = OpAt(q)
  BY ScriptAt
<1>3. Script[p][1] \in {"lock", "unlock"} => Script[p][2] \in {"SERIAL1", "WRITER", "SHELL"}
  BY <1>0 DEF OpAt
<1>4. ASSUME NEW l \in {"SERIAL1", "WRITER"}, Script[p][1] = "lock", Script[p][2] = l
      PROVE  InMessage(After(p), l) /\ After(p) # PanicStart
  <2>1. p \in {1, 4, 10, 17, 19, 24, 28, 36, 38, 7, 12, 15, 21, 34}
    BY <1>0, <1>4 DEF OpAt
  <2>2. After(p) = p + 1 /\ p + 1 \in 1..39 /\ p + 1 # 33
    BY <1>1, <2>1
  <2>3. OpAt(p + 1) = <<"unlock", l>>
    BY <1>0, <1>4, <2>1 DEF OpAt
  <2> QED BY <1>2, <2>2, <2>3, ScriptLength DEF InMessage
<1>5. ASSUME NEW l \in {"SERIAL1", "WRITER"}, InMessage(p, l)
      PROVE  Script[p][1] = "unlock" /\ Script[p][2] = l
  BY <1>5 DEF InMessage
<1>6. ASSUME Script[p][1] = "lock", Script[p][2] = "SHELL"
      PROVE  InShell(After(p)) /\ ~InShell(p) /\ p < PanicStart
  <2>1. p \in {23, 27}
    BY <1>0, <1>6 DEF OpAt
  <2> QED BY <1>1, <2>1, ScriptLength DEF InShell
<1>7. ASSUME Script[p][1] = "unlock", Script[p][2] = "SHELL"
      PROVE  ~InShell(After(p))
  <2>1. p \in {26, 30}
    BY <1>0, <1>7 DEF OpAt
  <2> QED BY <1>1, <2>1 DEF InShell
<1>8. ASSUME InShell(p), Script[p] # <<"unlock", "SHELL">>
      PROVE  InShell(After(p))
  <2>1. p \in {24, 25, 28, 29}
    BY <1>0, <1>8 DEF OpAt, InShell
  <2> QED BY <1>1, <2>1 DEF InShell
<1>9. Script[p][1] = "force" <=> p = PanicStart
  BY <1>0, ScriptLength DEF OpAt
<1>10. p \in LoopStart..PanicStart-1 => ~InMessage(p, "SERIAL1")
  BY <1>0, ScriptLength DEF OpAt, InMessage
<1>11. /\ After(p) \in 1..40 /\ (p < PanicStart => After(p) < PanicStart)
       /\ After(p) # PanicStart
  BY <1>0, <1>1, ScriptLength
<1> QED BY <1>3, <1>4, <1>5, <1>6, <1>7, <1>8, <1>9, <1>10, <1>11

-----------------------------------------------------------------------------
(* The spin locks.                                                         *)

\* The inductive invariant: the locks of the handlers are free, and the
\* main flow holds a lock only where its script says so.  A panic may come
\* while any lock is held; until its first operation nothing is known of the
\* devices' locks, and nothing of SHELL from then on.
LockInv ==
  /\ mpc \in 1..Halted
  /\ owner \in [Locks -> {"free", "main"}]
  /\ owner["HID_PREV"] = "free" /\ owner["MODIFIERS"] = "free"
  /\ mpc # PanicStart =>
       \A l \in {"SERIAL1", "WRITER"} : owner[l] = "main" => InMessage(mpc, l)
  /\ mpc < PanicStart => (owner["SHELL"] = "main" => InShell(mpc))
  /\ isr \in {"none", "spin"} /\ (QuietBoot => isr = "none")

\* Every lock is free when interrupts are enabled.
LEMMA LockInit == Init => LockInv
BY ScriptLength DEF Init, LockInv, Locks

\* Every step of the main flow, of a panic and of a handler keeps LockInv.
LEMMA LockStep == LockInv /\ [Next]_vars => LockInv'
<1> SUFFICES ASSUME LockInv, [Next]_vars PROVE LockInv'
  OBVIOUS
<1>1. CASE Main
  <2> DEFINE op == Script[mpc]
  <2>0. mpc \in 1..39 /\ mpc' = After(mpc) /\ isr' = isr
    BY <1>1, ScriptLength DEF Main
  <2>1. /\ op[1] = "lock" => owner[op[2]] = "free"
        /\ owner' = CASE op[1] = "lock"   -> [owner EXCEPT ![op[2]] = "main"]
                      [] op[1] = "unlock" -> [owner EXCEPT ![op[2]] = "free"]
                      [] op[1] = "force"  -> ForceUnlock
                      [] OTHER            -> owner
    BY <1>1 DEF Main, Unlock
  <2>2. /\ owner \in [Locks -> {"free", "main"}]
        /\ owner["HID_PREV"] = "free" /\ owner["MODIFIERS"] = "free"
        /\ mpc # PanicStart =>
             \A l \in {"SERIAL1", "WRITER"} : owner[l] = "main" => InMessage(mpc, l)
        /\ mpc < PanicStart => (owner["SHELL"] = "main" => InShell(mpc))
    BY DEF LockInv
  <2>3. /\ op[1] \in {"lock", "unlock"} => op[2] \in {"SERIAL1", "WRITER", "SHELL"}
        /\ \A l \in {"SERIAL1", "WRITER"} :
             op[1] = "lock" /\ op[2] = l => InMessage(mpc', l)
        /\ \A l \in {"SERIAL1", "WRITER"} :
             InMessage(mpc, l) => op[1] = "unlock" /\ op[2] = l
        /\ op[1] = "lock" /\ op[2] = "SHELL" => InShell(mpc')
        /\ op[1] = "unlock" /\ op[2] = "SHELL" => ~InShell(mpc')
        /\ InShell(mpc) /\ op # <<"unlock", "SHELL">> => InShell(mpc')
        /\ op[1] = "force" <=> mpc = PanicStart
        /\ mpc' \in 1..40 /\ (mpc' < PanicStart => mpc < PanicStart)
    <3>1. mpc' < PanicStart => mpc < PanicStart
      BY <2>0, ScriptLength DEF After
    <3> QED BY <2>0, <3>1, ScriptLocks
  <2> HIDE DEF op
  <2>4. /\ owner' \in [Locks -> {"free", "main"}]
        /\ owner'["HID_PREV"] = "free" /\ owner'["MODIFIERS"] = "free"
    <3>1. CASE op[1] \in {"lock", "unlock"}
      BY <2>1, <2>2, <2>3, <3>1 DEF Locks
    <3>2. CASE op[1] \notin {"lock", "unlock"}
      BY <2>1, <2>2, <3>2 DEF ForceUnlock, Locks
    <3> QED BY <3>1, <3>2
  <2>5. ASSUME NEW l \in {"SERIAL1", "WRITER"}, owner'[l] = "main"
        PROVE  InMessage(mpc', l)
    <3>0. l \in Locks
      BY DEF Locks
    <3>1. CASE op[1] = "lock"
      <4>1. mpc # PanicStart /\ owner[l] # "main"
        BY <2>2, <2>3, <3>1
      <4>2. op[2] = l
        BY <2>1, <2>2, <2>5, <3>0, <3>1, <4>1
      <4> QED BY <2>3, <3>1, <4>2
    <3>2. CASE op[1] = "unlock"
      <4>1. mpc # PanicStart /\ owner' = [owner EXCEPT ![op[2]] = "free"]
        BY <2>1, <2>3, <3>2
      <4>2. op[2] # l /\ owner[l] = "main"
        BY <2>2, <2>5, <3>0, <4>1
      <4> QED BY <2>2, <2>3, <4>1, <4>2
    <3>3. CASE op[1] = "force"
      <4>1. owner'[l] = "free"
        BY <2>1, <2>2, <3>0, <3>3 DEF ForceUnlock
      <4> QED BY <2>5, <4>1
    <3>4. CASE op[1] \notin {"lock", "unlock", "force"}
      <4>1. mpc # PanicStart /\ owner' = owner
        BY <2>1, <2>3, <3>4
      <4> QED BY <2>2, <2>3, <2>5, <3>4, <4>1
    <3> QED BY <3>1, <3>2, <3>3, <3>4
  <2>6. ASSUME mpc' < PanicStart, owner'["SHELL"] = "main"
        PROVE  InShell(mpc')
    <3>0. mpc < PanicStart /\ mpc # PanicStart /\ "SHELL" \in Locks
      BY <2>0, <2>3, <2>6, ScriptLength DEF Locks
    <3>1. CASE op[1] = "lock" /\ op[2] = "SHELL"
      BY <2>3, <3>1
    <3>2. CASE op[1] = "unlock" /\ op[2] = "SHELL"
      <4>1. owner'["SHELL"] = "free"
        BY <2>1, <2>2, <3>0, <3>2
      <4> QED BY <2>6, <4>1
    <3>3. CASE ~(op[1] \in {"lock", "unlock"} /\ op[2] = "SHELL")
      <4>1. op # <<"unlock", "SHELL">>
        BY <3>3
      <4>2. owner'["SHELL"] = owner["SHELL"]
        <5>1. CASE op[1] \in {"lock", "unlock"}
          BY <2>1, <2>2, <2>3, <3>0, <3>3, <5>1
        <5>2. CASE op[1] \notin {"lock", "unlock"}
          BY <2>1, <2>2, <2>3, <3>0, <5>2
        <5> QED BY <5>1, <5>2
      <4> QED BY <2>2, <2>3, <2>6, <3>0, <4>1, <4>2
    <3> QED BY <3>1, <3>2, <3>3
  <2>7. mpc' \in 1..Halted
    BY <2>3, ScriptLength
  <2> QED BY <2>0, <2>4, <2>5, <2>6, <2>7 DEF LockInv
<1>2. CASE Panic
  BY <1>2, ScriptLength DEF Panic, LockInv
<1>3. ASSUME NEW r \in BOOLEAN, TimerTick(r) PROVE LockInv'
  <2>1. UNCHANGED <<mpc, owner>>
    BY <1>3 DEF TimerTick
  <2>2. isr' \in {"none", "spin"}
    BY <1>3 DEF TimerTick, CursorTick
  <2>3. ASSUME QuietBoot PROVE isr' = "none"
    <3>1. r => InLoop
      BY <1>3, <2>3 DEF TimerTick
    <3>2. InLoop => owner["SERIAL1"] = "free"
      <4> SUFFICES ASSUME InLoop PROVE owner["SERIAL1"] = "free"
        OBVIOUS
      <4>1. mpc \in 1..39 /\ mpc # PanicStart /\ ~InMessage(mpc, "SERIAL1")
        BY ScriptLength, ScriptLocks DEF InLoop
      <4> QED BY <4>1 DEF LockInv, Locks
    <3>3. \A l \in TimerNeeds(r) : owner[l] = "free"
      BY <3>1, <3>2 DEF TimerNeeds, LockInv
    <3> QED BY <1>3, <3>3 DEF TimerTick, CursorTick
  <2> QED BY <2>1, <2>2, <2>3 DEF LockInv
<1>4. CASE KeyboardIrq
  BY <1>4 DEF KeyboardIrq, LockInv
<1>5. CASE UNCHANGED vars
  BY <1>5 DEF vars, LockInv
<1> QED BY <1>1, <1>2, <1>3, <1>4, <1>5 DEF Next

\* A step of the whole kernel is, for the locks, a step of IrqLocks.
LEMMA BootStepIsLockStep == [BootNext]_bvars => [Next]_vars
<1> SUFFICES ASSUME [BootNext]_bvars PROVE [Next]_vars
  OBVIOUS
<1>1. CASE Early \/ StrayIrq \/ Device(KeyArrives) \/ Device(PitTick)
           \/ Device(TimerFires) \/ Device(LineHeld)
  BY <1>1 DEF Early, StrayIrq, Device, vars
<1>2. CASE EarlyPanic \/ LatePanic
  BY <1>2 DEF EarlyPanic, LatePanic, Next
<1>3. CASE Plain \/ ReadPort \/ StartTimer \/ Halt
  BY <1>3 DEF Plain, ReadPort, StartTimer, Halt, Next
<1>4. CASE Calibrate
  BY <1>4 DEF Calibrate, Next, vars
<1>5. CASE TimerIrq \/ KbdIrq
  BY <1>5 DEF TimerIrq, KbdIrq, Next
<1>6. CASE UNCHANGED bvars
  BY <1>6 DEF bvars, vars
<1> QED BY <1>1, <1>2, <1>3, <1>4, <1>5, <1>6 DEF BootNext, MainFlow

\* The lock invariant of the whole kernel.
THEOREM LockInvariant == BootSpec => []LockInv
<1>1. BootInit => LockInv
  BY LockInit DEF BootInit
<1>2. LockInv /\ [BootNext]_bvars => LockInv'
  BY LockStep, BootStepIsLockStep
<1> QED BY <1>1, <1>2, PTL DEF BootSpec

\* ADR-013 for every machine, whatever DBG_CAP and BLINK_PERIOD: if no HID
\* report arrives before the drain loop, no handler ever waits for a lock.
THEOREM HandlersNeverSpin ==
  ASSUME QuietBoot
  PROVE  BootSpec => []IsrNeverSpins
<1>1. LockInv => IsrNeverSpins
  BY DEF LockInv, IsrNeverSpins
<1> QED BY <1>1, LockInvariant, PTL

\* With or without that condition: kernel_main and the panic handler never
\* come to a lock that they hold themselves, wherever the panic came.
MainNeverSpins ==
  mpc <= Len(Script) /\ Script[mpc][1] = "lock" => owner[Script[mpc][2]] = "free"

\* print!, Shell::push_char and the panic handler's force_unlock: the main
\* flow finds every lock free that it takes.
THEOREM MainFlowNeverSpins == BootSpec => []MainNeverSpins
<1>1. LockInv => MainNeverSpins
  <2> SUFFICES ASSUME LockInv, mpc <= Len(Script), Script[mpc][1] = "lock"
               PROVE  owner[Script[mpc][2]] = "free"
    BY DEF MainNeverSpins
  <2>0. mpc \in 1..39
    BY ScriptLength DEF LockInv
  <2>1. CASE Script[mpc][2] = "SHELL"
    <3>1. ~InShell(mpc) /\ mpc < PanicStart
      BY <2>0, <2>1, ScriptLocks
    <3> QED BY <2>1, <3>1 DEF LockInv, Locks
  <2>2. CASE Script[mpc][2] # "SHELL"
    <3>1. Script[mpc][2] \in {"SERIAL1", "WRITER"}
      BY <2>0, <2>2, ScriptLocks
    <3>2. mpc # PanicStart /\ ~InMessage(mpc, Script[mpc][2])
      BY <2>0, <3>1, ScriptLocks
    <3> QED BY <3>1, <3>2 DEF LockInv, Locks
  <2> QED BY <2>1, <2>2
<1> QED BY <1>1, LockInvariant, PTL

-----------------------------------------------------------------------------
(* The routing of the interrupts.                                          *)

\* The rest of kernel_main from four places on: the 8259 is masked, there is
\* an ApicInfo, the redirection entry is written, interrupts are enabled.
On == {"read", "calProgram", "calStart", "calLow", "calHigh", "periodic", "run"}
Written == On \cup {"idt", "sti"}
Informed == Written \cup {"hi", "lo"}
PicMasked == Informed \cup {"ps2", "ps2cfg", "apic"}
Begun == {"tscProgram", "tscStart", "tscLow", "tscHigh", "acpi", "cli", "dead"}

RedirType == [dest : {0, LapicId}, vec : {0, KBD_VECTOR}, low : BOOLEAN,
              level : BOOLEAN, masked : BOOLEAN]

\* The redirection entry as apic::init leaves it.
Routed == [dest |-> LapicId, vec |-> KBD_VECTOR, low |-> Kbd.some /\ Kbd.low,
           level |-> Kbd.some /\ Kbd.level, masked |-> FALSE]

RouteTypeOK ==
  /\ bpc \in PicMasked \cup Begun
  /\ redir \in [Entries -> RedirType]
  /\ lapic \in [on : BOOLEAN, irr : SUBSET {TIMER_VECTOR, KBD_VECTOR},
                isr : SUBSET {TIMER_VECTOR, KBD_VECTOR}]
  /\ iflag \in BOOLEAN

\* What kernel_main knows about the line is how it is wired.
InfoIsWire ==
  /\ wire.low \in BOOLEAN /\ wire.level \in BOOLEAN
  /\ \E e \in Entries : e[1] + e[2] = wire.gsi
  /\ info.some => info.base \in Nat /\ ReadWiring(info) = wire
  /\ bpc \in Informed => info.some

\* The redirection entries by the progress of apic::init.
RedirProgress ==
  /\ bpc \notin Written => \A e \in Entries : redir[e].masked
  /\ bpc = "lo" /\ Entry \in Entries => redir[Entry].dest = LapicId
  /\ bpc \in Written =>
       \A e \in Entries : IF e = Entry THEN redir[e] = Routed ELSE redir[e].masked

\* Interrupts are on only when everything is set up.
SetUpFirst ==
  /\ bpc \in PicMasked => picMask
  /\ bpc \in On \cup {"sti"} => gates = Gates
  /\ iflag => bpc \in On
  /\ ~crashed

\* The inductive invariant.
RouteInv == RouteTypeOK /\ InfoIsWire /\ RedirProgress /\ SetUpFirst

\* What a step that leaves APIC_INFO and the wiring alone cannot change.
LEMMA InfoFixed ==
  ASSUME UNCHANGED <<wire, info>>
  PROVE  /\ Entry' = Entry /\ Routed' = Routed /\ ReadWiring(info)' = ReadWiring(info)
         /\ wire' = wire /\ info' = info
BY DEF Entry, KbdGsi, Kbd, Routed, ReadWiring

\* The flags of the wiring are truth values.
LEMMA WiringFlags ==
  ASSUME NEW f
  PROVE  Wiring(f).low \in BOOLEAN /\ Wiring(f).level \in BOOLEAN
<1>1. \E g, a, b : Wiring(f) = [gsi |-> g, low |-> a = 3, level |-> b = 3]
                    \/ Wiring(f) = [gsi |-> 1, low |-> FALSE, level |-> FALSE]
  BY Zenon DEF Wiring
<1>2. PICK x \in BOOLEAN, y \in BOOLEAN : \E g : Wiring(f) = [gsi |-> g, low |-> x, level |-> y]
  BY <1>1, Zenon
<1> QED BY <1>2

\* The wired entry is an entry.
LEMMA WiredEntryExists ==
  ASSUME RouteInv
  PROVE  WiredEntry \in Entries /\ WiredEntry[1] + WiredEntry[2] = wire.gsi
BY DEF RouteInv, InfoIsWire, WiredEntry

\* A step that neither sets up nor enables anything keeps RouteInv.
LEMMA QuietStep ==
  ASSUME RouteInv, UNCHANGED <<wire, info, picMask, redir, gates>>,
         lapic' \in [on : BOOLEAN, irr : SUBSET {TIMER_VECTOR, KBD_VECTOR},
                     isr : SUBSET {TIMER_VECTOR, KBD_VECTOR}],
         iflag' \in BOOLEAN, iflag' => iflag, ~crashed',
         \/ bpc' = bpc
         \/ bpc \in On /\ bpc' \in On
         \/ bpc \notin Written /\ bpc' \in Begun
         \/ bpc \in {"ps2", "ps2cfg"} /\ bpc' \in {"ps2cfg", "apic"}
  PROVE  RouteInv'
<1> USE DEF On, Written, Informed, PicMasked, Begun
<1>0. RouteTypeOK /\ InfoIsWire /\ RedirProgress /\ SetUpFirst
  BY DEF RouteInv
<1>1. RouteTypeOK'
  BY <1>0 DEF RouteTypeOK
<1>2. InfoIsWire'
  BY <1>0, InfoFixed DEF InfoIsWire
<1>3. RedirProgress'
  BY <1>0, InfoFixed DEF RedirProgress
<1>4. SetUpFirst'
  BY <1>0 DEF SetUpFirst
<1> QED BY <1>1, <1>2, <1>3, <1>4 DEF RouteInv

\* The steps of kernel_main before sti keep RouteInv.
LEMMA SetUpStep ==
  ASSUME RouteInv, BeforeSti
  PROVE  RouteInv'
<1> USE DEF On, Written, Informed, PicMasked, Begun
<1>0. RouteTypeOK /\ InfoIsWire /\ RedirProgress /\ SetUpFirst
  BY DEF RouteInv
<1>1. CASE TscCalibrate
  <2>1. /\ bpc \notin Written /\ bpc' \in Begun
        /\ UNCHANGED <<wire, info, picMask, redir, gates, lapic, iflag, crashed>>
    BY <1>1 DEF TscCalibrate, PitProgram, PitStart, PitSeenLow, PitSeenHigh
  <2> QED BY <1>0, <2>1, QuietStep DEF RouteTypeOK, SetUpFirst
<1>2. CASE AcpiInit
  <2>1. /\ bpc = "acpi" /\ bpc' = "cli"
        /\ UNCHANGED <<picMask, lapic, redir, gates, iflag, crashed>>
    BY <1>2 DEF AcpiInit
  <2>2. RouteTypeOK' /\ RedirProgress' /\ SetUpFirst'
    BY <1>0, <2>1 DEF RouteTypeOK, RedirProgress, SetUpFirst
  <2>3. CASE UNCHANGED <<wire, info>>
    <3>1. InfoIsWire'
      BY <1>0, <2>1, <2>3, InfoFixed DEF InfoIsWire
    <3> QED BY <2>2, <3>1 DEF RouteInv
  <2>4. ASSUME NEW f \in Firmwares, wire' = Wiring(f), info' = parse(f)
        PROVE  RouteInv'
    <3>0. wire'.low \in BOOLEAN /\ wire'.level \in BOOLEAN
      BY <2>4, WiringFlags
    <3>1. InfoIsWire'
      BY <2>1, <2>4, <3>0, MachineAssumption DEF InfoIsWire, ReadWiring
    <3> QED BY <2>2, <3>1 DEF RouteInv
  <2> QED BY <1>2, <2>3, <2>4 DEF AcpiInit
<1>3. CASE MaskAll
  <2>1. /\ bpc = "cli" /\ bpc' = "ps2" /\ iflag' = FALSE /\ picMask' = TRUE
        /\ UNCHANGED <<wire, info, lapic, redir, gates, crashed>>
    BY <1>3 DEF MaskAll
  <2> QED BY <1>0, <2>1, InfoFixed
             DEF RouteInv, RouteTypeOK, InfoIsWire, RedirProgress, SetUpFirst
<1>4. CASE Ps2Flush \/ Ps2Enable
  <2>1. /\ bpc \in {"ps2", "ps2cfg"} /\ bpc' \in {"ps2cfg", "apic"}
        /\ UNCHANGED <<wire, info, picMask, redir, gates, lapic, iflag, crashed>>
    BY <1>4 DEF Ps2Flush, Ps2Enable
  <2> QED BY <1>0, <2>1, QuietStep DEF RouteTypeOK, SetUpFirst
<1>5. CASE LapicEnable
  <2>1. /\ bpc = "apic" /\ bpc' = "hi" /\ info.some /\ picMask' = TRUE
        /\ lapic' = [lapic EXCEPT !.on = TRUE]
        /\ UNCHANGED <<wire, info, redir, gates, iflag, crashed>>
    BY <1>5 DEF LapicEnable
  <2>2. RouteTypeOK'
    BY <1>0, <2>1 DEF RouteTypeOK
  <2> QED BY <1>0, <2>1, <2>2, InfoFixed
             DEF RouteInv, InfoIsWire, RedirProgress, SetUpFirst
<1>6. CASE RedirHi
  <2>1. /\ bpc = "hi" /\ bpc' = "lo"
        /\ redir' = IF Entry \in Entries THEN [redir EXCEPT ![Entry].dest = LapicId]
                    ELSE redir
        /\ UNCHANGED <<wire, info, picMask, lapic, gates, iflag, crashed>>
    BY <1>6 DEF RedirHi
  <2>2. /\ redir' \in [Entries -> RedirType]
        /\ \A e \in Entries : redir'[e].masked
        /\ Entry \in Entries => redir'[Entry].dest = LapicId
    BY <1>0, <2>1 DEF RouteTypeOK, RedirProgress, RedirType
  <2>3. Entry' = Entry
    BY <2>1, InfoFixed
  <2> QED BY <1>0, <2>1, <2>2, <2>3, InfoFixed
             DEF RouteInv, RouteTypeOK, InfoIsWire, RedirProgress, SetUpFirst
<1>7. CASE RedirLo
  <2>1. /\ bpc = "lo" /\ bpc' = "idt"
        /\ redir' = IF Entry \in Entries
                      THEN [redir EXCEPT ![Entry] =
                             [dest |-> redir[Entry].dest, vec |-> KBD_VECTOR,
                              low |-> Kbd.some /\ Kbd.low,
                              level |-> Kbd.some /\ Kbd.level, masked |-> FALSE]]
                      ELSE redir
        /\ UNCHANGED <<wire, info, picMask, lapic, gates, iflag, crashed>>
    BY <1>7 DEF RedirLo
  <2>2. Entry \in Entries => redir' = [redir EXCEPT ![Entry] = Routed]
    BY <1>0, <2>1 DEF RedirProgress, Routed
  <2>3. Routed \in RedirType
    BY DEF Routed, RedirType
  <2>4. /\ redir' \in [Entries -> RedirType]
        /\ \A e \in Entries : IF e = Entry THEN redir'[e] = Routed ELSE redir'[e].masked
    BY <1>0, <2>1, <2>2, <2>3 DEF RouteTypeOK, RedirProgress
  <2>5. Entry' = Entry /\ Routed' = Routed
    BY <2>1, InfoFixed
  <2> QED BY <1>0, <2>1, <2>4, <2>5, InfoFixed
             DEF RouteInv, RouteTypeOK, InfoIsWire, RedirProgress, SetUpFirst
<1>8. CASE IdtInit \/ Sti
  <2>1. /\ \/ bpc = "idt" /\ bpc' = "sti" /\ gates' = Gates /\ iflag' = iflag
           \/ bpc = "sti" /\ bpc' = "read" /\ gates' = gates /\ iflag' = TRUE
        /\ UNCHANGED <<wire, info, picMask, lapic, redir, crashed>>
    BY <1>8 DEF IdtInit, Sti
  <2>2. RouteTypeOK' /\ InfoIsWire'
    BY <1>0, <2>1, InfoFixed DEF RouteTypeOK, InfoIsWire
  <2>3. RedirProgress'
    BY <1>0, <2>1, InfoFixed DEF RedirProgress
  <2>4. SetUpFirst'
    BY <1>0, <2>1 DEF SetUpFirst, Gates
  <2> QED BY <2>2, <2>3, <2>4 DEF RouteInv
<1> QED BY <1>1, <1>2, <1>3, <1>4, <1>5, <1>6, <1>7, <1>8 DEF BeforeSti

\* A request passed on by the redirection entry has the keyboard's vector.
LEMMA RequestedIsKbd ==
  ASSUME RouteInv
  PROVE  Requested \subseteq {KBD_VECTOR}
<1>1. WiredEntry \in Entries
  BY WiredEntryExists
<1>2. ~redir[WiredEntry].masked => redir[WiredEntry].vec = KBD_VECTOR
  BY <1>1 DEF RouteInv, RedirProgress, Routed
<1> QED BY <1>2 DEF Requested

\* The routing invariant of the whole kernel.
THEOREM RouteInvariant == BootSpec => []RouteInv
<1>1. BootInit => RouteInv
  <2> SUFFICES ASSUME RInit PROVE RouteInv
    BY DEF BootInit
  <2> USE DEF On, Written, Informed, PicMasked, Begun
  <2>1. Masked \in RedirType /\ Masked.masked
    BY DEF Masked, RedirType
  <2>2. RouteTypeOK
    BY <2>1 DEF RInit, RouteTypeOK
  <2>3. InfoIsWire
    <3>1. wire.gsi = 1 /\ wire.low = FALSE /\ wire.level = FALSE /\ ~info.some /\ bpc = "tscProgram"
      BY DEF RInit, NoInfo
    <3> QED BY <3>1, MachineAssumption DEF InfoIsWire
  <2>4. RedirProgress
    BY <2>1 DEF RInit, RedirProgress
  <2>5. SetUpFirst
    BY DEF RInit, SetUpFirst
  <2> QED BY <2>2, <2>3, <2>4, <2>5 DEF RouteInv
<1>2. RouteInv /\ [BootNext]_bvars => RouteInv'
  <2> SUFFICES ASSUME RouteInv, [BootNext]_bvars PROVE RouteInv'
    OBVIOUS
  <2>0. /\ ~crashed /\ iflag \in BOOLEAN
        /\ lapic \in [on : BOOLEAN, irr : SUBSET {TIMER_VECTOR, KBD_VECTOR},
                      isr : SUBSET {TIMER_VECTOR, KBD_VECTOR}]
        /\ iflag => picMask /\ gates = {TIMER_VECTOR, KBD_VECTOR, SPURIOUS_VECTOR}
    BY DEF RouteInv, RouteTypeOK, SetUpFirst, Gates, PicMasked, Informed, Written
  <2>1. CASE Early
    BY <2>1, SetUpStep DEF Early
  <2>2. CASE EarlyPanic
    <3>1. /\ bpc \in {"apic", "hi"} /\ bpc' = "dead"
          /\ UNCHANGED <<wire, info, picMask, redir, gates, lapic, iflag, crashed>>
      BY <2>2 DEF EarlyPanic, BootPanic, ApicPanic, GsiPanic
    <3>2. bpc \notin Written /\ bpc' \in Begun
      BY <3>1 DEF Written, On, Begun
    <3> QED BY <2>0, <3>1, <3>2, QuietStep
  <2>3. CASE Plain \/ Halt
    <3>1. UNCHANGED <<wire, info, picMask, redir, gates, lapic, iflag, crashed, bpc>>
      BY <2>3 DEF Plain, Halt, rvars
    <3> QED BY <2>0, <3>1, QuietStep
  <2>4. CASE ReadPort \/ Calibrate \/ StartTimer
    <3>1. /\ bpc \in On /\ bpc' \in On
          /\ UNCHANGED <<wire, info, picMask, redir, gates, lapic, iflag, crashed>>
      <4>1. CASE ReadPort
        BY <4>1 DEF ReadPort, BootRead, On
      <4>2. CASE Calibrate
        BY <4>2 DEF Calibrate, TimerCalibrate, PitProgram, PitStart, PitSeenLow,
                    PitSeenHigh, On
      <4>3. CASE StartTimer
        BY <4>3 DEF StartTimer, TimerPeriodic, On
      <4> QED BY <2>4, <4>1, <4>2, <4>3
    <3> QED BY <2>0, <3>1, QuietStep
  <2>5. CASE LatePanic
    <3>1. /\ UNCHANGED <<wire, info, picMask, redir, gates, lapic, crashed, bpc>>
          /\ iflag /\ iflag' \in BOOLEAN
      BY <2>5 DEF LatePanic
    <3> QED BY <2>0, <3>1, QuietStep
  <2>6. CASE TimerIrq \/ KbdIrq
    <3>1. PICK v \in {TIMER_VECTOR, KBD_VECTOR}, r \in BOOLEAN : Serve(v, r)
      <4>1. (~ready /\ kbc.obf) \in BOOLEAN
        OBVIOUS
      <4> QED BY <2>6, <4>1 DEF TimerIrq, KbdIrq
    <3>2. /\ UNCHANGED <<wire, info, picMask, redir, gates, iflag, bpc>>
          /\ lapic' = [lapic EXCEPT !.irr = @ \ {v}]
          /\ iflag /\ crashed' = (v \notin gates)
      BY <3>1 DEF Serve, Accept, ServeAndEoi
    <3>3. ~crashed'
      BY <2>0, <3>2
    <3>4. lapic' \in [on : BOOLEAN, irr : SUBSET {TIMER_VECTOR, KBD_VECTOR},
                      isr : SUBSET {TIMER_VECTOR, KBD_VECTOR}]
      BY <2>0, <3>2
    <3> QED BY <2>0, <3>2, <3>3, <3>4, QuietStep
  <2>7. CASE StrayIrq
    <3>1. /\ UNCHANGED <<wire, info, picMask, redir, gates, lapic, iflag, bpc>>
          /\ iflag /\ picMask
      BY <2>0, <2>7 DEF StrayIrq, Stray
    <3>2. ~crashed'
      BY <2>0, <2>7, <3>1 DEF StrayIrq, Stray
    <3> QED BY <2>0, <3>1, <3>2, QuietStep
  <2>8. CASE Device(KeyArrives) \/ Device(LineHeld) \/ Device(TimerFires)
    <3>1. /\ UNCHANGED <<wire, info, picMask, redir, gates, iflag, crashed, bpc>>
          /\ \/ lapic' = lapic
             \/ \E R \in SUBSET {TIMER_VECTOR, KBD_VECTOR} :
                  lapic' = [lapic EXCEPT !.irr = @ \cup R]
      BY <2>8, RequestedIsKbd DEF Device, KeyArrives, LineHeld, TimerFires
    <3>2. lapic' \in [on : BOOLEAN, irr : SUBSET {TIMER_VECTOR, KBD_VECTOR},
                      isr : SUBSET {TIMER_VECTOR, KBD_VECTOR}]
      BY <2>0, <3>1
    <3> QED BY <2>0, <3>1, <3>2, QuietStep
  <2>9. CASE Device(PitTick) \/ UNCHANGED bvars
    <3>1. UNCHANGED <<wire, info, picMask, redir, gates, lapic, iflag, crashed, bpc>>
      BY <2>9 DEF Device, PitTick, bvars, rvars
    <3> QED BY <2>0, <3>1, QuietStep
  <2> QED BY <2>1, <2>2, <2>3, <2>4, <2>5, <2>6, <2>7, <2>8, <2>9
             DEF BootNext, MainFlow
<1> QED BY <1>1, <1>2, PTL DEF BootSpec

\* No vector without a handler is ever taken, at any point of the boot, on
\* any machine and after any panic.
THEOREM VectorsHaveHandlers == BootSpec => []NoUnhandledVector
<1>1. RouteInv => NoUnhandledVector
  BY DEF RouteInv, SetUpFirst, NoUnhandledVector
<1> QED BY <1>1, RouteInvariant, PTL

\* apic::init: wherever the I/O APICs and the keyboard's line are, an open
\* redirection entry is the line's own and has its polarity and trigger mode,
\* and with interrupts on it is open where apic::init could reach it.
THEOREM KeyboardRoutedAsWired == BootSpec => []RoutedAsWired
<1>1. RouteInv => RoutedAsWired
  <2> SUFFICES ASSUME RouteInv PROVE RoutedAsWired
    OBVIOUS
  <2>1. WiredEntry \in Entries /\ WiredEntry[1] + WiredEntry[2] = wire.gsi
    BY WiredEntryExists
  <2>2. \A e \in Entries : e[1] \in Nat /\ e[2] \in Nat /\ e = <<e[1], e[2]>>
    BY MachineAssumption DEF Entries
  <2>3. ASSUME info.some
        PROVE  /\ KbdGsi = wire.gsi /\ info.base \in Nat
               /\ Routed = [dest |-> LapicId, vec |-> KBD_VECTOR, low |-> wire.low,
                            level |-> wire.level, masked |-> FALSE]
    <3>1. /\ info.base \in Nat /\ ReadWiring(info) = wire
          /\ wire.low \in BOOLEAN /\ wire.level \in BOOLEAN
      BY <2>3 DEF RouteInv, InfoIsWire
    <3>2. CASE Kbd.some
      <4>1. wire = [gsi |-> Kbd.gsi, low |-> Kbd.low, level |-> Kbd.level]
        BY <3>1, <3>2 DEF ReadWiring, Kbd
      <4>2. (Kbd.some /\ Kbd.low) = wire.low /\ (Kbd.some /\ Kbd.level) = wire.level
        BY <3>1, <3>2, <4>1
      <4>3. KbdGsi = wire.gsi
        BY <3>2, <4>1 DEF KbdGsi
      <4>4. Routed = [dest |-> LapicId, vec |-> KBD_VECTOR, low |-> wire.low,
                      level |-> wire.level, masked |-> FALSE]
        BY <4>2, Zenon DEF Routed
      <4> QED BY <3>1, <4>3, <4>4
    <3>3. CASE ~Kbd.some
      <4>1. wire = [gsi |-> 1, low |-> FALSE, level |-> FALSE]
        BY <3>1, <3>3 DEF ReadWiring, Kbd
      <4>0. wire.low = FALSE /\ wire.level = FALSE
        BY <4>1
      <4>2. (Kbd.some /\ Kbd.low) = wire.low /\ (Kbd.some /\ Kbd.level) = wire.level
        BY <3>3, <4>0, Zenon
      <4>3. KbdGsi = wire.gsi
        BY <3>3, <4>1 DEF KbdGsi
      <4>4. Routed = [dest |-> LapicId, vec |-> KBD_VECTOR, low |-> wire.low,
                      level |-> wire.level, masked |-> FALSE]
        BY <4>2, Zenon DEF Routed
      <4> QED BY <3>1, <4>3, <4>4
    <3> QED BY <3>2, <3>3
  <2>4. ASSUME info.some, Entry \in Entries PROVE Entry = WiredEntry
    <3>1. Entry[1] = info.base /\ Entry[2] = wire.gsi - info.base
      BY <2>3, <2>4 DEF Entry
    <3>2. wire.gsi \in Nat
      BY <2>1, <2>2
    <3>3. Entry[1] + Entry[2] = wire.gsi
      BY <2>3, <2>4, <3>1, <3>2
    <3> QED BY <2>1, <2>4, <3>3, MachineAssumption
  <2>5. ASSUME NEW e \in Entries, ~redir[e].masked
        PROVE  /\ e = WiredEntry
               /\ redir[e] = [dest |-> LapicId, vec |-> KBD_VECTOR, low |-> wire.low,
                              level |-> wire.level, masked |-> FALSE]
    <3>1. bpc \in Written /\ e = Entry /\ redir[e] = Routed
      BY <2>5 DEF RouteInv, RedirProgress
    <3>2. info.some
      BY <3>1 DEF RouteInv, InfoIsWire, Informed
    <3> QED BY <2>3, <2>4, <3>1, <3>2
  <2>6. ASSUME iflag, FirstHasKeyboard PROVE ~redir[WiredEntry].masked
    <3>1. bpc \in Written /\ info.some /\ info.base = WiredEntry[1]
      BY <2>6 DEF RouteInv, SetUpFirst, FirstHasKeyboard, Written
    <3>2. KbdGsi - info.base = WiredEntry[2]
      BY <2>1, <2>2, <2>3, <3>1
    <3>3. Entry = WiredEntry
      BY <2>1, <2>2, <3>1, <3>2 DEF Entry
    <3> QED BY <2>1, <3>1, <3>3 DEF RouteInv, RedirProgress, Routed
  <2> QED BY <2>5, <2>6 DEF RoutedAsWired
<1> QED BY <1>1, RouteInvariant, PTL
=============================================================================
