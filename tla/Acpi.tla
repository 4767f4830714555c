-------------------------------- MODULE Acpi --------------------------------
(***************************************************************************)
(* hal/src/acpi.rs: from the RSDP to the ApicInfo that apic::init needs.   *)
(* The firmware's tables are data: an RSDP record [sig, rev, rsdt, xsdt],  *)
(* a root table [short, tables] and a MADT, the sequence of its interrupt  *)
(* controller structures.  Addresses are left out: an I/O APIC is known by *)
(* its first global system interrupt (GSI), and following a pointer is     *)
(* taking the table it points to.                                          *)
(***************************************************************************)
EXTENDS Naturals, Sequences, SequencesExt

NoOverride == [gsi |-> 0, low |-> FALSE, level |-> FALSE, some |-> FALSE]

\* APIC_INFO before acpi::init, and for good if parse fails.
NoInfo == [some |-> FALSE, base |-> 0, overrides |-> <<>>]

IsaIrqs == 0..15

\* The walk: has it stopped, the first I/O APIC, the overrides so far.
WalkStart ==
  [stop |-> FALSE, found |-> FALSE, base |-> 0,
   overrides |-> [i \in IsaIrqs |-> NoOverride]]

\* The two fields of an override's flags: 3 means active low, and level
\* triggered.  Every other value is the ISA bus's own: active high, edge.
Override(ic) ==
  [gsi |-> ic.gsi, low |-> ic.polarity = 3, level |-> ic.trigger = 3, some |-> TRUE]

IsIoApic(ic) == ic.type = 1 /\ ic.len >= 12
IsOverride(ic) == ic.type = 2 /\ ic.len >= 10 /\ ic.bus = 0 /\ ic.source \in IsaIrqs

\* One structure of the MADT.  A length below two ends the walk, since it
\* would not get on; anything unknown or too short is stepped over.
StepIc(st, ic) ==
  IF st.stop THEN st
  ELSE CASE ic.len < 2                  -> [st EXCEPT !.stop = TRUE]
         [] IsIoApic(ic) /\ ~st.found   -> [st EXCEPT !.found = TRUE, !.base = ic.base]
         [] IsOverride(ic)              -> [st EXCEPT !.overrides[ic.source] = Override(ic)]
         [] OTHER                       -> st

\* The entries of an RSDT or XSDT in order, up to the first MADT: <<>> for
\* none, and for a table shorter than its header.
find_madt(root) ==
  IF root.short THEN <<>>
  ELSE LET madts == SelectSeq(root.tables, LAMBDA t : t.sig = "APIC")
       IN  IF madts = <<>> THEN <<>> ELSE <<Head(madts)>>

\* parse: None for a bad signature, no MADT or no I/O APIC.
parse(rsdp) ==
  LET madt == find_madt(IF rsdp.rev >= 2 THEN rsdp.xsdt ELSE rsdp.rsdt)
      end == FoldLeft(StepIc, WalkStart, madt[1].ics)
  IN  IF ~rsdp.sig \/ madt = <<>> THEN NoInfo
      ELSE IF ~end.found THEN NoInfo
      ELSE [some |-> TRUE, base |-> end.base, overrides |-> end.overrides]
=============================================================================
