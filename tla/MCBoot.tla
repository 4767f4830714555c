------------------------------- MODULE MCBoot -------------------------------
EXTENDS Boot

\* Two I/O APICs of two entries each, the second one's GSIs from 2.
MCIoApics == {[base |-> 0, n |-> 2], [base |-> 2, n |-> 2]}

Io(base) == [type |-> 1, len |-> 12, base |-> base]
Iso(bus, source, gsi, polarity, trigger) ==
  [type |-> 2, len |-> 10, bus |-> bus, source |-> source, gsi |-> gsi,
   polarity |-> polarity, trigger |-> trigger]
Lapic == [type |-> 0, len |-> 8]
ShortIo == [type |-> 1, len |-> 8]
Broken == [type |-> 0, len |-> 0]

Madt(ics) == [sig |-> "APIC", ics |-> ics]
Fadt == [sig |-> "FACP", ics |-> <<>>]
Empty == [short |-> FALSE, tables |-> <<>>]
Root(ics) == [short |-> FALSE, tables |-> <<Fadt, Madt(ics)>>]
Rsdt(ics) == [sig |-> TRUE, rev |-> 0, rsdt |-> Root(ics), xsdt |-> Empty]
Xsdt(ics) == [sig |-> TRUE, rev |-> 2, rsdt |-> Empty, xsdt |-> Root(ics)]

\* In this order: plain ISA wiring; the line on another pin of the first
\* I/O APIC; active low and level; the second I/O APIC, listed first, with
\* and without the line; a line the listed I/O APIC does not have; overrides
\* of other IRQs and buses; structures too short; a broken end; no I/O APIC;
\* no MADT, a short root, a bad signature.
MCFirmwares ==
  { Rsdt(<<Lapic, Io(0), Io(2)>>),
    Xsdt(<<Io(0), Iso(0, 1, 0, 0, 0), Io(2)>>),
    Xsdt(<<Lapic, Iso(0, 1, 1, 3, 3), Io(0)>>),
    Xsdt(<<Io(2), Io(0), Iso(0, 1, 3, 3, 1)>>),
    Xsdt(<<Io(2), Io(0)>>),
    Rsdt(<<Io(0), Io(2), Iso(0, 1, 2, 1, 1)>>),
    Xsdt(<<Io(0), Iso(0, 0, 1, 3, 3), Iso(1, 1, 0, 3, 3), Iso(0, 16, 0, 3, 3)>>),
    Xsdt(<<ShortIo, Io(0), [Iso(0, 2, 0, 3, 3) EXCEPT !.len = 8]>>),
    Rsdt(<<Io(0), Broken, Io(2)>>),
    Xsdt(<<Lapic>>),
    [sig |-> TRUE, rev |-> 2, rsdt |-> Root(<<Io(0)>>), xsdt |-> Empty],
    [sig |-> TRUE, rev |-> 0, rsdt |-> [short |-> TRUE, tables |-> <<>>], xsdt |-> Empty],
    [sig |-> FALSE, rev |-> 2, rsdt |-> Empty, xsdt |-> Root(<<Io(0)>>)] }
=============================================================================
