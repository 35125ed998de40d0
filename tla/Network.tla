------------------------------ MODULE Network ------------------------------
(***************************************************************************)
(* From the PCI scan to a frame on the wire: src/pci.c, src/nic.c,         *)
(* src/e1000.c and the kernel side of ARP (src/arp.c, src/sysarp.c).       *)
(* Nothing locks the driver: sende1000 goes in steps, each of which reads  *)
(* tbdtail again.  Receiving is a stub in the code.                        *)
(***************************************************************************)
EXTENDS Integers, Sequences, FiniteSets

CONSTANTS Buses,      \* bound: the machines started, as their PCI devices
          Procs,
          SLOTS,      \* E1000_TBD_SLOTS
          MaxSends    \* bound: number of frames sent

VARIABLES
  bus,                 \* device and function numbers to configuration spaces
  totdev,              \* result of pciinit()
  nics,                \* nics[0] as a sequence of length 0 or 1
  npanic,
  tbd, tbuf, tbdtail,  \* e1000: descriptors, packet buffers, next slot
  tdlen, tdh, tdt,     \* registers of the card
  wire,                \* the frames the card has sent
  npc, frame, oldtail, \* sende1000 of a process
  asked,               \* the frames sende1000 was called with
  overlap              \* two calls of sende1000 were under way at once

pci == <<bus, totdev, nics, npanic>>
ring == <<tbd, tbuf, tbdtail>>
regs == <<tdlen, tdh, tdt>>
calls == <<npc, frame, oldtail, asked, overlap>>
nvars == <<pci, ring, regs, wire, calls>>

Cleared == [pkt |-> 0, cmd |-> FALSE, done |-> FALSE]

\* No device answered yet; kalloc()ed memory holds no valid descriptor.
NInit ==
  /\ bus \in Buses /\ totdev = 0 /\ nics = <<>> /\ npanic = ""
  /\ tbd \in [0..(SLOTS - 1) -> {[Cleared EXCEPT !.done = d] : d \in BOOLEAN}]
  /\ tbuf = [i \in 0..(SLOTS - 1) |-> 0]
  /\ tbdtail = 0 /\ tdlen = 0 /\ tdh = 0 /\ tdt = 0
  /\ wire = <<>>
  /\ npc = [p \in Procs |-> "boot"]
  /\ frame = [p \in Procs |-> 0] /\ oldtail = [p \in Procs |-> 0]
  /\ asked = <<>> /\ overlap = FALSE

-----------------------------------------------------------------------------
(* pci.c: the bars of a function are [kind, val, size] with kind "none",    *)
(* "mem", "mem64" (two registers, the second "high") or "io".              *)

Upper(bars, i) == i > 1 /\ bars[i - 1].kind = "mem64"
Probed(bars, i) == bars[i].kind # "none" /\ ~Upper(bars, i)

\* pciconfwrite() of a bar
Write(bar, v) == [bar EXCEPT !.val = v]
AllOnes == 0 - 1

\* Variant: the register is left with the pattern that was written to it.
Restored_No(bars, i) ==
  IF Probed(bars, i) THEN Write(bars[i], AllOnes) ELSE bars[i]

\* A bar after pcienabledev(): all ones are written, the size is read back
\* and the old value is written again.
Restored(bars, i) ==
  IF Probed(bars, i) THEN Write(Write(bars[i], AllOnes), bars[i].val)
  ELSE bars[i]

\* pcienabledev(): regbase and regsize
pcienabledev(bars) ==
  [i \in DOMAIN bars |->
    IF Probed(bars, i)
    THEN [base |-> bars[i].val, size |-> bars[i].size, kind |-> bars[i].kind]
    ELSE [base |-> 0, size |-> 0, kind |-> "none"]]

\* inite1000()'s search: bars of memory until the first port (or unused) one
FirstPort(r) == CHOOSE i \in DOMAIN r :
  /\ r[i].kind \in {"io", "none"}
  /\ \A j \in 1..(i - 1) : r[j].kind \notin {"io", "none"}

\* inite1000(): its panic, or the bases the driver will use
inite1000(r) ==
  LET i == FirstPort(r) IN
  [iobase |-> r[i].base, membase |-> IF i = 1 THEN 0 ELSE r[i - 1].base,
   panic |->
     CASE \E j \in 1..(i - 1) : r[j].size # 131072 -> "Mem space BAR size"
       [] OTHER -> CASE r[i].size # 64 -> "I/O space BAR size"
                     [] r[i].size = 64 /\ r[i].base = 0 -> "no I/O port base"
                     [] OTHER -> ""]

\* PCI_HDRTYPE_MULTIFN of function 0, and the vendor of each one
Functions(d) == IF d.multi THEN DOMAIN d.funcs ELSE {0}
Present(d) == {f \in Functions(d) : d.funcs[f].id # "none"}

IsE1000(fn) == fn.class = "network" /\ fn.id = "e1000"

\* The (device, function) pairs attache1000() is called for, in that order
Cards(b) == {x \in (DOMAIN b) \X (0..7) :
               x[2] \in Present(b[x[1]]) /\ IsE1000(b[x[1]].funcs[x[2]])}
After(x, y) == x[1] > y[1] \/ (x[1] = y[1] /\ x[2] > y[2])
FirstCard(S) == CHOOSE x \in S : \A y \in S \ {x} : After(y, x)
LastCard(b) == CHOOSE x \in Cards(b) : \A y \in Cards(b) \ {x} : After(x, y)

Probe(b, x) == inite1000(pcienabledev(b[x[1]].funcs[x[2]].bars))

\* What inite1000() writes to TDLEN, which counts bytes: 16 for a descriptor
TDLEN == (SLOTS * 16) * 128

\* pciinit(), pcienumbus(), attache1000() and regnicdevice() at boot: every
\* card is set up and put into nics[0], so the last one stays.
pciinit ==
  /\ \A p \in Procs : npc[p] = "boot"
  /\ totdev' = Cardinality(DOMAIN bus)
  /\ bus' = [d \in DOMAIN bus |->
              [bus[d] EXCEPT !.funcs =
                [f \in DOMAIN @ |->
                  IF <<d, f>> \in Cards(bus)
                  THEN [@[f] EXCEPT !.bars =
                         [i \in DOMAIN @ |-> Restored(bus[d].funcs[f].bars, i)]]
                  ELSE @[f]]]]
  /\ npanic' = LET bad == {x \in Cards(bus) : Probe(bus, x).panic # ""} IN
               IF bad = {} THEN "" ELSE Probe(bus, FirstCard(bad)).panic
  /\ nics' = IF Cards(bus) = {} THEN <<>>
             ELSE <<[at |-> LastCard(bus), drv |-> Probe(bus, LastCard(bus))]>>
  /\ tdlen' = IF Cards(bus) = {} THEN 0 ELSE TDLEN
  /\ npc' = [p \in Procs |-> IF npanic' = "" THEN "idle" ELSE "panic"]
  /\ UNCHANGED <<ring, tdh, tdt, wire, frame, oldtail, asked, overlap>>

-----------------------------------------------------------------------------
(* the driver *)

Sending == {"clear", "copy", "fill", "advance", "tail", "wait"}

Goto(p, where) == npc' = [npc EXCEPT ![p] = where]

\* sys_arp(): sendrequest() finds no card, or calls sende1000().
sys_arp(p) ==
  /\ npc[p] = "idle" /\ Len(asked) < MaxSends
  /\ nics # <<>>
  /\ frame' = [frame EXCEPT ![p] = Len(asked) + 1]
  /\ asked' = Append(asked, Len(asked) + 1)
  /\ overlap' = (overlap \/ \E q \in Procs \ {p} : npc[q] \in Sending)
  /\ Goto(p, "clear")
  /\ UNCHANGED <<pci, ring, regs, wire, oldtail>>

\* Variant: the descriptor keeps the status of its last use.
Clear_Keep(d) == [Cleared EXCEPT !.done = d.done]

Clear(d) == Cleared

\* memset() of the descriptor
SendClear(p) ==
  /\ npc[p] = "clear"
  /\ tbd' = [tbd EXCEPT ![tbdtail] = Clear(@)]
  /\ Goto(p, "copy")
  /\ UNCHANGED <<pci, tbuf, tbdtail, regs, wire, frame, oldtail, asked, overlap>>

SendCopy(p) ==
  /\ npc[p] = "copy"
  /\ tbuf' = [tbuf EXCEPT ![tbdtail] = frame[p]]
  /\ Goto(p, "fill")
  /\ UNCHANGED <<pci, tbd, tbdtail, regs, wire, frame, oldtail, asked, overlap>>

\* addr, len and cmd of the descriptor; oldtail
SendFill(p) ==
  /\ npc[p] = "fill"
  /\ tbd' = [tbd EXCEPT ![tbdtail].pkt = tbdtail, ![tbdtail].cmd = TRUE]
  /\ oldtail' = [oldtail EXCEPT ![p] = tbdtail]
  /\ Goto(p, "advance")
  /\ UNCHANGED <<pci, tbuf, tbdtail, regs, wire, frame, asked, overlap>>

\* Variant: the slot after the last one is not the first one.
NextSlot_NoWrap(i) == IF i + 1 < SLOTS THEN i + 1 ELSE i

NextSlot(i) == (i + 1) % SLOTS

SendAdvance(p) ==
  /\ npc[p] = "advance"
  /\ tbdtail' = NextSlot(tbdtail)
  /\ Goto(p, "tail")
  /\ UNCHANGED <<pci, tbd, tbuf, regs, wire, frame, oldtail, asked, overlap>>

\* The write of TDT gives the descriptor to the card.
SendTail(p) ==
  /\ npc[p] = "tail"
  /\ tdt' = tbdtail
  /\ Goto(p, "wait")
  /\ UNCHANGED <<pci, ring, tdlen, tdh, wire, frame, oldtail, asked, overlap>>

\* The loop on E1000_TDESC_STATUS_DONE ends, and so does sys_arp().
SendDone(p) ==
  /\ npc[p] = "wait" /\ tbd[oldtail[p]].done
  /\ Goto(p, "idle")
  /\ UNCHANGED <<pci, ring, regs, wire, frame, oldtail, asked, overlap>>

\* The card's ring ends where TDLEN says, 16 bytes to a descriptor.
CardNext(i) == (i + 1) % (tdlen \div 16)

\* The card sends the frame of the descriptor at its head and reports it.
Transmit ==
  /\ tdh # tdt /\ tdh < SLOTS
  /\ wire' = Append(wire, tbuf[tbd[tdh].pkt])
  /\ tbd' = [tbd EXCEPT ![tdh].done = tbd[tdh].cmd]
  /\ tdh' = CardNext(tdh)
  /\ UNCHANGED <<pci, tbuf, tbdtail, tdlen, tdt, calls>>

\* A frame that the card makes of memory that is not the driver's
Foreign == 0

\* The card takes the memory behind the driver's slots for descriptors, up to
\* the end of its own ring.  What is there is not known: it sends some of it
\* or nothing, and may never get to the end.
Overrun ==
  /\ tdh # tdt /\ tdh >= SLOTS
  /\ wire' \in {wire, Append(wire, Foreign)}
  /\ tdh' = CardNext((tdlen \div 16) - 1)
  /\ UNCHANGED <<pci, ring, tdlen, tdt, calls>>

sende1000(p) == SendClear(p) \/ SendCopy(p) \/ SendFill(p) \/ SendAdvance(p)
                \/ SendTail(p) \/ SendDone(p)

NNext ==
  \/ pciinit
  \/ \E p \in Procs : sys_arp(p) \/ sende1000(p)
  \/ Transmit \/ Overrun

-----------------------------------------------------------------------------
\* The scan leaves every bar as it was, and registers a card exactly when a
\* function that answers is an E1000, with the memory base of that card.
ScanFindsCard ==
  /\ bus \in Buses
  /\ (\E p \in Procs : npc[p] \in Sending \cup {"idle"}) =>
       /\ (nics # <<>>) = (\E d \in DOMAIN bus : \E f \in DOMAIN bus[d].funcs :
                              /\ f = 0 \/ bus[d].multi
                              /\ bus[d].funcs[f].id = "e1000")
       /\ \A i \in DOMAIN nics :
            LET bars == bus[nics[i].at[1]].funcs[nics[i].at[2]].bars IN
            /\ bars[1].kind = "mem" /\ bars[1].val = nics[i].drv.membase
            /\ bars[2].kind = "io" /\ bars[2].val = nics[i].drv.iobase

\* The frames of the driver that are on the wire, without foreign ones
SentFrames == SelectSeq(wire, LAMBDA f : f # Foreign)

\* As long as no two calls overlap, the card sends the frames of the driver in
\* the order of the calls, and a call that has returned has its frame on the
\* wire: "done" in a descriptor is never that of an earlier frame in its slot.
\* After the last slot of the ring the card may send foreign memory in between
\* (e1000.c:274-291; WithinRing is about that).
SentInOrder ==
  ~overlap =>
    /\ Len(SentFrames) <= Len(asked)
    /\ \A i \in DOMAIN SentFrames : SentFrames[i] = asked[i]
    /\ (\A p \in Procs : npc[p] = "idle") => SentFrames = asked

\* A call that no other overlaps ends, unless the card has left the ring:
\* sende1000 has no timeout, and waits for a descriptor that the card comes to
\* if it gets to the end of the memory it takes for its ring.
SendReturns ==
  \A p \in Procs : npc[p] = "clear" ~> (npc[p] = "idle" \/ overlap \/ tdh >= SLOTS)

\* The card works on the ring that the driver has set up for it, of
\* E1000_TBD_SLOTS descriptors (e1000.c:16-22, 382-386).
WithinRing == tdh < SLOTS
=============================================================================
