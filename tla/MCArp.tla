------------------------------- MODULE MCArp -------------------------------
(* The frame that sendrequest (src/arp.c) makes for an address, for TLC.    *)
EXTENDS Arpfrm

CONSTANTS Octets,   \* the numbers an address is made of
          Junk      \* values of uninitialised memory

VARIABLES asked,    \* the address given to arp(), as four numbers
          frame     \* the frame passed to sendpacket, <<>> before
vars == <<asked, frame>>

smac == <<82, 84, 0, 18, 52, 86>>

RECURSIVE Decimal(_)
Decimal(n) == IF n < 10 THEN <<48 + n>> ELSE Append(Decimal(n \div 10), 48 + (n % 10))
Text(a) == Decimal(a[1]) \o <<DOT>> \o Decimal(a[2]) \o <<DOT>> \o Decimal(a[3])
           \o <<DOT>> \o Decimal(a[4])

Init == asked \in [1 .. 4 -> Octets] /\ frame = <<>>

sendrequest ==
    /\ frame = <<>>
    /\ \E junk \in [1 .. 4 -> Junk] : frame' = <<initframe(smac, Text(asked), junk)>>
    /\ UNCHANGED asked

Spec == Init /\ [][sendrequest]_vars

\* The request carries, as its destination, the address it was made for:
\* "Create ARP request for IP:%s" (arp.c:19), "Destination IP Address"
\* (arpfrm.h:18).
RequestNamesTarget == \A i \in DOMAIN frame : frame[i].dip = asked
=============================================================================
