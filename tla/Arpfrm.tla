------------------------------- MODULE Arpfrm -------------------------------
(***************************************************************************)
(* ARP frames (arpfrm.c): byte order, the two forms of a MAC address, the  *)
(* parser of IP addresses, and the request that initframe builds.          *)
(* Characters are their ASCII codes; strings are those of Strings, without *)
(* the closing NUL.                                                        *)
(***************************************************************************)
EXTENDS Strings

CONSTANT RADIX      \* the number of values of a byte in hton and htons (256)

DOT == 46
COLON == 58

hton(v) == ((v \div RADIX) + (v * RADIX)) % (RADIX * RADIX)

htons(v) ==
    LET half == RADIX * RADIX IN hton(v \div half) + hton(v % half) * half

inttohex(n) == IF n <= 9 THEN 48 + n ELSE IF n <= 15 THEN 65 + n - 10 ELSE 48

hextoint(c) ==
    CASE c \in 48 .. 57 -> c - 48
      [] c \in 65 .. 70 -> 10 + c - 65
      [] c \in 97 .. 102 -> 10 + c - 97
      [] OTHER -> 0

unpackmac(mac) ==
    FlattenSeq([i \in 1 .. Len(mac) |-> <<inttohex(mac[i] \div 16), inttohex(mac[i] % 16)>>
                                        \o (IF i < Len(mac) THEN <<COLON>> ELSE <<>>)])

packmac(macstr) ==
    [j \in 1 .. (Len(macstr) + 1) \div 3 |->
        hextoint(macstr[3 * j - 2]) * 16 + hextoint(macstr[3 * j - 1])]

-----------------------------------------------------------------------------
\* One iteration of getip's loop: j is an index into both ip and arr, vals
\* holds the numbers found so far.
GetipStep(s, ip) ==
    LET c == ip[s.j + 1]
        arr == Append(SubSeq(s.arr, 1, s.j), c)
    IN  IF c = DOT THEN [j |-> 0, arr |-> <<>>, vals |-> Append(s.vals, atoi(SubSeq(s.arr, 1, s.j)))]
        ELSE [j |-> s.j + 1, arr |-> arr, vals |-> s.vals]

\* The bytes of the address, lowest first.  The numbers found go into ipvals,
\* which the function does not initialise: junk is what it held.
getip(ip, junk) ==
    LET s == FoldLeft(LAMBDA st, i : GetipStep(st, ip), [j |-> 0, arr |-> <<>>, vals |-> <<>>],
                      [i \in 1 .. Len(ip) |-> i])
        vals == Append(s.vals, atoi(SubSeq(s.arr, 1, s.j)))
    IN  [k \in 1 .. 4 |-> IF k <= Len(vals) THEN vals[k] ELSE junk[k]]

BROADCASTMAC == <<70, 70, 58, 70, 70, 58, 70, 70, 58, 70, 70, 58, 70, 70, 58, 70, 70>>

\* A request; of the constant fields, the operation.
initframe(smac, ipadd, junk) ==
    [dmac |-> packmac(BROADCASTMAC), smac |-> smac, opercode |-> hton(1),
     arpsmac |-> smac, arpdmac |-> packmac(BROADCASTMAC), dip |-> getip(ipadd, junk)]
=============================================================================
