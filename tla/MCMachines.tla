----------------------------- MODULE MCMachines -----------------------------
(* PCI buses for Network: device and function numbers to functions.         *)
EXTENDS Naturals, TLC

\* Machines without a card, with one or two, with a card as a second function
\* (also of a device that says it has only one), with a 64-bit bar, with a
\* memory of another size and with ports that were given no address.
Bar(k, v) == [kind |-> k, val |-> v,
              size |-> CASE k = "io" -> 64 [] k = "none" -> 0 [] OTHER -> 131072]
Function(id, class, bars) == [id |-> id, class |-> class, bars |-> bars]
Mem32 == <<Bar("mem", 7), Bar("io", 1), Bar("none", 0)>>
Mem64 == <<Bar("mem64", 7), Bar("high", 0), Bar("io", 1)>>
NoBars == <<Bar("none", 0), Bar("none", 0), Bar("none", 0)>>
Card(bars) == Function("e1000", "network", bars)
Bridge == Function("bridge", "bridge", NoBars)
Absent == Function("none", "none", NoBars)
Device(multi, f0, f1) == [multi |-> multi, funcs |-> (0 :> f0 @@ 1 :> f1)]
NoCard == 0 :> Device(FALSE, Bridge, Absent)
OneCard == NoCard @@ 3 :> Device(FALSE, Card(Mem32), Absent)
Machines == {
  NoCard,
  OneCard,
  1 :> Device(TRUE, Bridge, Card(Mem32)),
  1 :> Device(FALSE, Bridge, Card(Mem32)),
  1 :> Device(FALSE, Card(Mem32), Absent)
    @@ 2 :> Device(FALSE, Card(<<Bar("mem", 9), Bar("io", 2)>>), Absent),
  1 :> Device(FALSE, Card(Mem64), Absent),
  1 :> Device(FALSE, Card(<<[Bar("mem", 7) EXCEPT !.size = 64], Bar("io", 1)>>), Absent),
  1 :> Device(FALSE, Card(<<Bar("mem", 7), Bar("io", 0)>>), Absent)}
=============================================================================
