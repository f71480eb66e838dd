---------------------------- MODULE MCNetConfig ----------------------------
(* Model checking of NetConfig: two static configurations that differ in   *)
(* every address, one of them without DNS servers.                         *)
EXTENDS NetConfig

Address(ip, dns1, dns2) ==
    [k \in Keys |-> CASE k = "dhcp" -> 0
                      [] k \in {"ip", "mask", "gw"} -> ip
                      [] k = "dns1" -> dns1
                      [] k = "dns2" -> dns2]

MCStatics == {Address(1, 1, 2), Address(2, 0, 2)}

MCLease == [k \in AddrKeys |-> 3]

=============================================================================
