----------------------------- MODULE MCHostTable -----------------------------
EXTENDS HostTable, TLC

Scene(masters, cf, publishes, ws, hosts, changes, faults) ==
    [masters |-> masters, cf |-> cf, publishes |-> publishes, ws |-> ws, hosts |-> hosts,
     changes |-> changes, faults |-> faults]

\* Cloudflare, its faults, the sweeps and PUTs, also at a master that has no worker;
\* a free label that two workspaces want, with a process that ends, and with two
\* masters; the tables with one master and a fault, from a cold start, and with two
\* masters.
MCScenes ==
    {Scene({"m1"}, "m1", "no", {"w1"}, {"c"}, 4, 1),
     Scene({"m1"}, "m1", "no", {"w1", "w2"}, {"c"}, 3, 1),
     Scene({"m1"}, "m1", "no", {"w1"}, {"c", "d"}, 2, 0),
     Scene({"m1", "m2"}, "m1", "no", {"w1"}, {"c"}, 3, 0),
     Scene({"m1"}, "off", "no", {"w1", "w2"}, {"s"}, 4, 1),
     Scene({"m1", "m2"}, "off", "no", {"w1", "w2"}, {"s"}, 3, 1),
     Scene({"m1"}, "off", "warm", {"w1"}, {"t"}, 2, 1),
     Scene({"m1"}, "off", "cold", {"w1", "w2"}, {"t", "c"}, 1, 0),
     Scene({"m1", "m2"}, "off", "warm", {"w1"}, {"t"}, 2, 0),
     Scene({"m1", "m2"}, "off", "cold", {"w1"}, {"t"}, 1, 0)}

MCColdStart == {Scene({"m1"}, "off", "cold", {"w1"}, {"t"}, 1, 0)}

MCBoth    == "n1" :> "BOTH" @@ "n2" :> "INGRESS"
MCSplit   == "n1" :> "RUNTIME" @@ "n2" :> "INGRESS"
MCPlace   == "w1" :> "n1" @@ "w2" :> "n1"
MCDefault == "w1" :> "t" @@ "w2" :> "none"
MCMcpV3   == {"w1"}
=============================================================================
