---------------------------- MODULE MCPcapConverter ----------------------------
(* Small captures for PcapConverter. *)
EXTENDS PcapConverter

MCTables == <<"ethernet", "ipv4">>

B(kind, size) == [kind |-> kind, size |-> size, parses |-> TRUE, iface |-> 0,
                  link |-> "none", pdus |-> {}]

Shb == B("shb", 1)
EthIdb == [B("idb", 1) EXCEPT !.link = "ethernet"]
RawIdb == [B("idb", 1) EXCEPT !.link = "raw"]
Ip == [B("simple", 2) EXCEPT !.pdus = {"ethernet", "ipv4"}]
Lldp == [B("simple", 3) EXCEPT !.iface = 1, !.pdus = {"ethernet", "lldp"}]
Broken == [B("simple", 1) EXCEPT !.parses = FALSE, !.pdus = {"ethernet"}]
Record == [B("record", 2) EXCEPT !.link = "ethernet", !.pdus = {"ethernet", "lldp"}]

\* Sections of up to four more blocks, the last perhaps cut short.  No packet
\* names an interface that its section declares only later: such a capture is
\* malformed, and what the converter makes of it depends on the window.
Bodies == UNION {[1 .. n -> {Shb, EthIdb, RawIdb, Ip, Lldp, B("other", 1)}] : n \in 0 .. 2}
          \cup {<<a, b, c>> : a \in {Shb, EthIdb, Ip, Lldp}, b \in {Shb, EthIdb, RawIdb, Ip},
                             c \in {Ip, Lldp}}
Declared(c, i, j) ==
    Cardinality({k \in i .. j : c[k].kind = "idb" /\ ~\E s \in k .. j : c[s].kind = "shb"})
InOrder(c) ==
    \A i, j \in DOMAIN c :
      i < j /\ c[i].kind = "simple" /\ c[i].iface >= Declared(c, 1, i)
            /\ c[j].kind = "idb" /\ c[i].iface < Declared(c, 1, j) =>
        \E k \in i .. j : c[k].kind = "shb"
Sections == {c \in {<<Shb, first>> \o body : first \in {EthIdb, RawIdb}, body \in Bodies} : InOrder(c)}
            \cup {<<Ip, Shb, EthIdb, Ip>>, <<RawIdb, Ip, Ip, Ip>>, <<>>}
Spoilt == {<<Shb, EthIdb, Ip, b, Ip>> : b \in {B("bad", 1), Broken}}
          \cup {<<Shb, EthIdb, Ip, B("cut", n)>> : n \in {1, 5}}
Classic == {[i \in 1 .. n |-> Record] : n \in 1 .. 4}

MCCaptures == Sections \cup Spoilt \cup Classic

Run(window, drop, take, decode, lldp) ==
    [window |-> window, drop |-> drop, take |-> take, decode |-> decode, lldp |-> lldp]
Slices == {<<0, MaxU64>>, <<0, 0>>, <<0, 2>>, <<1, 1>>, <<2, MaxU64>>}
MCCommands ==
    {Run(w, s[1], s[2], TRUE, TRUE) : w \in {1, 5, 20}, s \in Slices}
    \cup {Run(5, 0, MaxU64, d, l) : d \in BOOLEAN, l \in BOOLEAN}
==============================================================================
