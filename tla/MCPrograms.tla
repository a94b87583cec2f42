----------------------------- MODULE MCPrograms ------------------------------
(* Programs for TLC: every engine, a network and a host.                    *)
EXTENDS Programs

MCAvailable == <<"pf", "npf", "ipset", "iptables", "dummy">>
MCAddr == {[family |-> "v4", host |-> "h1", net |-> TRUE],
           [family |-> "v6", host |-> "h2", net |-> FALSE]}
=============================================================================
