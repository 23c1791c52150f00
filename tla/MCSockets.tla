----------------------------- MODULE MCSockets -----------------------------
(* Bounds for checking Sockets with TLC: two wired interfaces, a wireless    *)
(* one with a greater address, and a tunnel with the greatest.               *)
EXTENDS Sockets

MCInterfaces ==
    {[name |-> "eth0", class |-> "wired", ip |-> 1],
     [name |-> "eth1", class |-> "wired", ip |-> 2],
     [name |-> "wlan0", class |-> "wireless", ip |-> 3],
     [name |-> "tun0", class |-> "virtual", ip |-> 4]}

\* Every selection of them in every order.
MCListings ==
    UNION {{s \in [1 .. n -> MCInterfaces] : \A i, j \in 1 .. n : s[i] = s[j] => i = j} :
              n \in 0 .. 4}

MCPorts == {1, 2}

=============================================================================
