---------------------------- MODULE MCSocksServer ----------------------------
(* Small instances of SocksServer: rule files and requests.                *)
EXTENDS SocksServer

Addr(a, b, c, d) == <<a, b, c, d>>
Rule(mode, pattern) == [mode |-> mode, pattern |-> pattern]
Req(version, cmd, addr) == [version |-> version, cmd |-> cmd, addr |-> addr]

Home == Addr(10, 0, 0, 7)

(* In the one file the rule for BIND has a star between octets and a       *)
(* number no octet holds (266 becomes 10), which lets 10.0.0.* pass; a     *)
(* line of another form and the rule for CONNECT miss Home.  The other     *)
(* file, well formed, allows CONNECT only.                                 *)
RelayConfs ==
  {<<Rule("#", <<>>), Rule("c", <<10, 0, 0, 0>>), Rule("b", <<266, Star, 0, 0>>)>>,
   <<Rule("b", <<11, Star, Star, Star>>), Rule("c", <<10, 0, 0, Star>>)>>}

(* Each command and an unknown one, and another version.                   *)
RelayRequests ==
  {Req(4, cmd, Home) : cmd \in 1 .. 3} \cup {Req(5, CONNECT, Home)}
=============================================================================
