------------------------------- MODULE FireWall -------------------------------
(***************************************************************************)
(* fire_wall of np_project4/socks_server.cpp: may a request be served under *)
(* the rules of socks.conf?  A rule is a line "permit c 140.113.*.*"; its  *)
(* pattern is the list of its tokens, a number or a star.  A line of       *)
(* another form leaves mode as it was (at the first line, as it happens to *)
(* be), and the list empty.                                                *)
(***************************************************************************)
EXTENDS Integers, Sequences, FiniteSets

Star == -1

CONNECT == 1    \* the command byte of a request
BIND    == 2

Address == [1 .. 4 -> 0 .. 255]

(* The lines that are modelled: any mode and up to four tokens (a fifth is *)
(* written behind ip[4]).                                                  *)
Parsed(rule) == rule.pattern \in Seq(Nat \cup {Star}) /\ Len(rule.pattern) <= 4

(* A rule the file's format foresees: four tokens, octets, then stars.     *)
WellFormed(rule) ==
  /\ rule.mode \in {"c", "b"}
  /\ rule.pattern \in [1 .. 4 -> {Star} \cup 0 .. 255]
  /\ \A j, k \in 1 .. 4 :
        j < k /\ rule.pattern[j] = Star => rule.pattern[k] = Star

-----------------------------------------------------------------------------
(* The rules skipped are those of the other mode.                          *)
Considered(rule, cmd) ==
  /\ cmd = CONNECT => rule.mode # "b"
  /\ cmd = BIND => rule.mode # "c"

(* (uint8_t)atoi of the token; a star, like a missing token, is 0.         *)
Octet(pattern, j) ==
  IF j \in DOMAIN pattern /\ pattern[j] # Star THEN pattern[j] % 256 ELSE 0

StarAt(pattern, j) ==
  IF j \in DOMAIN pattern /\ pattern[j] = Star THEN 1 ELSE 0

cnt(pattern) == StarAt(pattern, 1) + StarAt(pattern, 2)
                + StarAt(pattern, 3) + StarAt(pattern, 4)

(* Fault: the number of stars is not compared.                             *)
MatchesAnyStars(pattern, req) ==
  \E n \in 0 .. 4 :
    /\ \A j \in 1 .. 4 : j <= n => Octet(pattern, j) = req[j]
    /\ \A j \in 1 .. 4 : j > n => Octet(pattern, j) = 0

(* The five cases: n octets agree, the others are 0, and 4 - n are stars.  *)
Matches(pattern, req) ==
  \E n \in 0 .. 4 :
    /\ \A j \in 1 .. 4 : j <= n => Octet(pattern, j) = req[j]
    /\ \A j \in 1 .. 4 : j > n => Octet(pattern, j) = 0
    /\ cnt(pattern) = 4 - n

(* One rule that matches is enough.                                        *)
fire_wall(conf, cmd, req) ==
  \E k \in DOMAIN conf :
    Considered(conf[k], cmd) /\ Matches(conf[k].pattern, req)

-----------------------------------------------------------------------------
(* What a rule that is well formed means: its mode is the request's, and   *)
(* each octet of the address is the rule's, or the rule has a star there.  *)
Allows(rule, cmd, req) ==
  /\ rule.mode = IF cmd = CONNECT THEN "c" ELSE "b"
  /\ \A j \in 1 .. 4 : rule.pattern[j] \in {Star, req[j]}

Permitted(conf, cmd, req) == \E k \in DOMAIN conf : Allows(conf[k], cmd, req)

(* What is left of it for any line: its mode is not the other one, the     *)
(* octets of the address are the rule's but where the rule's is 0, and     *)
(* there are no more such places than stars, wherever these stand.         *)
Differing(pattern, req) == {j \in 1 .. 4 : Octet(pattern, j) # req[j]}

Honours(rule, cmd, req) ==
  /\ Considered(rule, cmd)
  /\ \A j \in Differing(rule.pattern, req) : Octet(rule.pattern, j) = 0
  /\ Cardinality(Differing(rule.pattern, req)) <= cnt(rule.pattern)

Honoured(conf, cmd, req) == \E k \in DOMAIN conf : Honours(conf[k], cmd, req)
=============================================================================
