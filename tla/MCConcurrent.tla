----------------------------- MODULE MCConcurrent -----------------------------
(***************************************************************************)
(* Instances of Concurrent for TLC: what the clients of each run type.     *)
(***************************************************************************)
EXTENDS Concurrent

Leave      == [op |-> "exit", n |-> 0]
Tell(s)    == [op |-> "tell", n |-> s]
Who        == [op |-> "who", n |-> 0]
NameAs(n)  == [op |-> "name", n |-> n]
SendTo(s)  == [op |-> "send", n |-> s]
ReceiveFrom(s) == [op |-> "receive", n |-> s]

(* Only logins and logouts.                                                *)
LeaveOnly == {Leave}

(* Messages for one, a nickname, and user pipes to the first row.          *)
Mixed == {Tell(1), Who, Leave, SendTo(1), ReceiveFrom(2)} \cup {NameAs(n) : n \in Names}

(* User pipes in all directions.                                           *)
Piping == {SendTo(s) : s \in Slot} \cup {ReceiveFrom(s) : s \in Slot} \cup {Leave}
===============================================================================
