------------------------------ MODULE MCConsole ------------------------------
(* Small instances of Console: what the form and the files hold.           *)
EXTENDS Console

Full  == <<TRUE, TRUE, TRUE>>
Empty == <<FALSE, FALSE, FALSE>>
NoPort == <<TRUE, FALSE, TRUE>>

Whole == <<"ls", "ls", "ls", "exit">>
Short == <<"exit">>
NoExit == <<"ls">>

Req(proxy, slots, files) == [proxy |-> proxy, slot |-> slots, file |-> files]

Both == BOOLEAN

(* Two sessions around a gap, one of them without exit; three of them; the *)
(* last slot alone; a file that does not exist.                            *)
Forms ==
  {Req(proxy, <<Full, NoPort, Full>>, <<<<"ls", "ls", "exit">>, Short, NoExit>>) : proxy \in Both}
  \cup {Req(proxy, <<Full, Full, Full>>, <<<<>>, Short, NoExit>>) : proxy \in Both}
  \cup {Req(proxy, <<Empty, Empty, Full>>, <<Short, Short, Whole>>) : proxy \in Both}
==============================================================================
