------------------------------ MODULE InfoServer ------------------------------
(***************************************************************************)
(* What the information server promises its users, without descriptors,    *)
(* tables or processes: who is logged in, under which nickname, and which  *)
(* user pipes wait for their receiver.  np_project2/single_process         *)
(* implements it (SingleProc); np_project2/concurrent offers the same      *)
(* commands.                                                               *)
(***************************************************************************)
EXTENDS Integers

CONSTANTS
  CLIENT_NUMBER,  \* how many users can be logged in
  Names,          \* the nicknames a user may ask for
  NoName,         \* the nickname of a user who never asked for one
  Blank           \* the nickname of nobody

User == 1 .. CLIENT_NUMBER

VARIABLES
  users,   \* the ids of the users logged in
  nick,    \* their nicknames
  pipes    \* <<u, v>>: u piped something to v, who has not received it

svars == <<users, nick, pipes>>

Init == users = {} /\ nick = [u \in User |-> Blank] /\ pipes = {}

(* A new user gets the lowest id that is free.                             *)
Login(u) ==
  /\ u \in User \ users
  /\ \A v \in User \ users : u <= v
  /\ users' = users \cup {u}
  /\ nick' = [nick EXCEPT ![u] = NoName]
  /\ UNCHANGED pipes

(* A user leaves, and everything piped by or to that user is discarded.    *)
Logout(u) ==
  /\ u \in users
  /\ users' = users \ {u}
  /\ nick' = [nick EXCEPT ![u] = Blank]
  /\ pipes' = {p \in pipes : p[1] # u /\ p[2] # u}

Rename(u, n) ==
  /\ u \in users
  /\ \A v \in users \ {u} : nick[v] # n
  /\ nick' = [nick EXCEPT ![u] = n]
  /\ UNCHANGED <<users, pipes>>

(* One pipe at a time from u to v, and only between users who are there.   *)
Send(u, v) ==
  /\ u \in users /\ v \in users
  /\ <<u, v>> \notin pipes
  /\ pipes' = pipes \cup {<<u, v>>}
  /\ UNCHANGED <<users, nick>>

(* What u sent to v is received once.                                      *)
Receive(u, v) ==
  /\ <<u, v>> \in pipes
  /\ pipes' = pipes \ {<<u, v>>}
  /\ UNCHANGED <<users, nick>>

Next ==
  \/ \E u \in User : Login(u) \/ Logout(u)
  \/ \E u \in User, n \in Names \cup {NoName, Blank} : Rename(u, n)
  \/ \E u, v \in User : Send(u, v) \/ Receive(u, v)

Spec == Init /\ [][Next]_svars
=============================================================================
