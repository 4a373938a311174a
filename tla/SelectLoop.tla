----------------------------- MODULE SelectLoop -----------------------------
(***************************************************************************)
(* The event loop of np_project2/single_process against clients that close *)
(* or reset their connections, send half a line, or cannot be accepted:    *)
(* readline takes one character at a time with calls that block, and the   *)
(* loop writes with calls that can end the process.  What a line does to   *)
(* pipes and descriptors is the subject of SingleProc.                     *)
(***************************************************************************)
EXTENDS Integers, Sequences, FiniteSets

CONSTANTS
  CLIENT_NUMBER,  \* rows of the client table
  Client,         \* the connections that may be made
  MaxLines        \* a bound: lines each of them sends

Slot == 1 .. CLIENT_NUMBER

(* A program, a message to everyone, the end of the session, an empty      *)
(* line, and tell, printenv or setenv without its argument.                *)
Line == {"run", "yell", "exit", "", "short"}

CONSTANTS
  Nobody,     \* client_fd 0: the row is free
  Failed,     \* client_fd -1: what accept returned
  Listener    \* sockfd

ASSUME SelectAssumption ==
  /\ CLIENT_NUMBER \in Nat \ {0} /\ MaxLines \in [Client -> Nat]
  /\ IsFiniteSet(Client) /\ Client \cap {Nobody, Failed, Listener} = {}
  /\ Nobody # Failed

(* A peer is here, has closed its connection, or has reset it; the         *)
(* connection is broken when a send has met the reset, or a read has       *)
(* returned it: the next send raises SIGPIPE.                              *)
Peer == {"here", "closed", "reset", "broken"}

VARIABLES
  pc,          \* where the server is (see TypeOK)
  rfd,         \* ready descriptors not looked at yet
  cur,         \* whose line is read or run
  client_cnt,
  row,         \* client_info[i].client_fd
  conn,        \* "away", "waiting" (in the backlog), "served", "refused" or "over"
  peer,        \* how the client's end is
  in,          \* whole lines on the way to the server
  half,        \* they are followed by part of one
  typed        \* lines a client has sent

table == <<client_cnt, row, conn>>
clients == <<in, half, typed>>
vars == <<pc, rfd, cur, table, peer, clients>>

Init ==
  /\ pc = "select" /\ rfd = {} /\ cur = Nobody /\ client_cnt = 0
  /\ row = [i \in Slot |-> Nobody]
  /\ conn = [k \in Client |-> "away"] /\ peer = [k \in Client |-> "here"]
  /\ in = [k \in Client |-> <<>>] /\ half = [k \in Client |-> FALSE]
  /\ typed = [k \in Client |-> 0]

Halted == pc \in {"killed", "aborted", "crashed", "exited"}
Up == ~ Halted

-----------------------------------------------------------------------------
(* The clients.                                                            *)

Acts(k) == Up /\ conn[k] # "over" /\ peer[k] = "here"

Connects(k) ==
  /\ Acts(k) /\ conn[k] = "away"
  /\ conn' = [conn EXCEPT ![k] = "waiting"]
  /\ UNCHANGED <<pc, rfd, cur, client_cnt, row, peer, clients>>

(* A whole line, or the rest of one.                                       *)
Types(k, l) ==
  /\ Acts(k) /\ conn[k] # "away" /\ typed[k] < MaxLines[k]
  /\ l = "" => ~ half[k]
  /\ in' = [in EXCEPT ![k] = Append(@, l)]
  /\ half' = [half EXCEPT ![k] = FALSE] /\ typed' = [typed EXCEPT ![k] = @ + 1]
  /\ UNCHANGED <<pc, rfd, cur, table, peer>>

Begins(k) ==
  /\ Acts(k) /\ conn[k] # "away" /\ typed[k] < MaxLines[k] /\ ~ half[k]
  /\ half' = [half EXCEPT ![k] = TRUE]
  /\ UNCHANGED <<pc, rfd, cur, table, peer, in, typed>>

Leaves(k) ==
  /\ Acts(k) /\ conn[k] # "away"
  /\ \E p \in {"closed", "reset"} : peer' = [peer EXCEPT ![k] = p]
  /\ UNCHANGED <<pc, rfd, cur, table, clients>>

-----------------------------------------------------------------------------
(* Sending.  The answer to the first send after a close is a reset, which  *)
(* is here by the next send, or not yet.  The first send after a reset     *)
(* returns the error, every further one raises SIGPIPE.                    *)

Send(p) ==
  CASE p = "here" -> {"here"}
    [] p = "closed" -> {"closed", "broken"}
    [] p = "reset" -> {"broken"}
    [] OTHER -> {"kill"}

Sends(P) == UNION {Send(p) : p \in P}

Rows == {row[i] : i \in Slot}

(* reach: what the server's sends may make of each peer.                   *)
Kills(reach) ==
  /\ \E k \in Client : "kill" \in reach[k]
  /\ pc' = "killed" /\ UNCHANGED peer

Survives(reach) ==
  peer' \in {q \in [Client -> Peer] : \A k \in Client : q[k] \in reach[k]}

(* One message to every client in the table R, and n more to k.            *)
broadcast(R, k, n) ==
  [c \in Client |->
     LET once == IF c \in R THEN Send(peer[c]) ELSE {peer[c]}
     IN IF c # k \/ n = 0 THEN once ELSE IF n = 1 THEN Sends(once) ELSE Sends(Sends(once))]

-----------------------------------------------------------------------------
(* main.                                                                   *)

Backlog == {k \in Client : conn[k] = "waiting"}
afd == {k \in Client : conn[k] = "served"}
Readable(k) == in[k] # <<>> \/ half[k] \/ peer[k] # "here"

Select ==
  /\ pc = "select"
  /\ LET ready == {k \in afd : Readable(k)} \cup (IF Backlog # {} THEN {Listener} ELSE {})
     IN ready # {} /\ rfd' = ready
  /\ pc' = "scan"
  /\ UNCHANGED <<cur, table, peer, clients>>

ScanEnds ==
  /\ pc = "scan" /\ rfd = {}
  /\ pc' = "select"
  /\ UNCHANGED <<rfd, cur, table, peer, clients>>

get_available_client(i) ==
  row[i] = Nobody /\ \A j \in Slot : row[j] = Nobody => i <= j

(* Fault: a client without a connection gets no row.                       *)
init_connected_only(k) ==
  IF k = Failed THEN UNCHANGED row
  ELSE \E i \in Slot : get_available_client(i) /\ row' = [row EXCEPT ![i] = k]

(* The row is taken before anything is sent.                               *)
init_client(k) == \E i \in Slot : get_available_client(i) /\ row' = [row EXCEPT ![i] = k]

(* Fault: the loop starts again after accept.                              *)
AcceptingOnly == pc = "scan" /\ Listener \in rfd /\ rfd' = {}

Accepting == pc = "scan" /\ Listener \in rfd /\ rfd' = rfd \ {Listener}

(* The welcome, the broadcast of the login, and a prompt.                  *)
connect_client(k) ==
  /\ Accepting /\ k \in Backlog
  /\ IF client_cnt < CLIENT_NUMBER
     THEN /\ init_client(k) /\ client_cnt' = client_cnt + 1
          /\ conn' = [conn EXCEPT ![k] = "served"]
          /\ LET reach == broadcast(Rows \cup {k}, k, 2) IN
             Kills(reach) \/ (Survives(reach) /\ UNCHANGED pc)
     ELSE /\ conn' = [conn EXCEPT ![k] = "refused"]
          /\ UNCHANGED <<pc, client_cnt, row, peer>>
  /\ UNCHANGED <<cur, clients>>

(* accept returns -1 (out of descriptors): the client stays in the backlog,*)
(* -1 gets a row.  FD_SET(-1) aborts in a build that checks it.            *)
AcceptFails ==
  /\ Accepting /\ Backlog # {}
  /\ \/ client_cnt = CLIENT_NUMBER /\ UNCHANGED <<pc, peer, client_cnt, row>>
     \/ /\ client_cnt < CLIENT_NUMBER
        /\ init_client(Failed) /\ client_cnt' = client_cnt + 1
        /\ LET reach == broadcast(Rows, Failed, 0) IN
           Kills(reach) \/ (Survives(reach) /\ UNCHANGED pc)
     \/ /\ client_cnt < CLIENT_NUMBER
        /\ pc' = "aborted" /\ UNCHANGED <<peer, client_cnt, row>>
  /\ UNCHANGED <<cur, conn, clients>>

(* my_shell: the loop turns to a client, after the listening socket.       *)
Turn(k) ==
  /\ pc = "scan" /\ Listener \notin rfd /\ k \in rfd
  /\ rfd' = rfd \ {k} /\ cur' = k /\ pc' = "readline"
  /\ UNCHANGED <<table, peer, clients>>

-----------------------------------------------------------------------------
(* readline.                                                               *)

Reading(k) == pc = "readline" /\ cur = k
Drained(k) == in[k] = <<>>
Takes(k) == in' = [in EXCEPT ![k] = Tail(@)] /\ UNCHANGED <<half, typed>>

(* Back to the loop.                                                       *)
Returns == pc' = "scan" /\ cur' = Nobody

(* Fault: the row that is cleared is the first one in use.                 *)
reset_first_client(k) ==
  /\ row' = [i \in Slot |-> IF \A j \in 1 .. i - 1 : row[j] = Nobody THEN Nobody ELSE row[i]]
  /\ client_cnt' = client_cnt - 1
  /\ conn' = [conn EXCEPT ![k] = "over"]

(* The broadcast of the logout goes to the client as well.                 *)
reset_client(k) ==
  /\ row' = [i \in Slot |-> IF row[i] = k THEN Nobody ELSE row[i]]
  /\ client_cnt' = client_cnt - 1
  /\ conn' = [conn EXCEPT ![k] = "over"]

Logout(k) ==
  LET reach == broadcast(Rows, k, 0) IN
  \/ Kills(reach) /\ UNCHANGED <<cur, table>>
  \/ Survives(reach) /\ reset_client(k) /\ Returns

(* An empty line is ignored, and gets no prompt.                           *)
EmptyLine(k) ==
  /\ Reading(k) /\ ~ Drained(k) /\ Head(in[k]) = ""
  /\ Takes(k) /\ Returns
  /\ UNCHANGED <<rfd, table, peer>>

Exit(k) ==
  /\ Reading(k) /\ ~ Drained(k) /\ Head(in[k]) = "exit"
  /\ Takes(k) /\ Logout(k)
  /\ UNCHANGED rfd

(* yell (name and the lines with user pipes broadcast like it): a message  *)
(* to everyone and a prompt.                                               *)
Yell(k) ==
  /\ Reading(k) /\ ~ Drained(k) /\ Head(in[k]) = "yell"
  /\ Takes(k)
  /\ LET reach == broadcast(Rows, k, 1) IN
     \/ Kills(reach) /\ UNCHANGED cur
     \/ Survives(reach) /\ Returns
  /\ UNCHANGED <<rfd, table>>

(* command[1], or command[2], lies behind the vector: the process crashes, *)
(* or somebody, nobody or the client is told something, and it gets a      *)
(* prompt.                                                                 *)
Short(k) ==
  /\ Reading(k) /\ ~ Drained(k) /\ Head(in[k]) = "short"
  /\ Takes(k)
  /\ \/ pc' = "crashed" /\ UNCHANGED <<cur, peer>>
     \/ \E R \in {{}} \cup {{c} : c \in Rows} :
          LET reach == broadcast(R, k, 1) IN
          \/ Kills(reach) /\ UNCHANGED cur
          \/ Survives(reach) /\ Returns
  /\ UNCHANGED <<rfd, table>>

Run(k) ==
  /\ Reading(k) /\ ~ Drained(k) /\ Head(in[k]) = "run"
  /\ Takes(k) /\ pc' = "waitpid"
  /\ UNCHANGED <<rfd, cur, table, peer>>

(* The program ends; it has written to the connection, or not.             *)
WorkEnds ==
  /\ pc = "waitpid"
  /\ \E written \in 0 .. 1 :
       LET reach == broadcast({cur}, cur, written) IN
       \/ Kills(reach) /\ UNCHANGED cur
       \/ Survives(reach) /\ Returns
  /\ UNCHANGED <<rfd, table, clients>>

(* Nothing is left and nothing came before: c is what the stack held.  If  *)
(* that is a newline the line is empty, whatever read returned.            *)
StaleNewline(k) ==
  /\ Reading(k) /\ Drained(k) /\ ~ half[k] /\ peer[k] # "here"
  /\ peer' = [peer EXCEPT ![k] = IF @ = "reset" THEN "broken" ELSE @]
  /\ Returns
  /\ UNCHANGED <<rfd, table, clients>>

(* Fault: the socket does not block, and that nothing is there is not      *)
(* looked at either.                                                       *)
NothingThere(k) ==
  /\ Reading(k) /\ Drained(k) /\ peer[k] # "reset"
  /\ pc' = "spin"
  /\ UNCHANGED <<rfd, cur, table, peer, clients>>

(* An end of file is not looked at: c is appended again and again.         *)
EndOfFile(k) ==
  /\ Reading(k) /\ Drained(k) /\ peer[k] \in {"closed", "broken"}
  /\ pc' = "spin"
  /\ UNCHANGED <<rfd, cur, table, peer, clients>>

SpinEnds ==
  /\ pc = "spin" /\ pc' = "exited"
  /\ UNCHANGED <<rfd, cur, table, peer, clients>>

(* The reset is returned by read, and the broadcast comes after it.        *)
ReadFails(k) ==
  /\ Reading(k) /\ Drained(k) /\ peer[k] = "reset"
  /\ LET reach == [broadcast(Rows, k, 0) EXCEPT ![k] = Send("broken")] IN
     \/ Kills(reach) /\ UNCHANGED <<cur, table>>
     \/ Survives(reach) /\ reset_client(k) /\ Returns
  /\ UNCHANGED <<rfd, clients>>

-----------------------------------------------------------------------------
my_shell(k) == EmptyLine(k) \/ Exit(k) \/ Yell(k) \/ Short(k) \/ Run(k)
               \/ StaleNewline(k) \/ EndOfFile(k) \/ ReadFails(k)

main == Select \/ ScanEnds \/ AcceptFails
        \/ \E k \in Client : connect_client(k) \/ Turn(k) \/ my_shell(k)

Next ==
  \/ main \/ WorkEnds \/ SpinEnds
  \/ \E k \in Client : Connects(k) \/ Begins(k) \/ Leaves(k) \/ \E l \in Line : Types(k, l)

(* The loop goes on; nothing makes a program end or a client type.         *)
Fairness == WF_vars(main) /\ WF_vars(SpinEnds)

Spec == Init /\ [][Next]_vars /\ Fairness

-----------------------------------------------------------------------------
TypeOK ==
  /\ pc \in {"select", "scan", "readline", "waitpid", "spin",
            "killed", "aborted", "crashed", "exited"}
  /\ rfd \subseteq Client \cup {Listener}
  /\ cur \in Client \cup {Nobody}
  /\ client_cnt \in 0 .. CLIENT_NUMBER
  /\ row \in [Slot -> Client \cup {Nobody, Failed}]
  /\ conn \in [Client -> {"away", "waiting", "served", "refused", "over"}]
  /\ peer \in [Client -> Peer]
  /\ in \in [Client -> Seq(Line)]
  /\ half \in [Client -> BOOLEAN]
  /\ typed \in [Client -> Nat] /\ \A k \in Client : typed[k] <= MaxLines[k]

(* client_cnt counts the rows in use, those a failed accept has taken      *)
(* included, and every client served has exactly one: so init_client finds *)
(* a row whenever the count allows another client.                         *)
RowsCounted ==
  /\ client_cnt = Cardinality({i \in Slot : row[i] # Nobody})
  /\ \A k \in Client :
       Cardinality({i \in Slot : row[i] = k}) = IF conn[k] = "served" THEN 1 ELSE 0

(* SIGPIPE and the endless append of readline end the process only because *)
(* of a client that is still in the table and has left without exit: while *)
(* all clients stay until their exit, no broadcast and no readline ends    *)
(* it.  What else can end it is a failed accept ("aborted") and a command  *)
(* without its argument ("crashed"), which this does not speak about.      *)
EndExplained ==
  pc \in {"killed", "spin", "exited"} =>
    \E i \in Slot : row[i] \in Client /\ peer[row[i]] # "here"

(* Only exit gives a row back: a client that closes or resets its          *)
(* connection keeps its row as long as the server lives, because an end of *)
(* file is no error to readline, and the broadcast after an error raises   *)
(* SIGPIPE.  A failed accept keeps its row in any case.                    *)
OnlyExitFrees ==
  [][\A i \in Slot :
       row[i] # Nobody /\ row'[i] # row[i] =>
         row[i] \in Client /\ in[row[i]] # <<>> /\ Head(in[row[i]]) = "exit"]_vars

(* Every line a client has sent whole is read in the end, unless the       *)
(* server ends, a program does not, or someone's half line keeps it.       *)
Kept == pc = "waitpid" \/ (pc = "readline" /\ in[cur] = <<>> /\ half[cur])
LinesRead ==
  \/ \A k \in Client : (conn[k] = "served" /\ in[k] # <<>>) ~> (in[k] = <<>> \/ conn[k] = "over" \/ Halted)
  \/ <>[]Kept
==============================================================================
