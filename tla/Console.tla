------------------------------- MODULE Console -------------------------------
(***************************************************************************)
(* console.cgi of np_project3 and, through a SOCKS proxy, of np_project4:  *)
(* a session for each server the form names, all run by one thread.  A     *)
(* session reads what its server sends, shows it in its column of the      *)
(* page, and sends the next line of its file whenever a chunk it has read  *)
(* contains the prompt "% ".  The servers and the proxy are external.      *)
(***************************************************************************)
EXTENDS Integers, Sequences, FiniteSets

CONSTANTS
  SERVER_SIZE,   \* sessions the form has room for
  Requests,      \* what the form and the files hold (see RequestShape)
  Garbage,       \* what a buffer holds after its function has returned
  CAP,           \* commands a connection holds
  MaxFakes       \* a bound: lines of output that contain a prompt

Slot == 1 .. SERVER_SIZE
Commands == {"ls", "exit"}

(* A token of the server's stream: a line of output, a line with "% " in   *)
(* it, and the two characters of the prompt.                               *)
Token == {"text", "fake", "%", " "}
Prompt == <<"%", " ">>

(* slot: which of host, port and file the form gives; proxy: whether it is *)
(* np_project4's; file: the lines of the file (none if it does not exist). *)
RequestShape == [slot : [Slot -> [1 .. 3 -> BOOLEAN]], proxy : BOOLEAN,
                 file : [Slot -> Seq(Commands)]]

ASSUME ConsoleAssumption ==
  /\ SERVER_SIZE \in Nat \ {0} /\ CAP \in Nat \ {0} /\ MaxFakes \in Nat
  /\ Requests \subseteq RequestShape
  /\ Garbage \notin Commands

VARIABLES
  req,           \* the request: the environment and the files
  proc,          \* "start", "run", "exit", or "abort": an exception left run()
  header,        \* the slots the page has columns for, from left to right
  server_index,  \* the column of a session
  page,          \* <<column, slot>>: a column that shows something of a server
  st,            \* "off", "resolve", "connect", "handshake", "read" or "ended"
  busy,          \* the session whose handler blocks the thread, 0 if none
  reply,         \* the proxy's: "none", "granted", "rejected" or "closed"
  pos,           \* lines taken from the file
  sent,          \* commands written to the connection
  owed,          \* writes that wait for room in the connection
  torn,          \* a prompt was split between two reads
  shell,         \* the server: "closed" (not connected), "open" or "gone"
  got,           \* commands it has read
  net,           \* its output on the way
  fakes          \* lines of its output that contain a prompt

console == <<header, server_index, page>>
session == <<st, busy, reply>>
server == <<shell, got, fakes>>
vars == <<req, proc, console, session, pos, sent, owed, torn, server, net>>

Init ==
  /\ req \in Requests
  /\ proc = "start" /\ header = <<>> /\ page = {} /\ busy = 0
  /\ server_index = [i \in Slot |-> 0]
  /\ st = [i \in Slot |-> "off"] /\ reply = [i \in Slot |-> "none"]
  /\ pos = [i \in Slot |-> 0] /\ sent = [i \in Slot |-> <<>>]
  /\ owed = [i \in Slot |-> 0] /\ torn = [i \in Slot |-> FALSE]
  /\ shell = [i \in Slot |-> "closed"] /\ got = [i \in Slot |-> 0]
  /\ net = [i \in Slot |-> <<>>] /\ fakes = [i \in Slot |-> 0]

-----------------------------------------------------------------------------
(* parse_query.  sscanf stops at the first item that is empty.             *)

items(i) == Cardinality({k \in 1 .. 3 : \A j \in 1 .. k : req.slot[i][j]})

enabled_direct(i) == items(i) = 3

(* Fault: the last slot is held to three items as well.                    *)
enabled_three(i) ==
  LET n == IF i = SERVER_SIZE /\ items(i) = 3 THEN 5 ELSE items(i)
  IN n = 3

(* np_project4 scans the last slot together with the proxy's host and      *)
(* port: five items, so the slot passes by the strings it has got.         *)
enabled_socks(i) ==
  LET n == IF i = SERVER_SIZE /\ items(i) = 3 THEN 5 ELSE items(i)
  IN n = 3 \/ \A j \in 1 .. 3 : req.slot[i][j]

enabled(i) == IF req.proxy THEN enabled_socks(i) ELSE enabled_direct(i)

(* The columns, in the order of the form.                                  *)
Ascending(s) == \A j, k \in DOMAIN s : j < k => s[j] < s[k]
print_html_web ==
  LET on == {i \in Slot : enabled(i)}
  IN header' = CHOOSE s \in [1 .. Cardinality(on) -> on] : Ascending(s)

column(i) == IF enabled(i) THEN Cardinality({j \in 1 .. i : enabled(j)}) ELSE 0

main ==
  /\ proc = "start" /\ proc' = "run"
  /\ print_html_web
  /\ server_index' = [i \in Slot |-> column(i)]
  /\ st' = [i \in Slot |-> IF enabled(i) THEN "resolve" ELSE "off"]
  /\ UNCHANGED <<req, page, busy, reply, pos, sent, owed, torn, server, net>>

-----------------------------------------------------------------------------
(* The handlers.  They run one at a time, and none while one blocks.       *)

Ready(i, s) == proc = "run" /\ busy = 0 /\ st[i] = s

Becomes(i, s) == st' = [st EXCEPT ![i] = s]

(* The name of the server, or of the proxy.                                *)
do_resolve(i) ==
  /\ Ready(i, "resolve")
  /\ Becomes(i, "connect") \/ Becomes(i, "ended")
  /\ UNCHANGED <<req, proc, console, busy, reply, pos, sent, owed, torn, server, net>>

ServerOpens(i) ==
  /\ shell' = [shell EXCEPT ![i] = "open"]
  /\ net' = [net EXCEPT ![i] = Prompt]

do_connect(i) ==
  /\ Ready(i, "connect") /\ ~ req.proxy
  /\ \/ Becomes(i, "read") /\ ServerOpens(i)
     \/ Becomes(i, "ended") /\ UNCHANGED <<shell, net>>
  /\ UNCHANGED <<req, proc, console, busy, reply, pos, sent, owed, torn, got, fakes>>

(* Through the proxy, the handler resolves the server's name, sends the    *)
(* request and waits for the reply, all with calls that block and throw.   *)
do_connect_socks(i) ==
  /\ Ready(i, "connect") /\ req.proxy
  /\ \/ Becomes(i, "handshake") /\ busy' = i /\ UNCHANGED proc
     \/ Becomes(i, "ended") /\ UNCHANGED <<busy, proc>>
     \/ proc' = "abort" /\ UNCHANGED <<st, busy>>
  /\ UNCHANGED <<req, console, reply, pos, sent, owed, torn, server, net>>

ReadReply(i) ==
  /\ proc = "run" /\ busy = i /\ reply[i] # "none"
  /\ \/ reply[i] = "granted" /\ Becomes(i, "read") /\ busy' = 0 /\ UNCHANGED proc
     \/ reply[i] = "rejected" /\ Becomes(i, "ended") /\ busy' = 0 /\ UNCHANGED proc
     \/ reply[i] = "closed" /\ proc' = "abort" /\ UNCHANGED <<st, busy>>
  /\ UNCHANGED <<req, console, reply, pos, sent, owed, torn, server, net>>

(* Fault: a prompt at the start of a chunk is overlooked.                  *)
prompt_not_first(chunk) ==
  \/ \E k \in 1 .. Len(chunk) : chunk[k] = "fake"
  \/ \E k \in 2 .. Len(chunk) - 1 : chunk[k] = "%" /\ chunk[k + 1] = " "

contain_prompt(chunk) ==
  \/ \E k \in 1 .. Len(chunk) : chunk[k] = "fake"
  \/ \E k \in 1 .. Len(chunk) - 1 : chunk[k] = "%" /\ chunk[k + 1] = " "

output_shell(i) == page' = page \cup {<<server_index[i], i>>}

(* Fault: a write overtakes one that waits.                                *)
write_overtakes(i, line) ==
  IF Len(sent[i]) - got[i] < CAP \/ shell[i] = "gone"
  THEN sent' = [sent EXCEPT ![i] = Append(@, line)] /\ UNCHANGED owed
  ELSE owed' = [owed EXCEPT ![i] = @ + 1] /\ UNCHANGED sent

(* The write is tried at once; if the connection is full it is repeated    *)
(* when there is room, from a buffer that is no more.                      *)
do_write(i, line) ==
  IF owed[i] = 0 /\ (Len(sent[i]) - got[i] < CAP \/ shell[i] = "gone")
  THEN sent' = [sent EXCEPT ![i] = Append(@, line)] /\ UNCHANGED owed
  ELSE owed' = [owed EXCEPT ![i] = @ + 1] /\ UNCHANGED sent

(* The next line of the file, if there is one.                             *)
send_command(i) ==
  IF pos[i] < Len(req.file[i])
  THEN /\ pos' = [pos EXCEPT ![i] = @ + 1]
       /\ do_write(i, req.file[i][pos[i] + 1])
  ELSE UNCHANGED <<pos, sent, owed>>

(* Any part of what has arrived.                                           *)
do_read(i) ==
  /\ Ready(i, "read")
  /\ \E k \in 1 .. Len(net[i]) :
       LET chunk == SubSeq(net[i], 1, k) IN
       /\ net' = [net EXCEPT ![i] = SubSeq(@, k + 1, Len(@))]
       /\ IF contain_prompt(chunk)
          THEN send_command(i)
          ELSE UNCHANGED <<pos, sent, owed>>
       /\ torn' = [torn EXCEPT ![i] = @ \/ chunk[k] = "%"]
  /\ output_shell(i)
  /\ UNCHANGED <<req, proc, header, server_index, session, server>>

(* Fault: an error is not looked at, the session reads again.              *)
ReadGoesOn(i) ==
  /\ Ready(i, "read") /\ shell[i] = "gone"
  /\ net' = [net EXCEPT ![i] = <<>>]
  /\ UNCHANGED <<req, proc, console, session, pos, sent, owed, torn, server>>

(* End of file, or an error that loses what was on the way.                *)
ReadEnds(i) ==
  /\ Ready(i, "read") /\ shell[i] = "gone"
  /\ Becomes(i, "ended")
  /\ net' = [net EXCEPT ![i] = <<>>]
  /\ UNCHANGED <<req, proc, console, busy, reply, pos, sent, owed, torn, server>>

(* A write that had to wait: the connection takes it, or has failed.       *)
WriteLater(i) ==
  /\ proc = "run" /\ busy = 0 /\ owed[i] > 0
  /\ Len(sent[i]) - got[i] < CAP \/ shell[i] = "gone"
  /\ owed' = [owed EXCEPT ![i] = @ - 1]
  /\ \E line \in {Garbage, req.file[i][Len(sent[i]) + 1]} :
       sent' = [sent EXCEPT ![i] = Append(@, line)]
  /\ UNCHANGED <<req, proc, console, session, pos, torn, server, net>>

(* run() returns when nothing is left to wait for.                         *)
RunReturns ==
  /\ proc = "run" /\ busy = 0
  /\ \A i \in Slot : st[i] \in {"off", "ended"} /\ owed[i] = 0
  /\ proc' = "exit"
  /\ UNCHANGED <<req, console, session, pos, sent, owed, torn, server, net>>

-----------------------------------------------------------------------------
(* The proxy and the servers.                                              *)

ProxyReplies(i) ==
  /\ busy = i /\ reply[i] = "none"
  /\ \/ reply' = [reply EXCEPT ![i] = "granted"] /\ ServerOpens(i)
     \/ \E r \in {"rejected", "closed"} : reply' = [reply EXCEPT ![i] = r]
                                          /\ UNCHANGED <<shell, net>>
  /\ UNCHANGED <<req, proc, console, st, busy, pos, sent, owed, torn, got, fakes>>

(* A shell reads a command and answers with output and a prompt.           *)
Answer(i) ==
  /\ shell[i] = "open" /\ got[i] < Len(sent[i])
  /\ got' = [got EXCEPT ![i] = @ + 1]
  /\ IF sent[i][got[i] + 1] = "exit"
     THEN shell' = [shell EXCEPT ![i] = "gone"] /\ UNCHANGED <<net, fakes>>
     ELSE /\ \/ /\ \E out \in {<<>>, <<"text">>} :
                     net' = [net EXCEPT ![i] = @ \o out \o Prompt]
                /\ UNCHANGED fakes
             \/ /\ fakes[i] < MaxFakes
                /\ fakes' = [fakes EXCEPT ![i] = @ + 1]
                /\ net' = [net EXCEPT ![i] = @ \o <<"fake">> \o Prompt]
          /\ UNCHANGED shell
  /\ UNCHANGED <<req, proc, console, session, pos, sent, owed, torn>>

(* A connection fails, or its server ends by itself.                       *)
Hangup(i) ==
  /\ shell[i] = "open"
  /\ shell' = [shell EXCEPT ![i] = "gone"]
  /\ UNCHANGED <<req, proc, console, session, pos, sent, owed, torn, got, fakes, net>>

-----------------------------------------------------------------------------
Handler(i) == do_resolve(i) \/ do_connect(i) \/ do_connect_socks(i) \/ ReadReply(i)
              \/ do_read(i) \/ ReadEnds(i) \/ WriteLater(i)

Next ==
  \/ main \/ RunReturns
  \/ \E i \in Slot : Handler(i) \/ ProxyReplies(i) \/ Answer(i) \/ Hangup(i)

(* The thread runs every handler that is ready; the shells answer, and so  *)
(* does the proxy.                                                         *)
Fairness ==
  /\ WF_vars(main) /\ WF_vars(RunReturns)
  /\ \A i \in Slot : WF_vars(Handler(i)) /\ WF_vars(ProxyReplies(i)) /\ WF_vars(Answer(i))

Spec == Init /\ [][Next]_vars /\ Fairness

-----------------------------------------------------------------------------
TypeOK ==
  /\ req \in Requests
  /\ proc \in {"start", "run", "exit", "abort"}
  /\ server_index \in [Slot -> 0 .. SERVER_SIZE]
  /\ page \in SUBSET ((0 .. SERVER_SIZE) \X Slot)
  /\ st \in [Slot -> {"off", "resolve", "connect", "handshake", "read", "ended"}]
  /\ busy \in Slot \cup {0}
  /\ reply \in [Slot -> {"none", "granted", "rejected", "closed"}]
  /\ pos \in [Slot -> Nat] /\ owed \in [Slot -> Nat] /\ got \in [Slot -> Nat]
  /\ sent \in [Slot -> Seq(Commands \cup {Garbage})]
  /\ torn \in [Slot -> BOOLEAN]
  /\ shell \in [Slot -> {"closed", "open", "gone"}]
  /\ net \in [Slot -> Seq(Token)]
  /\ fakes \in [Slot -> 0 .. MaxFakes]

(* The page has a column for each slot the form fills in, in their order,  *)
(* although the last slot of np_project4 is scanned differently; and a     *)
(* column shows nothing but its own server, although parsing, printing and *)
(* connecting number the sessions in three different loops.                *)
OwnColumn ==
  /\ Ascending(header)
  /\ proc # "start" =>
       {header[k] : k \in DOMAIN header} = {i \in Slot : \A k \in 1 .. 3 : req.slot[i][k]}
  /\ \A shown \in page : shown[1] \in DOMAIN header /\ header[shown[1]] = shown[2]

(* Prompts a server has sent: at first, and after a command but exit.      *)
Prompts(i) ==
  IF shell[i] = "closed" THEN 0
  ELSE IF got[i] > 0 /\ sent[i][got[i]] = "exit" THEN got[i] ELSE got[i] + 1

(* A server receives the lines of its file in order, each once.  A line    *)
(* may be spoilt only if output has been taken for a prompt as often as    *)
(* the connection holds commands: only then is it full.  And no line is    *)
(* sent that the server has not asked for: there are never more lines than *)
(* prompts, output that looks like one included.                           *)
InOrder ==
  \A i \in Slot :
    /\ Len(sent[i]) + owed[i] = pos[i] /\ pos[i] <= Prompts(i) + fakes[i]
    /\ \A k \in 1 .. Len(sent[i]) :
         \/ sent[i][k] = req.file[i][k]
         \/ sent[i][k] = Garbage /\ fakes[i] >= CAP

(* The session waits for a prompt and its server for a command.            *)
Stuck(i) ==
  /\ proc = "run" /\ st[i] = "read" /\ shell[i] = "open"
  /\ net[i] = <<>> /\ owed[i] = 0 /\ got[i] = Len(sent[i])

(* The two wait for each other only if a prompt was split between two      *)
(* reads, or if all lines of the file are sent and answered and none of    *)
(* them told the server to exit: each exit the file holds was spoilt.      *)
StuckExplained ==
  \A i \in Slot : Stuck(i) =>
    \/ torn[i]
    \/ /\ pos[i] = Len(req.file[i])
       /\ \A k \in 1 .. pos[i] : req.file[i][k] = "exit" => sent[i][k] = Garbage

(* Every session ends or stays Stuck, whatever the other sessions do; and  *)
(* the program ends when all have ended, by return or by the exception of  *)
(* a proxy that breaks off, so an HTTP server that waits for it goes on.   *)
(* A proxy that never replies is excluded by the fairness above.           *)
Over == proc \in {"exit", "abort"}
Ends ==
  /\ \A i \in Slot : <>[](Over \/ st[i] \in {"off", "ended"} \/ Stuck(i))
  /\ <>Over \/ <>[](\E i \in Slot : Stuck(i))
==============================================================================
