------------------------------ MODULE SingleProc ------------------------------
(***************************************************************************)
(* The information server of np_project2/single_process: one process, one  *)
(* select() loop, a table of logged-in clients (client_info), a table of   *)
(* user pipes (user_pipe) and, per client, a ring of numbered pipes        *)
(* (cross_line_pipe_table).  Every table stores file-descriptor numbers,   *)
(* so the module also keeps the process's descriptor table `fdt`: which    *)
(* object a descriptor number stands for at this moment.                   *)
(*                                                                         *)
(* The server is sequential, so each action is the code between two of its *)
(* control points: one handler of the scan over `rfd`, or one of the three *)
(* phases of an iteration of process_handler's loop (choose the input,     *)
(* open the output, fork and close).  The text sent to clients, and what   *)
(* the child processes do, are left out.                                   *)
(***************************************************************************)
EXTENDS Integers, Sequences, FiniteSets

CONSTANTS
  CLIENT_NUMBER,  \* the size of the client table, and the login limit
  FILE_MAX,       \* the length of the ring of numbered pipes
  OPEN_MAX,       \* the process's limit on descriptors (RLIMIT_NOFILE)
  Names,          \* nicknames the clients ask for
  NoName,         \* the nickname "(no name)" of a new client
  Blank,          \* the empty string: the name of a zeroed slot
  Paths,          \* values of PATH that clients set
  BinPath,        \* the initial value "bin:."
  Lines           \* the command lines clients type (see LineShape)

Slot  == 1 .. CLIENT_NUMBER
Id    == 0 .. CLIENT_NUMBER    \* what user_pipe is indexed by
Index == 0 .. FILE_MAX - 1
End   == {0, 1}                \* a pipe's read end and its write end

sockfd == 3                    \* the first descriptor after stdin/out/err
Fd     == 3 .. OPEN_MAX - 1
None   == -1                   \* no `<n` (or `>n`) on the line

Name == Names \cup {NoName, Blank}
Path == Paths \cup {BinPath, Blank}

Terms == {"pipe", "number", "file", "end"}
Segments == [from : BOOLEAN, to : BOOLEAN, term : Terms, n : Nat]

(* What a command line is to process_handler: the numbers of its `<n` and  *)
(* `>n` tokens, and its segments.  A segment is the tokens up to a `|`, a  *)
(* `|n`, a `>` or the closing "end"; its flags say whether the `<n` or the *)
(* `>n` stands in it.  A line names at most one sender and one receiver,   *)
(* only `cmd |n` follows a `cmd |n`, and no pipe is due at its own line.   *)
LineShape(l) ==
  /\ l.from \in {None} \cup Nat
  /\ l.to \in {None} \cup Nat
  /\ l.seg \in Seq(Segments)
  /\ Len(l.seg) \in 1 .. FILE_MAX - 1
  /\ l.seg[Len(l.seg)].term = "end"
  /\ \A k \in 1 .. Len(l.seg) :
        /\ l.seg[k].from => l.from # None
        /\ l.seg[k].to => l.to # None
        /\ l.seg[k].term = "number" =>
              /\ l.seg[k].n % FILE_MAX # 0
              /\ \A m \in k + 1 .. Len(l.seg) - 1 : l.seg[m].term = "number"

NoLine == [from |-> None, to |-> None, seg |-> <<>>]

ASSUME ConstantsAssumption ==
  /\ CLIENT_NUMBER \in Nat \ {0}
  /\ FILE_MAX \in Nat \ {0, 1}
  /\ OPEN_MAX \in Nat /\ OPEN_MAX > sockfd
  /\ NoName # Blank
  /\ \A l \in Lines : LineShape(l)

VARIABLES
  pc,          \* where the server is: "select", "scan", "input", "output", "fork"
  rfd, afd, fdmax, client_cnt,                                    \* main
  client_fd, id, name, path, cnt_line, cross_line_pipe_table,     \* client_info
  user_pipe,
  env_path,    \* PATH in the process's environment
  cur, line, at, pipe_table, in, out,                             \* process_handler
  fdt          \* what each descriptor number stands for

loopVars   == <<rfd, afd, fdmax, client_cnt>>
clientVars == <<client_fd, id, name, path, cnt_line>>
tables     == <<cross_line_pipe_table, user_pipe>>
localVars  == <<cur, line, at, pipe_table, in, out>>
vars == <<pc, loopVars, clientVars, tables, env_path, localVars, fdt>>

-----------------------------------------------------------------------------
(* Descriptors.  An object is named by the table entry it was made for;    *)
(* "lost" are the pipe ends whose entries a logout zeroed: they stay open, *)
(* and are not those of the client that gets the slot next.                *)

Obj(kind, i, j, e) == [kind |-> kind, i |-> i, j |-> j, e |-> e]

Closed            == Obj("closed", 0, 0, 0)
Listener          == Obj("listen", 0, 0, 0)
Sock(i)           == Obj("sock", i, 0, 0)
Refused           == Obj("refused", 0, 0, 0)    \* accepted over the limit
File              == Obj("file", 0, 0, 0)
Lost              == Obj("lost", 0, 0, 0)
UserEnd(i, j, e)  == Obj("user", i, j, e)
CrossEnd(i, k, e) == Obj("cross", i, k, e)
LocalEnd(k, e)    == Obj("local", 0, k, e)

Object == [kind : {"closed", "listen", "sock", "refused", "file", "lost",
                   "user", "cross", "local"},
           i : Id, j : Nat, e : End]

Free(t) == {f \in Fd : t[f] = Closed}

Close(t, fds) == [f \in Fd |-> IF f \in fds THEN Closed ELSE t[f]]

(* f is the descriptor the kernel hands out next: the lowest free number.  *)
Lowest(f, free) == f \in free /\ \A g \in free : f <= g

Cell == [End -> {0} \cup Fd]
NoPipe == [e \in End |-> 0]
Ends(r, w) == [e \in End |-> IF e = 0 THEN r ELSE w]

(* pipe(cell): the two lowest free descriptors.  With fewer than two free  *)
(* it fails and the cell keeps what it held.                               *)
PipeFails == \A r, w \in Free(fdt) : r = w
PipeGives(r, w) == Lowest(r, Free(fdt)) /\ Lowest(w, Free(fdt) \ {r})
Opened(r, w, obj0, obj1) == [fdt EXCEPT ![r] = obj0, ![w] = obj1]

-----------------------------------------------------------------------------
(* The select loop of main.                                                *)

Used == {i \in Slot : client_fd[i] # 0}

Init ==
  /\ pc = "select"
  /\ rfd = {} /\ afd = {sockfd} /\ fdmax = sockfd /\ client_cnt = 0
  /\ client_fd = [i \in Slot |-> 0]
  /\ id = [i \in Slot |-> 0]
  /\ name = [i \in Slot |-> Blank]
  /\ path = [i \in Slot |-> Blank]
  /\ cnt_line = [i \in Slot |-> 0]
  /\ cross_line_pipe_table = [i \in Slot |-> [k \in Index |-> NoPipe]]
  /\ user_pipe = [i \in Id |-> [j \in Id |-> NoPipe]]
  /\ env_path = BinPath
  /\ cur = 0 /\ line = NoLine /\ at = 0 /\ in = 0 /\ out = 0
  /\ pipe_table = [k \in Index |-> NoPipe]
  /\ fdt = [f \in Fd |-> IF f = sockfd THEN Listener ELSE Closed]

(* select() returns the watched descriptors, up to fdmax, that are ready.  *)
(* A bound: no client connects while the process has no descriptor left.   *)
Select ==
  /\ pc = "select"
  /\ \E ready \in SUBSET {f \in afd : f <= fdmax} :
        /\ ready # {}
        /\ sockfd \in ready => Free(fdt) # {}
        /\ rfd' = ready
  /\ pc' = "scan"
  /\ UNCHANGED <<afd, fdmax, client_cnt, clientVars, tables, env_path,
                 localVars, fdt>>

(* The scan serves the ready descriptors in ascending order.               *)
Scanning(f) == pc = "scan" /\ Lowest(f, rfd)
NextFd(f) ==
  /\ rfd' = rfd \ {f}
  /\ pc' = IF rfd = {f} THEN "select" ELSE "scan"

(* Fault: the table is searched from its end.                              *)
last_available_client(i) == i \in Slot \ Used /\ \A j \in Slot \ Used : i >= j

get_available_client(i) == Lowest(i, Slot \ Used)

ClearRing(i) ==
  cross_line_pipe_table' =
    [cross_line_pipe_table EXCEPT ![i] = [k \in Index |-> NoPipe]]

(* The table row init_client writes for descriptor f at slot i.            *)
init_client(i, f) ==
  /\ client_fd' = [client_fd EXCEPT ![i] = f]
  /\ id' = [id EXCEPT ![i] = i]
  /\ name' = [name EXCEPT ![i] = NoName]
  /\ path' = [path EXCEPT ![i] = BinPath]
  /\ cnt_line' = [cnt_line EXCEPT ![i] = 0]
  /\ ClearRing(i)

(* A connection below the limit is watched and gets the lowest free slot.  *)
AcceptClient ==
  /\ Scanning(sockfd) /\ NextFd(sockfd)
  /\ client_cnt + 1 <= CLIENT_NUMBER
  /\ client_cnt' = client_cnt + 1
  /\ \E f \in Fd, i \in Slot :
        /\ Lowest(f, Free(fdt))
        /\ get_available_client(i)
        /\ init_client(i, f)
        /\ afd' = afd \cup {f}
        /\ fdmax' = IF f > fdmax THEN f ELSE fdmax
        /\ fdt' = [fdt EXCEPT ![f] = Sock(i)]
  /\ UNCHANGED <<user_pipe, env_path, localVars>>

(* Fault: a refused connection stays counted.                              *)
AcceptRefusedCounted ==
  /\ Scanning(sockfd) /\ NextFd(sockfd)
  /\ client_cnt + 1 > CLIENT_NUMBER
  /\ client_cnt' = client_cnt + 1
  /\ \E f \in Fd : Lowest(f, Free(fdt)) /\ fdt' = [fdt EXCEPT ![f] = Refused]
  /\ UNCHANGED <<afd, fdmax, clientVars, tables, env_path, localVars>>

(* Over the limit the new descriptor is neither watched nor closed.        *)
AcceptRefused ==
  /\ Scanning(sockfd) /\ NextFd(sockfd)
  /\ client_cnt + 1 > CLIENT_NUMBER
  /\ \E f \in Fd : Lowest(f, Free(fdt)) /\ fdt' = [fdt EXCEPT ![f] = Refused]
  /\ UNCHANGED <<afd, fdmax, client_cnt, clientVars, tables, env_path, localVars>>

-----------------------------------------------------------------------------
(* my_shell: one line of the client in slot i, read from descriptor f.     *)

(* get_client(f) is the first slot holding descriptor f.                   *)
get_client(i, f) == Lowest(i, {s \in Slot : client_fd[s] = f})

(* Fault: PATH is set only for a client that changed its own.              *)
ServingOldPath(i, f) ==
  /\ Scanning(f) /\ f # sockfd
  /\ get_client(i, f)
  /\ env_path' = IF path[i] = BinPath THEN env_path ELSE path[i]

Serving(i, f) ==
  /\ Scanning(f) /\ f # sockfd
  /\ get_client(i, f)
  /\ env_path' = path[i]              \* setenv("PATH", client_ptr->path, 1)

CountLine(i) == cnt_line' = [cnt_line EXCEPT ![i] = (@ + 1) % FILE_MAX]

(* readline returned 0: an empty line.                                     *)
EmptyLine(i, f) ==
  /\ Serving(i, f) /\ NextFd(f)
  /\ UNCHANGED <<afd, fdmax, client_cnt, clientVars, tables, localVars, fdt>>

(* printenv, who, tell and yell: text to clients, and a counted line.      *)
TextCommand(i, f) ==
  /\ Serving(i, f) /\ NextFd(f)
  /\ CountLine(i)
  /\ UNCHANGED <<afd, fdmax, client_cnt, client_fd, id, name, path, tables,
                 localVars, fdt>>

(* setenv stores its value as the client's PATH, whatever the variable.    *)
SetEnv(i, f, p) ==
  /\ Serving(i, f) /\ NextFd(f)
  /\ CountLine(i)
  /\ path' = [path EXCEPT ![i] = p]
  /\ UNCHANGED <<afd, fdmax, client_cnt, client_fd, id, name, tables,
                 localVars, fdt>>

checkname(i, n) ==
  \A j \in Slot : client_fd[j] # client_fd[i] => name[j] # n

SetName(i, f, n) ==
  /\ Serving(i, f) /\ NextFd(f)
  /\ CountLine(i)
  /\ name' = IF checkname(i, n) THEN [name EXCEPT ![i] = n] ELSE name
  /\ UNCHANGED <<afd, fdmax, client_cnt, client_fd, id, path, tables,
                 localVars, fdt>>

(* Fault: only the pipes the client sent are forgotten.                    *)
WithoutSender(i) ==
  [a \in Id |-> [b \in Id |-> IF a = i THEN NoPipe ELSE user_pipe[a][b]]]

(* reset_client zeroes the row of the client in user_pipe, and its column. *)
WithoutUser(i) ==
  [a \in Id |-> [b \in Id |-> IF a = i \/ (b = i /\ a # 0)
                              THEN NoPipe ELSE user_pipe[a][b]]]

(* It does not close what it zeroes: the client's pipes stay open, lost to *)
(* the server.                                                             *)
Owned(i) == {g \in Fd : \/ fdt[g].kind = "cross" /\ fdt[g].i = i
                        \/ fdt[g].kind = "user" /\ i \in {fdt[g].i, fdt[g].j}}

(* exit, or a failed read: main broadcasts the logout and resets the slot. *)
Leave(i, f) ==
  /\ Serving(i, f) /\ NextFd(f)
  /\ afd' = afd \ {f}
  /\ client_cnt' = client_cnt - 1
  /\ user_pipe' = WithoutUser(i)
  /\ client_fd' = [client_fd EXCEPT ![i] = 0]
  /\ id' = [id EXCEPT ![i] = 0]
  /\ name' = [name EXCEPT ![i] = Blank]
  /\ path' = [path EXCEPT ![i] = Blank]
  /\ cnt_line' = [cnt_line EXCEPT ![i] = 0]
  /\ ClearRing(i)
  /\ fdt' = [g \in Fd |-> IF g = f THEN Closed
                          ELSE IF g \in Owned(i) THEN Lost ELSE fdt[g]]
  /\ UNCHANGED <<fdmax, localVars>>

(* get_client_by_id finds a slot; the id of an unused slot is 0.           *)
IdKnown(x) == \E s \in Slot : id[s] = x

CanReceive(i, l) ==
  l.from # None => IdKnown(l.from) /\ user_pipe[l.from][i][0] # 0
CanSend(i, l) ==
  l.to # None => IdKnown(l.to) /\ user_pipe[i][l.to] = NoPipe

(* A line whose receiver or sender check fails is answered with an error.  *)
RejectedLine(i, f, l) ==
  /\ Serving(i, f) /\ NextFd(f)
  /\ CountLine(i)
  /\ ~ (CanReceive(i, l) /\ CanSend(i, l))
  /\ UNCHANGED <<afd, fdmax, client_cnt, client_fd, id, name, path, tables,
                 localVars, fdt>>

(* Any other line is announced and handed to process_handler.              *)
StartLine(i, f, l) ==
  /\ Serving(i, f)
  /\ rfd' = rfd \ {f}
  /\ CountLine(i)
  /\ CanReceive(i, l) /\ CanSend(i, l)
  /\ pc' = "input" /\ cur' = i /\ line' = l /\ at' = 1
  /\ pipe_table' = [k \in Index |-> NoPipe]
  /\ in' = 0 /\ out' = f
  /\ UNCHANGED <<afd, fdmax, client_cnt, client_fd, id, name, path, tables, fdt>>

-----------------------------------------------------------------------------
(* process_handler: segment `at` of the line of client `cur`.              *)

Segment == line.seg[at]

from_id == IF \E k \in 1 .. at : line.seg[k].from THEN line.from ELSE 0
to_id   == IF \E k \in 1 .. at : line.seg[k].to THEN line.to ELSE 0
number_pipe == \E k \in 1 .. at - 1 : line.seg[k].term = "number"
stop_here == Segment.term = "end" /\ number_pipe

count == cnt_line[cur]
cross == cross_line_pipe_table[cur][count]

LineDone ==
  /\ cur' = 0 /\ line' = NoLine /\ at' = 0 /\ in' = 0 /\ out' = 0
  /\ pipe_table' = [k \in Index |-> NoPipe]
  /\ pc' = IF rfd = {} THEN "select" ELSE "scan"

Handling == UNCHANGED <<loopVars, clientVars, env_path, cur, line>>

(* "end" after a numbered pipe: the loop breaks and no process is started. *)
BreakLine ==
  /\ pc = "input" /\ stop_here
  /\ LineDone
  /\ UNCHANGED <<loopVars, clientVars, tables, env_path, fdt>>

(* The input of the segment: the numbered pipe due at this line, else the  *)
(* user pipe, else what the segment before it piped.  Its write end is     *)
(* closed before the fork.                                                 *)
CrossInput ==
  /\ pc = "input" /\ ~ stop_here
  /\ cross[0] # 0
  /\ in' = IF at = 1 THEN cross[0] ELSE 0
  /\ cross_line_pipe_table' = [cross_line_pipe_table EXCEPT ![cur][count][1] = 0]
  /\ fdt' = Close(fdt, {cross[1]})
  /\ pc' = "output"
  /\ UNCHANGED <<user_pipe, pipe_table, at, out>> /\ Handling

UserInput ==
  /\ pc = "input" /\ ~ stop_here
  /\ cross[0] = 0
  /\ user_pipe[from_id][cur][0] # 0
  /\ in' = IF at = 1 THEN user_pipe[from_id][cur][0] ELSE 0
  /\ user_pipe' = [user_pipe EXCEPT ![from_id][cur][1] = 0]
  /\ fdt' = Close(fdt, {user_pipe[from_id][cur][1]})
  /\ pc' = "output"
  /\ UNCHANGED <<cross_line_pipe_table, pipe_table, at, out>> /\ Handling

(* Fault: the server keeps the write end of the pipe between two segments. *)
PlainInputOpen ==
  /\ pc = "input" /\ ~ stop_here
  /\ cross[0] = 0
  /\ user_pipe[from_id][cur][0] = 0
  /\ in' = pipe_table[at][0]
  /\ pc' = "output"
  /\ UNCHANGED <<tables, pipe_table, fdt, at, out>> /\ Handling

PlainInput ==
  /\ pc = "input" /\ ~ stop_here
  /\ cross[0] = 0
  /\ user_pipe[from_id][cur][0] = 0
  /\ in' = pipe_table[at][0]
  /\ pipe_table' = [pipe_table EXCEPT ![at][1] = 0]
  /\ fdt' = Close(fdt, {pipe_table[at][1]})
  /\ pc' = "output"
  /\ UNCHANGED <<tables, at, out>> /\ Handling

(* The output of the segment.                                              *)
Output(term) == pc = "output" /\ Segment.term = term /\ pc' = "fork"

(* cmd | : a fresh pipe to the next segment, whose entry is still empty.   *)
PipeOutput ==
  LET next == (at + 1) % FILE_MAX IN
  /\ Output("pipe")
  /\ pipe_table[next][1] = 0
  /\ \/ \E r, w \in Fd :
           /\ PipeGives(r, w)
           /\ pipe_table' = [pipe_table EXCEPT ![next] = Ends(r, w)]
           /\ fdt' = Opened(r, w, LocalEnd(next, 0), LocalEnd(next, 1))
           /\ out' = w
     \/ PipeFails /\ out' = 0 /\ UNCHANGED <<pipe_table, fdt>>
  /\ UNCHANGED <<tables, at, in>> /\ Handling

(* cmd |n : the pipe due n lines from now, made unless its write end is    *)
(* already there.                                                          *)
NumberOutput ==
  LET next == (count + Segment.n) % FILE_MAX
      due  == cross_line_pipe_table[cur][next] IN
  /\ Output("number")
  /\ \/ /\ due[1] = 0
        /\ \E r, w \in Fd :
              /\ PipeGives(r, w)
              /\ cross_line_pipe_table' =
                    [cross_line_pipe_table EXCEPT ![cur][next] = Ends(r, w)]
              /\ fdt' = Opened(r, w, CrossEnd(cur, next, 0), CrossEnd(cur, next, 1))
              /\ out' = w
     \/ /\ due[1] = 0 /\ PipeFails
        /\ out' = 0 /\ UNCHANGED <<cross_line_pipe_table, fdt>>
     \/ /\ due[1] # 0
        /\ out' = due[1] /\ UNCHANGED <<cross_line_pipe_table, fdt>>
  /\ UNCHANGED <<user_pipe, pipe_table, at, in>> /\ Handling

(* cmd > file : the server never closes this descriptor.                   *)
FileOutput ==
  /\ Output("file")
  /\ \/ \E f \in Fd : /\ Lowest(f, Free(fdt))
                      /\ fdt' = [fdt EXCEPT ![f] = File]
                      /\ out' = f
     \/ Free(fdt) = {} /\ out' = -1 /\ UNCHANGED fdt
  /\ UNCHANGED <<tables, pipe_table, at, in>> /\ Handling

(* Fault: the entry of user_pipe has sender and receiver changed.          *)
UserOutputSwapped ==
  /\ Output("end") /\ to_id # 0
  /\ \/ \E r, w \in Fd :
           /\ PipeGives(r, w)
           /\ user_pipe' = [user_pipe EXCEPT ![to_id][cur] = Ends(r, w)]
           /\ fdt' = Opened(r, w, UserEnd(cur, to_id, 0), UserEnd(cur, to_id, 1))
           /\ out' = w
     \/ /\ PipeFails
        /\ out' = user_pipe[to_id][cur][1] /\ UNCHANGED <<user_pipe, fdt>>
  /\ UNCHANGED <<cross_line_pipe_table, pipe_table, at, in>> /\ Handling

(* The end of the line: a new user pipe if the line says `>n`, else the    *)
(* client's own connection.                                                *)
UserOutput ==
  /\ Output("end") /\ to_id # 0
  /\ \/ \E r, w \in Fd :
           /\ PipeGives(r, w)
           /\ user_pipe' = [user_pipe EXCEPT ![cur][to_id] = Ends(r, w)]
           /\ fdt' = Opened(r, w, UserEnd(cur, to_id, 0), UserEnd(cur, to_id, 1))
           /\ out' = w
     \/ /\ PipeFails
        /\ out' = user_pipe[cur][to_id][1] /\ UNCHANGED <<user_pipe, fdt>>
  /\ UNCHANGED <<cross_line_pipe_table, pipe_table, at, in>> /\ Handling

ClientOutput ==
  /\ Output("end") /\ to_id = 0
  /\ out' = client_fd[cur]
  /\ UNCHANGED <<tables, pipe_table, at, in, fdt>> /\ Handling

(* After the fork the server closes its copies of what the segment used:   *)
(* the segment's own pipe, the numbered pipe due at this line, the user    *)
(* pipe received, and the write end of the user pipe sent.                 *)
ReceivedPipe == IF from_id # 0 THEN {<<from_id, cur>>} ELSE {}
SentPipe     == IF to_id # 0 THEN {<<cur, to_id>>} ELSE {}

(* Fault: the pipe from the segment before is not closed.                  *)
ClosedExceptLocal ==
  {cross[e] : e \in End}
  \cup {user_pipe[p[1]][p[2]][e] : p \in ReceivedPipe, e \in End}
  \cup {user_pipe[p[1]][p[2]][1] : p \in SentPipe}

ClosedAfterFork ==
  {pipe_table[at][e] : e \in End} \cup {cross[e] : e \in End}
  \cup {user_pipe[p[1]][p[2]][e] : p \in ReceivedPipe, e \in End}
  \cup {user_pipe[p[1]][p[2]][1] : p \in SentPipe}

(* Fault: the write end of the pipe sent is closed but stays in the table. *)
UserPipesKeepSent ==
  [a \in Id |-> [b \in Id |->
     IF <<a, b>> \in ReceivedPipe THEN NoPipe ELSE user_pipe[a][b]]]

UserPipesAfterFork ==
  [a \in Id |-> [b \in Id |->
     IF <<a, b>> \in ReceivedPipe THEN NoPipe
     ELSE IF <<a, b>> \in SentPipe THEN Ends(user_pipe[a][b][0], 0)
     ELSE user_pipe[a][b]]]

Fork ==
  /\ pc = "fork"
  /\ fdt' = Close(fdt, ClosedAfterFork)
  /\ cross_line_pipe_table' = [cross_line_pipe_table EXCEPT ![cur][count] = NoPipe]
  /\ user_pipe' = UserPipesAfterFork
  /\ IF at = Len(line.seg)
     THEN LineDone
     ELSE /\ pc' = "input"
          /\ at' = at + 1
          /\ pipe_table' = [pipe_table EXCEPT ![at] = NoPipe]
          /\ in' = 0 /\ out' = client_fd[cur]
          /\ UNCHANGED <<cur, line>>
  /\ UNCHANGED <<loopVars, clientVars, env_path>>

-----------------------------------------------------------------------------
Shell(i, f) ==
  \/ EmptyLine(i, f)
  \/ TextCommand(i, f)
  \/ \E p \in Paths : SetEnv(i, f, p)
  \/ \E n \in Names \cup {NoName, Blank} : SetName(i, f, n)
  \/ Leave(i, f)
  \/ \E l \in Lines : RejectedLine(i, f, l) \/ StartLine(i, f, l)

process_handler ==
  \/ BreakLine
  \/ CrossInput \/ UserInput \/ PlainInput
  \/ PipeOutput \/ NumberOutput \/ FileOutput \/ UserOutput \/ ClientOutput
  \/ Fork

Next ==
  \/ Select
  \/ AcceptClient \/ AcceptRefused
  \/ \E f \in Fd, i \in Slot : Shell(i, f)
  \/ process_handler

Spec == Init /\ [][Next]_vars

-----------------------------------------------------------------------------
(* Type correctness: every table keeps the range the code's array indices  *)
(* and descriptor arguments rely on.                                       *)
TypeOK ==
  /\ pc \in {"select", "scan", "input", "output", "fork"}
  /\ rfd \in SUBSET Fd /\ afd \in SUBSET Fd /\ fdmax \in Fd
  /\ client_cnt \in 0 .. CLIENT_NUMBER
  /\ client_fd \in [Slot -> {0} \cup Fd]
  /\ id \in [Slot -> Id]
  /\ name \in [Slot -> Name]
  /\ path \in [Slot -> Path]
  /\ cnt_line \in [Slot -> Index]
  /\ cross_line_pipe_table \in [Slot -> [Index -> Cell]]
  /\ user_pipe \in [Id -> [Id -> Cell]]
  /\ env_path \in Path
  /\ cur \in Id /\ line \in Lines \cup {NoLine} /\ at \in Index
  /\ pipe_table \in [Index -> Cell]
  /\ in \in {0} \cup Fd /\ out \in {-1, 0} \cup Fd
  /\ fdt \in [Fd -> Object]

(* The login count, the watched set and the client table agree, so a login *)
(* below the limit finds a slot (init_client never writes client_info[-1]),*)
(* and every descriptor the scan serves belongs to a client (get_client    *)
(* never returns NULL): they are updated in different functions.           *)
ClientTable ==
  /\ client_cnt = Cardinality(Used)
  /\ afd = {sockfd} \cup {client_fd[i] : i \in Used}
  /\ rfd \subseteq afd
  /\ \A f \in afd : f <= fdmax
  /\ \A i \in Slot : id[i] = IF i \in Used THEN i ELSE 0
  /\ \A i, j \in Used : i # j => client_fd[i] # client_fd[j]

(* A user pipe joins two clients that are logged in: a client given the id *)
(* of one that left inherits no pipe from it (reset_client).               *)
PipesBetweenLive ==
  \A i, j \in Id : user_pipe[i][j] # NoPipe => i \in Used /\ j \in Used

(* Every descriptor number stored in a table stands for the object it was  *)
(* stored for, and every open client descriptor is stored: no entry is     *)
(* used after its number was closed and handed out again.                  *)
FdsFaithful ==
  /\ fdt[sockfd] = Listener
  /\ \A i \in Slot : client_fd[i] # 0 => fdt[client_fd[i]] = Sock(i)
  /\ \A i, j \in Id, e \in End :
        user_pipe[i][j][e] # 0 => fdt[user_pipe[i][j][e]] = UserEnd(i, j, e)
  /\ \A i \in Slot, k \in Index, e \in End :
        LET f == cross_line_pipe_table[i][k][e] IN f # 0 => fdt[f] = CrossEnd(i, k, e)
  /\ \A k \in Index, e \in End :
        pipe_table[k][e] # 0 => fdt[pipe_table[k][e]] = LocalEnd(k, e)

(* The converse: an open socket or pipe end that no logout has lost is     *)
(* still in the table it was made for, so it is closed when that entry is. *)
InTable(f) == LET o == fdt[f] IN
  /\ o.kind = "sock"  => o.i \in Slot /\ client_fd[o.i] = f
  /\ o.kind = "user"  => o.j \in Id /\ user_pipe[o.i][o.j][o.e] = f
  /\ o.kind = "cross" => /\ o.i \in Slot /\ o.j \in Index
                         /\ cross_line_pipe_table[o.i][o.j][o.e] = f
  /\ o.kind = "local" => o.j \in Index /\ pipe_table[o.j][o.e] = f

FdsTracked == \A f \in Fd : InTable(f)

(* The server loses an open socket or pipe end - none of its tables names  *)
(* the descriptor any more - in one step only: the logout of a client, and *)
(* then only ends of numbered pipes of that client and of user pipes it    *)
(* sent or was sent (reset_client zeroes their entries and closes none).   *)
(* No line of a client loses one, whatever pipes it uses and fails to get. *)
Untracked == {f \in Fd : fdt[f].kind = "lost" \/ ~ InTable(f)}

LostOnlyAtLogout ==
  [][\A f \in Untracked' \ Untracked : \E i \in Used \ Used' : f \in Owned(i)]_vars

(* Two logged-in clients never have the same nickname, the initial one     *)
(* excepted (checkname).                                                   *)
UniqueNames ==
  \A i, j \in Used : i # j /\ name[i] = name[j] => name[i] = NoName

(* The objects a process of client c may be given as its stdin and stdout. *)
MayRead(c) ==
  {UserEnd(i, c, 0) : i \in Slot} \cup {CrossEnd(c, k, 0) : k \in Index}
  \cup {LocalEnd(k, 0) : k \in Index}
MayWrite(c) ==
  {Sock(c), File} \cup {UserEnd(c, i, 1) : i \in Slot}
  \cup {CrossEnd(c, k, 1) : k \in Index} \cup {LocalEnd(k, 1) : k \in Index}

(* A process forked for a client reads only pipes meant for that client    *)
(* (or descriptor 0, the server's stdin) and writes only to its connection,*)
(* to its own pipes or to a file (or, when a pipe or the file could not be *)
(* opened, to descriptor 0 or nowhere).                                    *)
Isolation ==
  pc = "fork" => /\ in # 0 => fdt[in] \in MayRead(cur)
                 /\ out \in Fd => fdt[out] \in MayWrite(cur)

(* When a process is forked to read a pipe, the server holds no write end  *)
(* of that pipe any more, else the process would never see end of file.    *)
NoWriteEndKept ==
  pc = "fork" /\ in # 0 =>
    \A f \in Fd : fdt[f] # [fdt[in] EXCEPT !.e = 1]

(* A client's processes run under the PATH that client set, though PATH is *)
(* a variable of the one server process.                                   *)
RunsUnderOwnPath == pc = "fork" => env_path = path[cur]

(* The server implements the abstract information server: its users are   *)
(* the used slots, its pipes the entries of user_pipe with a read end.     *)
Promise == INSTANCE InfoServer WITH
  users <- Used,
  nick  <- name,
  pipes <- {p \in Slot \X Slot : user_pipe[p[1]][p[2]][0] # 0}

(* Each line, login and logout does to users, nicknames and pipes what one *)
(* step of the abstract server does, or nothing.                           *)
ServesAsPromised == Promise!Spec
=============================================================================
