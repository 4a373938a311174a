------------------------------ MODULE Concurrent ------------------------------
(***************************************************************************)
(* np_project2/concurrent: one process per client.  The client table, the  *)
(* user pipes and one message buffer are in memory that all processes      *)
(* share without a lock; a message is announced with SIGUSR1, which the    *)
(* receiving process answers by sending the buffer to its client.          *)
(*                                                                         *)
(* Every access to shared memory that another process can come between is  *)
(* a step of its own.                                                      *)
(***************************************************************************)
EXTENDS Integers, FiniteSets

CONSTANTS
  CLIENT_NUMBER,   \* rows of the client table
  Conns,           \* a bound: connections, that is processes, ever made
  MaxCommands,     \* a bound: commands of one client
  MaxLeaks,        \* a bound: how often fork fails
  Names, NoName,   \* nicknames; "(no name)"
  Commands         \* the commands clients type

Slot == 1 .. CLIENT_NUMBER
Proc == 1 .. Conns
Fd   == 1 .. 2 * MaxCommands    \* descriptors beyond those every process has

(* Messages for all, messages for one, and commands that go on with a pipe *)
Broadcasts == {"login", "exit", "yell", "name", "send", "receive"}
Private    == {"tell", "who"}
CommandType == [op : {"exit", "yell", "who"}, n : {0}]
               \cup [op : {"tell", "send", "receive"}, n : Slot]
               \cup [op : {"name"}, n : Names]

ASSUME ConcurrentAssumption ==
  /\ CLIENT_NUMBER \in Nat \ {0} /\ Conns \in Nat \ {0}
  /\ MaxCommands \in Nat /\ MaxLeaks \in Nat
  /\ NoName \notin Names
  /\ Commands \subseteq CommandType

VARIABLES
  \* shared memory: a row is enabled iff its pid is not 0
  pid, name, message, user_pipe,
  \* one entry per process
  pc,
  row,      \* client_index in init_client
  ptr,      \* client_ptr in my_shell
  cmd,      \* the command being processed
  k,        \* the loop counter of broadcast, 0 outside
  in,       \* the descriptor chosen as input
  fdt,      \* the read and write ends it has open, by number
  fdno,     \* the number of its client's connection, less the usual one
  pending,  \* SIGUSR1 is pending
  done,     \* how many commands it has run
  leaked,   \* in the server: connections whose fork failed stay open
  \* history
  unheard,  \* who was logged in when the current message was written, and
            \* was not sent it yet
  rivals,   \* who chose the same row before it was claimed
  overlap   \* pairs that took a name between each other's check and write

shared == <<pid, name, message, user_pipe>>
local  == <<row, ptr, cmd, k, in, fdt, fdno, done>>
history == <<unheard, rivals, overlap>>
vars == <<shared, pc, local, pending, leaked, history>>

Free == <<0, 0, 0>>       \* an end of a pipe is <<maker, which pipe, end>>
NoPipe == <<0, 0>>
Idle == [op |-> "login", n |-> 0]

Init ==
  /\ pid = [s \in Slot |-> 0]
  /\ name = [s \in Slot |-> ""]
  /\ message = "blank"
  /\ user_pipe = [s \in Slot |-> [t \in Slot |-> NoPipe]]
  /\ pc = [p \in Proc |-> "none"]
  /\ row = [p \in Proc |-> 0] /\ ptr = [p \in Proc |-> 0]
  /\ cmd = [p \in Proc |-> Idle]
  /\ k = [p \in Proc |-> 0] /\ in = [p \in Proc |-> 0]
  /\ fdt = [p \in Proc |-> [d \in Fd |-> Free]]
  /\ fdno = [p \in Proc |-> 0]
  /\ pending = [p \in Proc |-> FALSE] /\ done = [p \in Proc |-> 0]
  /\ leaked = 0 /\ unheard = {} /\ rivals = [p \in Proc |-> {}] /\ overlap = {}

Over == {"none", "left", "killed", "crashed"}
Alive(p) == pc[p] \notin Over
Enabled(s) == pid[s] # 0

(* 0 stands for NULL; a process fills one row at most.                     *)
get_client_by_pid(p) ==
  IF \E s \in Slot : pid[s] = p THEN CHOOSE s \in Slot : pid[s] = p ELSE 0

InTable(p) == get_client_by_pid(p) # 0

Goto(p, there) == pc' = [pc EXCEPT ![p] = there]

-----------------------------------------------------------------------------
(* main.  Before the fork the count of logins is compared with the limit;  *)
(* but *login_cnt++ has moved the pointer, not the count, and the word     *)
(* after it is 0: the comparison always succeeds.                          *)

Accept(p) ==
  /\ pc[p] = "none" /\ \A q \in 1 .. p - 1 : pc[q] # "none"
  /\ Goto(p, "choose")
  /\ fdno' = [fdno EXCEPT ![p] = leaked]
  /\ UNCHANGED <<shared, row, ptr, cmd, k, in, fdt, done, pending, leaked, history>>

(* The connection is not closed: later ones get higher numbers.  A bound:  *)
(* only a failure between two logins makes their numbers differ.           *)
ForkFails ==
  /\ leaked < MaxLeaks
  /\ \E p, q \in Proc : pc[p] # "none" /\ pc[q] = "none"
  /\ leaked' = leaked + 1
  /\ UNCHANGED <<shared, pc, local, pending, history>>

-----------------------------------------------------------------------------
(* init_client.                                                            *)

(* Fault: without a free row the last one is taken.                        *)
available_or_last ==
  {s \in Slot : (~ Enabled(s) \/ s = CLIENT_NUMBER) /\ \A t \in 1 .. s - 1 : Enabled(t)}

(* The first free row; 0 (in the code -1) when there is none.              *)
get_available_client ==
  IF \A s \in Slot : Enabled(s) THEN {0}
  ELSE {s \in Slot : ~ Enabled(s) /\ \A t \in 1 .. s - 1 : Enabled(t)}

Claiming(s) == {q \in Proc : pc[q] \in {"clear", "fill"} /\ row[q] = s}

(* Without a row the process writes in front of the table: it is killed by *)
(* that, or goes on without a row.                                         *)
Choose(p) ==
  /\ pc[p] = "choose"
  /\ \E s \in get_available_client :
     /\ row' = [row EXCEPT ![p] = s]
     /\ rivals' = [q \in Proc |-> IF q = p THEN Claiming(s)
                                  ELSE IF q \in Claiming(s) THEN rivals[q] \cup {p}
                                  ELSE rivals[q]]
     /\ IF s = 0 THEN Goto(p, "blank") \/ Goto(p, "crashed") ELSE Goto(p, "clear")
  /\ UNCHANGED <<shared, ptr, cmd, k, in, fdt, fdno, done, pending, leaked,
                 unheard, overlap>>

Clear(p) ==
  /\ pc[p] = "clear"
  /\ pid' = [pid EXCEPT ![row[p]] = 0]
  /\ name' = [name EXCEPT ![row[p]] = NoName]
  /\ Goto(p, "fill")
  /\ UNCHANGED <<message, user_pipe, local, pending, leaked, history>>

(* The last assignments, up to enable.                                     *)
Fill(p) ==
  /\ pc[p] = "fill"
  /\ pid' = [pid EXCEPT ![row[p]] = p]
  /\ Goto(p, "blank")
  /\ UNCHANGED <<name, message, user_pipe, local, pending, leaked, history>>

-----------------------------------------------------------------------------
(* broadcast, and the same for the one receiver of tell and who: the       *)
(* buffer is cleared, written, and announced.                              *)

Partner(p) == cmd[p].n

Blank(p) ==
  /\ pc[p] = "blank"
  /\ IF /\ cmd[p].op \in {"send", "receive"}      \* NULL->id
        /\ ~ InTable(p) \/ ~ Enabled(Partner(p))
     THEN Goto(p, "crashed") /\ UNCHANGED message
     ELSE Goto(p, "write") /\ message' = "blank"
  /\ UNCHANGED <<pid, name, user_pipe, local, pending, leaked, history>>

(* Which row is looked at first: all in turn, the receiver's or the own.   *)
FirstRow(p) == CASE cmd[p].op = "tell" -> Partner(p)
                 [] cmd[p].op = "who"  -> ptr[p]
                 [] OTHER              -> 1

Write(p) ==
  /\ pc[p] = "write"
  /\ message' = cmd[p].op
  /\ k' = [k EXCEPT ![p] = FirstRow(p)]
  /\ Goto(p, IF cmd[p].op \in Private THEN "kill" ELSE "scan")
  /\ unheard' = {q \in Proc : Alive(q) /\ InTable(q)}
  /\ UNCHANGED <<pid, name, user_pipe, row, ptr, cmd, in, fdt, fdno, done, pending,
                 leaked, rivals, overlap>>

(* What follows the message.                                               *)
Continue(p) == CASE cmd[p].op = "login" -> "shell"
                 [] cmd[p].op = "exit"  -> "reset"
                 [] cmd[p].op \in {"send", "receive"} -> "run"
                 [] OTHER -> "prompt"

(* Fault: the loop ends one row early.                                     *)
LoopShort(p) ==
  IF k[p] + 1 >= CLIENT_NUMBER \/ cmd[p].op \in Private
  THEN k' = [k EXCEPT ![p] = 0] /\ Goto(p, Continue(p))
  ELSE k' = [k EXCEPT ![p] = @ + 1] /\ Goto(p, "scan")

Loop(p) ==
  IF k[p] = CLIENT_NUMBER \/ cmd[p].op \in Private
  THEN k' = [k EXCEPT ![p] = 0] /\ Goto(p, Continue(p))
  ELSE k' = [k EXCEPT ![p] = @ + 1] /\ Goto(p, "scan")

Scan(p) ==
  /\ pc[p] = "scan"
  /\ IF Enabled(k[p]) THEN Goto(p, "kill") /\ UNCHANGED k ELSE Loop(p)
  /\ UNCHANGED <<shared, row, ptr, cmd, in, fdt, fdno, done, pending, leaked, history>>

(* A row that was reset in between has the pid 0: kill signals them all.   *)
Kill(p) ==
  /\ pc[p] = "kill"
  /\ pending' = [q \in Proc |-> pending[q] \/ (Alive(q) /\ pid[k[p]] \in {0, q})]
  /\ Loop(p)
  /\ UNCHANGED <<shared, row, ptr, cmd, in, fdt, fdno, done, leaked, history>>

(* Fault: only the first row is looked at.                                 *)
first_row_only == {s \in {1} : Enabled(s)}

(* The row whose descriptor the handler sends to.                          *)
first_enabled == {s \in Slot : Enabled(s) /\ \A t \in 1 .. s - 1 : ~ Enabled(t)}

(* sigusr1_handler.  The first client's descriptor number is the process's *)
(* own connection only if no fork failed between the two logins.  A send   *)
(* to a closed connection may raise SIGPIPE.                               *)
Handle(p) ==
  /\ pending[p] /\ Alive(p)
  /\ pending' = [pending EXCEPT ![p] = FALSE]
  /\ LET reached == \E s \in first_enabled : fdno[pid[s]] = fdno[p] IN
     /\ unheard' = IF reached /\ message # "blank" THEN unheard \ {p} ELSE unheard
     /\ UNCHANGED pc \/ (reached /\ Goto(p, "killed"))
  /\ UNCHANGED <<shared, local, leaked, rivals, overlap>>

-----------------------------------------------------------------------------
(* my_shell.                                                               *)

Shell(p) ==
  /\ pc[p] = "shell"
  /\ ptr' = [ptr EXCEPT ![p] = get_client_by_pid(p)]
  /\ Goto(p, "prompt")
  /\ UNCHANGED <<shared, row, cmd, k, in, fdt, fdno, done, pending, leaked, history>>

(* Fault: the last row is not compared.                                    *)
checkname_short(p, n) ==
  \A s \in Slot \ {CLIENT_NUMBER} : pid[s] # pid[ptr[p]] => name[s] # n

checkname(p, n) == \A s \in Slot : pid[s] # pid[ptr[p]] => name[s] # n

(* Whether a command gets past its checks.                                 *)
Admissible(p, c) ==
  CASE c.op = "name"    -> checkname(p, c.n)
    [] c.op = "tell"    -> Enabled(c.n)
    [] c.op = "send"    -> Enabled(c.n) /\ user_pipe[ptr[p]][c.n] = NoPipe
    [] c.op = "receive" -> Enabled(c.n) /\ user_pipe[c.n][ptr[p]][1] # 0
    [] OTHER            -> TRUE

(* A command is read; a process without a row dies at client_ptr->cnt_line *)
Command(p, c) ==
  /\ pc[p] = "prompt" /\ done[p] < MaxCommands
  /\ done' = [done EXCEPT ![p] = @ + 1]
  /\ cmd' = [cmd EXCEPT ![p] = c]
  /\ IF ptr[p] = 0 THEN Goto(p, "crashed")
     ELSE Goto(p, IF ~ Admissible(p, c) THEN "prompt"
                  ELSE IF c.op = "name" THEN "rename" ELSE "blank")
  /\ overlap' = IF pc'[p] = "rename"
                THEN overlap \cup {{p, q} : q \in {r \in Proc : pc[r] = "rename"}}
                ELSE overlap
  /\ UNCHANGED <<shared, row, ptr, k, in, fdt, fdno, pending, leaked, unheard, rivals>>

Rename(p) ==
  /\ pc[p] = "rename"
  /\ name' = [name EXCEPT ![ptr[p]] = cmd[p].n]
  /\ Goto(p, "blank")
  /\ UNCHANGED <<pid, message, user_pipe, local, pending, leaked, history>>

(* readline at the end of the connection: an error is noticed; an end of   *)
(* file is not, and c keeps what it held: a line end means another prompt, *)
(* which raises SIGPIPE, anything else is appended for ever.               *)
EndOfFile(p) ==
  /\ pc[p] = "prompt"
  /\ Goto(p, "reset") \/ Goto(p, "killed") \/ Goto(p, "spin")
  /\ UNCHANGED <<shared, local, pending, leaked, history>>

(* Fault: exit and main both reset the client.                             *)
ResetAgain(p) ==
  /\ pc[p] = "reset"
  /\ LET me == get_client_by_pid(p) IN
     IF me = 0
     THEN Goto(p, "crashed") /\ UNCHANGED <<pid, name, user_pipe>>
     ELSE /\ user_pipe' = [s \in Slot |-> [t \in Slot |->
                             IF me \in {s, t} THEN NoPipe ELSE user_pipe[s][t]]]
          /\ pid' = [pid EXCEPT ![me] = 0]
          /\ name' = [name EXCEPT ![me] = ""]
          /\ Goto(p, "reset")
  /\ UNCHANGED <<message, local, pending, leaked, history>>

(* reset_client, then exit: the process's descriptors go with it.          *)
Reset(p) ==
  /\ pc[p] = "reset"
  /\ LET me == get_client_by_pid(p) IN
     IF me = 0
     THEN Goto(p, "crashed") /\ UNCHANGED <<pid, name, user_pipe>>
     ELSE /\ user_pipe' = [s \in Slot |-> [t \in Slot |->
                             IF me \in {s, t} THEN NoPipe ELSE user_pipe[s][t]]]
          /\ pid' = [pid EXCEPT ![me] = 0]
          /\ name' = [name EXCEPT ![me] = ""]
          /\ Goto(p, "left")
  /\ UNCHANGED <<message, local, pending, leaked, history>>

-----------------------------------------------------------------------------
(* process_handler for a line with `<n` or `>n`.  The entries of user_pipe *)
(* are descriptor numbers of the process that made the pipe; whoever else  *)
(* uses or closes them uses or closes its own.                             *)

Closing(p, numbers) == [d \in Fd |-> IF d \in numbers THEN Free ELSE fdt[p][d]]

Receive(p) ==
  /\ pc[p] = "run" /\ cmd[p].op = "receive" /\ InTable(p)
  /\ LET from == Partner(p)
         pipe == user_pipe[from][ptr[p]] IN
     IF pipe[1] # 0
     THEN /\ in' = [in EXCEPT ![p] = pipe[1]]
          /\ fdt' = [fdt EXCEPT ![p] = Closing(p, {pipe[2]})]
          /\ user_pipe' = [user_pipe EXCEPT ![from][ptr[p]][2] = 0]
     ELSE UNCHANGED <<in, fdt, user_pipe>>
  /\ Goto(p, "finish")
  /\ UNCHANGED <<pid, name, message, row, ptr, cmd, k, fdno, done, pending, leaked, history>>

(* The number that is the lowest free one when `taken` is not.             *)
LowestFree(p, d, taken) ==
  /\ d \notin taken /\ fdt[p][d] = Free
  /\ \A e \in 1 .. d - 1 : e \in taken \/ fdt[p][e] # Free

Send(p) ==
  /\ pc[p] = "run" /\ cmd[p].op = "send" /\ InTable(p)
  /\ IF user_pipe[ptr[p]][Partner(p)] = NoPipe
     THEN \E r, w \in Fd :
            /\ LowestFree(p, r, {}) /\ LowestFree(p, w, {r})
            /\ fdt' = [fdt EXCEPT ![p][r] = <<p, done[p], 1>>, ![p][w] = <<p, done[p], 2>>]
            /\ user_pipe' = [user_pipe EXCEPT ![ptr[p]][Partner(p)] = <<r, w>>]
     ELSE UNCHANGED <<fdt, user_pipe>>
  /\ Goto(p, "finish")
  /\ UNCHANGED <<pid, name, message, row, ptr, cmd, k, in, fdno, done, pending, leaked, history>>

(* get_client_by_pid is NULL.                                              *)
RunLost(p) ==
  /\ pc[p] = "run" /\ ~ InTable(p)
  /\ Goto(p, "crashed")
  /\ UNCHANGED <<shared, local, pending, leaked, history>>

(* After the command, in process_handler and once more in my_shell: the    *)
(* received pipe is forgotten, the sent one loses its write end.           *)
Finish(p) ==
  /\ pc[p] \in {"finish", "again"}
  /\ LET n == Partner(p)
         pipe == IF cmd[p].op = "receive" THEN user_pipe[n][ptr[p]]
                 ELSE user_pipe[ptr[p]][n] IN
     IF cmd[p].op = "receive"
     THEN /\ fdt' = [fdt EXCEPT ![p] = Closing(p, {pipe[1], pipe[2]})]
          /\ user_pipe' = [user_pipe EXCEPT ![n][ptr[p]] = NoPipe]
     ELSE /\ fdt' = [fdt EXCEPT ![p] = Closing(p, {pipe[2]})]
          /\ user_pipe' = [user_pipe EXCEPT ![ptr[p]][n][2] = 0]
  /\ in' = [in EXCEPT ![p] = 0]
  /\ Goto(p, IF pc[p] = "finish" THEN "again" ELSE "prompt")
  /\ UNCHANGED <<pid, name, message, row, ptr, cmd, k, fdno, done, pending, leaked, history>>

-----------------------------------------------------------------------------
Announce(p) == Blank(p) \/ Write(p) \/ Scan(p) \/ Kill(p)

Login(p) == Choose(p) \/ Clear(p) \/ Fill(p) \/ Shell(p)

my_shell(p) ==
  \/ \E c \in Commands : Command(p, c)
  \/ Rename(p) \/ EndOfFile(p) \/ Reset(p)
  \/ Receive(p) \/ Send(p) \/ RunLost(p) \/ Finish(p)

Next ==
  \/ ForkFails
  \/ \E p \in Proc : \/ Accept(p) \/ Login(p) \/ Announce(p) \/ Handle(p)
                     \/ my_shell(p)

(* The kernel runs each process and delivers its signals.                  *)
Fairness == \A p \in Proc : WF_vars(Login(p)) /\ WF_vars(Announce(p)) /\ WF_vars(Handle(p))

Spec == Init /\ [][Next]_vars /\ Fairness

-----------------------------------------------------------------------------
Points == {"choose", "clear", "fill", "blank", "write", "scan", "kill", "shell", "prompt",
           "rename", "reset", "run", "finish", "again", "spin"}

ControlTypes ==
  /\ pid \in [Slot -> Proc \cup {0}]
  /\ name \in [Slot -> Names \cup {NoName, ""}]
  /\ pc \in [Proc -> Over \cup Points]
  /\ row \in [Proc -> Slot \cup {0}] /\ ptr \in [Proc -> Slot \cup {0}]
  /\ k \in [Proc -> 0 .. CLIENT_NUMBER]
  /\ rivals \in [Proc -> SUBSET Proc]

DataTypes ==
  /\ message \in Broadcasts \cup Private \cup {"blank"}
  /\ user_pipe \in [Slot -> [Slot -> (Fd \cup {0}) \X (Fd \cup {0})]]
  /\ cmd \in [Proc -> CommandType \cup {Idle}] /\ done \in [Proc -> 0 .. MaxCommands]
  /\ in \in [Proc -> Fd \cup {0}]
  /\ fdt \in [Proc -> [Fd -> {Free} \cup (Proc \X (1 .. MaxCommands) \X {1, 2})]]
  /\ fdno \in [Proc -> 0 .. MaxLeaks] /\ leaked \in 0 .. MaxLeaks
  /\ pending \in [Proc -> BOOLEAN]
  /\ unheard \in SUBSET Proc /\ overlap \in SUBSET (SUBSET Proc)

TypeOK == ControlTypes /\ DataTypes

(* A process that got a row (init_client) keeps it until it resets it or   *)
(* is killed, unless another process had chosen the same row: nobody else  *)
(* resets or overwrites it.                                                *)
RowKept ==
  \A p \in Proc :
    /\ pc[p] \notin Over \cup {"choose", "clear", "fill"}
    /\ row[p] # 0 /\ rivals[p] = {}
    => pid[row[p]] = p

(* The lookups by pid and by id that the code does not check, from         *)
(* init_client to reset_client and before and after a command of the       *)
(* client, find a row: a process dies at one only if it never got a row or *)
(* chose the row of another, or, of the lookups for `<n` and `>n`, at the  *)
(* message about a partner who has left since the partner was checked.     *)
CrashExplained ==
  [][\A p \in Proc :
       pc[p] # "crashed" /\ pc'[p] = "crashed" =>
         \/ row'[p] = 0 \/ rivals'[p] # {}
         \/ /\ pc[p] = "blank" /\ cmd[p].op \in {"send", "receive"}
            /\ ~ Enabled(Partner(p))]_vars

(* Two logged-in clients have the same nickname only if they took it at    *)
(* the same time, each checking (checkname) before the other had written.  *)
NamesUnique ==
  (\A p \in Proc : rivals[p] = {}) =>
    \A s, t \in Slot :
      s # t /\ Enabled(s) /\ Enabled(t) /\ name[s] = name[t] /\ name[s] \in Names
        => {pid[s], pid[t]} \in overlap

(* No loop of broadcast is under way or was cut short, no signal pending.  *)
Quiet == \A p \in Proc : k[p] = 0 /\ (Alive(p) => ~ pending[p])

(* Signals that coalesce and a buffer that is overwritten lose messages,   *)
(* but never the last: when all is quiet and the buffer holds a broadcast, *)
(* everyone who was logged in when it was written, and still is, was sent  *)
(* it (broadcast and sigusr1_handler; as long as no fork has failed).      *)
LatestHeard ==
  Quiet /\ leaked = 0 /\ message \in Broadcasts =>
    \A p \in unheard : ~ InTable(p) \/ ~ Alive(p)

(* Whoever was logged in when a broadcast was written is sent it, or a     *)
(* broadcast that has overwritten it, unless what has is for another, the  *)
(* client leaves, or a process is killed while it sends signals (broadcast *)
(* and sigusr1_handler).                                                   *)
BroadcastHeard ==
  \A p \in Proc :
    message \in Broadcasts /\ p \in unheard
      ~> \/ p \notin unheard \/ message \notin Broadcasts
         \/ ~ InTable(p) \/ ~ Alive(p) \/ leaked > 0
         \/ \E q \in Proc : pc[q] = "killed" /\ k[q] # 0

(* "There are some pipe from others": the descriptor a receiving process   *)
(* takes from user_pipe is the read end of a pipe the sender made.         *)
PipeFromOthers ==
  \A p \in Proc : in[p] # 0 =>
    \E n \in 1 .. MaxCommands : fdt[p][in[p]] = <<pid[Partner(p)], n, 1>>
===============================================================================
