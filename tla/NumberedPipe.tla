----------------------------- MODULE NumberedPipe -----------------------------
(***************************************************************************)
(* np_project1: the shell with its child processes.  A line `cmd |n` puts  *)
(* its output into a pipe that the n-th next line reads; the shell keeps   *)
(* such pipes in a ring, and every child it forks inherits all the pipe    *)
(* ends the shell has open.  The shell waits for the last process of a     *)
(* line, unless the line ends in a numbered pipe.                          *)
(*                                                                         *)
(* A process is named by its line and its place in it; a pipe by the       *)
(* process that was forked right after it was made.  Table entries hold    *)
(* pipes, not descriptor numbers: what the numbers add is SingleProc's     *)
(* subject.                                                                *)
(***************************************************************************)
EXTENDS Integers, Sequences, FiniteSets

CONSTANTS
  FILE_MAX,   \* the length of the ring of numbered pipes
  Lines,      \* the command lines the user types (see LineShape)
  CAP,        \* chunks a pipe holds
  MaxOut,     \* a bound: chunks a program writes of its own accord
  MaxLine     \* a bound: lines of a session

Index == 0 .. FILE_MAX - 1
End   == {0, 1}                           \* read end and write end
Proc  == (1 .. MaxLine) \X (1 .. FILE_MAX - 1)
Pipe  == Proc
None  == <<0, 0>>                         \* the 0 of the tables and of stdin
PipeEnd == Pipe \X End

(* What a segment runs: a program that writes by itself, one that copies   *)
(* its input, or one that ends at once (a command that does not exist, or  *)
(* the empty segment that follows `> file`).                               *)
Programs == {"source", "filter", "quits"}
Terms == {"pipe", "number", "file", "end"}
Segments == [term : Terms, n : Nat, prog : Programs]

(* Only the closing "end" follows a `cmd |n` or a `> file`, and no pipe is *)
(* due at its own line.                                                    *)
LineShape(l) ==
  /\ l \in Seq(Segments)
  /\ Len(l) \in 1 .. FILE_MAX - 1
  /\ l[Len(l)].term = "end"
  /\ \A k \in 1 .. Len(l) - 1 :
        /\ l[k].term = "pipe" \/ k = Len(l) - 1
        /\ l[k].term # "end"
        /\ l[k].term = "number" => l[k].n \in 1 .. FILE_MAX - 1

ASSUME PipeAssumption ==
  /\ FILE_MAX \in Nat \ {0, 1}
  /\ CAP \in Nat \ {0} /\ MaxOut \in Nat /\ MaxLine \in Nat
  /\ \A l \in Lines : LineShape(l)

VARIABLES
  pc,          \* "prompt", "input", "fork", "wait", "close" or "exit"
  line, at,    \* the line being run and its current segment
  lineNo,      \* how many lines were run
  cnt_line, cross_line_pipe_table, pipe_table, in,     \* the shell's variables
  open,        \* pipe ends the shell has open
  due,         \* the line a numbered pipe was made for (0: an ordinary pipe)
  skipped,     \* lines that were built-in commands
  pending,     \* a SIGCHLD has not been handled yet
  pstate,      \* per process: "none", "running", "zombie" or "reaped"
  reads,       \* it copies its input
  pin, pout,   \* the pipes of its standard input and output
  held,        \* the pipe ends it has open
  left,        \* chunks it still has to write
  fill         \* chunks in a pipe

shellVars == <<pc, line, at, lineNo, cnt_line, cross_line_pipe_table, pipe_table,
               in, open, due, skipped>>
procVars == <<reads, pin, pout, held, left>>
vars == <<shellVars, procVars, pending, pstate, fill>>

NoEnds == [e \in End |-> None]

Init ==
  /\ pc = "prompt" /\ line = <<>> /\ at = 0 /\ lineNo = 0
  /\ cnt_line = 0 /\ in = None /\ open = {} /\ skipped = {} /\ pending = FALSE
  /\ cross_line_pipe_table = [k \in Index |-> NoEnds]
  /\ pipe_table = [k \in Index |-> NoEnds]
  /\ due = [p \in Pipe |-> 0]
  /\ pstate = [p \in Proc |-> "none"]
  /\ reads = [p \in Proc |-> FALSE]
  /\ pin = [p \in Proc |-> None] /\ pout = [p \in Proc |-> None]
  /\ held = [p \in Proc |-> {}]
  /\ left = [p \in Proc |-> 0]
  /\ fill = [p \in Pipe |-> 0]

Running == {p \in Proc : pstate[p] = "running"}

(* Who has the write end of a pipe open, the shell aside.                  *)
Writers(p) == {q \in Running : <<p, 1>> \in held[q]}

-----------------------------------------------------------------------------
(* my_shell: the line counter moves for built-in commands too.             *)

cross == cross_line_pipe_table[cnt_line]    \* the pipe due at this line
self  == <<lineNo, at>>

NextLine ==
  /\ pc = "prompt" /\ lineNo < MaxLine
  /\ lineNo' = lineNo + 1
  /\ cnt_line' = (cnt_line + 1) % FILE_MAX
  /\ UNCHANGED <<cross_line_pipe_table, in, open, due, procVars, pending, pstate, fill>>

Builtin ==
  /\ NextLine
  /\ skipped' = skipped \cup {lineNo + 1}
  /\ UNCHANGED <<pc, line, at, pipe_table>>

StartLine(l) ==
  /\ NextLine
  /\ pc' = "input" /\ line' = l /\ at' = 1
  /\ pipe_table' = [k \in Index |-> NoEnds]
  /\ UNCHANGED skipped

(* exit, or the end of the input.                                          *)
Exit ==
  /\ pc = "prompt"
  /\ pc' = "exit" /\ open' = {}
  /\ UNCHANGED <<line, at, lineNo, cnt_line, cross_line_pipe_table, pipe_table, in,
                 due, skipped, procVars, pending, pstate, fill>>

-----------------------------------------------------------------------------
(* process_handler, one segment at a time: the input.                      *)

(* Fault: the write end of the pipe that is due stays open.                *)
CrossInputOpen ==
  /\ pc = "input" /\ cross[0] # None
  /\ in' = IF at = 1 THEN cross[0] ELSE None
  /\ pc' = "fork"
  /\ UNCHANGED <<cross_line_pipe_table, open, line, at, lineNo, cnt_line, pipe_table,
                 due, skipped, procVars, pending, pstate, fill>>

CrossInput ==
  /\ pc = "input" /\ cross[0] # None
  /\ in' = IF at = 1 THEN cross[0] ELSE None
  /\ open' = open \ {<<cross[1], 1>>}
  /\ cross_line_pipe_table' = [cross_line_pipe_table EXCEPT ![cnt_line][1] = None]
  /\ pc' = "fork"
  /\ UNCHANGED <<line, at, lineNo, cnt_line, pipe_table, due, skipped,
                 procVars, pending, pstate, fill>>

(* Fault: the write end of an ordinary pipe stays open.                    *)
PlainInputOpen ==
  /\ pc = "input" /\ cross[0] = None
  /\ in' = pipe_table[at][0]
  /\ pc' = "fork"
  /\ UNCHANGED <<open, pipe_table, line, at, lineNo, cnt_line, cross_line_pipe_table,
                 due, skipped, procVars, pending, pstate, fill>>

PlainInput ==
  /\ pc = "input" /\ cross[0] = None
  /\ in' = pipe_table[at][0]
  /\ open' = open \ {<<pipe_table[at][1], 1>>}
  /\ pipe_table' = [pipe_table EXCEPT ![at][1] = None]
  /\ pc' = "fork"
  /\ UNCHANGED <<line, at, lineNo, cnt_line, cross_line_pipe_table, due, skipped,
                 procVars, pending, pstate, fill>>

-----------------------------------------------------------------------------
(* The output, and fork.  The child inherits what is open by then.         *)

Fork(out) ==
  /\ pstate' = [pstate EXCEPT ![self] = "running"]
  /\ reads' = [reads EXCEPT ![self] = (line[at].prog = "filter")]
  /\ pin' = [pin EXCEPT ![self] = in]
  /\ pout' = [pout EXCEPT ![self] = out]
  /\ held' = [held EXCEPT ![self] = open']
  /\ \E k \in 0 .. MaxOut : /\ line[at].prog # "source" => k = 0
                            /\ left' = [left EXCEPT ![self] = k]
  /\ UNCHANGED <<line, at, lineNo, cnt_line, in, skipped, pending, fill>>

(* pipe(): both ends of a new pipe.                                        *)
NewPipe == [e \in End |-> self]
WithNewPipe == open \cup {<<self, 0>>, <<self, 1>>}

Output(term) == pc = "fork" /\ line[at].term = term

PipeOutput ==
  /\ Output("pipe")
  /\ open' = WithNewPipe
  /\ pipe_table' = [pipe_table EXCEPT ![(at + 1) % FILE_MAX] = NewPipe]
  /\ Fork(self)
  /\ pc' = "close"
  /\ UNCHANGED <<cross_line_pipe_table, due>>

(* Fault: the ring is indexed by the number on the line alone.             *)
target_from_zero == line[at].n % FILE_MAX

target == (cnt_line + line[at].n) % FILE_MAX

(* Fault: each line makes a pipe of its own.                               *)
NumberOutputAlone ==
  /\ Output("number")
  /\ open' = WithNewPipe
  /\ cross_line_pipe_table' = [cross_line_pipe_table EXCEPT ![target] = NewPipe]
  /\ due' = [due EXCEPT ![self] = lineNo + line[at].n]
  /\ Fork(self)
  /\ pc' = "close"
  /\ UNCHANGED pipe_table

(* Lines with the same target share its pipe.                              *)
NumberOutput ==
  /\ Output("number")
  /\ IF cross_line_pipe_table[target][1] = None
     THEN /\ open' = WithNewPipe
          /\ cross_line_pipe_table' = [cross_line_pipe_table EXCEPT ![target] = NewPipe]
          /\ due' = [due EXCEPT ![self] = lineNo + line[at].n]
     ELSE UNCHANGED <<open, cross_line_pipe_table, due>>
  /\ Fork(cross_line_pipe_table'[target][1])
  /\ pc' = "close"
  /\ UNCHANGED pipe_table

(* A file, like the terminal, never blocks its writer.                     *)
TerminalOutput ==
  /\ Output("file") \/ Output("end")
  /\ UNCHANGED open
  /\ Fork(None)
  /\ pc' = "wait"
  /\ UNCHANGED <<pipe_table, cross_line_pipe_table, due>>

(* waitpid of the last process; the handler may have reaped it already.    *)
Wait ==
  /\ pc = "wait" /\ pstate[self] \in {"zombie", "reaped"}
  /\ pstate' = [pstate EXCEPT ![self] = "reaped"]
  /\ pc' = "close"
  /\ UNCHANGED <<line, at, lineNo, cnt_line, cross_line_pipe_table, pipe_table, in,
                 open, due, skipped, procVars, pending, fill>>

(* Both ends of this segment's pipe and of the pipe that was due; then the *)
(* next segment, unless a numbered pipe has ended the line.                *)
Close ==
  /\ pc = "close"
  /\ open' = {x \in open : x[1] \notin {pipe_table[at][0], pipe_table[at][1],
                                        cross[0], cross[1]}}
  /\ pipe_table' = [pipe_table EXCEPT ![at] = NoEnds]
  /\ cross_line_pipe_table' = [cross_line_pipe_table EXCEPT ![cnt_line] = NoEnds]
  /\ IF at = Len(line) \/ line[at].term = "number"
     THEN pc' = "prompt" /\ at' = 0 /\ line' = <<>>
     ELSE pc' = "input" /\ at' = at + 1 /\ UNCHANGED line
  /\ in' = None
  /\ UNCHANGED <<lineNo, cnt_line, due, skipped, procVars, pending, pstate, fill>>

(* Fault: the handler reaps one child for each SIGCHLD.                    *)
ReapOne ==
  /\ pending /\ pc # "exit"
  /\ pending' = FALSE
  /\ \/ \E z \in {p \in Proc : pstate[p] = "zombie"} :
           pstate' = [pstate EXCEPT ![z] = "reaped"]
     \/ (\A p \in Proc : pstate[p] # "zombie") /\ UNCHANGED pstate
  /\ UNCHANGED <<shellVars, procVars, fill>>

(* sigchld_handler: equal pending signals are one, so it reaps in a loop.  *)
ReapAll ==
  /\ pending /\ pc # "exit"
  /\ pending' = FALSE
  /\ pstate' = [p \in Proc |-> IF pstate[p] = "zombie" THEN "reaped" ELSE pstate[p]]
  /\ UNCHANGED <<shellVars, procVars, fill>>

-----------------------------------------------------------------------------
(* The programs.  The pipe ends of a process that ends are closed.         *)

Ends(p) ==
  /\ pstate' = [pstate EXCEPT ![p] = "zombie"]
  /\ pending' = TRUE
  /\ reads' = [reads EXCEPT ![p] = FALSE]
  /\ pin' = [pin EXCEPT ![p] = None] /\ pout' = [pout EXCEPT ![p] = None]
  /\ held' = [held EXCEPT ![p] = {}]
  /\ left' = [left EXCEPT ![p] = 0]
  /\ UNCHANGED <<shellVars, fill>>

Blocked(p) == left[p] > 0 /\ pout[p] # None /\ fill[pout[p]] = CAP

(* A write never raises SIGPIPE: the writer itself has inherited the read  *)
(* end, which was open when it was forked.                                 *)
Write(p) ==
  /\ p \in Running /\ left[p] > 0 /\ ~ Blocked(p)
  /\ left' = [left EXCEPT ![p] = @ - 1]
  /\ fill' = IF pout[p] = None THEN fill ELSE [fill EXCEPT ![pout[p]] = @ + 1]
  /\ UNCHANGED <<shellVars, reads, pin, pout, held, pending, pstate>>

(* A filter copies a chunk before it reads the next.                       *)
Read(p) ==
  /\ p \in Running /\ reads[p] /\ left[p] = 0
  /\ pin[p] # None /\ fill[pin[p]] > 0
  /\ fill' = [fill EXCEPT ![pin[p]] = @ - 1]
  /\ left' = [left EXCEPT ![p] = 1]
  /\ UNCHANGED <<shellVars, reads, pin, pout, held, pending, pstate>>

(* End of file: the pipe is empty and nobody has its write end open.       *)
ReadEof(p) ==
  /\ p \in Running /\ reads[p] /\ left[p] = 0
  /\ pin[p] # None /\ fill[pin[p]] = 0
  /\ <<pin[p], 1>> \notin open /\ Writers(pin[p]) = {}
  /\ Ends(p)

Finish(p) ==
  /\ p \in Running /\ ~ reads[p] /\ left[p] = 0
  /\ Ends(p)

(* A filter at the terminal gets what the user types.                      *)
ReadTerminal(p) ==
  /\ p \in Running /\ reads[p] /\ left[p] = 0 /\ pin[p] = None
  /\ \/ Ends(p)
     \/ /\ left' = [left EXCEPT ![p] = 1]
        /\ UNCHANGED <<shellVars, reads, pin, pout, held, pending, pstate, fill>>

Step(p) == Write(p) \/ Read(p) \/ ReadEof(p) \/ Finish(p)

-----------------------------------------------------------------------------
process_handler ==
  \/ CrossInput \/ PlainInput
  \/ PipeOutput \/ NumberOutput \/ TerminalOutput
  \/ Wait \/ Close

User == Builtin \/ Exit \/ \E l \in Lines : StartLine(l)

Next ==
  \/ User \/ process_handler \/ ReapAll
  \/ \E p \in Proc : Step(p) \/ ReadTerminal(p)

(* The kernel runs every process that can run and delivers the signal; the *)
(* user need not type.                                                     *)
Fairness ==
  /\ WF_vars(process_handler) /\ WF_vars(ReapAll)
  /\ \A p \in Proc : WF_vars(Step(p))

Spec == Init /\ [][Next]_vars /\ Fairness

-----------------------------------------------------------------------------
TypeOK ==
  /\ pc \in {"prompt", "input", "fork", "wait", "close", "exit"}
  /\ line \in Lines \cup {<<>>}
  /\ at \in 0 .. FILE_MAX - 1 /\ lineNo \in 0 .. MaxLine /\ cnt_line \in Index
  /\ pc \in {"input", "fork", "wait", "close"} =>
        lineNo > 0 /\ line \in Lines /\ at \in 1 .. Len(line)
  /\ cross_line_pipe_table \in [Index -> [End -> Pipe \cup {None}]]
  /\ pipe_table \in [Index -> [End -> Pipe \cup {None}]]
  /\ in \in Pipe \cup {None} /\ open \in SUBSET PipeEnd
  /\ due \in [Pipe -> Nat] /\ skipped \in SUBSET (1 .. MaxLine) /\ pending \in BOOLEAN
  /\ pstate \in [Proc -> {"none", "running", "zombie", "reaped"}]
  /\ reads \in [Proc -> BOOLEAN]
  /\ pin \in [Proc -> Pipe \cup {None}] /\ pout \in [Proc -> Pipe \cup {None}]
  /\ held \in [Proc -> SUBSET PipeEnd]
  /\ left \in [Proc -> 0 .. MaxOut + 1] /\ fill \in [Pipe -> 0 .. CAP]

(* a was forked before b.                                                  *)
Before(a, b) == a[1] < b[1] \/ (a[1] = b[1] /\ a[2] < b[2])

(* Whoever can still write into a process's input was forked before it,    *)
(* and the shell cannot: no process waits for itself or for a later one to *)
(* end, although every child inherits all that is open (the close of the   *)
(* write end before the fork, and after it).                               *)
WritersEarlier ==
  \A q \in Running : pin[q] # None =>
    /\ <<pin[q], 1>> \notin open
    /\ \A p \in Writers(pin[q]) : Before(p, q)

(* A numbered pipe is read by the first process of the line it was made    *)
(* for, or, when that line was a built-in command, of the next line at its *)
(* place in the ring that is none.                                         *)
ReadWhenDue ==
  \A q \in Running : (pin[q] # None /\ due[pin[q]] # 0) =>
    /\ q[2] = 1
    /\ q[1] >= due[pin[q]] /\ (q[1] - due[pin[q]]) % FILE_MAX = 0
    /\ \A k \in due[pin[q]] .. q[1] - 1 :
          (k - due[pin[q]]) % FILE_MAX = 0 => k \in skipped

(* Until its line is reached, a numbered pipe is in its place in the ring, *)
(* open at both ends, so that no output is lost and no writer fails; and   *)
(* at the prompt the shell has no other pipe open.                         *)
KeptUntilDue ==
  /\ pc # "exit" =>
    \A p \in Pipe :
      due[p] > lineNo \/ (due[p] > 0 /\ due[p] = lineNo /\ pc = "input" /\ at = 1) =>
        /\ cross_line_pipe_table[due[p] % FILE_MAX] = [e \in End |-> p]
        /\ {<<p, 0>>, <<p, 1>>} \subseteq open
  /\ pc = "prompt" =>
    open = {<<cross_line_pipe_table[k][e], e>> :
              k \in {i \in Index : cross_line_pipe_table[i] # NoEnds}, e \in End}

(* A process is blocked on a full pipe that no running program reads: its  *)
(* line comes later, or its reader ended early.                            *)
Backlogged ==
  \E p \in Running : Blocked(p) /\ \A q \in Running : reads[q] => pin[q] # pout[p]

AtTerminal == \E p \in Running : reads[p] /\ pin[p] = None

(* What a process waits for in Step: room in its output, a chunk, or the   *)
(* end of its input.                                                       *)
CanStep(p) ==
  \/ left[p] > 0 /\ ~ Blocked(p)
  \/ left[p] = 0 /\ ~ reads[p]
  \/ /\ left[p] = 0 /\ pin[p] # None
     /\ \/ fill[pin[p]] > 0
        \/ <<pin[p], 1>> \notin open /\ Writers(pin[p]) = {}

(* Processes that inherit each other's pipe ends never wait for each other *)
(* in a circle, nor for the shell: while any is left, one can go on,       *)
(* unless one stands before a pipe that nobody reads or reads the terminal *)
(* (process_handler: which ends the shell closes, and when).               *)
SomeoneCanStep ==
  Running # {} => Backlogged \/ AtTerminal \/ \E p \in Running : CanStep(p)

(* The shell waits for ever only while such a process stands in the way,   *)
(* or a program waits for the user.                                        *)
WaitEnds ==
  <>[](pc = "wait") => <>[](Backlogged \/ AtTerminal)

(* No child stays a zombie while the shell lives.                          *)
ZombiesReaped ==
  []<>(pc = "exit" \/ \A p \in Proc : pstate[p] # "zombie")
===============================================================================
