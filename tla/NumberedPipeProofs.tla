-------------------------- MODULE NumberedPipeProofs --------------------------
(***************************************************************************)
(* Proofs about NumberedPipe, for every ring length, pipe capacity, length *)
(* of a session and set of lines that PipeAssumption allows.               *)
(***************************************************************************)
EXTENDS NumberedPipe, WellFoundedInduction, TLAPS

(* The segments that were forked up to now.                                *)
Past(p) ==
  \/ p[1] < lineNo
  \/ p[1] = lineNo /\ \/ pc \in {"prompt", "exit"}
                      \/ p[2] < at
                      \/ p[2] = at /\ pc \in {"wait", "close"}

(* An entry of a table: a pipe made in the past, and if its write end is   *)
(* not in the entry, the shell does not have it open.                      *)
Entry(c) ==
  /\ \A e \in End : c[e] # None => Past(c[e])
  /\ c[1] \in {None, c[0]}
  /\ c[0] # None /\ c[1] = None => <<c[0], 1>> \notin open

TablesInv ==
  \A k \in Index : Entry(cross_line_pipe_table[k]) /\ Entry(pipe_table[k])

PastInv ==
  /\ \A x \in open : Past(x[1])
  /\ \A q \in Running : Past(q) /\ (pin[q] # None => Past(pin[q]))

(* The input chosen for the next child cannot be written by the shell.     *)
InputInv ==
  pc = "fork" /\ in # None => Past(in) /\ <<in, 1>> \notin open

Order == TablesInv /\ PastInv /\ InputInv /\ WritersEarlier

IInv == TypeOK /\ Order

-----------------------------------------------------------------------------
(* A number taken modulo the ring's length is an index of the ring.        *)
LEMMA ModIndex == \A a \in Nat : a % FILE_MAX \in Index
BY PipeAssumption DEF Index

LEMMA NoneNoPipe == None \notin Pipe
BY DEF None, Pipe, Proc

(* What the proofs use of the shape of a line.                             *)
LEMMA LineFacts ==
  ASSUME NEW l \in Lines
  PROVE  /\ Len(l) \in 1 .. FILE_MAX - 1
         /\ \A k \in 1 .. Len(l) : l[k].n \in Nat
<1>1. LineShape(l)
  BY PipeAssumption
<1>2. \A k \in 1 .. Len(l) : l[k] \in Segments
  BY <1>1 DEF LineShape
<1> QED
  BY <1>1, <1>2 DEF LineShape, Segments

(* While a line is run, the segment names a process.                       *)
LEMMA SelfProc ==
  ASSUME TypeOK, pc \in {"input", "fork", "wait", "close"}
  PROVE  self \in Proc /\ self \in Pipe /\ at \in 1 .. FILE_MAX - 1 /\ at \in Index
<1>1. Len(line) \in 1 .. FILE_MAX - 1 /\ at \in 1 .. Len(line)
  BY LineFacts DEF TypeOK
<1> QED
  BY <1>1, PipeAssumption DEF TypeOK, self, Proc, Pipe, Index

-----------------------------------------------------------------------------
(* Type correctness, one lemma for the shell's steps and one for the       *)
(* programs'.                                                              *)

LEMMA InitType == Init => TypeOK
<1> SUFFICES ASSUME Init PROVE TypeOK
  OBVIOUS
<1>1. 0 \in Index /\ 0 \in 0 .. FILE_MAX - 1 /\ 0 \in 0 .. MaxLine
  BY PipeAssumption DEF Index
<1>2. 0 \in 0 .. MaxOut + 1 /\ 0 \in 0 .. CAP
  BY PipeAssumption
<1> QED
  BY <1>1, <1>2 DEF Init, TypeOK, NoEnds

LEMMA NextLineType ==
  ASSUME TypeOK, NextLine
  PROVE  lineNo' \in 1 .. MaxLine /\ cnt_line' \in Index
<1>1. cnt_line + 1 \in Nat
  BY PipeAssumption DEF TypeOK, Index
<1> QED
  BY <1>1, ModIndex, PipeAssumption DEF NextLine, TypeOK

LEMMA ForkType ==
  ASSUME TypeOK, pc = "fork", NEW out \in Pipe \cup {None}, Fork(out),
         open' \in SUBSET PipeEnd
  PROVE  /\ pstate' \in [Proc -> {"none", "running", "zombie", "reaped"}]
         /\ reads' \in [Proc -> BOOLEAN]
         /\ pin' \in [Proc -> Pipe \cup {None}] /\ pout' \in [Proc -> Pipe \cup {None}]
         /\ held' \in [Proc -> SUBSET PipeEnd]
         /\ left' \in [Proc -> 0 .. MaxOut + 1]
<1> USE DEF TypeOK, Fork
<1>1. \A k \in 0 .. MaxOut : k \in 0 .. MaxOut + 1
  BY PipeAssumption
<1>2. left' \in [Proc -> 0 .. MaxOut + 1]
  BY <1>1
<1>3. (line[at].prog = "filter") \in BOOLEAN
  OBVIOUS
<1>4. reads' \in [Proc -> BOOLEAN]
  BY <1>3
<1> QED
  BY <1>2, <1>4

LEMMA NewPipeType ==
  ASSUME TypeOK, pc = "fork"
  PROVE  WithNewPipe \in SUBSET PipeEnd /\ NewPipe \in [End -> Pipe \cup {None}]
BY SelfProc DEF TypeOK, WithNewPipe, NewPipe, PipeEnd, End

LEMMA TargetIndex ==
  ASSUME TypeOK, pc = "fork" PROVE target \in Index /\ (at + 1) % FILE_MAX \in Index
<1>1. line[at].n \in Nat /\ cnt_line \in Nat /\ at \in Nat
  BY LineFacts DEF TypeOK, Index
<1>2. cnt_line + line[at].n \in Nat /\ at + 1 \in Nat
  BY <1>1
<1> QED
  BY <1>2, ModIndex DEF target

LEMMA ShellType ==
  ASSUME TypeOK, User \/ process_handler \/ ReapAll
  PROVE  TypeOK'
<1>1. CASE Builtin
  BY <1>1, NextLineType, PipeAssumption DEF Builtin, NextLine, TypeOK, procVars
<1>2. ASSUME NEW l \in Lines, StartLine(l) PROVE TypeOK'
  <2>1. 1 \in 1 .. Len(l) /\ 1 \in 0 .. FILE_MAX - 1
    BY LineFacts, PipeAssumption
  <2>2. pipe_table' \in [Index -> [End -> Pipe \cup {None}]]
    BY <1>2 DEF StartLine, NoEnds
  <2> QED
    BY <1>2, <2>1, <2>2, NextLineType, PipeAssumption
    DEF StartLine, NextLine, TypeOK, procVars
<1>3. CASE Exit
  BY <1>3 DEF Exit, TypeOK, procVars
<1>4. CASE CrossInput
  BY <1>4 DEF CrossInput, TypeOK, procVars, cross, PipeEnd, End
<1>5. CASE PlainInput
  <2>1. at \in Index /\ 0 \in End
    BY <1>5, SelfProc DEF PlainInput, End
  <2>2. pipe_table[at] \in [End -> Pipe \cup {None}]
    BY <2>1 DEF TypeOK
  <2>3. in' \in Pipe \cup {None} /\ open' \in SUBSET PipeEnd
    BY <1>5, <2>1, <2>2 DEF PlainInput, TypeOK
  <2>4. pipe_table' = [pipe_table EXCEPT ![at] = [pipe_table[at] EXCEPT ![1] = None]]
    BY <1>5 DEF PlainInput
  <2>5. [pipe_table[at] EXCEPT ![1] = None] \in [End -> Pipe \cup {None}]
    BY <2>2
  <2>6. pipe_table' \in [Index -> [End -> Pipe \cup {None}]]
    BY <2>4, <2>5 DEF TypeOK
  <2> QED
    BY <1>5, <2>3, <2>6 DEF PlainInput, TypeOK, procVars
<1>6. CASE PipeOutput
  <2> USE <1>6 DEF PipeOutput, Output
  <2>1. open' \in SUBSET PipeEnd /\ self \in Pipe \cup {None}
    BY NewPipeType, SelfProc
  <2>2. pipe_table' \in [Index -> [End -> Pipe \cup {None}]]
    BY NewPipeType, TargetIndex DEF TypeOK
  <2> HIDE DEF PipeOutput
  <2>3. Fork(self) /\ UNCHANGED <<cross_line_pipe_table, due>> /\ pc' = "close" /\ pc = "fork"
    BY DEF PipeOutput
  <2> QED
    BY <2>1, <2>2, <2>3, ForkType DEF TypeOK, Fork
<1>7. CASE NumberOutput
  <2> DEFINE out == cross_line_pipe_table'[target][1]
  <2>0. Fork(out) /\ UNCHANGED pipe_table /\ pc' = "close" /\ pc = "fork"
    BY <1>7 DEF NumberOutput, Output
  <2>1. line[at].n \in Nat /\ lineNo \in Nat
    BY <2>0, LineFacts, PipeAssumption DEF TypeOK
  <2>2. /\ cross_line_pipe_table' \in [Index -> [End -> Pipe \cup {None}]]
        /\ open' \in SUBSET PipeEnd /\ due' \in [Pipe -> Nat]
    <3>1. CASE cross_line_pipe_table[target][1] = None
      <4>1. lineNo + line[at].n \in Nat
        BY <2>1
      <4>2. /\ open' = WithNewPipe
            /\ cross_line_pipe_table' = [cross_line_pipe_table EXCEPT ![target] = NewPipe]
            /\ due' = [due EXCEPT ![self] = lineNo + line[at].n]
        BY <1>7, <3>1 DEF NumberOutput
      <4> QED
        BY <2>0, <4>1, <4>2, NewPipeType DEF TypeOK
    <3>2. CASE cross_line_pipe_table[target][1] # None
      BY <1>7, <3>2 DEF NumberOutput, TypeOK
    <3> QED
      BY <3>1, <3>2
  <2>3. out \in Pipe \cup {None}
    BY <2>0, <2>2, TargetIndex DEF End
  <2> HIDE DEF out
  <2> QED
    BY <2>0, <2>2, <2>3, ForkType DEF TypeOK, Fork
<1>8. CASE TerminalOutput
  <2>1. /\ Fork(None) /\ UNCHANGED <<open, pipe_table, cross_line_pipe_table, due>>
        /\ pc' = "wait" /\ pc = "fork"
    BY <1>8 DEF TerminalOutput, Output
  <2>2. open' \in SUBSET PipeEnd
    BY <2>1 DEF TypeOK
  <2> QED
    BY <2>1, <2>2, ForkType DEF TypeOK, Fork
<1>9. CASE Wait
  BY <1>9, SelfProc DEF Wait, TypeOK, procVars
<1>10. CASE Close
  <2>1. /\ pipe_table' \in [Index -> [End -> Pipe \cup {None}]]
        /\ cross_line_pipe_table' \in [Index -> [End -> Pipe \cup {None}]]
        /\ open' \in SUBSET PipeEnd /\ in' \in Pipe \cup {None}
    BY <1>10 DEF Close, TypeOK, NoEnds
  <2>2. /\ at' \in 0 .. FILE_MAX - 1 /\ line' \in Lines \cup {<<>>}
        /\ pc' \in {"prompt", "input"}
        /\ pc' = "input" => line' \in Lines /\ at' \in 1 .. Len(line')
    BY <1>10, LineFacts, PipeAssumption DEF Close, TypeOK
  <2> QED
    BY <1>10, <2>1, <2>2 DEF Close, TypeOK, procVars
<1>11. CASE ReapAll
  BY <1>11 DEF ReapAll, TypeOK, shellVars, procVars
<1> QED
  BY <1>1, <1>2, <1>3, <1>4, <1>5, <1>6, <1>7, <1>8, <1>9, <1>10, <1>11
  DEF User, process_handler

LEMMA EndsType ==
  ASSUME TypeOK, NEW p \in Proc, Ends(p) PROVE TypeOK'
<1>1. 0 \in 0 .. MaxOut + 1
  BY PipeAssumption
<1> QED
  BY <1>1 DEF Ends, TypeOK, shellVars

LEMMA StepType ==
  ASSUME TypeOK, NEW p \in Proc, Step(p) \/ ReadTerminal(p) PROVE TypeOK'
<1>1. CASE Ends(p)
  BY <1>1, EndsType
<1>2. CASE Write(p)
  <2>1. left[p] - 1 \in 0 .. MaxOut + 1
    BY <1>2, PipeAssumption DEF Write, TypeOK
  <2>2. left' \in [Proc -> 0 .. MaxOut + 1]
    BY <1>2, <2>1 DEF Write, TypeOK
  <2>3. fill' \in [Pipe -> 0 .. CAP]
    BY <1>2, PipeAssumption DEF Write, Blocked, TypeOK
  <2> QED
    BY <1>2, <2>2, <2>3 DEF Write, TypeOK, shellVars
<1>3. CASE Read(p)
  <2>1. 1 \in 0 .. MaxOut + 1
    BY PipeAssumption
  <2>2. left' \in [Proc -> 0 .. MaxOut + 1]
    BY <1>3, <2>1 DEF Read, TypeOK
  <2>3. fill' \in [Pipe -> 0 .. CAP]
    BY <1>3, PipeAssumption DEF Read, TypeOK
  <2> QED
    BY <1>3, <2>2, <2>3 DEF Read, TypeOK, shellVars
<1>4. CASE ReadTerminal(p) /\ ~ Ends(p)
  <2>1. 1 \in 0 .. MaxOut + 1
    BY PipeAssumption
  <2>2. left' \in [Proc -> 0 .. MaxOut + 1]
    BY <1>4, <2>1 DEF ReadTerminal, TypeOK
  <2> QED
    BY <1>4, <2>2 DEF ReadTerminal, TypeOK, shellVars
<1> QED
  BY <1>1, <1>2, <1>3, <1>4 DEF Step, ReadEof, Finish

LEMMA TypeStep == TypeOK /\ [Next]_vars => TypeOK'
<1> SUFFICES ASSUME TypeOK, [Next]_vars PROVE TypeOK'
  OBVIOUS
<1>1. CASE User \/ process_handler \/ ReapAll
  BY <1>1, ShellType
<1>2. ASSUME NEW p \in Proc, Step(p) \/ ReadTerminal(p) PROVE TypeOK'
  BY <1>2, StepType
<1>3. CASE UNCHANGED vars
  BY <1>3 DEF TypeOK, vars, shellVars, procVars
<1> QED
  BY <1>1, <1>2, <1>3 DEF Next

-----------------------------------------------------------------------------
(* What comes after: the order in which processes and pipes are made.      *)

(* Initially nothing is open and nothing runs.                             *)
LEMMA InitOrder == Init => Order
BY DEF Init, Order, TablesInv, PastInv, InputInv, WritersEarlier, Entry, Running, NoEnds, End

(* A step that opens nothing and forks nothing keeps the order, as long as *)
(* entries only lose ends the shell has closed.                            *)
LEMMA OrderKept ==
  ASSUME TypeOK, Order,
         \A p \in Pipe : Past(p) => Past(p)',
         open' \subseteq open,
         \A k \in Index :
           /\ Entry(cross_line_pipe_table[k]) => Entry(cross_line_pipe_table[k])'
           /\ Entry(pipe_table[k]) => Entry(pipe_table[k])',
         Running' \subseteq Running,
         \A q \in Running' : pin'[q] = pin[q] /\ held'[q] = held[q],
         InputInv'
  PROVE  Order'
<1>1. TablesInv'
  BY DEF Order, TablesInv
<1>2. PastInv'
  <2>1. \A x \in open' : x[1] \in Pipe
    BY DEF TypeOK, PipeEnd
  <2>2. \A q \in Running' : q \in Pipe /\ pin[q] \in Pipe \cup {None}
    BY DEF TypeOK, Running, Pipe
  <2> QED
    BY <2>1, <2>2 DEF Order, PastInv
<1>3. WritersEarlier'
  BY DEF Order, WritersEarlier, Writers, Before
<1> QED
  BY <1>1, <1>2, <1>3 DEF Order

(* The same for steps that change no table and no process.                 *)
LEMMA OrderUnchanged ==
  ASSUME TypeOK, Order, UNCHANGED <<cross_line_pipe_table, pipe_table, open>>,
         \A p \in Pipe : Past(p) => Past(p)',
         Running' \subseteq Running,
         \A q \in Running' : pin'[q] = pin[q] /\ held'[q] = held[q],
         InputInv'
  PROVE  Order'
<1>1. ASSUME NEW c \in [End -> Pipe \cup {None}], Entry(c)
      PROVE  Entry(c)'
  BY <1>1 DEF Entry
<1>2. \A k \in Index :
        /\ cross_line_pipe_table[k] \in [End -> Pipe \cup {None}]
        /\ pipe_table[k] \in [End -> Pipe \cup {None}]
  BY DEF TypeOK
<1>3. \A k \in Index :
        /\ Entry(cross_line_pipe_table[k]) => Entry(cross_line_pipe_table[k])'
        /\ Entry(pipe_table[k]) => Entry(pipe_table[k])'
  BY <1>2 DEF Entry
<1> QED
  BY <1>3, OrderKept

(* At a fork, the past is strictly before the child.                       *)
LEMMA PastAtFork ==
  ASSUME TypeOK, pc = "fork", NEW p \in Pipe, Past(p)
  PROVE  p # self /\ Before(p, self)
<1>1. p = <<p[1], p[2]>> /\ p[1] \in Int /\ p[2] \in Int /\ at \in Int /\ lineNo \in Int
  BY PipeAssumption DEF Pipe, Proc, TypeOK
<1> QED
  BY <1>1 DEF Past, self, Before

(* A child is forked with the ends that are open, those of a pipe made for *)
(* it among them; all that exists is earlier than it.                      *)
LEMMA ForkOrder ==
  ASSUME TypeOK, Order, pc = "fork", pc' \in {"close", "wait"}, NEW out, Fork(out),
         open' = open \/ open' = WithNewPipe,
         \A k \in Index :
           /\ \/ cross_line_pipe_table'[k] = cross_line_pipe_table[k]
              \/ cross_line_pipe_table'[k] = NewPipe
           /\ pipe_table'[k] = pipe_table[k] \/ pipe_table'[k] = NewPipe
  PROVE  Order'
<1>1. self \in Pipe /\ self \in Proc /\ self # None
  BY SelfProc, NoneNoPipe
<1>2. \A p : Past(p) => Past(p)'
  BY DEF Past, Fork
<1>3. \A p : p = self => Past(p)'
  BY DEF Past, Fork, self
<1>4. open' \subseteq open \cup {<<self, 0>>, <<self, 1>>}
  BY DEF WithNewPipe
<1>5. \A p \in Pipe : Past(p) /\ <<p, 1>> \notin open => <<p, 1>> \notin open'
  BY <1>4, PastAtFork
<1>6. ASSUME NEW c \in [End -> Pipe \cup {None}], NEW d, Entry(c), d = c \/ d = NewPipe
      PROVE  /\ \A e \in End : d[e] # None => Past(d[e])'
             /\ d[1] \in {None, d[0]}
             /\ d[0] # None /\ d[1] = None => <<d[0], 1>> \notin open'
  <2>1. CASE d = c
    <3>1. c[0] \in Pipe \cup {None} /\ (c[0] # None => Past(c[0]))
      BY <1>6 DEF Entry, End
    <3> QED
      BY <1>2, <1>5, <1>6, <2>1, <3>1 DEF Entry
  <2>2. CASE d = NewPipe
    BY <1>1, <1>3, <2>2 DEF NewPipe, End
  <2> QED
    BY <1>6, <2>1, <2>2
<1>7. TablesInv'
  <2>1. \A k \in Index :
          /\ cross_line_pipe_table[k] \in [End -> Pipe \cup {None}]
          /\ pipe_table[k] \in [End -> Pipe \cup {None}]
          /\ Entry(cross_line_pipe_table[k]) /\ Entry(pipe_table[k])
    BY DEF TypeOK, Order, TablesInv
  <2> SUFFICES ASSUME NEW k \in Index
               PROVE  Entry(cross_line_pipe_table[k])' /\ Entry(pipe_table[k])'
    BY DEF TablesInv
  <2>2. Entry(cross_line_pipe_table[k])'
    BY <1>6, <2>1 DEF Entry
  <2>3. Entry(pipe_table[k])'
    BY <1>6, <2>1 DEF Entry
  <2> QED
    BY <2>2, <2>3
<1>8. Running' = Running \cup {self}
  BY <1>1 DEF Running, Fork, TypeOK
<1>9. /\ pin'[self] = in /\ held'[self] = open'
      /\ \A q \in Running \ {self} : pin'[q] = pin[q] /\ held'[q] = held[q]
  BY <1>1 DEF Fork, TypeOK, Running
<1>10. \A q \in Running : q \in Pipe /\ Past(q) /\ q # self /\ Before(q, self)
  BY PastAtFork DEF Order, PastInv, Running, Pipe
<1>11. \A q \in Running : pin[q] # None =>
         pin[q] \in Pipe /\ Past(pin[q]) /\ <<pin[q], 1>> \notin open'
  BY <1>5 DEF Order, PastInv, WritersEarlier, TypeOK, Running
<1>12. in # None => in \in Pipe /\ Past(in) /\ <<in, 1>> \notin open'
  BY <1>5 DEF Order, InputInv, TypeOK
<1>13. PastInv'
  <2>1. \A x \in open' : Past(x[1])'
    BY <1>2, <1>3, <1>4 DEF Order, PastInv
  <2>2. ASSUME NEW q \in Running' PROVE Past(q)'
    BY <1>2, <1>3, <1>8, <1>10, <2>2
  <2>3. ASSUME NEW q \in Running', NEW p, p = pin'[q], p # None PROVE Past(p)'
    <3>1. CASE q = self
      BY <1>2, <1>9, <1>12, <2>3, <3>1
    <3>2. CASE q \in Running \ {self}
      BY <1>2, <1>9, <1>11, <2>3, <3>2
    <3> QED
      BY <1>8, <2>3, <3>1, <3>2
  <2>4. \A q \in Running' : pin'[q] # None => Past(pin[q])'
    BY <2>3 DEF Past
  <2> QED
    BY <2>1, <2>2, <2>4 DEF PastInv
<1>14. WritersEarlier'
  <2> SUFFICES ASSUME NEW q \in Running', pin'[q] # None
               PROVE  /\ <<pin'[q], 1>> \notin open'
                      /\ \A p \in Running' : <<pin'[q], 1>> \in held'[p] => Before(p, q)
    BY DEF WritersEarlier, Writers
  <2>1. CASE q = self
    BY <1>8, <1>9, <1>10, <1>12, <2>1
  <2>2. CASE q \in Running \ {self}
    <3>1. \A p \in Running : <<pin[q], 1>> \in held[p] => Before(p, q)
      BY <1>9, <2>2 DEF Order, WritersEarlier, Writers
    <3> QED
      BY <1>8, <1>9, <1>10, <1>11, <2>2, <3>1
  <2> QED
    BY <1>8, <2>1, <2>2
<1>15. InputInv'
  BY DEF InputInv
<1> QED
  BY <1>7, <1>13, <1>14, <1>15 DEF Order

(* A line that starts makes everything before it the past.                 *)
LEMMA NextLineOrder ==
  ASSUME TypeOK, Order, NextLine, Builtin \/ \E l \in Lines : StartLine(l)
  PROVE  Order'
<1>1. \A p \in Pipe : Past(p) => Past(p)'
  <2> SUFFICES ASSUME NEW p \in Pipe, Past(p) PROVE Past(p)'
    OBVIOUS
  <2>1. p[1] \in Int /\ lineNo \in Int
    BY PipeAssumption DEF Pipe, Proc, TypeOK
  <2>2. p[1] <= lineNo /\ lineNo' = lineNo + 1
    BY <2>1 DEF Past, NextLine
  <2> QED
    BY <2>1, <2>2 DEF Past
<1>2. ASSUME NEW c \in [End -> Pipe \cup {None}], Entry(c) PROVE Entry(c)'
  BY <1>1, <1>2 DEF Entry, NextLine
<1>3. \A k \in Index :
        /\ cross_line_pipe_table[k] \in [End -> Pipe \cup {None}]
        /\ pipe_table[k] \in [End -> Pipe \cup {None}]
  BY DEF TypeOK
<1>4. \A k \in Index : Entry(cross_line_pipe_table[k]) => Entry(cross_line_pipe_table[k])'
  BY <1>2, <1>3 DEF Entry, NextLine
<1>5. \A k \in Index : Entry(pipe_table[k]) => Entry(pipe_table[k])'
  <2>1. CASE Builtin
    BY <1>2, <1>3, <2>1 DEF Entry, Builtin
  <2>2. CASE \E l \in Lines : StartLine(l)
    BY <2>2 DEF Entry, StartLine, NoEnds, End
  <2> QED
    BY <2>1, <2>2
<1>6. Running' = Running /\ open' \subseteq open
  BY DEF NextLine, Running
<1>7. \A q \in Running' : pin'[q] = pin[q] /\ held'[q] = held[q]
  BY DEF NextLine, procVars
<1>8. InputInv'
  BY DEF InputInv, Builtin, StartLine, NextLine
<1> QED
  BY <1>1, <1>4, <1>5, <1>6, <1>7, <1>8, OrderKept

(* The input: the shell closes its write end of what the child will read.  *)
LEMMA CrossInputOrder == ASSUME TypeOK, Order, CrossInput PROVE Order'
<1>1. \A p : Past(p) => Past(p)'
  BY DEF Past, CrossInput
<1>2. /\ cnt_line \in Index /\ cross \in [End -> Pipe \cup {None}] /\ Entry(cross)
      /\ cross[0] # None /\ 0 \in End /\ 1 \in End
  BY DEF TypeOK, Order, TablesInv, cross, CrossInput, End
<1>3. /\ open' = open \ {<<cross[1], 1>>}
      /\ cross_line_pipe_table'
           = [cross_line_pipe_table EXCEPT ![cnt_line] = [cross EXCEPT ![1] = None]]
      /\ pipe_table' = pipe_table
  BY DEF CrossInput, cross
<1>4. <<cross[0], 1>> \notin open'
  BY <1>2, <1>3 DEF Entry
<1>5. ASSUME NEW c \in [End -> Pipe \cup {None}], Entry(c)
      PROVE  Entry(c)'
  BY <1>1, <1>3, <1>5 DEF Entry
<1>6. ASSUME NEW c, c = [cross EXCEPT ![1] = None] PROVE Entry(c)'
  <2>1. c[0] = cross[0] /\ c[1] = None
    BY <1>2, <1>6
  <2>2. Past(c[0])'
    BY <1>1, <1>2, <2>1 DEF Entry
  <2> QED
    BY <1>2, <1>4, <2>1, <2>2 DEF Entry, End
<1>7. ASSUME NEW k \in Index
      PROVE  /\ Entry(cross_line_pipe_table[k]) => Entry(cross_line_pipe_table[k])'
             /\ Entry(pipe_table[k]) => Entry(pipe_table[k])'
  <2>1. /\ cross_line_pipe_table[k] \in [End -> Pipe \cup {None}]
        /\ pipe_table[k] \in [End -> Pipe \cup {None}]
    BY DEF TypeOK
  <2>2. Entry(pipe_table[k]) => Entry(pipe_table[k])'
    BY <1>3, <1>5, <2>1 DEF Entry
  <2>3. CASE k = cnt_line
    <3>1. cross_line_pipe_table'[k] = [cross EXCEPT ![1] = None]
      BY <1>3, <2>3 DEF TypeOK
    <3> QED
      BY <1>6, <2>2, <3>1 DEF Entry
  <2>4. CASE k # cnt_line
    <3>1. cross_line_pipe_table'[k] = cross_line_pipe_table[k]
      BY <1>3, <2>4 DEF TypeOK
    <3> QED
      BY <1>5, <2>1, <2>2, <3>1 DEF Entry
  <2> QED
    BY <2>3, <2>4
<1>8. Running' = Running /\ pin' = pin /\ held' = held
  BY DEF CrossInput, Running, procVars
<1>9. InputInv'
  <2>1. in' \in {cross[0], None}
    BY DEF CrossInput
  <2> QED
    BY <1>1, <1>2, <1>4, <2>1 DEF InputInv, Entry, Past
<1> QED
  BY <1>1, <1>3, <1>7, <1>8, <1>9, OrderKept

LEMMA PlainInputOrder == ASSUME TypeOK, Order, PlainInput PROVE Order'
<1> DEFINE own == pipe_table[at]
<1>1. \A p : Past(p) => Past(p)'
  BY DEF Past, PlainInput
<1>2. at \in Index
  BY SelfProc DEF PlainInput
<1>3. /\ own \in [End -> Pipe \cup {None}] /\ Entry(own)
      /\ 0 \in End /\ 1 \in End
  BY <1>2 DEF TypeOK, Order, TablesInv, End
<1>4. /\ open' = open \ {<<own[1], 1>>} /\ in' = own[0]
      /\ pipe_table' = [pipe_table EXCEPT ![at] = [own EXCEPT ![1] = None]]
      /\ cross_line_pipe_table' = cross_line_pipe_table
  BY DEF PlainInput
<1> HIDE DEF own
<1>5. own[0] # None => <<own[0], 1>> \notin open'
  BY <1>3, <1>4 DEF Entry
<1>6. ASSUME NEW c \in [End -> Pipe \cup {None}], Entry(c)
      PROVE  Entry(c)'
  BY <1>1, <1>4, <1>6 DEF Entry
<1>7. ASSUME NEW c, c = [own EXCEPT ![1] = None] PROVE Entry(c)'
  <2>1. c[0] = own[0] /\ c[1] = None
    BY <1>3, <1>7
  <2>2. c[0] # None => Past(c[0])'
    BY <1>1, <1>3, <2>1 DEF Entry
  <2> QED
    BY <1>5, <2>1, <2>2 DEF Entry, End
<1>8. ASSUME NEW k \in Index
      PROVE  /\ Entry(cross_line_pipe_table[k]) => Entry(cross_line_pipe_table[k])'
             /\ Entry(pipe_table[k]) => Entry(pipe_table[k])'
  <2>1. /\ cross_line_pipe_table[k] \in [End -> Pipe \cup {None}]
        /\ pipe_table[k] \in [End -> Pipe \cup {None}]
    BY DEF TypeOK
  <2>2. Entry(cross_line_pipe_table[k]) => Entry(cross_line_pipe_table[k])'
    BY <1>4, <1>6, <2>1 DEF Entry
  <2>3. CASE k = at
    <3>1. pipe_table'[k] = [own EXCEPT ![1] = None]
      BY <1>4, <2>3 DEF TypeOK
    <3> QED
      BY <1>7, <2>2, <3>1 DEF Entry
  <2>4. CASE k # at
    <3>1. pipe_table'[k] = pipe_table[k]
      BY <1>4, <2>4 DEF TypeOK
    <3> QED
      BY <1>6, <2>1, <2>2, <3>1 DEF Entry
  <2> QED
    BY <2>3, <2>4
<1>9. Running' = Running /\ pin' = pin /\ held' = held
  BY DEF PlainInput, Running, procVars
<1>10. InputInv'
  BY <1>1, <1>3, <1>4, <1>5 DEF InputInv, Entry, Past
<1> QED
  BY <1>1, <1>4, <1>8, <1>9, <1>10, OrderKept

(* The output: each branch is a fork with at most one new pipe.            *)
LEMMA OutputOrder ==
  ASSUME TypeOK, Order, PipeOutput \/ NumberOutput \/ TerminalOutput
  PROVE  Order'
<1>1. pc = "fork" /\ pc' \in {"close", "wait"}
  BY DEF PipeOutput, NumberOutput, TerminalOutput, Output
<1>2. target \in Index /\ (at + 1) % FILE_MAX \in Index
  BY <1>1, TargetIndex
<1>3. \E out : Fork(out)
  BY DEF PipeOutput, NumberOutput, TerminalOutput
<1>4. open' = open \/ open' = WithNewPipe
  BY DEF PipeOutput, NumberOutput, TerminalOutput
<1>5. ASSUME NEW k \in Index
      PROVE  /\ \/ cross_line_pipe_table'[k] = cross_line_pipe_table[k]
                \/ cross_line_pipe_table'[k] = NewPipe
             /\ pipe_table'[k] = pipe_table[k] \/ pipe_table'[k] = NewPipe
  BY <1>2 DEF PipeOutput, NumberOutput, TerminalOutput, TypeOK
<1> QED
  BY <1>1, <1>3, <1>4, <1>5, ForkOrder

LEMMA CloseOrder == ASSUME TypeOK, Order, Close PROVE Order'
<1>1. \A p \in Pipe : Past(p) => Past(p)'
  <2> SUFFICES ASSUME NEW p \in Pipe, Past(p) PROVE Past(p)'
    OBVIOUS
  <2>1. p[2] \in Int /\ at \in Int
    BY PipeAssumption DEF Pipe, Proc, TypeOK
  <2> QED
    BY <2>1 DEF Past, Close
<1>2. open' \subseteq open
  BY DEF Close
<1>3. ASSUME NEW c \in [End -> Pipe \cup {None}], Entry(c) PROVE Entry(c)'
  BY <1>1, <1>2, <1>3 DEF Entry
<1>4. ASSUME NEW c, c = NoEnds PROVE Entry(c)'
  BY <1>4 DEF Entry, NoEnds, End
<1>5. ASSUME NEW k \in Index
      PROVE  /\ Entry(cross_line_pipe_table[k]) => Entry(cross_line_pipe_table[k])'
             /\ Entry(pipe_table[k]) => Entry(pipe_table[k])'
  <2>1. /\ cross_line_pipe_table[k] \in [End -> Pipe \cup {None}]
        /\ pipe_table[k] \in [End -> Pipe \cup {None}]
    BY DEF TypeOK
  <2>2. /\ cross_line_pipe_table'[k] \in {cross_line_pipe_table[k], NoEnds}
        /\ pipe_table'[k] \in {pipe_table[k], NoEnds}
    BY DEF Close, TypeOK
  <2>3. Entry(cross_line_pipe_table[k]) => Entry(cross_line_pipe_table[k])'
    BY <1>3, <1>4, <2>1, <2>2 DEF Entry
  <2>4. Entry(pipe_table[k]) => Entry(pipe_table[k])'
    BY <1>3, <1>4, <2>1, <2>2 DEF Entry
  <2> QED
    BY <2>3, <2>4
<1>6. Running' = Running /\ pin' = pin /\ held' = held
  BY DEF Close, Running, procVars
<1>7. InputInv'
  BY DEF InputInv, Close
<1> QED
  BY <1>1, <1>2, <1>5, <1>6, <1>7, OrderKept

(* The steps that change no table: leaving, waiting and reaping.           *)
LEMMA QuietOrder ==
  ASSUME TypeOK, Order, Exit \/ Wait \/ ReapAll PROVE Order'
<1>1. CASE Exit
  <2>1. \A p : Past(p) => Past(p)'
    BY <1>1 DEF Past, Exit
  <2>2. ASSUME NEW c \in [End -> Pipe \cup {None}], Entry(c) PROVE Entry(c)'
    BY <1>1, <2>1, <2>2 DEF Entry, Exit
  <2>3. ASSUME NEW k \in Index
        PROVE  /\ Entry(cross_line_pipe_table[k]) => Entry(cross_line_pipe_table[k])'
               /\ Entry(pipe_table[k]) => Entry(pipe_table[k])'
    <3>1. /\ cross_line_pipe_table[k] \in [End -> Pipe \cup {None}]
          /\ pipe_table[k] \in [End -> Pipe \cup {None}]
      BY DEF TypeOK
    <3> QED
      BY <1>1, <2>2, <3>1 DEF Exit, Entry
  <2>4. /\ Running' = Running /\ pin' = pin /\ held' = held
        /\ open' \subseteq open /\ InputInv'
    BY <1>1 DEF Exit, Running, procVars, InputInv
  <2> QED
    BY <2>1, <2>3, <2>4, OrderKept
<1>2. CASE Wait
  BY <1>2, OrderUnchanged DEF Wait, Past, Running, procVars, InputInv, TypeOK
<1>3. CASE ReapAll
  BY <1>3, OrderUnchanged
  DEF ReapAll, Past, Running, shellVars, procVars, InputInv, Order, TypeOK
<1> QED
  BY <1>1, <1>2, <1>3

(* The programs: nobody gains an end.                                      *)
LEMMA StepOrder ==
  ASSUME TypeOK, Order, NEW p \in Proc, Step(p) \/ ReadTerminal(p) PROVE Order'
<1>1. UNCHANGED shellVars
  BY DEF Step, ReadTerminal, Write, Read, ReadEof, Finish, Ends
<1>2. /\ Running' \subseteq Running
      /\ \A q \in Running' : pin'[q] = pin[q] /\ held'[q] = held[q]
  <2>1. CASE Ends(p)
    BY <2>1 DEF Ends, Running, TypeOK
  <2>2. CASE UNCHANGED <<pin, held, pstate>>
    BY <2>2 DEF Running
  <2> QED
    BY <2>1, <2>2 DEF Step, ReadTerminal, Write, Read, ReadEof, Finish
<1>3. InputInv' /\ \A q \in Pipe : Past(q) => Past(q)'
  BY <1>1 DEF Order, InputInv, Past, shellVars
<1> QED
  BY <1>1, <1>2, <1>3, OrderUnchanged DEF shellVars

-----------------------------------------------------------------------------
LEMMA Inductive == IInv /\ [Next]_vars => IInv'
<1> SUFFICES ASSUME TypeOK, Order, [Next]_vars PROVE Order'
  BY TypeStep DEF IInv
<1>1. CASE User
  BY <1>1, NextLineOrder, QuietOrder DEF User, Builtin, StartLine
<1>2. CASE process_handler
  BY <1>2, CrossInputOrder, PlainInputOrder, OutputOrder, CloseOrder, QuietOrder
  DEF process_handler
<1>3. CASE ReapAll
  BY <1>3, QuietOrder
<1>4. ASSUME NEW p \in Proc, Step(p) \/ ReadTerminal(p) PROVE Order'
  BY <1>4, StepOrder
<1>5. CASE UNCHANGED vars
  BY <1>5, OrderUnchanged
  DEF vars, shellVars, procVars, Past, Running, InputInv, Order
<1> QED
  BY <1>1, <1>2, <1>3, <1>4, <1>5 DEF Next

LEMMA Invariance == Spec => []IInv
<1>1. Init => IInv
  BY InitType, InitOrder DEF IInv
<1> QED
  BY <1>1, Inductive, PTL DEF Spec

(* The shell's counters, tables and descriptors, and the processes', keep  *)
(* their range: no index leaves the ring, no pipe holds more than CAP.     *)
THEOREM ShellTypeCorrect == Spec => []TypeOK
<1>1. IInv => TypeOK
  BY DEF IInv
<1> QED
  BY <1>1, Invariance, PTL

(* The write ends of a process's input are held by earlier processes only, *)
(* and not by the shell: waiting for end of file is never circular.        *)
THEOREM NoCircularWait == Spec => []WritersEarlier
<1>1. IInv => WritersEarlier
  BY DEF IInv, Order
<1> QED
  BY <1>1, Invariance, PTL

-----------------------------------------------------------------------------
(* Places in the ring.  The place of a line is its number modulo the       *)
(* length of the ring; the quotient counts the rounds.                     *)

(* What division and remainder are, with names for the two results.        *)
LEMMA Division ==
  ASSUME NEW a \in Int, NEW b \in Int, b > 0, NEW q \in Int, q = a \div b,
         NEW r \in Int, r = a % b
  PROVE  a = b * q + r
OBVIOUS

LEMMA Rounds ==
  ASSUME NEW a \in Nat
  PROVE  \E q \in Nat, r \in Index : a = FILE_MAX * q + r /\ a % FILE_MAX = r
<1> DEFINE q == a \div FILE_MAX
           r == a % FILE_MAX
<1>1. FILE_MAX \in Int /\ FILE_MAX > 0 /\ q \in Nat /\ r \in Int /\ a \in Int
  BY PipeAssumption
<1>2. r \in Index
  BY ModIndex
<1>3. q = a \div FILE_MAX /\ r = a % FILE_MAX
  OBVIOUS
<1> HIDE DEF q, r
<1>4. a = FILE_MAX * q + r
  BY <1>1, <1>3, Division
<1> QED
  BY <1>1, <1>2, <1>3, <1>4

LEMMA OneRound ==
  ASSUME NEW q \in Int, NEW t \in Int, q < t
  PROVE  FILE_MAX * q + FILE_MAX <= FILE_MAX * t
<1>1. FILE_MAX * t = FILE_MAX * q + FILE_MAX + FILE_MAX * (t - q - 1)
  BY PipeAssumption
<1>2. t - q - 1 >= 0 /\ t - q - 1 \in Int
  OBVIOUS
<1>3. FILE_MAX * (t - q - 1) >= 0 /\ FILE_MAX * (t - q - 1) \in Int
  BY <1>2, PipeAssumption
<1> QED
  BY <1>1, <1>3, PipeAssumption

(* Division with remainder has one result.                                 *)
LEMMA RoundsUnique ==
  ASSUME NEW q \in Int, NEW r \in Index, NEW a \in Nat, a = FILE_MAX * q + r
  PROVE  a % FILE_MAX = r
<1>1. FILE_MAX \in Int /\ FILE_MAX > 0 /\ r \in Int /\ 0 <= r /\ r < FILE_MAX
  BY PipeAssumption DEF Index
<1> QED
  BY <1>1

(* Two lines at one place of the ring and less than a round apart are one. *)
LEMMA SamePlace ==
  ASSUME NEW a \in Nat, NEW b \in Nat, a % FILE_MAX = b % FILE_MAX,
         a < b + FILE_MAX, b < a + FILE_MAX
  PROVE  a = b
<1>1. PICK q \in Nat, r \in Index : a = FILE_MAX * q + r /\ a % FILE_MAX = r
  BY Rounds
<1>2. PICK t \in Nat, s \in Index : b = FILE_MAX * t + s /\ b % FILE_MAX = s
  BY Rounds
<1>3. FILE_MAX * q \in Int /\ FILE_MAX * t \in Int /\ r \in Int /\ FILE_MAX \in Int
  BY PipeAssumption DEF Index
<1>4. ~ q < t /\ ~ t < q
  BY <1>1, <1>2, <1>3, OneRound
<1> QED
  BY <1>1, <1>2, <1>4

(* Lines are at one place when whole rounds lie between them.              *)
LEMMA WholeRounds ==
  ASSUME NEW a \in Nat, NEW b \in Nat, b <= a
  PROVE  (a - b) % FILE_MAX = 0 <=> a % FILE_MAX = b % FILE_MAX
<1>1. PICK q \in Nat, r \in Index : a = FILE_MAX * q + r /\ a % FILE_MAX = r
  BY Rounds
<1>2. PICK t \in Nat, s \in Index : b = FILE_MAX * t + s /\ b % FILE_MAX = s
  BY Rounds
<1>3. PICK u \in Nat, v \in Index : a - b = FILE_MAX * u + v /\ (a - b) % FILE_MAX = v
  <2>1. a - b \in Nat
    OBVIOUS
  <2> QED
    BY <2>1, Rounds
<1>4. /\ FILE_MAX * q \in Int /\ FILE_MAX * t \in Int /\ FILE_MAX * u \in Int
      /\ r \in Int /\ s \in Int /\ v \in Int /\ 0 \in Index
  BY PipeAssumption DEF Index
<1>5. ASSUME v = 0 PROVE r = s
  <2>1. FILE_MAX * (t + u) = FILE_MAX * t + FILE_MAX * u /\ t + u \in Int
    BY PipeAssumption
  <2>2. a = FILE_MAX * (t + u) + s
    BY <1>2, <1>3, <1>4, <1>5, <2>1
  <2> QED
    BY <1>1, <2>1, <2>2, RoundsUnique
<1>6. ASSUME r = s PROVE v = 0
  <2>1. FILE_MAX * (q - t) = FILE_MAX * q - FILE_MAX * t /\ q - t \in Int
    BY PipeAssumption
  <2>2. a - b = FILE_MAX * (q - t) + 0 /\ a - b \in Nat
    BY <1>1, <1>2, <1>4, <1>6, <2>1
  <2> QED
    BY <1>3, <1>4, <2>1, <2>2, RoundsUnique
<1> QED
  BY <1>1, <1>2, <1>3, <1>5, <1>6

(* The place of a line n further on.                                       *)
LEMMA FurtherOn ==
  ASSUME NEW a \in Nat, NEW n \in Nat
  PROVE  ((a % FILE_MAX) + n) % FILE_MAX = (a + n) % FILE_MAX
<1>1. PICK q \in Nat, r \in Index : a = FILE_MAX * q + r /\ a % FILE_MAX = r
  BY Rounds
<1>2. r + n \in Nat /\ a + n \in Nat
  BY DEF Index
<1>3. PICK t \in Nat, s \in Index : r + n = FILE_MAX * t + s /\ (r + n) % FILE_MAX = s
  BY <1>2, Rounds
<1>4. FILE_MAX * (q + t) = FILE_MAX * q + FILE_MAX * t /\ q + t \in Int
  BY PipeAssumption
<1>5. FILE_MAX * q \in Int /\ FILE_MAX * t \in Int /\ r \in Int /\ s \in Int
  BY PipeAssumption DEF Index
<1>6. a + n = FILE_MAX * (q + t) + s
  BY <1>1, <1>3, <1>4, <1>5
<1>7. (a + n) % FILE_MAX = s
  BY <1>2, <1>4, <1>6, RoundsUnique
<1> QED
  BY <1>1, <1>3, <1>7

-----------------------------------------------------------------------------
(* What lies in the ring.  The tables hold exactly the pipe ends the shell *)
(* has open; a pipe in the ring lies at the place of the line it was made  *)
(* for, and that line and those a round later, up to now, were built-in    *)
(* commands.                                                               *)

InLine == pc \in {"input", "fork", "wait", "close"}

Counted == cnt_line = lineNo % FILE_MAX

Dues == \A p \in Pipe : due[p] # 0 => Past(p) /\ due[p] < lineNo + FILE_MAX

(* Every line of the place of line d up to now was a built-in command,     *)
(* except a line that is being run.                                        *)
Passed(d) ==
  \A i \in d .. lineNo :
    (i - d) % FILE_MAX = 0 => i \in skipped \/ (InLine /\ i = lineNo)

Ring ==
  \A s \in Index, p \in Pipe : cross_line_pipe_table[s][0] = p =>
    /\ due[p] > 0 /\ due[p] % FILE_MAX = s /\ Passed(due[p])
    /\ s = cnt_line /\ InLine => at = 1

Paired ==
  \A s \in Index :
    \/ cross_line_pipe_table[s][1] = cross_line_pipe_table[s][0]
    \/ /\ s = cnt_line /\ pc \in {"fork", "wait", "close"}
       /\ cross_line_pipe_table[s][1] = None

(* An ordinary pipe is the one between this segment and the one before it, *)
(* or the next.                                                            *)
Plain ==
  \A s \in Index, e \in End, p \in Pipe : pipe_table[s][e] = p =>
    /\ InLine /\ p = <<lineNo, s - 1>> /\ due[p] = 0
    /\ s = at \/ (s = at + 1 /\ pc = "close" /\ line[at].term = "pipe")

Tabled(p, e) ==
  \E s \in Index : cross_line_pipe_table[s][e] = p \/ pipe_table[s][e] = p

Opened ==
  pc # "exit" => \A p \in Pipe, e \in End : <<p, e>> \in open <=> Tabled(p, e)

Kept ==
  \A p \in Pipe :
    due[p] > lineNo \/ (due[p] > 0 /\ due[p] = lineNo /\ pc = "input" /\ at = 1) =>
      cross_line_pipe_table[due[p] % FILE_MAX][0] = p

Tables == Counted /\ Dues /\ Ring /\ Paired /\ Plain /\ Opened /\ Kept

(* The input chosen for the next child is due at its line.                 *)
Chosen ==
  pc = "fork" /\ in # None /\ due[in] # 0 =>
    /\ at = 1
    /\ lineNo >= due[in] /\ (lineNo - due[in]) % FILE_MAX = 0
    /\ \A i \in due[in] .. lineNo - 1 : (i - due[in]) % FILE_MAX = 0 => i \in skipped

RingInv == Tables /\ Chosen /\ ReadWhenDue

-----------------------------------------------------------------------------
LEMMA LineEnds ==
  ASSUME NEW l \in Lines
  PROVE  /\ l[Len(l)].term = "end"
         /\ \A i \in 1 .. Len(l) :
              /\ l[i].term = "pipe" => i < Len(l)
              /\ l[i].term = "number" => l[i].n \in 1 .. FILE_MAX - 1
<1>1. LineShape(l)
  BY PipeAssumption
<1>2. \A i \in 1 .. Len(l) : i < Len(l) \/ i = Len(l)
  BY <1>1 DEF LineShape
<1> QED
  BY <1>1, <1>2 DEF LineShape

(* The types the proofs below use.                                         *)
LEMMA Ranges ==
  ASSUME TypeOK
  PROVE  /\ lineNo \in Nat /\ at \in Nat /\ FILE_MAX \in Nat /\ FILE_MAX > 0
         /\ cnt_line \in Index /\ Index = 0 .. FILE_MAX - 1 /\ End = {0, 1}
         /\ \A s \in Index, e \in End : /\ cross_line_pipe_table[s][e] \in Pipe \cup {None}
                                        /\ pipe_table[s][e] \in Pipe \cup {None}
         /\ \A p \in Pipe : due[p] \in Nat
         /\ None \notin Pipe
BY NoneNoPipe, PipeAssumption DEF TypeOK, Index, End

LEMMA InitRing == Init => RingInv
<1> SUFFICES ASSUME Init PROVE RingInv
  OBVIOUS
<1>1. TypeOK
  BY InitType
<1>2. \A s \in Index, e \in End : /\ cross_line_pipe_table[s][e] = None
                                  /\ pipe_table[s][e] = None
  BY DEF Init, NoEnds, End
<1>3. Counted
  <2>1. 0 = FILE_MAX * 0 + 0 /\ 0 \in Index
    BY PipeAssumption DEF Index
  <2>2. 0 % FILE_MAX = 0
    BY <2>1, RoundsUnique
  <2> QED
    BY <2>2 DEF Init, Counted
<1>4. Dues /\ Kept
  BY DEF Init, Dues, Kept
<1>5. Ring /\ Paired /\ Plain
  BY <1>1, <1>2, Ranges DEF Ring, Paired, Plain, End
<1>6. Opened
  BY <1>1, <1>2, Ranges DEF Init, Opened, Tabled
<1>7. Chosen /\ ReadWhenDue
  BY DEF Init, Chosen, ReadWhenDue, Running
<1> QED
  BY <1>3, <1>4, <1>5, <1>6, <1>7 DEF RingInv, Tables

(* Steps that leave the tables and the place in the line alone.            *)
LEMMA TablesFrame ==
  ASSUME TypeOK, Tables,
         UNCHANGED <<line, at, lineNo, cnt_line, cross_line_pipe_table, pipe_table,
                     open, due, skipped>>,
         pc' = pc \/ (pc \in {"fork", "wait"} /\ pc' \in {"wait", "close"})
  PROVE  Tables'
<1> USE DEF Tables
<1>1. InLine' = InLine /\ \A p : Past(p) => Past(p)'
  BY DEF InLine, Past
<1>2. Counted' /\ Dues'
  BY <1>1 DEF Counted, Dues
<1>3. Ring'
  BY <1>1 DEF Ring, Passed
<1>4. Paired'
  BY DEF Paired
<1>5. Plain'
  BY <1>1 DEF Plain
<1>6. Opened' /\ Kept'
  BY DEF Opened, Kept, Tabled
<1> QED
  BY <1>2, <1>3, <1>4, <1>5, <1>6

(* Nobody who runs already gets another input.                             *)
LEMMA ReadsFrame ==
  ASSUME TypeOK, ReadWhenDue, Running' \subseteq Running,
         \A q \in Running' : pin'[q] = pin[q],
         due' = due, skipped \subseteq skipped'
  PROVE  ReadWhenDue'
BY DEF ReadWhenDue

(* At the prompt no ordinary pipe is left and the ring's pipes are whole.  *)
LEMMA AtPrompt ==
  ASSUME TypeOK, Tables, pc = "prompt"
  PROVE  /\ \A s \in Index, e \in End : pipe_table[s][e] = None
         /\ \A s \in Index : cross_line_pipe_table[s][1] = cross_line_pipe_table[s][0]
         /\ ~ InLine
BY Ranges DEF Tables, Plain, Paired, InLine

(* A line begins: built-in commands are skipped, any other is run.         *)
LEMMA NextLineTables ==
  ASSUME TypeOK, Tables, Builtin \/ \E l \in Lines : StartLine(l)
  PROVE  Tables'
<1>1. /\ pc = "prompt" /\ lineNo' = lineNo + 1 /\ cnt_line' = (cnt_line + 1) % FILE_MAX
      /\ UNCHANGED <<cross_line_pipe_table, open, due>>
      /\ \/ pc' = "prompt" /\ skipped' = skipped \cup {lineNo'} /\ pipe_table' = pipe_table
         \/ /\ pc' = "input" /\ at' = 1 /\ skipped' = skipped
            /\ pipe_table' = [i \in Index |-> NoEnds]
  BY DEF Builtin, StartLine, NextLine
<1>2. \A s \in Index, e \in End : pipe_table[s][e] = None /\ pipe_table'[s][e] = None
  BY <1>1, AtPrompt DEF NoEnds, End
<1>3. \A p \in Pipe : Past(p) => Past(p)'
  <2> SUFFICES ASSUME NEW p \in Pipe, Past(p) PROVE Past(p)'
    OBVIOUS
  <2>1. p[1] \in Int /\ lineNo \in Int
    BY Ranges DEF Pipe, Proc
  <2>2. p[1] <= lineNo
    BY <2>1 DEF Past
  <2> QED
    BY <1>1, <2>1, <2>2 DEF Past
<1>4. Counted'
  BY <1>1, Ranges, FurtherOn DEF Tables, Counted
<1>5. Dues'
  BY <1>1, <1>3, Ranges DEF Tables, Dues
<1>6. Ring'
  <2>1. \A s \in Index, p \in Pipe : cross_line_pipe_table'[s][0] = p =>
          due'[p] > 0 /\ due'[p] % FILE_MAX = s /\ Passed(due[p])
    BY <1>1 DEF Tables, Ring
  <2>2. ASSUME NEW d \in Nat, Passed(d)
        PROVE  \A i \in d .. lineNo' :
                 (i - d) % FILE_MAX = 0 => i \in skipped' \/ (InLine' /\ i = lineNo')
    <3>1. \A i \in d .. lineNo' : i = lineNo' \/ i \in d .. lineNo
      BY <1>1, Ranges
    <3> QED
      BY <1>1, <2>2, <3>1, AtPrompt DEF Passed, InLine
  <2>3. \A p \in Pipe : Passed(due[p]) => Passed(due[p])'
    BY <1>1, <2>2, Ranges DEF Passed
  <2>4. InLine' => at' = 1
    BY <1>1 DEF InLine
  <2> QED
    BY <1>1, <2>1, <2>3, <2>4 DEF Ring
<1>7. Paired'
  BY <1>1, AtPrompt DEF Paired
<1>8. Plain'
  BY <1>2, Ranges DEF Plain
<1>9. Opened'
  <2>1. \A p \in Pipe, e \in End : Tabled(p, e)' <=> Tabled(p, e)
    BY <1>1, <1>2, Ranges DEF Tabled
  <2> QED
    BY <1>1, <2>1 DEF Tables, Opened
<1>10. Kept'
  BY <1>1, Ranges DEF Tables, Kept
<1> QED
  BY <1>4, <1>5, <1>6, <1>7, <1>8, <1>9, <1>10 DEF Tables

(* The place of the current line: its pipe is due by now.                  *)
LEMMA DueNow ==
  ASSUME TypeOK, Tables, NEW p \in Pipe, cross_line_pipe_table[cnt_line][0] = p
  PROVE  lineNo >= due[p] /\ (lineNo - due[p]) % FILE_MAX = 0
<1>1. due[p] \in Nat /\ due[p] % FILE_MAX = lineNo % FILE_MAX /\ due[p] < lineNo + FILE_MAX
  BY Ranges DEF Tables, Ring, Counted, Dues
<1>2. lineNo >= due[p]
  BY <1>1, SamePlace, Ranges
<1> QED
  BY <1>1, <1>2, WholeRounds, Ranges

(* The input that comes from the ring.                                     *)
LEMMA CrossInputRing ==
  ASSUME TypeOK, Tables, CrossInput
  PROVE  Tables' /\ Chosen'
<1> DEFINE p == cross_line_pipe_table[cnt_line][0]
<1>1. p \in Pipe /\ cnt_line \in Index /\ 0 \in End /\ 1 \in End
  BY Ranges DEF CrossInput, cross
<1>2. at = 1 /\ in' = p /\ Passed(due[p]) /\ due[p] % FILE_MAX = cnt_line /\ due[p] > 0
  BY <1>1 DEF CrossInput, cross, Tables, Ring, InLine
<1>3. /\ pc = "input" /\ pc' = "fork" /\ InLine /\ InLine'
      /\ open' = open \ {<<cross_line_pipe_table[cnt_line][1], 1>>}
      /\ UNCHANGED <<line, at, lineNo, cnt_line, pipe_table, due, skipped>>
  BY DEF CrossInput, cross, InLine
<1>4. cross_line_pipe_table[cnt_line][1] = p
  BY <1>1, <1>3 DEF Tables, Paired
<1>5. ASSUME NEW s \in Index, NEW e \in End
      PROVE  cross_line_pipe_table'[s][e]
               = IF s = cnt_line /\ e = 1 THEN None ELSE cross_line_pipe_table[s][e]
  BY <1>1 DEF CrossInput, TypeOK
<1>6. \A s \in Index : cross_line_pipe_table'[s][0] = cross_line_pipe_table[s][0]
  BY <1>1, <1>5
<1> HIDE DEF p
<1>7. \A q : Past(q) => Past(q)'
  BY <1>3 DEF Past
<1>8. Counted' /\ Dues' /\ Kept'
  BY <1>3, <1>6, <1>7, <1>2, ModIndex, Ranges DEF Tables, Counted, Dues, Kept
<1>9. Ring'
  BY <1>3, <1>6 DEF Tables, Ring, Passed
<1>10. Paired'
  BY <1>3, <1>5, <1>6, <1>1 DEF Tables, Paired
<1>11. Plain'
  BY <1>3 DEF Tables, Plain
<1>12. Opened'
  <2> SUFFICES ASSUME NEW q \in Pipe, NEW e \in End
               PROVE  <<q, e>> \in open' <=> Tabled(q, e)'
    BY DEF Opened
  <2>1. <<q, e>> \in open <=> Tabled(q, e)
    BY <1>3 DEF Tables, Opened
  <2>2. CASE q = p /\ e = 1
    <3>1. \A s \in Index : cross_line_pipe_table'[s][1] # p
      <4> SUFFICES ASSUME NEW s \in Index, cross_line_pipe_table'[s][1] = p PROVE FALSE
        OBVIOUS
      <4>1. s # cnt_line /\ cross_line_pipe_table[s][1] = p
        BY <1>1, <1>5, Ranges
      <4>2. cross_line_pipe_table[s][0] = p
        BY <4>1 DEF Tables, Paired
      <4> QED
        BY <1>1, <1>2, <4>1, <4>2 DEF Tables, Ring
    <3>2. \A s \in Index : pipe_table'[s][1] # p
      BY <1>1, <1>2, <1>3, Ranges DEF Tables, Plain
    <3> QED
      BY <1>3, <1>4, <2>2, <3>1, <3>2 DEF Tabled
  <2>3. CASE ~ (q = p /\ e = 1)
    <3>1. \A s \in Index : cross_line_pipe_table'[s][e] = q <=> cross_line_pipe_table[s][e] = q
      BY <1>1, <1>4, <1>5, <2>3, Ranges
    <3>2. <<q, e>> \in open' <=> <<q, e>> \in open
      BY <1>3, <1>4, <2>3
    <3> QED
      BY <1>3, <2>1, <3>1, <3>2 DEF Tabled
  <2> QED
    BY <2>2, <2>3
<1>13. Tables'
  BY <1>8, <1>9, <1>10, <1>11, <1>12 DEF Tables
<1>14. Chosen'
  <2>1. lineNo >= due[p] /\ (lineNo - due[p]) % FILE_MAX = 0
    BY <1>1, DueNow DEF p
  <2>2. \A i \in due[p] .. lineNo - 1 : i \in due[p] .. lineNo /\ i # lineNo
    BY <1>1, Ranges
  <2> QED
    BY <1>2, <1>3, <2>1, <2>2 DEF Chosen, Passed
<1> QED
  BY <1>13, <1>14

(* The input from the segment before: an ordinary pipe, or nothing.        *)
LEMMA PlainInputRing ==
  ASSUME TypeOK, Tables, PlainInput
  PROVE  Tables' /\ Chosen'
<1> DEFINE own == pipe_table[at][1]
<1>1. at \in Index /\ 0 \in End /\ 1 \in End
  BY SelfProc DEF PlainInput, End
<1>2. /\ pc = "input" /\ pc' = "fork" /\ InLine /\ InLine'
      /\ open' = open \ {<<own, 1>>} /\ in' = pipe_table[at][0]
      /\ \A e \in End : cross_line_pipe_table[cnt_line][0] = None
      /\ UNCHANGED <<line, at, lineNo, cnt_line, cross_line_pipe_table, due, skipped>>
  BY <1>1 DEF PlainInput, cross, InLine
<1>3. ASSUME NEW s \in Index, NEW e \in End
      PROVE  pipe_table'[s][e] = IF s = at /\ e = 1 THEN None ELSE pipe_table[s][e]
  BY <1>1 DEF PlainInput, TypeOK
<1>4. own \in Pipe \cup {None} /\ (own # None => own = <<lineNo, at - 1>> /\ due[own] = 0)
  BY <1>1, Ranges DEF Tables, Plain
<1> HIDE DEF own
<1>5. \A q : Past(q) => Past(q)'
  BY <1>2 DEF Past
<1>6. Counted' /\ Dues' /\ Kept'
  BY <1>2, <1>5 DEF Tables, Counted, Dues, Kept
<1>7. Ring' /\ Paired'
  BY <1>2 DEF Tables, Ring, Paired, Passed
<1>8. Plain'
  BY <1>2, <1>3, Ranges DEF Tables, Plain
<1>9. Opened'
  <2> SUFFICES ASSUME NEW q \in Pipe, NEW e \in End
               PROVE  <<q, e>> \in open' <=> Tabled(q, e)'
    BY DEF Opened
  <2>1. <<q, e>> \in open <=> Tabled(q, e)
    BY <1>2 DEF Tables, Opened
  <2>2. CASE q = own /\ e = 1
    <3>1. \A s \in Index : pipe_table'[s][1] # q
      <4> SUFFICES ASSUME NEW s \in Index, pipe_table'[s][1] = q PROVE FALSE
        OBVIOUS
      <4>1. s # at /\ pipe_table[s][1] = q
        BY <1>1, <1>3, Ranges
      <4>2. q = <<lineNo, s - 1>> /\ q = <<lineNo, at - 1>>
        BY <1>1, <1>4, <2>2, <4>1, Ranges DEF Tables, Plain
      <4> QED
        BY <1>1, <4>1, <4>2, Ranges
    <3>2. \A s \in Index : cross_line_pipe_table[s][1] # q
      <4> SUFFICES ASSUME NEW s \in Index, cross_line_pipe_table[s][1] = q PROVE FALSE
        OBVIOUS
      <4>1. cross_line_pipe_table[s][0] = q
        BY <1>2, Ranges DEF Tables, Paired
      <4> QED
        BY <1>4, <2>2, <4>1, Ranges DEF Tables, Ring
    <3> QED
      BY <1>2, <2>2, <3>1, <3>2 DEF Tabled
  <2>3. CASE ~ (q = own /\ e = 1)
    <3>1. \A s \in Index : pipe_table'[s][e] = q <=> pipe_table[s][e] = q
      <4> SUFFICES ASSUME NEW s \in Index PROVE pipe_table'[s][e] = q <=> pipe_table[s][e] = q
        OBVIOUS
      <4>1. CASE s = at /\ e = 1
        BY <1>1, <1>3, <2>3, <4>1, Ranges DEF own
      <4>2. CASE ~ (s = at /\ e = 1)
        BY <1>3, <4>2
      <4> QED
        BY <4>1, <4>2
    <3>2. <<q, e>> \in open' <=> <<q, e>> \in open
      BY <1>2, <2>3
    <3> QED
      BY <1>2, <2>1, <3>1, <3>2 DEF Tabled
  <2> QED
    BY <2>2, <2>3
<1>10. Chosen'
  BY <1>1, <1>2, Ranges DEF Tables, Plain, Chosen
<1> QED
  BY <1>6, <1>7, <1>8, <1>9, <1>10 DEF Tables

(* Both ends of a pipe made for the child are in the table it is put into. *)
LEMMA NewPipeFacts ==
  ASSUME TypeOK, Order, Tables, pc = "fork"
  PROVE  /\ self \in Pipe /\ due[self] = 0
         /\ \A e \in End : NewPipe[e] = self
         /\ \A s \in Index, e \in End : /\ cross_line_pipe_table[s][e] # self
                                        /\ pipe_table[s][e] # self
         /\ \A p \in Pipe, e \in End :
              <<p, e>> \in WithNewPipe <=> p = self \/ <<p, e>> \in open
<1>1. self \in Pipe /\ ~ Past(self)
  BY SelfProc, PastAtFork
<1>2. due[self] = 0
  BY <1>1 DEF Tables, Dues
<1>3. \A s \in Index, e \in End : /\ cross_line_pipe_table[s][e] # self
                                  /\ pipe_table[s][e] # self
  BY <1>1, NoneNoPipe DEF Order, TablesInv, Entry
<1>4. \A p \in Pipe, e \in End :
        <<p, e>> \in WithNewPipe <=> p = self \/ <<p, e>> \in open
  BY DEF WithNewPipe, End
<1> QED
  BY <1>1, <1>2, <1>3, <1>4 DEF NewPipe

LEMMA PipeOutputTables == ASSUME TypeOK, Order, Tables, PipeOutput PROVE Tables'
<1>1. /\ pc = "fork" /\ line[at].term = "pipe" /\ pc' = "close" /\ InLine /\ InLine'
      /\ open' = WithNewPipe
      /\ pipe_table' = [pipe_table EXCEPT ![(at + 1) % FILE_MAX] = NewPipe]
      /\ UNCHANGED <<line, at, lineNo, cnt_line, cross_line_pipe_table, due, skipped>>
  BY DEF PipeOutput, Output, Fork, InLine
<1>2. at + 1 \in Index /\ (at + 1) % FILE_MAX = at + 1
  <2>1. line \in Lines /\ at \in 1 .. Len(line)
    BY <1>1 DEF TypeOK
  <2>2. at < Len(line) /\ Len(line) \in 1 .. FILE_MAX - 1
    BY <1>1, <2>1, LineEnds, LineFacts
  <2>3. at + 1 \in Index /\ at + 1 \in Nat /\ at + 1 = FILE_MAX * 0 + (at + 1)
    BY <2>1, <2>2, Ranges
  <2> QED
    BY <2>3, RoundsUnique
<1>3. ASSUME NEW s \in Index, NEW e \in End
      PROVE  pipe_table'[s][e] = IF s = at + 1 THEN self ELSE pipe_table[s][e]
  BY <1>1, <1>2, <1>3, NewPipeFacts DEF TypeOK
<1>4. \A e \in End : pipe_table[at + 1][e] = None
  BY <1>1, <1>2, Ranges DEF Tables, Plain
<1>5. \A q : Past(q) => Past(q)'
  BY <1>1 DEF Past
<1>6. Counted' /\ Dues' /\ Kept'
  BY <1>1, <1>5 DEF Tables, Counted, Dues, Kept
<1>7. Ring' /\ Paired'
  BY <1>1 DEF Tables, Ring, Paired, Passed
<1>8. Plain'
  <2> SUFFICES ASSUME NEW s \in Index, NEW e \in End, NEW p \in Pipe, pipe_table'[s][e] = p
               PROVE  /\ p = <<lineNo, s - 1>> /\ due[p] = 0
                      /\ s = at \/ s = at + 1
    BY <1>1 DEF Plain
  <2>1. CASE s = at + 1
    <3>1. p = self /\ due[p] = 0
      BY <1>1, <1>3, <2>1, NewPipeFacts
    <3>2. (at + 1) - 1 = at
      BY Ranges
    <3> QED
      BY <2>1, <3>1, <3>2 DEF self
  <2>2. CASE s # at + 1
    BY <1>1, <1>3, <2>2 DEF Tables, Plain
  <2> QED
    BY <2>1, <2>2
<1>9. Opened'
  <2> SUFFICES ASSUME NEW q \in Pipe, NEW e \in End
               PROVE  <<q, e>> \in open' <=> Tabled(q, e)'
    BY DEF Opened
  <2>1. <<q, e>> \in open <=> Tabled(q, e)
    BY <1>1 DEF Tables, Opened
  <2>2. <<q, e>> \in open' <=> q = self \/ <<q, e>> \in open
    BY <1>1, NewPipeFacts
  <2>3. Tabled(q, e)' <=> q = self \/ Tabled(q, e)
    BY <1>1, <1>2, <1>3, <1>4, Ranges DEF Tabled
  <2> QED
    BY <2>1, <2>2, <2>3
<1> QED
  BY <1>6, <1>7, <1>8, <1>9 DEF Tables

(* The place of a numbered pipe is that of its line, which is to come.     *)
LEMMA TargetPlace ==
  ASSUME TypeOK, Tables, pc = "fork", line[at].term = "number"
  PROVE  /\ line[at].n \in 1 .. FILE_MAX - 1
         /\ target \in Index /\ target # cnt_line
         /\ (lineNo + line[at].n) % FILE_MAX = target
<1> DEFINE n == line[at].n
<1>1. n \in 1 .. FILE_MAX - 1
  BY LineEnds DEF TypeOK
<1> HIDE DEF n
<1>2. /\ n \in Nat /\ lineNo + n \in Nat /\ lineNo \in Nat
      /\ n > 0 /\ n < FILE_MAX /\ FILE_MAX \in Nat
  <2>1. lineNo \in Nat /\ FILE_MAX \in Nat
    BY Ranges
  <2> QED
    BY <1>1, <2>1
<1>3. (cnt_line + n) % FILE_MAX = (lineNo + n) % FILE_MAX
  BY <1>2, FurtherOn DEF Tables, Counted
<1>4. (lineNo + n) % FILE_MAX # lineNo % FILE_MAX
  <2> SUFFICES ASSUME (lineNo + n) % FILE_MAX = lineNo % FILE_MAX PROVE FALSE
    OBVIOUS
  <2>1. lineNo + n < lineNo + FILE_MAX /\ lineNo < (lineNo + n) + FILE_MAX
    BY <1>2
  <2>2. lineNo + n = lineNo
    BY <1>2, <2>1, SamePlace
  <2> QED
    BY <1>2, <2>2
<1>5. target = (cnt_line + n) % FILE_MAX /\ target \in Index
  BY TargetIndex DEF target, n
<1> QED
  BY <1>1, <1>3, <1>4, <1>5 DEF Tables, Counted, n

LEMMA NumberOutputTables ==
  ASSUME TypeOK, Order, Tables, NumberOutput PROVE Tables'
<1> DEFINE n == line[at].n
           t == target
<1>1. /\ pc = "fork" /\ pc' = "close" /\ line[at].term = "number" /\ InLine /\ InLine'
      /\ UNCHANGED <<line, at, lineNo, cnt_line, pipe_table, skipped>>
  BY DEF NumberOutput, Output, Fork, InLine
<1>2. /\ n \in 1 .. FILE_MAX - 1 /\ t \in Index /\ t # cnt_line
      /\ (lineNo + n) % FILE_MAX = t /\ 0 \in End /\ 1 \in End
  BY <1>1, TargetPlace, Ranges
<1>3. CASE cross_line_pipe_table[t][1] # None
  <2>1. UNCHANGED <<open, cross_line_pipe_table, due>>
    BY <1>3 DEF NumberOutput
  <2> QED
    BY <1>1, <2>1, TablesFrame
<1>4. CASE cross_line_pipe_table[t][1] = None
  <2>1. /\ open' = WithNewPipe
        /\ cross_line_pipe_table' = [cross_line_pipe_table EXCEPT ![t] = NewPipe]
        /\ due' = [due EXCEPT ![self] = lineNo + n]
    BY <1>4 DEF NumberOutput
  <2> HIDE DEF n, t
  <2>2. \A e \in End : cross_line_pipe_table[t][e] = None
    BY <1>2, <1>4, Ranges DEF Tables, Paired
  <2>3. ASSUME NEW s \in Index, NEW e \in End
        PROVE  cross_line_pipe_table'[s][e]
                 = IF s = t THEN self ELSE cross_line_pipe_table[s][e]
    BY <1>1, <1>2, <2>1, NewPipeFacts DEF TypeOK
  <2>4. /\ due'[self] = lineNo + n /\ \A p \in Pipe \ {self} : due'[p] = due[p]
        /\ self \in Pipe
    BY <1>1, <2>1, NewPipeFacts DEF TypeOK
  <2>5. \A q : q = self \/ Past(q) => Past(q)'
    BY <1>1 DEF Past, self
  <2>6. lineNo + n < lineNo + FILE_MAX /\ lineNo + n > lineNo
    <3>1. lineNo \in Nat /\ FILE_MAX \in Nat
      BY Ranges
    <3> QED
      BY <1>2, <3>1
  <2>7. Counted' /\ Dues'
    <3>1. ASSUME NEW p \in Pipe, due'[p] # 0
          PROVE  Past(p)' /\ due'[p] < lineNo + FILE_MAX
      <4>1. CASE p = self
        BY <2>4, <2>5, <2>6, <4>1
      <4>2. CASE p # self
        BY <2>4, <2>5, <3>1, <4>2 DEF Tables, Dues
      <4> QED
        BY <4>1, <4>2
    <3> QED
      BY <1>1, <3>1 DEF Tables, Counted, Dues
  <2>8. Ring'
    <3> SUFFICES ASSUME NEW s \in Index, NEW p \in Pipe, cross_line_pipe_table'[s][0] = p
                 PROVE  /\ due'[p] > 0 /\ due'[p] % FILE_MAX = s /\ Passed(due'[p])
                        /\ s = cnt_line => at = 1
      BY <1>1 DEF Ring, Passed
    <3>1. CASE s = t
      <4>1. p = self /\ due'[p] = lineNo + n
        BY <1>2, <2>3, <2>4, <3>1
      <4>2. Passed(lineNo + n)
        BY <1>2, <2>6, Ranges DEF Passed
      <4> QED
        BY <1>2, <2>6, <3>1, <4>1, <4>2, Ranges
    <3>2. CASE s # t
      <4>1. cross_line_pipe_table[s][0] = p /\ p # self
        BY <1>1, <1>2, <2>3, <3>2, NewPipeFacts
      <4> QED
        BY <1>1, <2>4, <4>1 DEF Tables, Ring
    <3> QED
      BY <3>1, <3>2
  <2>9. Paired'
    <3> SUFFICES ASSUME NEW s \in Index
                 PROVE  \/ cross_line_pipe_table'[s][1] = cross_line_pipe_table'[s][0]
                        \/ s = cnt_line /\ cross_line_pipe_table'[s][1] = None
      BY <1>1 DEF Paired
    <3> QED
      BY <1>2, <2>3 DEF Tables, Paired
  <2>10. Plain'
    <3>1. \A s \in Index, e \in End : pipe_table[s][e] # self
      BY <1>1, NewPipeFacts
    <3> QED
      BY <1>1, <2>4, <3>1 DEF Tables, Plain
  <2>11. Opened'
    <3> SUFFICES ASSUME NEW q \in Pipe, NEW e \in End
                 PROVE  <<q, e>> \in open' <=> Tabled(q, e)'
      BY DEF Opened
    <3>1. <<q, e>> \in open <=> Tabled(q, e)
      BY <1>1 DEF Tables, Opened
    <3>2. <<q, e>> \in open' <=> q = self \/ <<q, e>> \in open
      BY <1>1, <2>1, NewPipeFacts
    <3>3. Tabled(q, e)' <=> q = self \/ Tabled(q, e)
      <4>1. ASSUME NEW s \in Index
            PROVE  cross_line_pipe_table'[s][e] = q
                     <=> cross_line_pipe_table[s][e] = q \/ (s = t /\ q = self)
        BY <1>2, <2>2, <2>3, NoneNoPipe
      <4> QED
        BY <1>1, <1>2, <4>1 DEF Tabled
    <3> QED
      BY <3>1, <3>2, <3>3
  <2>12. Kept'
    <3> SUFFICES ASSUME NEW p \in Pipe, due'[p] > lineNo
                 PROVE  cross_line_pipe_table'[due'[p] % FILE_MAX][0] = p
      BY <1>1 DEF Kept
    <3>1. CASE p = self
      BY <1>2, <2>3, <2>4, <3>1
    <3>2. CASE p # self
      <4>1. due'[p] = due[p] /\ cross_line_pipe_table[due[p] % FILE_MAX][0] = p
        BY <2>4, <3>2 DEF Tables, Kept
      <4>2. due[p] % FILE_MAX \in Index
        BY ModIndex, Ranges
      <4>3. due[p] % FILE_MAX # t
        BY <1>2, <2>2, <4>1, Ranges
      <4> QED
        BY <1>2, <2>3, <4>1, <4>2, <4>3
    <3> QED
      BY <3>1, <3>2
  <2> QED
    BY <2>7, <2>8, <2>9, <2>10, <2>11, <2>12 DEF Tables
<1> QED
  BY <1>3, <1>4

(* The segment's pipes are closed and leave the tables.                    *)
LEMMA CloseTables == ASSUME TypeOK, Tables, Close PROVE Tables'
<1>1. /\ pc = "close" /\ InLine /\ at \in Index /\ line \in Lines /\ at \in 1 .. Len(line)
      /\ 0 \in End /\ 1 \in End /\ cnt_line \in Index
      /\ UNCHANGED <<lineNo, cnt_line, due, skipped>>
      /\ open' = {x \in open : x[1] \notin {pipe_table[at][0], pipe_table[at][1],
                                            cross[0], cross[1]}}
      /\ \/ pc' = "prompt" /\ (at = Len(line) \/ line[at].term = "number")
         \/ /\ pc' = "input" /\ at' = at + 1 /\ line' = line
            /\ ~ (at = Len(line) \/ line[at].term = "number")
  BY SelfProc, Ranges DEF Close, InLine, TypeOK
<1>2. ASSUME NEW s \in Index, NEW e \in End
      PROVE  /\ cross_line_pipe_table'[s][e]
                  = IF s = cnt_line THEN None ELSE cross_line_pipe_table[s][e]
             /\ pipe_table'[s][e] = IF s = at THEN None ELSE pipe_table[s][e]
  BY <1>1 DEF Close, TypeOK, NoEnds
<1>3. \A p \in Pipe : Past(p) => Past(p)'
  <2> SUFFICES ASSUME NEW p \in Pipe, Past(p) PROVE Past(p)'
    OBVIOUS
  <2>1. p[2] \in Int /\ at \in Int
    BY PipeAssumption DEF Pipe, Proc, TypeOK
  <2> QED
    BY <1>1, <2>1 DEF Past
<1>4. Counted' /\ Dues'
  BY <1>1, <1>3 DEF Tables, Counted, Dues
<1>5. ASSUME NEW s \in Index, NEW e \in End, NEW p \in Pipe, cross_line_pipe_table[s][e] = p
      PROVE  due[p] > 0 /\ due[p] % FILE_MAX = s /\ Passed(due[p])
  <2>1. cross_line_pipe_table[s][0] = p
    BY <1>1, <1>5, Ranges DEF Tables, Paired
  <2> QED
    BY <1>1, <2>1 DEF Tables, Ring
<1>6. ASSUME NEW e \in End, NEW p \in Pipe, pipe_table[at][e] = p
      PROVE  p = <<lineNo, at - 1>> /\ due[p] = 0
  BY <1>1, <1>6 DEF Tables, Plain
<1>7. Ring'
  <2> SUFFICES ASSUME NEW s \in Index, NEW p \in Pipe, cross_line_pipe_table'[s][0] = p
               PROVE  /\ due[p] > 0 /\ due[p] % FILE_MAX = s /\ Passed(due[p])'
                      /\ s # cnt_line
    BY <1>1 DEF Ring, Passed
  <2>1. s # cnt_line /\ cross_line_pipe_table[s][0] = p
    BY <1>1, <1>2, Ranges
  <2>2. due[p] > 0 /\ due[p] % FILE_MAX = s /\ Passed(due[p])
    BY <1>1, <1>5, <2>1
  <2>3. ASSUME NEW i \in due[p] .. lineNo, (i - due[p]) % FILE_MAX = 0
        PROVE  i \in skipped
    <3>1. i \in Nat /\ due[p] \in Nat /\ due[p] <= i
      BY Ranges
    <3>2. i % FILE_MAX = due[p] % FILE_MAX
      BY <2>3, <3>1, WholeRounds
    <3>3. i # lineNo
      BY <2>1, <2>2, <3>2 DEF Tables, Counted
    <3> QED
      BY <2>2, <2>3, <3>3 DEF Passed
  <2>4. Passed(due[p])'
    BY <1>1, <2>3 DEF Passed
  <2> QED
    BY <2>1, <2>2, <2>4
<1>8. Paired'
  BY <1>1, <1>2 DEF Tables, Paired
<1>9. Plain'
  <2> SUFFICES ASSUME NEW s \in Index, NEW e \in End, NEW p \in Pipe, pipe_table'[s][e] = p
               PROVE  /\ InLine' /\ p = <<lineNo, s - 1>> /\ due[p] = 0 /\ s = at'
    BY <1>1 DEF Plain
  <2>1. s # at /\ pipe_table[s][e] = p
    BY <1>1, <1>2, Ranges
  <2>2. /\ p = <<lineNo, s - 1>> /\ due[p] = 0
        /\ s = at + 1 /\ line[at].term = "pipe"
    BY <2>1 DEF Tables, Plain
  <2>3. at # Len(line) /\ line[at].term # "number"
    BY <1>1, <2>2, LineEnds
  <2> QED
    BY <1>1, <2>2, <2>3 DEF InLine
<1>10. Opened'
  <2> SUFFICES ASSUME NEW q \in Pipe, NEW e \in End
               PROVE  <<q, e>> \in open' <=> Tabled(q, e)'
    BY DEF Opened
  <2>1. <<q, e>> \in open <=> Tabled(q, e)
    BY <1>1 DEF Tables, Opened
  <2> DEFINE Closed ==
               \E f \in End : q = pipe_table[at][f] \/ q = cross_line_pipe_table[cnt_line][f]
  <2>2. <<q, e>> \in open' <=> <<q, e>> \in open /\ ~ Closed
    BY <1>1 DEF cross, End
  <2>3. ASSUME Tabled(q, e)' PROVE Tabled(q, e) /\ ~ Closed
    <3>1. PICK s \in Index : cross_line_pipe_table'[s][e] = q \/ pipe_table'[s][e] = q
      BY <2>3 DEF Tabled
    <3>2. CASE cross_line_pipe_table'[s][e] = q
      <4>1. s # cnt_line /\ cross_line_pipe_table[s][e] = q
        BY <1>2, <3>2, NoneNoPipe
      <4>2. due[q] > 0 /\ due[q] % FILE_MAX = s
        BY <1>5, <4>1
      <4>3. ~ Closed
        BY <1>1, <1>5, <1>6, <4>1, <4>2
      <4> QED
        BY <4>1, <4>3 DEF Tabled
    <3>3. CASE pipe_table'[s][e] = q
      <4>1. s # at /\ pipe_table[s][e] = q
        BY <1>2, <3>3, NoneNoPipe
      <4>2. q = <<lineNo, s - 1>> /\ due[q] = 0
        BY <4>1 DEF Tables, Plain
      <4>3. s - 1 # at - 1
        BY <1>1, <4>1, Ranges
      <4>4. \A f \in End : q # pipe_table[at][f]
        BY <1>6, <4>2, <4>3
      <4>5. \A f \in End : q # cross_line_pipe_table[cnt_line][f]
        <5> SUFFICES ASSUME NEW f \in End, cross_line_pipe_table[cnt_line][f] = q PROVE FALSE
          OBVIOUS
        <5>1. due[q] > 0
          BY <1>1, <1>5
        <5> QED
          BY <4>2, <5>1
      <4> QED
        BY <4>1, <4>4, <4>5 DEF Tabled
    <3> QED
      BY <3>1, <3>2, <3>3
  <2>4. ASSUME Tabled(q, e), ~ Closed PROVE Tabled(q, e)'
    <3>1. PICK s \in Index : cross_line_pipe_table[s][e] = q \/ pipe_table[s][e] = q
      BY <2>4 DEF Tabled
    <3>2. cross_line_pipe_table'[s][e] = q \/ pipe_table'[s][e] = q
      BY <1>2, <2>4, <3>1
    <3> QED
      BY <3>2 DEF Tabled
  <2> QED
    BY <2>1, <2>2, <2>3, <2>4
<1>11. Kept'
  <2>1. at \in Nat /\ 1 <= at
    BY <1>1, Ranges
  <2> SUFFICES ASSUME NEW p \in Pipe, due[p] > lineNo
               PROVE  cross_line_pipe_table'[due[p] % FILE_MAX][0] = p
    BY <1>1, <2>1 DEF Kept
  <2>2. due[p] % FILE_MAX \in Index /\ due[p] \in Nat /\ lineNo \in Nat /\ FILE_MAX \in Nat
    BY ModIndex, Ranges
  <2>3. due[p] < lineNo + FILE_MAX /\ cross_line_pipe_table[due[p] % FILE_MAX][0] = p
    BY <2>2 DEF Tables, Dues, Kept
  <2>4. due[p] % FILE_MAX # cnt_line
    BY <2>2, <2>3, SamePlace DEF Tables, Counted
  <2> QED
    BY <1>1, <1>2, <2>2, <2>3, <2>4
<1> QED
  BY <1>4, <1>7, <1>8, <1>9, <1>10, <1>11 DEF Tables

(* The child of a fork reads what was chosen for it.                       *)
LEMMA ForkReads ==
  ASSUME TypeOK, Order, RingInv, PipeOutput \/ NumberOutput \/ TerminalOutput
  PROVE  ReadWhenDue'
<1>1. /\ pc = "fork" /\ UNCHANGED <<lineNo, at, skipped>> /\ self \in Proc
      /\ \A p \in Pipe : p # self => due'[p] = due[p]
      /\ \E out : Fork(out)
  BY SelfProc DEF PipeOutput, NumberOutput, TerminalOutput, Output, Fork, TypeOK
<1>2. PICK out : Fork(out)
  BY <1>1
<1>3. /\ Running' = Running \cup {self} /\ pin'[self] = in
      /\ \A q \in Proc \ {self} : pin'[q] = pin[q]
  BY <1>1, <1>2 DEF Running, Fork, TypeOK
<1>4. in # None => in \in Pipe /\ due'[in] = due[in]
  BY <1>1, PastAtFork DEF Order, InputInv, TypeOK
<1>5. \A q \in Running : pin[q] # None => due'[pin[q]] = due[pin[q]]
  BY <1>1, PastAtFork DEF Order, PastInv, TypeOK, Running
<1> SUFFICES ASSUME NEW q \in Running', NEW p, p = pin'[q], p # None, due'[p] # 0
             PROVE  /\ q[2] = 1 /\ q[1] >= due'[p] /\ (q[1] - due'[p]) % FILE_MAX = 0
                    /\ \A i \in due'[p] .. q[1] - 1 :
                         (i - due'[p]) % FILE_MAX = 0 => i \in skipped
  BY <1>1 DEF ReadWhenDue
<1>6. CASE q = self
  <2>1. p = in /\ due'[p] = due[in] /\ q[1] = lineNo /\ q[2] = at
    BY <1>3, <1>4, <1>6 DEF self
  <2> QED
    BY <1>1, <2>1 DEF RingInv, Chosen
<1>7. CASE q # self
  <2>1. q \in Running /\ q \in Proc
    BY <1>3, <1>7 DEF Running
  <2>2. p = pin[q] /\ due'[p] = due[p]
    BY <1>3, <1>5, <1>7, <2>1
  <2> QED
    BY <2>1, <2>2 DEF RingInv, ReadWhenDue
<1> QED
  BY <1>6, <1>7

(* Leaving the shell closes everything it has open.                        *)
LEMMA ExitTables == ASSUME TypeOK, Tables, Exit PROVE Tables'
<1>1. /\ pc = "prompt" /\ pc' = "exit" /\ ~ InLine /\ ~ InLine'
      /\ UNCHANGED <<line, at, lineNo, cnt_line, cross_line_pipe_table, pipe_table,
                     due, skipped>>
  BY DEF Exit, InLine
<1>2. \A q : Past(q) => Past(q)'
  BY <1>1 DEF Past
<1>3. Counted' /\ Dues' /\ Kept' /\ Opened'
  BY <1>1, <1>2 DEF Tables, Counted, Dues, Kept, Opened
<1>4. Ring'
  BY <1>1 DEF Tables, Ring, Passed
<1>5. Paired' /\ Plain'
  BY <1>1 DEF Tables, Paired, Plain
<1> QED
  BY <1>3, <1>4, <1>5 DEF Tables

LEMMA RingStep ==
  ASSUME TypeOK, Order, RingInv, [Next]_vars PROVE RingInv'
<1>1. Tables /\ ReadWhenDue
  BY DEF RingInv
<1>2. ASSUME NEW l \in Lines, StartLine(l) PROVE RingInv'
  <2>1. ReadWhenDue'
    BY <1>1, <1>2, ReadsFrame DEF StartLine, NextLine, Running, procVars
  <2>2. Chosen'
    BY <1>2 DEF StartLine, Chosen
  <2> QED
    BY <1>1, <1>2, <2>1, <2>2, NextLineTables DEF RingInv
<1>3. CASE Builtin
  <2>1. ReadWhenDue'
    BY <1>1, <1>3, ReadsFrame DEF Builtin, NextLine, Running, procVars
  <2>2. Chosen'
    BY <1>3 DEF Builtin, NextLine, Chosen
  <2> QED
    BY <1>1, <1>3, <2>1, <2>2, NextLineTables DEF RingInv
<1>4. CASE Exit
  <2>1. ReadWhenDue'
    BY <1>1, <1>4, ReadsFrame DEF Exit, Running, procVars
  <2>2. Chosen'
    BY <1>4 DEF Exit, Chosen
  <2> QED
    BY <1>1, <1>4, <2>1, <2>2, ExitTables DEF RingInv
<1>5. CASE CrossInput
  <2>1. ReadWhenDue'
    BY <1>1, <1>5, ReadsFrame DEF CrossInput, Running, procVars
  <2> QED
    BY <1>1, <1>5, <2>1, CrossInputRing DEF RingInv
<1>6. CASE PlainInput
  <2>1. ReadWhenDue'
    BY <1>1, <1>6, ReadsFrame DEF PlainInput, Running, procVars
  <2> QED
    BY <1>1, <1>6, <2>1, PlainInputRing DEF RingInv
<1>7. CASE PipeOutput \/ NumberOutput \/ TerminalOutput
  <2>1. ASSUME TerminalOutput PROVE Tables'
    BY <1>1, <2>1, TablesFrame DEF TerminalOutput, Output, Fork
  <2>2. Tables'
    BY <1>1, <1>7, <2>1, PipeOutputTables, NumberOutputTables
  <2>3. Chosen'
    BY <1>7 DEF PipeOutput, NumberOutput, TerminalOutput, Chosen
  <2> QED
    BY <1>7, <2>2, <2>3, ForkReads DEF RingInv
<1>8. CASE Wait
  <2>1. ReadWhenDue'
    BY <1>1, <1>8, ReadsFrame DEF Wait, Running, procVars, TypeOK
  <2>2. Tables' /\ Chosen'
    BY <1>1, <1>8, TablesFrame DEF Wait, Chosen
  <2> QED
    BY <2>1, <2>2 DEF RingInv
<1>9. CASE Close
  <2>1. ReadWhenDue'
    BY <1>1, <1>9, ReadsFrame DEF Close, Running, procVars
  <2>2. Chosen'
    BY <1>9 DEF Close, Chosen
  <2> QED
    BY <1>1, <1>9, <2>1, <2>2, CloseTables DEF RingInv
<1>10. ASSUME UNCHANGED shellVars, Running' \subseteq Running,
              \A q \in Running' : pin'[q] = pin[q]
       PROVE  RingInv'
  <2>1. Tables'
    BY <1>1, <1>10, TablesFrame DEF shellVars
  <2>2. ReadWhenDue'
    BY <1>1, <1>10, ReadsFrame DEF shellVars
  <2>3. Chosen'
    BY <1>10 DEF RingInv, Chosen, shellVars
  <2> QED
    BY <2>1, <2>2, <2>3 DEF RingInv
<1>11. CASE ReapAll
  BY <1>10, <1>11 DEF ReapAll, Running, procVars
<1>12. ASSUME NEW p \in Proc, Step(p) \/ ReadTerminal(p) PROVE RingInv'
  <2>1. CASE Ends(p)
    BY <1>10, <2>1 DEF Ends, Running, TypeOK
  <2>2. CASE UNCHANGED <<shellVars, pin, pstate>>
    BY <1>10, <2>2 DEF Running
  <2> QED
    BY <1>12, <2>1, <2>2 DEF Step, ReadTerminal, Write, Read, ReadEof, Finish
<1>13. CASE UNCHANGED vars
  BY <1>10, <1>13 DEF vars, procVars, Running
<1> QED
  BY <1>2, <1>3, <1>4, <1>5, <1>6, <1>7, <1>8, <1>9, <1>11, <1>12, <1>13
  DEF Next, User, process_handler

LEMMA RingInvariance == Spec => []RingInv
<1>1. IInv /\ RingInv /\ [Next]_vars => RingInv'
  BY RingStep DEF IInv
<1> QED
  BY <1>1, InitRing, Invariance, PTL DEF Spec

(* A numbered pipe is read by the first process of the line it was made    *)
(* for, or of a line whole rounds later when those before it at its place  *)
(* were built-in commands; by no other.                                    *)
THEOREM OnlyDueLineReads == Spec => []ReadWhenDue
<1>1. RingInv => ReadWhenDue
  BY DEF RingInv
<1> QED
  BY <1>1, RingInvariance, PTL

(* A numbered pipe stays in its place, open at both ends, until its line;  *)
(* at the prompt the shell has no other descriptor of a pipe.              *)
THEOREM NumberedPipesKept == Spec => []KeptUntilDue
<1>1. IInv /\ RingInv => KeptUntilDue
  <2> SUFFICES ASSUME TypeOK, Tables PROVE KeptUntilDue
    BY DEF IInv, RingInv
  <2>1. ASSUME pc # "exit", NEW p \in Pipe,
               due[p] > lineNo \/ (due[p] > 0 /\ due[p] = lineNo /\ pc = "input" /\ at = 1)
        PROVE  /\ cross_line_pipe_table[due[p] % FILE_MAX] = [e \in End |-> p]
               /\ {<<p, 0>>, <<p, 1>>} \subseteq open
    <3> DEFINE s == due[p] % FILE_MAX
    <3>1. s \in Index /\ due[p] \in Nat /\ lineNo \in Nat /\ FILE_MAX \in Nat
      BY ModIndex, Ranges
    <3>2. cross_line_pipe_table[s][0] = p
      BY <2>1 DEF Tables, Kept
    <3>3. ~ (s = cnt_line /\ pc \in {"fork", "wait", "close"})
      <4> SUFFICES ASSUME s = cnt_line, pc \in {"fork", "wait", "close"} PROVE FALSE
        OBVIOUS
      <4>1. due[p] > lineNo /\ due[p] < lineNo + FILE_MAX
        BY <2>1, <3>1 DEF Tables, Dues
      <4> QED
        BY <3>1, <4>1, SamePlace DEF Tables, Counted
    <3>4. cross_line_pipe_table[s][1] = p
      BY <3>1, <3>2, <3>3 DEF Tables, Paired
    <3>5. cross_line_pipe_table[s] = [e \in End |-> p]
      BY <3>1, <3>2, <3>4 DEF TypeOK, End
    <3>6. <<p, 0>> \in open /\ <<p, 1>> \in open
      BY <2>1, <3>1, <3>2, <3>4 DEF Tables, Opened, Tabled, End
    <3> QED
      BY <3>5, <3>6
  <2>2. ASSUME pc = "prompt"
        PROVE  open = {<<cross_line_pipe_table[k][e], e>> :
                         k \in {i \in Index : cross_line_pipe_table[i] # NoEnds}, e \in End}
    <3> DEFINE Full == {i \in Index : cross_line_pipe_table[i] # NoEnds}
    <3>1. \A k \in Full, e \in End : cross_line_pipe_table[k][e] \in Pipe
      <4> SUFFICES ASSUME NEW k \in Full, NEW e \in End, cross_line_pipe_table[k][e] = None
                   PROVE  FALSE
        BY Ranges
      <4>1. \A f \in End : cross_line_pipe_table[k][f] = None
        BY <2>2, AtPrompt, Ranges
      <4> QED
        BY <4>1 DEF TypeOK, NoEnds
    <3>2. \A k \in Index, e \in End : cross_line_pipe_table[k][e] # None => k \in Full
      BY DEF NoEnds
    <3>3. \A p \in Pipe, e \in End :
            <<p, e>> \in open <=> \E k \in Index : cross_line_pipe_table[k][e] = p
      BY <2>2, AtPrompt, NoneNoPipe DEF Tables, Opened, Tabled
    <3>4. \A x \in open : x = <<x[1], x[2]>> /\ x[1] \in Pipe /\ x[2] \in End
      BY DEF TypeOK, PipeEnd
    <3> HIDE DEF Full
    <3>5. \A x \in open : \E k \in Full, e \in End : x = <<cross_line_pipe_table[k][e], e>>
      BY <3>2, <3>3, <3>4, NoneNoPipe
    <3>6. \A k \in Full, e \in End : <<cross_line_pipe_table[k][e], e>> \in open
      BY <3>1, <3>3 DEF Full
    <3>7. open = {<<cross_line_pipe_table[k][e], e>> : k \in Full, e \in End}
      BY <3>5, <3>6
    <3> QED
      BY <3>7 DEF Full
  <2> QED
    BY <2>1, <2>2 DEF KeptUntilDue
<1> QED
  BY <1>1, Invariance, RingInvariance, PTL

-----------------------------------------------------------------------------
(* Somebody can always go on.                                              *)

LEMMA Least ==
  ASSUME NEW T \in SUBSET Nat, T # {}
  PROVE  \E n \in T : \A m \in T : n <= m
<1> DEFINE R == OpToRel(<, Nat)
<1>1. IsWellFoundedOn(R, Nat)
  BY NatLessThanWellFounded
<1>2. \A x, y \in Nat : x < y => <<x, y>> \in R
  BY DEF OpToRel
<1> HIDE DEF R
<1>3. PICK n \in T : \A m \in T : ~ (<<m, n>> \in R)
  BY <1>1, WFMin
<1>4. \A m \in T : m \in Nat /\ n \in Nat /\ ~ m < n
  BY <1>2, <1>3
<1> QED
  BY <1>3, <1>4

(* Of any processes, one was forked first.                                 *)
LEMMA First ==
  ASSUME NEW A \in SUBSET Proc, A # {}
  PROVE  \E p \in A : \A q \in A : ~ Before(q, p)
<1> DEFINE T == {p[1] : p \in A}
<1>1. \A p \in A : p[1] \in Nat /\ p[2] \in Nat
  BY PipeAssumption DEF Proc
<1>2. T \in SUBSET Nat /\ T # {}
  BY <1>1
<1>3. PICK n \in T : \A m \in T : n <= m
  BY <1>2, Least
<1> DEFINE U == {p[2] : p \in {q \in A : q[1] = n}}
<1>4. U \in SUBSET Nat /\ U # {}
  BY <1>1, <1>3
<1>5. PICK i \in U : \A j \in U : i <= j
  BY <1>4, Least
<1>6. PICK p \in A : p[1] = n /\ p[2] = i
  BY <1>5
<1>7. \A q \in A : n <= q[1] /\ (q[1] = n => i <= q[2])
  BY <1>3, <1>5
<1> HIDE DEF T, U
<1> QED
  BY <1>1, <1>6, <1>7 DEF Before

(* And one last.                                                           *)
LEMMA Last ==
  ASSUME NEW A \in SUBSET Proc, A # {}
  PROVE  \E p \in A : \A q \in A : ~ Before(p, q)
<1> DEFINE T == {MaxLine - p[1] : p \in A}
<1>1. \A p \in A : /\ p[1] \in Int /\ p[2] \in Int /\ MaxLine - p[1] \in Nat
                   /\ FILE_MAX - p[2] \in Nat
  BY PipeAssumption DEF Proc
<1>2. T \in SUBSET Nat /\ T # {}
  BY <1>1
<1>3. PICK n \in T : \A m \in T : n <= m
  BY <1>2, Least
<1> DEFINE U == {FILE_MAX - p[2] : p \in {q \in A : MaxLine - q[1] = n}}
<1>4. U \in SUBSET Nat /\ U # {}
  BY <1>1, <1>3
<1>5. PICK i \in U : \A j \in U : i <= j
  BY <1>4, Least
<1>6. PICK p \in A : MaxLine - p[1] = n /\ FILE_MAX - p[2] = i
  BY <1>5
<1>7. \A q \in A : n <= MaxLine - q[1] /\ (MaxLine - q[1] = n => i <= FILE_MAX - q[2])
  BY <1>3, <1>5
<1> QED
  BY <1>1, <1>6, <1>7, PipeAssumption DEF Before

(* A process has the write end of its output open.                         *)
OutInv == \A q \in Running : pout[q] # None => <<pout[q], 1>> \in held[q]

LEMMA OutStep ==
  ASSUME TypeOK, RingInv, OutInv, [Next]_vars PROVE OutInv'
<1>1. ASSUME Running' \subseteq Running,
             \A q \in Running' : pout'[q] = pout[q] /\ held'[q] = held[q]
      PROVE  OutInv'
  BY <1>1 DEF OutInv
<1>2. ASSUME pc = "fork", NEW out, Fork(out), out # None => <<out, 1>> \in open'
      PROVE  OutInv'
  <2>1. self \in Proc
    BY <1>2, SelfProc
  <2>2. /\ Running' = Running \cup {self} /\ pout'[self] = out /\ held'[self] = open'
        /\ \A q \in Proc \ {self} : pout'[q] = pout[q] /\ held'[q] = held[q]
    BY <1>2, <2>1 DEF Running, Fork, TypeOK
  <2> SUFFICES ASSUME NEW q \in Running', pout'[q] # None
               PROVE  <<pout'[q], 1>> \in held'[q]
    BY DEF OutInv
  <2>3. CASE q = self
    BY <1>2, <2>2, <2>3
  <2>4. CASE q # self
    BY <2>2, <2>4 DEF OutInv, Running
  <2> QED
    BY <2>3, <2>4
<1>3. CASE PipeOutput
  BY <1>2, <1>3 DEF PipeOutput, Output, WithNewPipe
<1>4. CASE NumberOutput
  <2> DEFINE t == target
             out == cross_line_pipe_table'[t][1]
  <2>1. pc = "fork" /\ Fork(out)
    BY <1>4 DEF NumberOutput, Output
  <2>2. t \in Index /\ 1 \in End
    BY <2>1, TargetIndex DEF End
  <2>3. ASSUME cross_line_pipe_table[t][1] = None PROVE <<out, 1>> \in open'
    <3>1. open' = WithNewPipe
          /\ cross_line_pipe_table' = [cross_line_pipe_table EXCEPT ![t] = NewPipe]
      BY <1>4, <2>3 DEF NumberOutput
    <3>2. out = self
      BY <2>2, <3>1 DEF TypeOK, NewPipe
    <3> QED
      BY <3>1, <3>2 DEF WithNewPipe
  <2>4. ASSUME cross_line_pipe_table[t][1] # None PROVE <<out, 1>> \in open'
    <3>1. UNCHANGED <<open, cross_line_pipe_table>>
      BY <1>4, <2>4 DEF NumberOutput
    <3>2. out \in Pipe /\ out = cross_line_pipe_table[t][1]
      BY <2>2, <2>4, <3>1, Ranges
    <3>3. <<out, 1>> \in open
      BY <2>1, <2>2, <3>2 DEF RingInv, Tables, Opened, Tabled
    <3> QED
      BY <3>1, <3>3
  <2> HIDE DEF out
  <2> QED
    BY <1>2, <2>1, <2>3, <2>4
<1>5. CASE TerminalOutput
  BY <1>2, <1>5 DEF TerminalOutput, Output
<1>6. CASE User
  BY <1>1, <1>6 DEF User, Builtin, StartLine, NextLine, Exit, procVars, Running
<1>7. CASE CrossInput \/ PlainInput \/ Close
  BY <1>1, <1>7 DEF CrossInput, PlainInput, Close, procVars, Running
<1>8. CASE Wait \/ ReapAll
  BY <1>1, <1>8 DEF Wait, ReapAll, procVars, Running, TypeOK
<1>9. ASSUME NEW p \in Proc, Step(p) \/ ReadTerminal(p) PROVE OutInv'
  <2>1. CASE Ends(p)
    BY <1>1, <2>1 DEF Ends, Running, TypeOK
  <2>2. CASE UNCHANGED <<pout, held, pstate>>
    BY <1>1, <2>2 DEF Running
  <2> QED
    BY <1>9, <2>1, <2>2 DEF Step, ReadTerminal, Write, Read, ReadEof, Finish
<1>10. CASE UNCHANGED vars
  BY <1>1, <1>10 DEF vars, procVars, Running
<1> QED
  BY <1>3, <1>4, <1>5, <1>6, <1>7, <1>8, <1>9, <1>10 DEF Next, process_handler

(* If nobody could go on, the last process before a full pipe would have a *)
(* reader after it that is before a full pipe too; so all would wait for   *)
(* the end of their input, and the first of them for one before it.        *)
LEMMA Unblocked ==
  ASSUME TypeOK, WritersEarlier, OutInv PROVE SomeoneCanStep
<1> SUFFICES ASSUME Running # {}, ~ Backlogged, ~ AtTerminal,
                    \A p \in Running : ~ CanStep(p)
             PROVE  FALSE
  BY DEF SomeoneCanStep
<1>1. ASSUME NEW p \in Running
      PROVE  \/ Blocked(p)
             \/ \E q \in Running : Before(q, p)
  <2>1. p \in Proc /\ left[p] \in Nat
    BY PipeAssumption DEF Running, TypeOK
  <2>2. CASE left[p] > 0
    BY <2>2 DEF CanStep
  <2>3. CASE left[p] = 0
    <3>1. reads[p] /\ pin[p] # None
      BY <2>3 DEF CanStep, AtTerminal
    <3>2. Writers(pin[p]) # {}
      BY <2>3, <3>1 DEF CanStep, WritersEarlier
    <3> QED
      BY <3>1, <3>2 DEF WritersEarlier, Writers
  <2> QED
    BY <2>1, <2>2, <2>3
<1>2. ASSUME NEW p \in Running, Blocked(p)
      PROVE  \E q \in Running : Blocked(q) /\ Before(p, q)
  <2>1. PICK q \in Running : reads[q] /\ pin[q] = pout[p]
    BY <1>2 DEF Backlogged
  <2>2. pin[q] # None /\ fill[pin[q]] = CAP
    BY <1>2, <2>1 DEF Blocked
  <2>3. q \in Proc /\ left[q] \in Nat
    BY PipeAssumption DEF Running, TypeOK
  <2>4. left[q] > 0
    <3>1. fill[pin[q]] > 0
      BY <2>2, PipeAssumption
    <3>2. left[q] # 0
      BY <2>2, <3>1 DEF CanStep
    <3> QED
      BY <2>3, <3>2
  <2>5. Blocked(q)
    BY <2>4 DEF CanStep
  <2>6. p \in Writers(pin[q])
    BY <2>1, <2>2 DEF OutInv, Writers
  <2> QED
    BY <2>2, <2>5, <2>6 DEF WritersEarlier
<1>3. \A p \in Running : ~ Blocked(p)
  <2> DEFINE A == {p \in Running : Blocked(p)}
  <2>1. A \in SUBSET Proc
    BY DEF Running
  <2>2. A = {}
    BY <1>2, <2>1, Last
  <2> QED
    BY <2>2
<1>4. Running \in SUBSET Proc
  BY DEF Running
<1> QED
  BY <1>1, <1>3, <1>4, First

(* While processes run, one of them can go on, unless one stands before a  *)
(* full pipe that nobody reads yet, or reads the terminal: the pipe ends a *)
(* child inherits never make the processes of a session, or the shell that *)
(* waits for one, wait in a circle.                                        *)
THEOREM NoDeadlock == Spec => []SomeoneCanStep
<1>1. Init => OutInv
  BY DEF Init, OutInv, Running
<1>2. IInv /\ RingInv /\ OutInv /\ [Next]_vars => OutInv'
  BY OutStep DEF IInv
<1>3. IInv /\ OutInv => SomeoneCanStep
  BY Unblocked DEF IInv, Order
<1> QED
  BY <1>1, <1>2, <1>3, Invariance, RingInvariance, PTL DEF Spec

=============================================================================
