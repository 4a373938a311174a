--------------------------- MODULE ConcurrentProofs ---------------------------
(***************************************************************************)
(* Proofs about Concurrent, for every number of rows, connections,         *)
(* commands and failing forks that ConcurrentAssumption allows.            *)
(***************************************************************************)
EXTENDS Concurrent, WellFoundedInduction, TLAPS

Session == Points \ {"choose", "clear", "fill"}    \* after init_client
Claims  == {"clear", "fill"}
Early   == Over \cup {"choose"}          \* no row chosen, or a process that is gone

(* What a process's control point says of its own variables.               *)
LocalInv ==
  \A p \in Proc :
    /\ pc[p] \in Claims => row[p] \in Slot
    /\ pc[p] \in Claims \cup {"none", "choose"} => cmd[p].op = "login"
    /\ pc[p] \in {"scan", "kill"} => k[p] \in Slot
    /\ \/ pc[p] \in {"rename", "run", "finish", "again"}
       \/ pc[p] \in {"blank", "write", "scan", "kill"} /\ cmd[p].op # "login"
       => ptr[p] \in Slot /\ done[p] # 0
    /\ pc[p] = "rename" => cmd[p].op = "name"
    /\ pc[p] \in {"run", "finish", "again"} => cmd[p].op \in {"send", "receive"}

(* Whoever is about to write a row that somebody has, is his rival.        *)
ClaimsContested ==
  \A p, q \in Proc :
    /\ p # q /\ pc[q] \in Claims /\ row[q] = row[p]
    /\ pc[p] \notin Early
    => rivals[p] # {}

(* A process without a row of its own has none or has a rival.             *)
Lost(p) == row[p] = 0 \/ rivals[p] # {}
LostInv == \A p \in Proc : pc[p] = "prompt" /\ ptr[p] = 0 => Lost(p)

Table == ClaimsContested /\ RowKept /\ LostInv

IInv == TypeOK /\ LocalInv /\ Table

-----------------------------------------------------------------------------
LEMMA LookupType ==
  ASSUME NEW p \in Proc
  PROVE  /\ get_client_by_pid(p) \in Slot \cup {0}
         /\ get_client_by_pid(p) # 0 => pid[get_client_by_pid(p)] = p
         /\ get_client_by_pid(p) = 0 => \A s \in Slot : pid[s] # p
<1>1. 0 \notin Slot
  BY DEF Slot
<1>2. CASE \E s \in Slot : pid[s] = p
  <2>1. (CHOOSE s \in Slot : pid[s] = p) \in Slot
        /\ pid[CHOOSE s \in Slot : pid[s] = p] = p
    BY <1>2
  <2> QED
    BY <1>1, <1>2, <2>1 DEF get_client_by_pid
<1>3. CASE ~ \E s \in Slot : pid[s] = p
  BY <1>3 DEF get_client_by_pid
<1> QED
  BY <1>2, <1>3

(* A command names a row, or a nickname.                                   *)
LEMMA CommandFacts ==
  ASSUME NEW c \in CommandType
  PROVE  /\ c.op \in (Broadcasts \cup Private) \ {"login"}
         /\ c.op \in {"tell", "send", "receive"} => c.n \in Slot
         /\ c.op = "name" => c.n \in Names
BY DEF CommandType, Broadcasts, Private

LEMMA CmdFacts ==
  ASSUME TypeOK, NEW p \in Proc
  PROVE  /\ cmd[p].op \in Broadcasts \cup Private
         /\ cmd[p].op \in {"tell", "send", "receive"} => cmd[p].n \in Slot
         /\ cmd[p].op = "name" => cmd[p].n \in Names
<1>1. cmd[p] \in CommandType \/ cmd[p] = Idle
  BY DEF TypeOK, DataTypes
<1>2. CASE cmd[p] \in CommandType
  BY <1>2, CommandFacts
<1>3. CASE cmd[p] = Idle
  BY <1>3 DEF Idle, Broadcasts, Private
<1> QED
  BY <1>1, <1>2, <1>3

LEMMA InitInv == Init => IInv
<1> SUFFICES ASSUME Init PROVE IInv
  OBVIOUS
<1>1. TypeOK
  <2>1. 0 \in 0 .. CLIENT_NUMBER /\ 0 \in 0 .. MaxLeaks /\ 0 \in 0 .. MaxCommands
    BY ConcurrentAssumption
  <2>2. user_pipe \in [Slot -> [Slot -> (Fd \cup {0}) \X (Fd \cup {0})]]
    BY DEF Init, NoPipe
  <2> QED
    BY <2>1, <2>2 DEF Init, TypeOK, ControlTypes, DataTypes, Over
<1>2. \A p \in Proc : pc[p] = "none"
  BY DEF Init
<1>3. LocalInv
  BY <1>2 DEF LocalInv, Claims, Init, Idle
<1>4. Table
  BY <1>2 DEF Table, ClaimsContested, RowKept, LostInv, Early, Over, Claims
<1> QED
  BY <1>1, <1>3, <1>4 DEF IInv

-----------------------------------------------------------------------------
(* Steps that leave the rows alone.  The process p moves between control   *)
(* points after init_client, or ends.                                      *)
LEMMA TableUnchanged ==
  ASSUME IInv, NEW p \in Proc, NEW there, UNCHANGED <<pid, row, rivals>>,
         pc' = [pc EXCEPT ![p] = there],
         \/ pc[p] \in Session /\ there \in Session \cup {"left", "killed"}
         \/ there \in {"left", "killed"}
         \/ pc[p] \in Session /\ there = "crashed",
         \A q \in Proc \ {p} : ptr'[q] = ptr[q] /\ cmd'[q] = cmd[q],
         there = "prompt" /\ ptr'[p] = 0 => Lost(p)
  PROVE  Table'
<1>1. \A q \in Proc : q # p => pc'[q] = pc[q]
  BY DEF IInv, TypeOK, ControlTypes
<1>2. pc'[p] = there
  BY DEF IInv, TypeOK, ControlTypes
<1>3. ClaimsContested'
  BY <1>1, <1>2 DEF IInv, Table, ClaimsContested, Claims, Early, Over, Points, Session
<1>4. RowKept'
  BY <1>1, <1>2 DEF IInv, Table, RowKept, Over, Points, Session
<1>5. LostInv'
  BY <1>1, <1>2 DEF IInv, Table, LostInv, Lost
<1> QED
  BY <1>3, <1>4, <1>5 DEF Table
-----------------------------------------------------------------------------
(* main and init_client.                                                   *)

LEMMA AcceptStep == ASSUME IInv, NEW p \in Proc, Accept(p) PROVE IInv'
<1>1. \A q \in Proc : pc'[q] = IF q = p THEN "choose" ELSE pc[q]
  BY DEF IInv, TypeOK, ControlTypes, Accept, Goto
<1>2. TypeOK'
  <2>1. ControlTypes'
    BY DEF IInv, TypeOK, ControlTypes, Accept, Goto, shared, history, Points
  <2>2. DataTypes'
    BY DEF IInv, TypeOK, DataTypes, Accept, shared, history
  <2> QED
    BY <2>1, <2>2 DEF TypeOK
<1>3. LocalInv'
  BY <1>1 DEF IInv, LocalInv, Accept, Claims
<1>4. Table'
  BY <1>1 DEF IInv, Table, ClaimsContested, RowKept, LostInv, Lost,
     Accept, shared, history, Early, Over, Claims
<1> QED
  BY <1>2, <1>3, <1>4 DEF IInv

LEMMA ForkFailsStep == ASSUME IInv, ForkFails PROVE IInv'
<1>1. leaked' \in 0 .. MaxLeaks
  <2>1. leaked \in 0 .. MaxLeaks /\ leaked < MaxLeaks /\ leaked' = leaked + 1
    BY DEF IInv, TypeOK, DataTypes, ForkFails
  <2> QED
    BY <2>1, ConcurrentAssumption
<1>2. TypeOK'
  BY <1>1 DEF IInv, TypeOK, ControlTypes, DataTypes, ForkFails, shared, local, history
<1>3. LocalInv' /\ Table'
  BY DEF IInv, LocalInv, Table, ClaimsContested, RowKept, LostInv, Lost,
     ForkFails, shared, local, history
<1> QED
  BY <1>2, <1>3 DEF IInv

(* The new claim on a free row: whoever has or claims the row is a rival.  *)
LEMMA ChooseStep == ASSUME IInv, NEW p \in Proc, Choose(p) PROVE IInv'
<1>1. PICK s \in get_available_client :
        /\ row' = [row EXCEPT ![p] = s]
        /\ rivals' = [q \in Proc |-> IF q = p THEN Claiming(s)
                                     ELSE IF q \in Claiming(s) THEN rivals[q] \cup {p}
                                     ELSE rivals[q]]
        /\ IF s = 0 THEN Goto(p, "blank") \/ Goto(p, "crashed") ELSE Goto(p, "clear")
  BY DEF Choose
<1>2. s \in Slot \cup {0} /\ (s # 0 => s \in Slot /\ pid[s] = 0) /\ 0 \notin Slot
  BY <1>1 DEF get_available_client, Enabled, Slot
<1>3. pc[p] = "choose"
  BY DEF Choose
<1>4. \A q \in Proc \ {p} : pc'[q] = pc[q] /\ row'[q] = row[q] /\ ptr'[q] = ptr[q]
  BY <1>1 DEF Choose, Goto, IInv, TypeOK, ControlTypes
<1>5. pc'[p] \in {"blank", "crashed", "clear"} /\ row'[p] = s
      /\ (pc'[p] = "clear" <=> s # 0)
  BY <1>1 DEF Goto, IInv, TypeOK, ControlTypes
<1>6. TypeOK'
  <2>1. row' \in [Proc -> Slot \cup {0}]
    BY <1>1, <1>2 DEF IInv, TypeOK, ControlTypes
  <2>2. rivals' \in [Proc -> SUBSET Proc]
    BY <1>1 DEF IInv, TypeOK, ControlTypes, Claiming
  <2>3. pc' \in [Proc -> Over \cup Points]
    BY <1>1 DEF Goto, IInv, TypeOK, ControlTypes, Points, Over
  <2> QED
    BY <2>1, <2>2, <2>3 DEF Choose, IInv, TypeOK, ControlTypes, DataTypes, shared
<1>7. LocalInv'
  BY <1>2, <1>3, <1>4, <1>5 DEF Choose, IInv, LocalInv, Claims
<1>8. ClaimsContested'
  <2> SUFFICES ASSUME NEW q \in Proc, NEW r \in Proc, q # r,
                      pc'[r] \in Claims, row'[r] = row'[q], pc'[q] \notin Early
               PROVE  rivals'[q] # {}
    BY DEF ClaimsContested, Early, Over
  <2>1. CASE r = p
    <3>1. row[q] = s /\ s \in Slot /\ pid[s] = 0 /\ pc[q] \notin Early
      BY <2>1, <1>2, <1>4, <1>5 DEF Claims, Early, Over
    <3>2. CASE pc[q] \in Claims
      BY <3>1, <3>2, <2>1, <1>1 DEF Claiming, Claims
    <3>3. CASE pc[q] \notin Claims
      <4>1. rivals[q] # {}
        BY <3>1, <3>3, <1>2 DEF IInv, Table, RowKept, Early, Claims, Proc
      <4> QED
        BY <4>1, <1>1, <2>1
    <3> QED
      BY <3>2, <3>3
  <2>2. CASE q = p
    <3>1. r \in Claiming(s)
      BY <2>2, <1>4, <1>5 DEF Claiming, Claims
    <3> QED
      BY <3>1, <2>2, <1>1
  <2>3. CASE q # p /\ r # p
    <3>1. rivals[q] # {}
      BY <2>3, <1>4 DEF IInv, Table, ClaimsContested
    <3> QED
      BY <3>1, <2>3, <1>1
  <2> QED
    BY <2>1, <2>2, <2>3
<1>9. \A q \in Proc \ {p} : rivals[q] # {} => rivals'[q] # {}
  BY <1>1
<1>10. RowKept'
  BY <1>1, <1>4, <1>5, <1>9 DEF Choose, shared, IInv, Table, RowKept, Over
<1>11. LostInv'
  BY <1>4, <1>5, <1>9 DEF Choose, IInv, Table, LostInv, Lost
<1> QED
  BY <1>6, <1>7, <1>8, <1>10, <1>11 DEF IInv, Table

(* Writing a row disturbs only processes that have a rival.                *)
LEMMA ClaimStep ==
  ASSUME IInv, NEW p \in Proc, Clear(p) \/ Fill(p) PROVE IInv'
<1>1. row[p] \in Slot /\ pc[p] \in Claims /\ pc'[p] \in {"fill", "blank"}
      /\ \A q \in Proc \ {p} : pc'[q] = pc[q]
  BY DEF IInv, TypeOK, ControlTypes, LocalInv, Clear, Fill, Goto, Claims
<1>2. TypeOK'
  <2>1. pid' \in [Slot -> Proc \cup {0}] /\ name' \in [Slot -> Names \cup {NoName, ""}]
    BY <1>1 DEF Clear, Fill, IInv, TypeOK, ControlTypes
  <2>2. pc' \in [Proc -> Over \cup Points]
    BY DEF Clear, Fill, Goto, IInv, TypeOK, ControlTypes, Points
  <2>3. DataTypes'
    BY DEF Clear, Fill, IInv, TypeOK, DataTypes, local, history
  <2> QED
    BY <2>1, <2>2, <2>3 DEF Clear, Fill, IInv, TypeOK, ControlTypes, local, history
<1>3. LocalInv'
  BY <1>1 DEF Clear, Fill, IInv, LocalInv, Claims, local
<1>4. ClaimsContested'
  BY <1>1 DEF Clear, Fill, IInv, Table, ClaimsContested, local, history, Claims, Early, Over
<1>5. RowKept'
  <2> SUFFICES ASSUME NEW q \in Proc, pc'[q] \notin Over \cup {"choose", "clear", "fill"},
                      row'[q] # 0, rivals'[q] = {}
               PROVE  pid'[row'[q]] = q
    BY DEF RowKept
  <2>1. row' = row /\ rivals' = rivals
    BY DEF Clear, Fill, local, history
  <2>2. CASE q = p
    BY <2>1, <2>2, <1>1 DEF Clear, Fill, Goto, IInv, TypeOK, ControlTypes
  <2>3. CASE q # p
    <3>1. pid[row[q]] = q
      BY <2>1, <2>3, <1>1 DEF IInv, Table, RowKept
    <3>2. row[q] # row[p]
      BY <2>1, <2>3, <1>1 DEF IInv, Table, ClaimsContested, Early
    <3> QED
      BY <2>1, <3>1, <3>2, <1>1 DEF Clear, Fill, IInv, TypeOK, ControlTypes
  <2> QED
    BY <2>2, <2>3
<1>6. LostInv'
  BY <1>1 DEF Clear, Fill, IInv, Table, LostInv, Lost, local, history
<1> QED
  BY <1>2, <1>3, <1>4, <1>5, <1>6 DEF IInv, Table

-----------------------------------------------------------------------------
(* Messages.                                                               *)

LEMMA BlankStep == ASSUME IInv, NEW p \in Proc, Blank(p) PROVE IInv'
<1>1. PICK there \in {"crashed", "write"} : pc' = [pc EXCEPT ![p] = there]
        /\ (there = "crashed" => cmd[p].op \in {"send", "receive"})
  BY DEF Blank, Goto
<1>2. pc[p] = "blank" /\ UNCHANGED <<pid, name, user_pipe, local, pending, leaked, history>>
      /\ message' \in {message, "blank"}
  BY DEF Blank
<1>3. TypeOK'
  BY <1>1, <1>2 DEF IInv, TypeOK, ControlTypes, DataTypes, local, history, Over, Points
<1>4. LocalInv'
  BY <1>1, <1>2 DEF IInv, TypeOK, ControlTypes, LocalInv, local, Claims
<1>5. Table'
  BY <1>1, <1>2, TableUnchanged DEF local, history, Session, Points
<1> QED
  BY <1>3, <1>4, <1>5 DEF IInv

LEMMA WriteStep == ASSUME IInv, NEW p \in Proc, Write(p) PROVE IInv'
<1>1. PICK there \in {"kill", "scan"} : pc' = [pc EXCEPT ![p] = there]
  BY DEF Write, Goto
<1>2. pc[p] = "write" /\ UNCHANGED <<pid, name, user_pipe, row, ptr, cmd, in, fdt, fdno,
                                     done, pending, leaked, rivals, overlap>>
      /\ message' = cmd[p].op /\ k' = [k EXCEPT ![p] = FirstRow(p)]
      /\ unheard' \subseteq Proc
  BY DEF Write
<1>3. FirstRow(p) \in Slot /\ FirstRow(p) \in 0 .. CLIENT_NUMBER
  <2>1. cmd[p].op = "who" => ptr[p] \in Slot
    BY <1>2 DEF IInv, LocalInv
  <2>2. cmd[p].op = "tell" => cmd[p].n \in Slot
    BY CmdFacts DEF IInv
  <2> QED
    BY <2>1, <2>2, ConcurrentAssumption DEF FirstRow, Slot, Partner
<1>4. ControlTypes'
  BY <1>1, <1>2, <1>3 DEF IInv, TypeOK, ControlTypes, Over, Points
<1>5. DataTypes'
  BY <1>2, CmdFacts DEF IInv, TypeOK, DataTypes
<1>6. LocalInv'
  BY <1>1, <1>2, <1>3 DEF IInv, TypeOK, ControlTypes, LocalInv, Claims
<1>7. Table'
  BY <1>1, <1>2, TableUnchanged DEF Session, Points
<1> QED
  BY <1>4, <1>5, <1>6, <1>7 DEF IInv, TypeOK

(* Where the loop of broadcast goes, and with which index.                 *)
LEMMA LoopFacts ==
  ASSUME IInv, NEW p \in Proc, pc[p] \in {"scan", "kill"}, Loop(p)
  PROVE  \E there \in {"scan", "shell", "reset", "run", "prompt"}, i \in 0 .. CLIENT_NUMBER :
           /\ pc' = [pc EXCEPT ![p] = there] /\ k' = [k EXCEPT ![p] = i]
           /\ there = "scan" => i \in Slot
           /\ there = "run" => cmd[p].op \in {"send", "receive"}
           /\ there = "prompt" => cmd[p].op # "login"
<1>1. k[p] \in Slot
  BY DEF IInv, LocalInv
<1>2. 0 \in 0 .. CLIENT_NUMBER
  BY ConcurrentAssumption
<1>3. CASE k[p] = CLIENT_NUMBER \/ cmd[p].op \in Private
  <2>1. k' = [k EXCEPT ![p] = 0] /\ pc' = [pc EXCEPT ![p] = Continue(p)]
    BY <1>3 DEF Loop, Goto
  <2>2. /\ Continue(p) \in {"shell", "reset", "run", "prompt"}
        /\ Continue(p) = "run" => cmd[p].op \in {"send", "receive"}
        /\ Continue(p) = "prompt" => cmd[p].op # "login"
    BY DEF Continue
  <2> QED
    BY <1>2, <2>1, <2>2
<1>4. CASE ~ (k[p] = CLIENT_NUMBER \/ cmd[p].op \in Private)
  <2>1. k' = [k EXCEPT ![p] = k[p] + 1] /\ pc' = [pc EXCEPT ![p] = "scan"]
    BY <1>4 DEF Loop, Goto
  <2>2. k[p] + 1 \in Slot /\ k[p] + 1 \in 0 .. CLIENT_NUMBER
    BY <1>1, <1>4, ConcurrentAssumption DEF Slot
  <2> QED
    BY <2>1, <2>2
<1> QED
  BY <1>3, <1>4

LEMMA LoopStep ==
  ASSUME IInv, NEW p \in Proc, Scan(p) \/ Kill(p) PROVE IInv'
<1>1. PICK there \in {"kill", "scan", "shell", "reset", "run", "prompt"},
           i \in 0 .. CLIENT_NUMBER :
           /\ pc' = [pc EXCEPT ![p] = there] /\ k' = [k EXCEPT ![p] = i]
           /\ there \in {"scan", "kill"} => i \in Slot
           /\ there = "run" => cmd[p].op \in {"send", "receive"}
           /\ there = "prompt" => cmd[p].op # "login"
  <2>1. CASE Scan(p) /\ Enabled(k[p])
    <3>1. k[p] \in Slot /\ k[p] \in 0 .. CLIENT_NUMBER
      BY <2>1, ConcurrentAssumption DEF IInv, LocalInv, Scan, Slot
    <3>2. pc' = [pc EXCEPT ![p] = "kill"] /\ k' = [k EXCEPT ![p] = k[p]]
      BY <2>1 DEF Scan, Goto, IInv, TypeOK, ControlTypes
    <3> QED
      BY <3>1, <3>2
  <2>2. CASE Loop(p)
    BY <2>2, LoopFacts DEF Scan, Kill
  <2> QED
    BY <2>1, <2>2 DEF Scan, Kill
<1>2. /\ pc[p] \in {"scan", "kill"}
      /\ UNCHANGED <<shared, row, ptr, cmd, in, fdt, fdno, done, leaked, history>>
      /\ pending' \in [Proc -> BOOLEAN]
  <2>1. pending' \in [Proc -> BOOLEAN]
    <3>1. CASE Scan(p)
      BY <3>1 DEF Scan, IInv, TypeOK, DataTypes
    <3>2. CASE Kill(p)
      BY <3>2 DEF Kill, IInv, TypeOK, DataTypes
    <3> QED
      BY <3>1, <3>2
  <2> QED
    BY <2>1 DEF Scan, Kill
<1>3. ControlTypes'
  BY <1>1, <1>2 DEF IInv, TypeOK, ControlTypes, Over, Points, shared, history
<1>4. DataTypes'
  BY <1>2 DEF IInv, TypeOK, DataTypes, shared, history
<1>5. LocalInv'
  BY <1>1, <1>2 DEF IInv, TypeOK, ControlTypes, LocalInv, Claims
<1>6. Table'
  <2>1. there = "prompt" => ptr'[p] # 0
    BY <1>1, <1>2 DEF IInv, LocalInv, Slot
  <2> QED
    BY <1>1, <1>2, <2>1, TableUnchanged DEF Session, Points, shared, history
<1> QED
  BY <1>3, <1>4, <1>5, <1>6 DEF IInv, TypeOK

LEMMA HandleStep == ASSUME IInv, NEW p \in Proc, Handle(p) PROVE IInv'
<1>1. UNCHANGED <<shared, local, leaked, rivals, overlap>> /\ pending' \in [Proc -> BOOLEAN]
      /\ unheard' \subseteq Proc
  BY DEF Handle, IInv, TypeOK, DataTypes
<1>2. pc' = pc \/ pc' = [pc EXCEPT ![p] = "killed"]
  BY DEF Handle, Goto
<1>3. ControlTypes'
  BY <1>1, <1>2 DEF IInv, TypeOK, ControlTypes, Over, shared, local
<1>4. DataTypes'
  BY <1>1 DEF IInv, TypeOK, DataTypes, shared, local
<1>5. LocalInv'
  BY <1>1, <1>2 DEF IInv, TypeOK, ControlTypes, LocalInv, Claims, local
<1>6. Table'
  <2>1. CASE pc' = pc
    BY <1>1, <2>1 DEF IInv, Table, ClaimsContested, RowKept, LostInv, Lost,
       shared, local
  <2>2. CASE pc' = [pc EXCEPT ![p] = "killed"]
    BY <1>1, <2>2, TableUnchanged DEF shared, local
  <2> QED
    BY <1>2, <2>1, <2>2
<1> QED
  BY <1>3, <1>4, <1>5, <1>6 DEF IInv, TypeOK

-----------------------------------------------------------------------------
(* my_shell.                                                               *)

(* A process that does not find its row has none, or has a rival.          *)
LEMMA NotFound ==
  ASSUME IInv, NEW p \in Proc, pc[p] \in Session, get_client_by_pid(p) = 0
  PROVE  Lost(p)
<1>1. row[p] \in Slot \cup {0} /\ \A s \in Slot : pid[s] # p
  BY LookupType DEF IInv, TypeOK, ControlTypes
<1> QED
  BY <1>1 DEF IInv, Table, RowKept, Lost, Session, Points, Over

LEMMA ShellStep == ASSUME IInv, NEW p \in Proc, Shell(p) PROVE IInv'
<1>1. pc[p] = "shell" /\ pc' = [pc EXCEPT ![p] = "prompt"]
      /\ ptr' = [ptr EXCEPT ![p] = get_client_by_pid(p)]
      /\ UNCHANGED <<shared, row, cmd, k, in, fdt, fdno, done, pending, leaked, history>>
  BY DEF Shell, Goto
<1>2. get_client_by_pid(p) \in Slot \cup {0} /\ (get_client_by_pid(p) = 0 => Lost(p))
  BY <1>1, LookupType, NotFound DEF Session, Points
<1>3. ControlTypes'
  BY <1>1, <1>2 DEF IInv, TypeOK, ControlTypes, Points, shared, history
<1>4. DataTypes'
  BY <1>1 DEF IInv, TypeOK, DataTypes, shared, history
<1>5. LocalInv'
  BY <1>1 DEF IInv, TypeOK, ControlTypes, LocalInv, Claims
<1>6. ptr'[p] = get_client_by_pid(p) /\ \A q \in Proc \ {p} : ptr'[q] = ptr[q]
  BY <1>1 DEF IInv, TypeOK, ControlTypes
<1>7. Table'
  BY <1>1, <1>2, <1>6, TableUnchanged DEF Session, Points, shared, history
<1> QED
  BY <1>3, <1>4, <1>5, <1>7 DEF IInv, TypeOK

LEMMA CommandStep ==
  ASSUME IInv, NEW p \in Proc, NEW c \in Commands, Command(p, c) PROVE IInv'
<1>1. c \in CommandType
  BY ConcurrentAssumption
<1>2. pc[p] = "prompt" /\ done[p] < MaxCommands
      /\ done' = [done EXCEPT ![p] = @ + 1] /\ cmd' = [cmd EXCEPT ![p] = c]
      /\ UNCHANGED <<shared, row, ptr, k, in, fdt, fdno, pending, leaked, unheard, rivals>>
  BY DEF Command
<1>3. PICK there \in {"crashed", "prompt", "rename", "blank"} :
        /\ pc' = [pc EXCEPT ![p] = there]
        /\ there = "crashed" <=> ptr[p] = 0
        /\ there = "rename" => c.op = "name"
  BY DEF Command, Goto
<1>4. done[p] + 1 \in 0 .. MaxCommands /\ done[p] + 1 # 0
  <2>1. done[p] \in 0 .. MaxCommands
    BY DEF IInv, TypeOK, DataTypes
  <2> QED
    BY <1>2, <2>1, ConcurrentAssumption
<1>5. ControlTypes'
  BY <1>2, <1>3 DEF IInv, TypeOK, ControlTypes, Points, Over, shared
<1>6. DataTypes'
  <2>1. overlap' \subseteq SUBSET Proc
    <3>1. \/ overlap' = overlap
          \/ overlap' = overlap \cup {{p, q} : q \in {r \in Proc : pc[r] = "rename"}}
      BY DEF Command
    <3>2. {{p, q} : q \in {r \in Proc : pc[r] = "rename"}} \subseteq SUBSET Proc
      OBVIOUS
    <3>3. overlap \subseteq SUBSET Proc
      BY DEF IInv, TypeOK, DataTypes
    <3> QED
      BY <3>1, <3>2, <3>3
  <2>2. cmd' \in [Proc -> CommandType \cup {Idle}] /\ done' \in [Proc -> 0 .. MaxCommands]
    BY <1>1, <1>2, <1>4 DEF IInv, TypeOK, DataTypes
  <2> QED
    BY <1>2, <2>1, <2>2 DEF IInv, TypeOK, DataTypes, shared
<1>7. cmd'[p] = c /\ done'[p] # 0
      /\ \A q \in Proc \ {p} : cmd'[q] = cmd[q] /\ done'[q] = done[q] /\ pc'[q] = pc[q]
  <2>1. \A q \in Proc \ {p} : pc'[q] = pc[q]
    BY <1>3 DEF IInv, TypeOK, ControlTypes
  <2>2. cmd \in [Proc -> CommandType \cup {Idle}] /\ done \in [Proc -> 0 .. MaxCommands]
    BY DEF IInv, TypeOK, DataTypes
  <2> QED
    BY <1>2, <1>4, <2>1, <2>2
<1>8. LocalInv'
  <2>1. pc'[p] = there /\ (there # "crashed" => ptr[p] \in Slot)
    BY <1>3 DEF IInv, TypeOK, ControlTypes
  <2> QED
    BY <1>2, <1>3, <1>7, <2>1 DEF IInv, LocalInv, Claims
<1>9. Table'
  <2>1. ptr[p] = 0 => Lost(p)
    BY <1>2 DEF IInv, Table, LostInv
  <2> QED
    BY <1>2, <1>3, <1>7, <2>1, TableUnchanged DEF Session, Points, shared
<1> QED
  BY <1>5, <1>6, <1>8, <1>9 DEF IInv, TypeOK

LEMMA RenameStep == ASSUME IInv, NEW p \in Proc, Rename(p) PROVE IInv'
<1>1. pc[p] = "rename" /\ pc' = [pc EXCEPT ![p] = "blank"]
      /\ name' = [name EXCEPT ![ptr[p]] = cmd[p].n]
      /\ UNCHANGED <<pid, message, user_pipe, local, pending, leaked, history>>
  BY DEF Rename, Goto
<1>2. cmd[p].n \in Names /\ ptr[p] \in Slot /\ done[p] # 0
  BY <1>1, CmdFacts DEF IInv, LocalInv
<1>3. TypeOK'
  BY <1>1, <1>2 DEF IInv, TypeOK, ControlTypes, DataTypes, Points, local, history
<1>4. LocalInv'
  BY <1>1, <1>2 DEF IInv, TypeOK, ControlTypes, LocalInv, Claims, local
<1>5. Table'
  BY <1>1, TableUnchanged DEF Session, Points, local, history
<1> QED
  BY <1>3, <1>4, <1>5 DEF IInv

LEMMA EndOfFileStep == ASSUME IInv, NEW p \in Proc, EndOfFile(p) PROVE IInv'
<1>1. PICK there \in {"reset", "killed", "spin"} : pc' = [pc EXCEPT ![p] = there]
  BY DEF EndOfFile, Goto
<1>2. pc[p] = "prompt" /\ UNCHANGED <<shared, local, pending, leaked, history>>
  BY DEF EndOfFile
<1>3. TypeOK'
  BY <1>1, <1>2 DEF IInv, TypeOK, ControlTypes, DataTypes, Points, Over, shared, local, history
<1>4. LocalInv'
  BY <1>1, <1>2 DEF IInv, TypeOK, ControlTypes, LocalInv, Claims, local
<1>5. Table'
  BY <1>1, <1>2, TableUnchanged DEF Session, Points, shared, local, history
<1> QED
  BY <1>3, <1>4, <1>5 DEF IInv

(* A process resets the row with its own pid: nobody else's.               *)
LEMMA ResetStep == ASSUME IInv, NEW p \in Proc, Reset(p) PROVE IInv'
<1> DEFINE me == get_client_by_pid(p)
<1>1. pc[p] = "reset" /\ UNCHANGED <<message, local, pending, leaked, history>>
  BY DEF Reset
<1>2. me \in Slot \cup {0} /\ (me # 0 => pid[me] = p) /\ (me = 0 => Lost(p))
  BY <1>1, LookupType, NotFound DEF Session, Points
<1>3. CASE me = 0
  <2>1. pc' = [pc EXCEPT ![p] = "crashed"] /\ UNCHANGED <<pid, name, user_pipe>>
    BY <1>3 DEF Reset, Goto
  <2>2. TypeOK'
    BY <1>1, <2>1 DEF IInv, TypeOK, ControlTypes, DataTypes, Over, local, history
  <2>3. LocalInv'
    BY <1>1, <2>1 DEF IInv, TypeOK, ControlTypes, LocalInv, Claims, local
  <2>4. Table'
    BY <1>1, <1>2, <1>3, <2>1, TableUnchanged DEF Session, Points, local, history
  <2> QED
    BY <2>2, <2>3, <2>4 DEF IInv
<1>4. CASE me # 0
  <2>1. /\ pc' = [pc EXCEPT ![p] = "left"]
        /\ pid' = [pid EXCEPT ![me] = 0] /\ name' = [name EXCEPT ![me] = ""]
        /\ user_pipe' = [s \in Slot |-> [t \in Slot |->
                           IF me \in {s, t} THEN NoPipe ELSE user_pipe[s][t]]]
    BY <1>4 DEF Reset, Goto
  <2>2. ControlTypes'
    BY <1>1, <2>1 DEF IInv, TypeOK, ControlTypes, Over, local, history
  <2>3. DataTypes'
    <3>1. user_pipe' \in [Slot -> [Slot -> (Fd \cup {0}) \X (Fd \cup {0})]]
      BY <2>1 DEF IInv, TypeOK, DataTypes, NoPipe
    <3> QED
      BY <1>1, <3>1 DEF IInv, TypeOK, DataTypes, local, history
  <2>4. LocalInv'
    BY <1>1, <2>1 DEF IInv, TypeOK, ControlTypes, LocalInv, Claims, local
  <2>5. pc'[p] = "left" /\ \A q \in Proc \ {p} : pc'[q] = pc[q]
    BY <2>1 DEF IInv, TypeOK, ControlTypes
  <2>6. RowKept'
    <3> SUFFICES ASSUME NEW q \in Proc, pc'[q] \notin Over \cup {"choose", "clear", "fill"},
                        row'[q] # 0, rivals'[q] = {}
                 PROVE  pid'[row'[q]] = q
      BY DEF RowKept
    <3>1. q # p /\ row'[q] = row[q] /\ pid[row[q]] = q
      BY <1>1, <2>5 DEF IInv, Table, RowKept, local, history, Over
    <3> QED
      BY <3>1, <2>1, <1>2, <1>4 DEF IInv, TypeOK, ControlTypes
  <2>7. ClaimsContested' /\ LostInv'
    BY <1>1, <2>5 DEF IInv, Table, ClaimsContested, LostInv, Lost,
       Claims, Early, Over, local, history
  <2> QED
    BY <2>2, <2>3, <2>4, <2>6, <2>7 DEF IInv, Table, TypeOK
<1> QED
  BY <1>3, <1>4

-----------------------------------------------------------------------------
(* Lines with user pipes.                                                  *)

(* Closing numbers leaves a descriptor table.                              *)
LEMMA ClosingType ==
  ASSUME IInv, NEW p \in Proc, NEW numbers, fdt' = [fdt EXCEPT ![p] = Closing(p, numbers)]
  PROVE  fdt' \in [Proc -> [Fd -> {Free} \cup (Proc \X (1 .. MaxCommands) \X {1, 2})]]
BY DEF IInv, TypeOK, DataTypes, Closing

(* What a line with a user pipe may change, and where it goes.             *)
LEMMA PipeStep ==
  ASSUME IInv, NEW p \in Proc, NEW there \in {"finish", "again", "prompt"},
         pc[p] \in {"run", "finish", "again"}, pc' = [pc EXCEPT ![p] = there],
         UNCHANGED <<pid, name, message, row, ptr, cmd, k, fdno, done, pending,
                     leaked, history>>,
         in' \in [Proc -> Fd \cup {0}],
         fdt' \in [Proc -> [Fd -> {Free} \cup (Proc \X (1 .. MaxCommands) \X {1, 2})]],
         user_pipe' \in [Slot -> [Slot -> (Fd \cup {0}) \X (Fd \cup {0})]]
  PROVE  IInv'
<1>1. ControlTypes'
  BY DEF IInv, TypeOK, ControlTypes, Points, history
<1>2. DataTypes'
  BY DEF IInv, TypeOK, DataTypes, history
<1>3. ptr[p] \in Slot /\ 0 \notin Slot
  BY DEF IInv, LocalInv, Slot
<1>4. LocalInv'
  BY DEF IInv, TypeOK, ControlTypes, LocalInv, Claims
<1>5. Table'
  BY <1>3, TableUnchanged DEF Session, Points, history
<1> QED
  BY <1>1, <1>2, <1>4, <1>5 DEF IInv, TypeOK

(* The rows whose entry of user_pipe a line uses.                          *)
LEMMA Users ==
  ASSUME IInv, NEW p \in Proc, pc[p] \in {"run", "finish", "again"}
  PROVE  /\ Partner(p) \in Slot /\ ptr[p] \in Slot
         /\ done[p] \in 1 .. MaxCommands
         /\ \A s, t \in Slot : user_pipe[s][t] \in (Fd \cup {0}) \X (Fd \cup {0})
<1>1. Partner(p) \in Slot /\ ptr[p] \in Slot /\ done[p] # 0
  BY CmdFacts DEF IInv, LocalInv, Partner
<1>2. done[p] \in 0 .. MaxCommands
      /\ \A s, t \in Slot : user_pipe[s][t] \in (Fd \cup {0}) \X (Fd \cup {0})
  BY DEF IInv, TypeOK, DataTypes
<1> QED
  BY <1>1, <1>2, ConcurrentAssumption

(* An entry with one of its numbers cleared is an entry.                   *)
LEMMA ClearEnd ==
  ASSUME IInv, NEW s \in Slot, NEW t \in Slot, user_pipe' = [user_pipe EXCEPT ![s][t][2] = 0]
  PROVE  user_pipe' \in [Slot -> [Slot -> (Fd \cup {0}) \X (Fd \cup {0})]]
<1>1. user_pipe[s][t] \in (Fd \cup {0}) \X (Fd \cup {0})
  BY DEF IInv, TypeOK, DataTypes
<1>2. [user_pipe[s][t] EXCEPT ![2] = 0] \in (Fd \cup {0}) \X (Fd \cup {0})
  BY <1>1
<1> QED
  BY <1>2 DEF IInv, TypeOK, DataTypes

LEMMA ReceiveStep == ASSUME IInv, NEW p \in Proc, Receive(p) PROVE IInv'
<1> DEFINE from == Partner(p)
           pipe == user_pipe[from][ptr[p]]
<1>1. pc[p] = "run" /\ pc' = [pc EXCEPT ![p] = "finish"]
      /\ UNCHANGED <<pid, name, message, row, ptr, cmd, k, fdno, done, pending, leaked, history>>
  BY DEF Receive, Goto
<1>2. from \in Slot /\ ptr[p] \in Slot /\ pipe \in (Fd \cup {0}) \X (Fd \cup {0})
  BY <1>1, Users
<1>3. /\ in' \in [Proc -> Fd \cup {0}]
      /\ fdt' \in [Proc -> [Fd -> {Free} \cup (Proc \X (1 .. MaxCommands) \X {1, 2})]]
      /\ user_pipe' \in [Slot -> [Slot -> (Fd \cup {0}) \X (Fd \cup {0})]]
  <2>1. CASE pipe[1] # 0
    <3>1. /\ in' = [in EXCEPT ![p] = pipe[1]]
          /\ fdt' = [fdt EXCEPT ![p] = Closing(p, {pipe[2]})]
          /\ user_pipe' = [user_pipe EXCEPT ![from][ptr[p]][2] = 0]
      BY <2>1 DEF Receive
    <3>2. in' \in [Proc -> Fd \cup {0}]
      BY <3>1, <1>2 DEF IInv, TypeOK, DataTypes
    <3> QED
      BY <3>1, <3>2, <1>2, ClosingType, ClearEnd
  <2>2. CASE pipe[1] = 0
    BY <2>2 DEF Receive, IInv, TypeOK, DataTypes
  <2> QED
    BY <2>1, <2>2
<1> QED
  BY <1>1, <1>3, PipeStep

LEMMA SendStep == ASSUME IInv, NEW p \in Proc, Send(p) PROVE IInv'
<1>1. pc[p] = "run" /\ pc' = [pc EXCEPT ![p] = "finish"]
      /\ UNCHANGED <<pid, name, message, row, ptr, cmd, k, in, fdno, done, pending,
                     leaked, history>>
  BY DEF Send, Goto
<1>2. Partner(p) \in Slot /\ ptr[p] \in Slot /\ done[p] \in 1 .. MaxCommands
  BY <1>1, Users
<1>3. /\ fdt' \in [Proc -> [Fd -> {Free} \cup (Proc \X (1 .. MaxCommands) \X {1, 2})]]
      /\ user_pipe' \in [Slot -> [Slot -> (Fd \cup {0}) \X (Fd \cup {0})]]
  <2>1. CASE UNCHANGED <<fdt, user_pipe>>
    BY <2>1 DEF IInv, TypeOK, DataTypes
  <2>2. ASSUME NEW r \in Fd, NEW w \in Fd,
               fdt' = [fdt EXCEPT ![p][r] = <<p, done[p], 1>>, ![p][w] = <<p, done[p], 2>>],
               user_pipe' = [user_pipe EXCEPT ![ptr[p]][Partner(p)] = <<r, w>>]
        PROVE  /\ fdt' \in [Proc -> [Fd -> {Free} \cup (Proc \X (1 .. MaxCommands) \X {1, 2})]]
               /\ user_pipe' \in [Slot -> [Slot -> (Fd \cup {0}) \X (Fd \cup {0})]]
    BY <2>2, <1>2 DEF IInv, TypeOK, DataTypes
  <2> QED
    BY <2>1, <2>2 DEF Send
<1>4. in' \in [Proc -> Fd \cup {0}]
  BY <1>1 DEF IInv, TypeOK, DataTypes
<1> QED
  BY <1>1, <1>3, <1>4, PipeStep

LEMMA RunLostStep == ASSUME IInv, NEW p \in Proc, RunLost(p) PROVE IInv'
<1>1. pc[p] = "run" /\ pc' = [pc EXCEPT ![p] = "crashed"]
      /\ UNCHANGED <<shared, local, pending, leaked, history>>
  BY DEF RunLost, Goto
<1>2. TypeOK'
  BY <1>1 DEF IInv, TypeOK, ControlTypes, DataTypes, Over, shared, local, history
<1>3. LocalInv'
  BY <1>1 DEF IInv, TypeOK, ControlTypes, LocalInv, Claims, local
<1>4. cmd'[p].op \in {"send", "receive"}
  BY <1>1 DEF IInv, LocalInv, local
<1>5. Table'
  BY <1>1, <1>4, TableUnchanged DEF Session, Points, shared, local, history
<1> QED
  BY <1>2, <1>3, <1>5 DEF IInv

LEMMA FinishStep == ASSUME IInv, NEW p \in Proc, Finish(p) PROVE IInv'
<1>1. PICK there \in {"again", "prompt"} : pc' = [pc EXCEPT ![p] = there]
  BY DEF Finish, Goto
<1>2. pc[p] \in {"finish", "again"} /\ in' = [in EXCEPT ![p] = 0]
      /\ UNCHANGED <<pid, name, message, row, ptr, cmd, k, fdno, done, pending, leaked, history>>
  BY DEF Finish
<1>3. Partner(p) \in Slot /\ ptr[p] \in Slot
  BY <1>2, Users
<1>4. fdt' \in [Proc -> [Fd -> {Free} \cup (Proc \X (1 .. MaxCommands) \X {1, 2})]]
  <2>1. \E numbers \in SUBSET {user_pipe[Partner(p)][ptr[p]][1],
                               user_pipe[Partner(p)][ptr[p]][2],
                               user_pipe[ptr[p]][Partner(p)][2]} :
          fdt' = [fdt EXCEPT ![p] = Closing(p, numbers)]
    BY DEF Finish
  <2> QED
    BY <2>1, ClosingType
<1>5. user_pipe' \in [Slot -> [Slot -> (Fd \cup {0}) \X (Fd \cup {0})]]
  <2>1. CASE cmd[p].op = "receive"
    <3>1. user_pipe' = [user_pipe EXCEPT ![Partner(p)][ptr[p]] = NoPipe]
      BY <2>1 DEF Finish
    <3> QED
      BY <3>1, <1>3 DEF IInv, TypeOK, DataTypes, NoPipe
  <2>2. CASE cmd[p].op # "receive"
    <3>1. user_pipe' = [user_pipe EXCEPT ![ptr[p]][Partner(p)][2] = 0]
      BY <2>2 DEF Finish
    <3> QED
      BY <3>1, <1>3, ClearEnd
  <2> QED
    BY <2>1, <2>2
<1>6. in' \in [Proc -> Fd \cup {0}]
  BY <1>2 DEF IInv, TypeOK, DataTypes
<1> QED
  BY <1>1, <1>2, <1>4, <1>5, <1>6, PipeStep

-----------------------------------------------------------------------------
LEMMA Inductive == IInv /\ [Next]_vars => IInv'
<1> SUFFICES ASSUME IInv, [Next]_vars PROVE IInv'
  OBVIOUS
<1>1. CASE ForkFails
  BY <1>1, ForkFailsStep
<1>2. ASSUME NEW p \in Proc, Accept(p) \/ Login(p) \/ Announce(p) \/ Handle(p)
      PROVE  IInv'
  BY <1>2, AcceptStep, ChooseStep, ClaimStep, ShellStep, BlankStep, WriteStep, LoopStep,
     HandleStep
  DEF Login, Announce
<1>3. ASSUME NEW p \in Proc, my_shell(p) PROVE IInv'
  BY <1>3, CommandStep, RenameStep, EndOfFileStep, ResetStep, ReceiveStep, SendStep,
     RunLostStep, FinishStep
  DEF my_shell
<1>4. CASE UNCHANGED vars
  <2>1. UNCHANGED <<pid, name, message, user_pipe, pc, row, ptr, cmd, k, in, fdt, fdno, done,
                    pending, leaked, unheard, rivals, overlap>>
    BY <1>4 DEF vars, shared, local, history
  <2>2. TypeOK'
    BY <2>1 DEF IInv, TypeOK, ControlTypes, DataTypes
  <2>3. LocalInv' /\ Table'
    BY <2>1 DEF IInv, LocalInv, Table, ClaimsContested, RowKept, LostInv, Lost
  <2> QED
    BY <2>2, <2>3 DEF IInv
<1> QED
  BY <1>1, <1>2, <1>3, <1>4 DEF Next

LEMMA Invariance == Spec => []IInv
<1> QED
  BY InitInv, Inductive, PTL DEF Spec

-----------------------------------------------------------------------------
(* The row a process fills is the one it has chosen, and its pointer leads *)
(* to that row; rivals are remembered.                                     *)
Born(p) == pc[p] \notin {"none", "choose", "clear", "fill"}

OwnRow ==
  /\ \A s \in Slot : pid[s] # 0 => row[pid[s]] = s /\ Born(pid[s])
  /\ \A p \in Proc : ptr[p] # 0 => ptr[p] = row[p] /\ Born(p)
  /\ \A p \in Proc : pc[p] \in {"none", "choose"} => rivals[p] = {}

(* As long as nobody has chosen another's row.                             *)
Alone == \A p \in Proc : rivals[p] = {}

(* A row that is filled has no nickname yet; whoever takes a nickname has  *)
(* taken it together with whoever else takes one now, and together with    *)
(* whoever has taken the same since he checked it.                         *)
Naming ==
  Alone =>
    /\ \A p \in Proc : pc[p] = "fill" => pid[row[p]] = 0 /\ name[row[p]] = NoName
    /\ \A p, q \in Proc :
         p # q /\ pc[p] = "rename" /\ pc[q] = "rename" => {p, q} \in overlap
    /\ \A p \in Proc : pc[p] = "rename" =>
         \A t \in Slot : t # ptr[p] /\ Enabled(t) /\ name[t] = cmd[p].n
                           => {p, pid[t]} \in overlap

(* A loop of broadcast that has not passed row s yet.                      *)
Coming(s) == \E w \in Proc : cmd[w].op \in Broadcasts /\ k[w] # 0 /\ k[w] <= s

(* Who has not been sent the broadcast in the buffer has its signal        *)
(* pending, or the loop that announces it has not passed his row.          *)
Hearing ==
  /\ \A p \in unheard : Born(p)
  /\ \A p \in Proc : k[p] # 0 => pc[p] \in {"scan", "kill", "killed"}
  /\ leaked = 0 => \A p \in Proc : fdno[p] = 0
  /\ leaked = 0 /\ message \in Broadcasts =>
       \A p \in unheard : Alive(p) =>
         \A s \in Slot : pid[s] = p => pending[p] \/ Coming(s)

HInv == OwnRow /\ Naming /\ NamesUnique /\ Hearing

-----------------------------------------------------------------------------
LEMMA InitHeard == Init => HInv
<1> SUFFICES ASSUME Init PROVE HInv
  OBVIOUS
<1>1. OwnRow /\ Hearing
  BY DEF Init, OwnRow, Hearing
<1>2. Naming /\ NamesUnique
  BY DEF Init, Naming, NamesUnique, Enabled
<1> QED
  BY <1>1, <1>2 DEF HInv

(* Steps that write no row: a process that comes to take a nickname, or to *)
(* fill its row, was already about to.                                     *)
LEMMA RowsFrame ==
  ASSUME IInv, HInv, UNCHANGED <<pid, name, row, rivals, overlap>>,
         \A q \in Proc :
           /\ Born(q) => Born(q)'
           /\ pc'[q] \in {"none", "choose"} => pc[q] \in {"none", "choose"}
           /\ pc'[q] = "fill" => pc[q] = "fill"
           /\ pc'[q] = "rename" => pc[q] = "rename" /\ ptr'[q] = ptr[q] /\ cmd'[q] = cmd[q]
           /\ ptr'[q] = ptr[q] \/ (ptr'[q] # 0 => ptr'[q] = row[q] /\ Born(q))
  PROVE  (OwnRow /\ Naming /\ NamesUnique)'
<1> USE DEF HInv
<1>1. \A s \in Slot : pid[s] # 0 => pid[s] \in Proc
  BY DEF IInv, TypeOK, ControlTypes
<1>2. OwnRow'
  <2>1. \A s \in Slot : pid'[s] # 0 => row'[pid'[s]] = s /\ Born(pid[s])'
    BY <1>1 DEF OwnRow
  <2>2. \A q \in Proc : ptr'[q] # 0 => ptr'[q] = row'[q] /\ Born(q)'
    BY DEF OwnRow
  <2>3. \A q \in Proc : pc'[q] \in {"none", "choose"} => rivals'[q] = {}
    BY DEF OwnRow
  <2> QED
    BY <2>1, <2>2, <2>3 DEF OwnRow, Born
<1>3. Naming'
  BY DEF Naming, Alone, Enabled
<1>4. NamesUnique'
  BY DEF NamesUnique, Enabled
<1> QED
  BY <1>2, <1>3, <1>4

(* Steps that announce nothing and answer nothing: nobody's row comes to   *)
(* be filled with a process that waits to be sent the buffer.              *)
LEMMA HearingFrame ==
  ASSUME IInv, HInv, UNCHANGED <<unheard, k, pending, leaked>>,
         message' \in {message, "blank"},
         leaked = 0 => \A q \in Proc : fdno'[q] = 0,
         \A q \in Proc :
           /\ Born(q) => Born(q)'
           /\ k[q] # 0 => pc'[q] \in {"scan", "kill", "killed"} /\ cmd'[q] = cmd[q]
           /\ q \in unheard /\ Alive(q)' => Alive(q),
         \A s \in Slot, q \in unheard : pid'[s] = q => pid[s] = q
  PROVE  Hearing'
<1> USE DEF HInv
<1>1. unheard \subseteq Proc
  BY DEF IInv, TypeOK, DataTypes
<1>2. \A q \in unheard' : Born(q)'
  BY <1>1 DEF Hearing
<1>3. \A s \in Slot : Coming(s) => Coming(s)'
  BY DEF Coming
<1>4. ASSUME leaked = 0, message' \in Broadcasts, NEW q \in unheard, Alive(q)',
             NEW s \in Slot, pid'[s] = q
      PROVE  pending'[q] \/ Coming(s)'
  <2>1. message = message'
    BY <1>4 DEF Broadcasts
  <2>2. Alive(q) /\ pid[s] = q
    BY <1>1, <1>4
  <2>3. pending[q] \/ Coming(s)
    BY <1>4, <2>1, <2>2 DEF Hearing
  <2> QED
    BY <1>3, <2>3
<1>5. \A q \in unheard' : Alive(q)' =>
        (leaked' = 0 /\ message' \in Broadcasts =>
           \A s \in Slot : pid'[s] = q => pending'[q] \/ Coming(s)')
  BY <1>4
<1>6. \A q \in Proc : k'[q] # 0 => pc'[q] \in {"scan", "kill", "killed"}
  OBVIOUS
<1>7. leaked' = 0 => \A q \in Proc : fdno'[q] = 0
  OBVIOUS
<1> QED
  BY <1>2, <1>5, <1>6, <1>7 DEF Hearing

(* Most steps of a process p are of both kinds.                            *)
LEMMA QuietHeard ==
  ASSUME IInv, HInv, NEW p \in Proc, NEW there, pc' = [pc EXCEPT ![p] = there],
         UNCHANGED <<pid, name, row, rivals, overlap, unheard, k, pending, leaked>>,
         (pc[p] = "none" /\ there = "choose") \/ (Born(p) /\ there \in Session \cup Over),
         there # "none",
         there # "rename", pc[p] \notin {"scan", "kill"} \cup (Over \ {"none"}),
         \A q \in Proc \ {p} : ptr'[q] = ptr[q] /\ cmd'[q] = cmd[q],
         ptr'[p] = ptr[p] \/ (ptr'[p] # 0 => ptr'[p] = row[p] /\ Born(p)),
         message' \in {message, "blank"},
         leaked = 0 => \A q \in Proc : fdno'[q] = 0
  PROVE  HInv'
<1>1. pc'[p] = there /\ \A q \in Proc \ {p} : pc'[q] = pc[q]
  BY DEF IInv, TypeOK, ControlTypes
<1>2. k[p] = 0
  BY DEF HInv, Hearing, Over
<1>3. \A q \in Proc : Born(q) => Born(q)'
  BY <1>1 DEF Born, Session, Over, Points
<1>4. (OwnRow /\ Naming /\ NamesUnique)'
  <2>1. \A q \in Proc :
           /\ pc'[q] \in {"none", "choose"} => pc[q] \in {"none", "choose"}
           /\ pc'[q] = "fill" => pc[q] = "fill"
           /\ pc'[q] = "rename" => pc[q] = "rename" /\ ptr'[q] = ptr[q] /\ cmd'[q] = cmd[q]
           /\ ptr'[q] = ptr[q] \/ (ptr'[q] # 0 => ptr'[q] = row[q] /\ Born(q))
    BY <1>1 DEF Session, Over, Points
  <2> QED
    BY <1>3, <2>1, RowsFrame
<1>5. Hearing'
  <2>1. \A q \in Proc :
           /\ k[q] # 0 => pc'[q] \in {"scan", "kill", "killed"} /\ cmd'[q] = cmd[q]
           /\ q \in unheard /\ Alive(q)' => Alive(q)
    <3>1. \A q \in unheard : Born(q)
      BY DEF HInv, Hearing
    <3> QED
      BY <1>1, <1>2, <3>1 DEF HInv, Hearing, Alive, Over, Born
  <2>2. \A s \in Slot, q \in unheard : pid'[s] = q => pid[s] = q
    OBVIOUS
  <2> QED
    BY <1>3, <2>1, <2>2, HearingFrame
<1> QED
  BY <1>4, <1>5 DEF HInv

LEMMA QuietSteps ==
  ASSUME IInv, HInv, NEW p \in Proc,
         \/ Accept(p) \/ Blank(p) \/ Shell(p) \/ EndOfFile(p)
         \/ Receive(p) \/ Send(p) \/ RunLost(p) \/ Finish(p)
  PROVE  HInv'
<1> USE DEF Born, Session, Points, Over
<1>0. leaked = 0 => \A q \in Proc : fdno[q] = 0
  BY DEF HInv, Hearing
<1>1. CASE Accept(p)
  <2>1. leaked = 0 => \A q \in Proc : fdno'[q] = 0
    BY <1>0, <1>1 DEF Accept, IInv, TypeOK, DataTypes
  <2> QED
    BY <1>1, <2>1, QuietHeard DEF Accept, Goto, shared, history
<1>2. CASE Blank(p)
  <2>1. PICK there \in {"crashed", "write"} : pc' = [pc EXCEPT ![p] = there]
    BY <1>2 DEF Blank, Goto
  <2>2. pc[p] = "blank" /\ UNCHANGED <<pid, name, user_pipe, local, pending, leaked, history>>
        /\ message' \in {message, "blank"}
    BY <1>2 DEF Blank
  <2> QED
    BY <1>0, <2>1, <2>2, QuietHeard DEF local, history
<1>3. CASE Shell(p)
  <2>1. pc[p] = "shell" /\ pc' = [pc EXCEPT ![p] = "prompt"]
        /\ ptr' = [ptr EXCEPT ![p] = get_client_by_pid(p)]
        /\ UNCHANGED <<shared, row, cmd, k, in, fdt, fdno, done, pending, leaked, history>>
    BY <1>3 DEF Shell, Goto
  <2>2. get_client_by_pid(p) # 0 => get_client_by_pid(p) = row[p]
    <3>1. get_client_by_pid(p) # 0 =>
            get_client_by_pid(p) \in Slot /\ pid[get_client_by_pid(p)] = p
      BY LookupType
    <3>2. p # 0
      BY DEF Proc
    <3> QED
      BY <3>1, <3>2 DEF HInv, OwnRow
  <2>3. ptr'[p] = get_client_by_pid(p) /\ \A q \in Proc \ {p} : ptr'[q] = ptr[q]
    BY <2>1 DEF IInv, TypeOK, ControlTypes
  <2> QED
    BY <1>0, <2>1, <2>2, <2>3, QuietHeard DEF shared, history
<1>4. CASE EndOfFile(p)
  <2>1. PICK there \in {"reset", "killed", "spin"} : pc' = [pc EXCEPT ![p] = there]
    BY <1>4 DEF EndOfFile, Goto
  <2> QED
    BY <1>0, <1>4, <2>1, QuietHeard DEF EndOfFile, shared, local, history
<1>5. CASE Receive(p) \/ Send(p) \/ RunLost(p) \/ Finish(p)
  <2>1. PICK there \in {"finish", "crashed", "again", "prompt"} : pc' = [pc EXCEPT ![p] = there]
    BY <1>5 DEF Receive, Send, RunLost, Finish, Goto
  <2>2. /\ pc[p] \in {"run", "finish", "again"}
        /\ UNCHANGED <<pid, name, message, row, ptr, cmd, k, fdno, pending, leaked>>
        /\ UNCHANGED <<rivals, overlap, unheard>>
    BY <1>5 DEF Receive, Send, RunLost, Finish, shared, local, history
  <2> QED
    BY <1>0, <2>1, <2>2, QuietHeard
<1> QED
  BY <1>1, <1>2, <1>3, <1>4, <1>5

LEMMA ForkFailsHeard == ASSUME IInv, HInv, ForkFails PROVE HInv'
<1>1. leaked' = leaked + 1 /\ UNCHANGED <<shared, pc, local, pending, history>>
  BY DEF ForkFails
<1>2. leaked' # 0
  <2>1. leaked \in 0 .. MaxLeaks
    BY DEF IInv, TypeOK, DataTypes
  <2> QED
    BY <1>1, <2>1
<1>3. (OwnRow /\ Naming /\ NamesUnique)'
  BY <1>1, RowsFrame DEF shared, local, history, Born
<1>4. Hearing'
  BY <1>1, <1>2 DEF HInv, Hearing, Born, shared, local, history
<1> QED
  BY <1>3, <1>4 DEF HInv

-----------------------------------------------------------------------------
(* Rows.                                                                   *)

(* Who chooses had no rival, so rivals are never forgotten.                *)
LEMMA ChooseHeard == ASSUME IInv, HInv, NEW p \in Proc, Choose(p) PROVE HInv'
<1>1. PICK s \in get_available_client :
        /\ row' = [row EXCEPT ![p] = s]
        /\ rivals' = [q \in Proc |-> IF q = p THEN Claiming(s)
                                     ELSE IF q \in Claiming(s) THEN rivals[q] \cup {p}
                                     ELSE rivals[q]]
        /\ IF s = 0 THEN Goto(p, "blank") \/ Goto(p, "crashed") ELSE Goto(p, "clear")
  BY DEF Choose
<1>2. /\ pc[p] = "choose"
      /\ UNCHANGED <<shared, ptr, cmd, k, in, fdt, fdno, done, pending, leaked, unheard, overlap>>
  BY DEF Choose
<1>3. /\ pc'[p] \in {"blank", "crashed", "clear"}
      /\ \A q \in Proc \ {p} : pc'[q] = pc[q] /\ row'[q] = row[q]
  <2>1. pc' = [pc EXCEPT ![p] = "blank"] \/ pc' = [pc EXCEPT ![p] = "crashed"]
        \/ pc' = [pc EXCEPT ![p] = "clear"]
    BY <1>1 DEF Goto
  <2>2. pc \in [Proc -> Over \cup Points] /\ row \in [Proc -> Slot \cup {0}]
    BY DEF IInv, TypeOK, ControlTypes
  <2> QED
    BY <1>1, <2>1, <2>2
<1>4. \A q \in Proc \ {p} : rivals[q] # {} => rivals'[q] # {}
  BY <1>1
<1>5. rivals[p] = {}
  BY <1>2 DEF HInv, OwnRow
<1>6. Alone' => Alone
  BY <1>4, <1>5 DEF Alone
<1>7. \A q \in Proc : Born(q) => Born(q)' /\ q # p
  BY <1>2, <1>3 DEF Born
<1>8. OwnRow'
  <2>1. \A t \in Slot : pid[t] # 0 => pid[t] \in Proc
    BY DEF IInv, TypeOK, ControlTypes
  <2>2. \A t \in Slot : pid'[t] # 0 => row'[pid'[t]] = t /\ Born(pid[t])'
    BY <1>2, <1>3, <1>7, <2>1 DEF HInv, OwnRow, shared
  <2>3. \A q \in Proc : ptr'[q] # 0 => ptr'[q] = row'[q] /\ Born(q)'
    BY <1>2, <1>3, <1>7 DEF HInv, OwnRow
  <2>4. \A q \in Proc : pc'[q] \in {"none", "choose"} => rivals'[q] = {}
    BY <1>1, <1>3 DEF HInv, OwnRow, Claiming
  <2> QED
    BY <2>2, <2>3, <2>4 DEF OwnRow, Born
<1>9. Naming' /\ NamesUnique'
  <2>1. \A q \in Proc : pc'[q] \in {"fill", "rename"} => q # p
    BY <1>3
  <2>2. NamesUnique'
    BY <1>2, <1>6 DEF HInv, NamesUnique, Enabled, Alone, shared
  <2> QED
    BY <1>2, <1>3, <1>6, <2>1, <2>2 DEF HInv, Naming, Enabled, shared
<1>10. Hearing'
  <2>1. \A q \in Proc :
           /\ k[q] # 0 => pc'[q] \in {"scan", "kill", "killed"} /\ cmd'[q] = cmd[q]
           /\ q \in unheard /\ Alive(q)' => Alive(q)
    BY <1>2, <1>3 DEF HInv, Hearing, Alive, Over
  <2>2. leaked = 0 => \A q \in Proc : fdno'[q] = 0
    BY <1>2 DEF HInv, Hearing
  <2>3. \A t \in Slot, q \in unheard : pid'[t] = q => pid[t] = q
    BY <1>2 DEF shared
  <2> QED
    BY <1>2, <1>7, <2>1, <2>2, <2>3, HearingFrame DEF shared
<1> QED
  BY <1>8, <1>9, <1>10 DEF HInv

(* A row is cleared before it is filled; nobody else names it.             *)
LEMMA ClaimHeard == ASSUME IInv, HInv, NEW p \in Proc, Clear(p) \/ Fill(p) PROVE HInv'
<1>1. /\ row[p] \in Slot /\ pc[p] \in Claims /\ pc'[p] \in {"fill", "blank"}
      /\ \A q \in Proc \ {p} : pc'[q] = pc[q]
      /\ UNCHANGED <<message, user_pipe, local, pending, leaked, history>>
  BY DEF IInv, TypeOK, ControlTypes, LocalInv, Clear, Fill, Goto, Claims
<1>2. \A t \in Slot : t # row[p] => pid'[t] = pid[t] /\ name'[t] = name[t]
  BY DEF Clear, Fill, IInv, TypeOK, ControlTypes
<1>3. \/ /\ pc[p] = "clear" /\ pc'[p] = "fill" /\ pid'[row[p]] = 0 /\ name'[row[p]] = NoName
      \/ /\ pc[p] = "fill" /\ pc'[p] = "blank" /\ pid'[row[p]] = p
         /\ name'[row[p]] = name[row[p]]
  <2>1. /\ pc \in [Proc -> Over \cup Points] /\ pid \in [Slot -> Proc \cup {0}]
        /\ name \in [Slot -> Names \cup {NoName, ""}]
    BY DEF IInv, TypeOK, ControlTypes
  <2>2. CASE Clear(p)
    BY <1>1, <2>1, <2>2 DEF Clear, Goto
  <2>3. CASE Fill(p)
    BY <1>1, <2>1, <2>3 DEF Fill, Goto
  <2> QED
    BY <2>2, <2>3
<1>4. \A q \in Proc : Born(q) => Born(q)' /\ q # p
  BY <1>1, <1>3 DEF Born, Claims
<1>5. \A t \in Slot : pid[t] # 0 => pid[t] \in Proc
  BY DEF IInv, TypeOK, ControlTypes
<1>6. OwnRow'
  <2>1. ASSUME NEW t \in Slot, pid'[t] # 0 PROVE row'[pid'[t]] = t /\ Born(pid[t])'
    <3>1. CASE t = row[p]
      BY <1>1, <1>3, <2>1, <3>1 DEF Born, local
    <3>2. CASE t # row[p]
      BY <1>1, <1>2, <1>4, <1>5, <2>1, <3>2 DEF HInv, OwnRow, local
    <3> QED
      BY <3>1, <3>2
  <2>2. \A q \in Proc : ptr'[q] # 0 => ptr'[q] = row'[q] /\ Born(q)'
    BY <1>1, <1>4 DEF HInv, OwnRow, local
  <2>3. \A q \in Proc : pc'[q] \in {"none", "choose"} => rivals'[q] = {}
    BY <1>1 DEF HInv, OwnRow, history
  <2> QED
    BY <2>1, <2>2, <2>3 DEF OwnRow, Born
<1>7. Alone => \A q \in Proc : q # p /\ pc[q] \notin Early => row[q] # row[p]
  BY <1>1 DEF IInv, Table, ClaimsContested, Alone
<1>8. rivals' = rivals /\ overlap' = overlap /\ row' = row /\ ptr' = ptr /\ cmd' = cmd
  BY <1>1 DEF local, history
<1>9. NoName \notin Names
  BY ConcurrentAssumption
<1>10. Alone => \/ pid'[row[p]] = 0
                \/ name'[row[p]] = NoName /\ pc'[p] = "blank"
  BY <1>3 DEF HInv, Naming
<1>11. Naming'
  <2> SUFFICES ASSUME Alone, Alone' PROVE Naming'
    BY <1>8 DEF Naming, Alone
  <2>1. ASSUME NEW q \in Proc, pc'[q] = "fill"
        PROVE  pid'[row'[q]] = 0 /\ name'[row'[q]] = NoName
    <3>1. CASE q = p
      BY <1>3, <1>8, <2>1, <3>1
    <3>2. CASE q # p
      <4>1. pc[q] = "fill" /\ row[q] # row[p]
        BY <1>1, <1>7, <2>1, <3>2 DEF Early, Over
      <4>2. row[q] \in Slot /\ pid[row[q]] = 0 /\ name[row[q]] = NoName
        BY <4>1 DEF HInv, Naming, IInv, LocalInv, Claims
      <4> QED
        BY <1>2, <1>8, <4>1, <4>2
    <3> QED
      BY <3>1, <3>2
  <2>2. \A q, r \in Proc :
          q # r /\ pc'[q] = "rename" /\ pc'[r] = "rename" => {q, r} \in overlap'
    BY <1>1, <1>8 DEF HInv, Naming
  <2>3. ASSUME NEW q \in Proc, pc'[q] = "rename", NEW t \in Slot, t # ptr[q],
               pid'[t] # 0, name'[t] = cmd[q].n
        PROVE  {q, pid'[t]} \in overlap
    <3>1. pc[q] = "rename" /\ cmd[q].n \in Names
      BY <1>1, <2>3, CmdFacts DEF IInv, LocalInv
    <3>2. CASE t = row[p]
      BY <1>9, <1>10, <2>3, <3>1, <3>2
    <3>3. CASE t # row[p]
      BY <1>2, <2>3, <3>1, <3>3 DEF HInv, Naming, Enabled
    <3> QED
      BY <3>2, <3>3
  <2> QED
    BY <1>8, <2>1, <2>2, <2>3 DEF Naming, Enabled
<1>12. NamesUnique'
  <2> SUFFICES ASSUME Alone, NEW s \in Slot, NEW t \in Slot, s # t, pid'[s] # 0, pid'[t] # 0,
                      name'[s] = name'[t], name'[s] \in Names
               PROVE  {pid'[s], pid'[t]} \in overlap
    BY <1>8 DEF NamesUnique, Enabled, Alone
  <2>1. s # row[p] /\ t # row[p]
    BY <1>9, <1>10
  <2> QED
    BY <1>2, <2>1 DEF HInv, NamesUnique, Enabled, Alone
<1>13. Hearing'
  <2>1. \A q \in Proc :
           /\ k[q] # 0 => pc'[q] \in {"scan", "kill", "killed"} /\ cmd'[q] = cmd[q]
           /\ q \in unheard /\ Alive(q)' => Alive(q)
    BY <1>1, <1>8 DEF HInv, Hearing, Alive, Over, Claims
  <2>2. leaked = 0 => \A q \in Proc : fdno'[q] = 0
    BY <1>1 DEF HInv, Hearing, local
  <2>3. ASSUME NEW t \in Slot, NEW q \in unheard, pid'[t] = q
        PROVE  pid[t] = q
    <3>1. q \in Proc /\ Born(q)
      BY DEF HInv, Hearing, IInv, TypeOK, DataTypes
    <3>2. q # p /\ q # 0
      BY <1>4, <3>1 DEF Proc
    <3> QED
      BY <1>2, <1>3, <2>3, <3>2
  <2> QED
    BY <1>1, <1>4, <2>1, <2>2, <2>3, HearingFrame DEF local, history
<1> QED
  BY <1>6, <1>11, <1>12, <1>13 DEF HInv

LEMMA ResetHeard == ASSUME IInv, HInv, NEW p \in Proc, Reset(p) PROVE HInv'
<1> DEFINE me == get_client_by_pid(p)
<1>1. pc[p] = "reset" /\ UNCHANGED <<message, local, pending, leaked, history>>
  BY DEF Reset
<1>2. me \in Slot \cup {0} /\ (me # 0 => pid[me] = p) /\ p # 0
  BY LookupType DEF Proc
<1>3. leaked = 0 => \A q \in Proc : fdno'[q] = 0
  BY <1>1 DEF HInv, Hearing, local
<1>4. CASE me = 0
  <2>1. pc' = [pc EXCEPT ![p] = "crashed"] /\ UNCHANGED <<pid, name, user_pipe>>
    BY <1>4 DEF Reset, Goto
  <2> QED
    BY <1>1, <1>3, <2>1, QuietHeard DEF Born, Session, Points, Over, local, history
<1>5. CASE me # 0
  <2>0. /\ Goto(p, "left")
        /\ pid' = [pid EXCEPT ![me] = 0] /\ name' = [name EXCEPT ![me] = ""]
    BY <1>5 DEF Reset
  <2> HIDE DEF me
  <2>1. /\ pc' = [pc EXCEPT ![p] = "left"]
        /\ pid' = [pid EXCEPT ![me] = 0] /\ name' = [name EXCEPT ![me] = ""]
    BY <2>0 DEF Goto
  <2>2. pc'[p] = "left" /\ \A q \in Proc \ {p} : pc'[q] = pc[q]
    BY <2>1 DEF IInv, TypeOK, ControlTypes
  <2>3. /\ pid'[me] = 0 /\ me \in Slot /\ row[p] = me
        /\ \A t \in Slot : t # me => pid'[t] = pid[t] /\ name'[t] = name[t]
    BY <1>2, <1>5, <2>1 DEF IInv, TypeOK, ControlTypes, HInv, OwnRow
  <2>4. rivals' = rivals /\ overlap' = overlap /\ row' = row /\ ptr' = ptr /\ cmd' = cmd
        /\ k' = k /\ unheard' = unheard
    BY <1>1 DEF local, history
  <2>5. \A q \in Proc : Born(q) => Born(q)'
    BY <2>2 DEF Born
  <2>6. OwnRow'
    <3>1. \A t \in Slot : pid[t] # 0 => pid[t] \in Proc
      BY DEF IInv, TypeOK, ControlTypes
    <3>2. \A t \in Slot : pid'[t] # 0 => row'[pid'[t]] = t /\ Born(pid[t])'
      BY <2>3, <2>4, <2>5, <3>1 DEF HInv, OwnRow
    <3>3. \A q \in Proc : ptr'[q] # 0 => ptr'[q] = row'[q] /\ Born(q)'
      BY <2>4, <2>5 DEF HInv, OwnRow
    <3>4. \A q \in Proc : pc'[q] \in {"none", "choose"} => rivals'[q] = {}
      BY <2>2, <2>4 DEF HInv, OwnRow
    <3> QED
      BY <3>2, <3>3, <3>4 DEF OwnRow, Born
  <2>7. Naming'
    <3> SUFFICES ASSUME Alone PROVE Naming'
      BY <2>4 DEF Naming, Alone
    <3>1. ASSUME NEW q \in Proc, pc'[q] = "fill"
          PROVE  pid'[row'[q]] = 0 /\ name'[row'[q]] = NoName
      <4>1. q # p /\ pc[q] = "fill"
        BY <2>2, <3>1
      <4>2. row[q] \in Slot /\ pid[row[q]] = 0 /\ name[row[q]] = NoName
        BY <4>1 DEF HInv, Naming, IInv, LocalInv, Claims
      <4> QED
        BY <1>2, <1>5, <2>3, <2>4, <4>2
    <3>2. \A q, r \in Proc :
            q # r /\ pc'[q] = "rename" /\ pc'[r] = "rename" => {q, r} \in overlap'
      BY <2>2, <2>4 DEF HInv, Naming
    <3>3. ASSUME NEW q \in Proc, pc'[q] = "rename", NEW t \in Slot, t # ptr[q],
                 pid'[t] # 0, name'[t] = cmd[q].n
          PROVE  {q, pid'[t]} \in overlap
      BY <2>2, <2>3, <3>3 DEF HInv, Naming, Enabled
    <3> QED
      BY <2>4, <3>1, <3>2, <3>3 DEF Naming, Enabled
  <2>8. NamesUnique'
    <3> SUFFICES ASSUME Alone, NEW s \in Slot, NEW t \in Slot, s # t, pid'[s] # 0,
                        pid'[t] # 0, name'[s] = name'[t], name'[s] \in Names
                 PROVE  {pid'[s], pid'[t]} \in overlap
      BY <2>4 DEF NamesUnique, Enabled, Alone
    <3> QED
      BY <2>3 DEF HInv, NamesUnique, Enabled, Alone
  <2>9. Hearing'
    <3>1. \A q \in Proc :
             /\ k[q] # 0 => pc'[q] \in {"scan", "kill", "killed"} /\ cmd'[q] = cmd[q]
             /\ q \in unheard /\ Alive(q)' => Alive(q)
      BY <1>1, <2>2, <2>4 DEF HInv, Hearing, Alive, Over
    <3>2. \A t \in Slot, q \in unheard : pid'[t] = q => pid[t] = q
      <4>1. 0 \notin unheard
        BY DEF IInv, TypeOK, DataTypes, Proc
      <4> QED
        BY <2>3, <4>1
    <3> QED
      BY <1>1, <1>3, <2>4, <2>5, <3>1, <3>2, HearingFrame
  <2> QED
    BY <2>6, <2>7, <2>8, <2>9 DEF HInv
<1> QED
  BY <1>4, <1>5

-----------------------------------------------------------------------------
(* Nicknames.                                                              *)

LEMMA RenameHeard == ASSUME IInv, HInv, NEW p \in Proc, Rename(p) PROVE HInv'
<1>1. pc[p] = "rename" /\ pc' = [pc EXCEPT ![p] = "blank"]
      /\ name' = [name EXCEPT ![ptr[p]] = cmd[p].n]
      /\ UNCHANGED <<pid, message, user_pipe, local, pending, leaked, history>>
  BY DEF Rename, Goto
<1>2. cmd[p].n \in Names /\ ptr[p] \in Slot /\ ptr[p] # 0
  BY <1>1, CmdFacts DEF IInv, LocalInv, Slot
<1>3. pc'[p] = "blank" /\ \A q \in Proc \ {p} : pc'[q] = pc[q]
  BY <1>1 DEF IInv, TypeOK, ControlTypes
<1>4. name'[ptr[p]] = cmd[p].n /\ \A t \in Slot : t # ptr[p] => name'[t] = name[t]
  BY <1>1, <1>2 DEF IInv, TypeOK, ControlTypes
<1>5. rivals' = rivals /\ overlap' = overlap /\ row' = row /\ ptr' = ptr /\ cmd' = cmd
      /\ k' = k /\ unheard' = unheard
  BY <1>1 DEF local, history
<1>6. \A q \in Proc : Born(q) => Born(q)'
  BY <1>3 DEF Born
<1>7. OwnRow'
  <2>1. \A t \in Slot : pid[t] # 0 => pid[t] \in Proc
    BY DEF IInv, TypeOK, ControlTypes
  <2>2. \A t \in Slot : pid'[t] # 0 => row'[pid'[t]] = t /\ Born(pid[t])'
    BY <1>1, <1>5, <1>6, <2>1 DEF HInv, OwnRow
  <2>3. \A q \in Proc : ptr'[q] # 0 => ptr'[q] = row'[q] /\ Born(q)'
    BY <1>5, <1>6 DEF HInv, OwnRow
  <2>4. \A q \in Proc : pc'[q] \in {"none", "choose"} => rivals'[q] = {}
    BY <1>3, <1>5 DEF HInv, OwnRow
  <2> QED
    BY <2>2, <2>3, <2>4 DEF OwnRow, Born
<1>8. Alone => pid[ptr[p]] = p
  BY <1>1, <1>2 DEF HInv, OwnRow, IInv, Table, RowKept, Alone, Over
<1>9. Alone => \A q \in Proc : pc[q] = "fill" => row[q] # ptr[p]
  <2>1. ptr[p] = row[p]
    BY <1>2 DEF HInv, OwnRow
  <2> QED
    BY <1>1, <2>1 DEF IInv, Table, ClaimsContested, Alone, Early, Over, Claims
<1>10. Naming'
  <2> SUFFICES ASSUME Alone PROVE Naming'
    BY <1>5 DEF Naming, Alone
  <2>1. ASSUME NEW q \in Proc, pc'[q] = "fill"
        PROVE  pid'[row'[q]] = 0 /\ name'[row'[q]] = NoName
    <3>1. pc[q] = "fill"
      BY <1>3, <2>1
    <3>2. row[q] \in Slot /\ row[q] # ptr[p] /\ pid[row[q]] = 0 /\ name[row[q]] = NoName
      BY <1>9, <3>1 DEF HInv, Naming, IInv, LocalInv, Claims
    <3> QED
      BY <1>1, <1>4, <1>5, <3>2
  <2>2. \A q, r \in Proc :
          q # r /\ pc'[q] = "rename" /\ pc'[r] = "rename" => {q, r} \in overlap'
    BY <1>3, <1>5 DEF HInv, Naming
  <2>3. ASSUME NEW q \in Proc, pc'[q] = "rename", NEW t \in Slot, t # ptr[q],
               pid[t] # 0, name'[t] = cmd[q].n
        PROVE  {q, pid[t]} \in overlap
    <3>1. q # p /\ pc[q] = "rename"
      BY <1>3, <2>3
    <3>2. CASE t = ptr[p]
      BY <1>1, <1>8, <3>1, <3>2 DEF HInv, Naming
    <3>3. CASE t # ptr[p]
      BY <1>4, <2>3, <3>1, <3>3 DEF HInv, Naming, Enabled
    <3> QED
      BY <3>2, <3>3
  <2> QED
    BY <1>1, <1>5, <2>1, <2>2, <2>3 DEF Naming, Enabled
<1>11. NamesUnique'
  <2> SUFFICES ASSUME Alone, NEW s \in Slot, NEW t \in Slot, s # t, pid[s] # 0, pid[t] # 0,
                      name'[s] = name'[t], name'[s] \in Names
               PROVE  {pid[s], pid[t]} \in overlap
    BY <1>1, <1>5 DEF NamesUnique, Enabled, Alone
  <2>1. ASSUME NEW u \in Slot, u # ptr[p], pid[u] # 0, name'[u] = cmd[p].n
        PROVE  {p, pid[u]} \in overlap
    BY <1>1, <1>4, <2>1 DEF HInv, Naming, Enabled
  <2>2. CASE s = ptr[p]
    BY <1>4, <1>8, <2>1, <2>2
  <2>3. CASE t = ptr[p]
    <3>1. {p, pid[s]} \in overlap /\ pid[t] = p
      BY <1>4, <1>8, <2>1, <2>3
    <3>2. {p, pid[s]} = {pid[s], pid[t]}
      BY <3>1
    <3> QED
      BY <3>1, <3>2
  <2>4. CASE s # ptr[p] /\ t # ptr[p]
    BY <1>4, <2>4 DEF HInv, NamesUnique, Enabled, Alone
  <2> QED
    BY <2>2, <2>3, <2>4
<1>12. Hearing'
  <2>1. leaked = 0 => \A q \in Proc : fdno'[q] = 0
    BY <1>1 DEF HInv, Hearing, local
  <2>2. \A q \in Proc :
           /\ k[q] # 0 => pc'[q] \in {"scan", "kill", "killed"} /\ cmd'[q] = cmd[q]
           /\ q \in unheard /\ Alive(q)' => Alive(q)
    BY <1>1, <1>3, <1>5 DEF HInv, Hearing, Alive, Over
  <2>3. \A t \in Slot, q \in unheard : pid'[t] = q => pid[t] = q
    BY <1>1
  <2> QED
    BY <1>1, <1>5, <1>6, <2>1, <2>2, <2>3, HearingFrame
<1> QED
  BY <1>7, <1>10, <1>11, <1>12 DEF HInv

(* A process that may take a nickname has found it in no other row, and    *)
(* has met everyone else who is about to take one.                         *)
LEMMA CommandHeard ==
  ASSUME IInv, HInv, NEW p \in Proc, NEW c \in Commands, Command(p, c) PROVE HInv'
<1>1. pc[p] = "prompt" /\ cmd' = [cmd EXCEPT ![p] = c]
      /\ UNCHANGED <<shared, row, ptr, k, in, fdt, fdno, pending, leaked, unheard, rivals>>
  BY DEF Command
<1>2. PICK there \in {"crashed", "prompt", "rename", "blank"} :
        /\ pc' = [pc EXCEPT ![p] = there]
        /\ there = "rename" => ptr[p] # 0 /\ c.op = "name" /\ checkname(p, c.n)
  BY DEF Command, Goto, Admissible
<1>3. pc'[p] = there /\ cmd'[p] = c
      /\ \A q \in Proc \ {p} : pc'[q] = pc[q] /\ cmd'[q] = cmd[q]
  BY <1>1, <1>2 DEF IInv, TypeOK, ControlTypes, DataTypes
<1>4. overlap' = IF there = "rename"
                 THEN overlap \cup {{p, q} : q \in {r \in Proc : pc[r] = "rename"}}
                 ELSE overlap
  BY <1>3 DEF Command
<1>5. leaked = 0 => \A q \in Proc : fdno'[q] = 0
  BY <1>1 DEF HInv, Hearing
<1>6. CASE there # "rename"
  <2>1. overlap' = overlap
    BY <1>4, <1>6
  <2> QED
    BY <1>1, <1>2, <1>3, <1>5, <1>6, <2>1, QuietHeard
    DEF shared, Born, Session, Points, Over
<1>7. CASE there = "rename"
  <2>1. ptr[p] \in Slot /\ ptr[p] = row[p]
    BY <1>2, <1>7 DEF HInv, OwnRow, IInv, TypeOK, ControlTypes
  <2>2. Alone => pid[ptr[p]] = p
    BY <1>1, <1>2, <1>7, <2>1 DEF IInv, Table, RowKept, Alone, Over
  <2>3. \A t \in Slot : t # ptr[p] => pid[t] # p
    BY <2>1 DEF HInv, OwnRow, Proc
  <2>4. Alone => \A t \in Slot : t # ptr[p] => name[t] # c.n
    BY <1>2, <1>7, <2>2, <2>3 DEF checkname
  <2>5. overlap \subseteq overlap'
        /\ \A q \in Proc : pc[q] = "rename" => {p, q} \in overlap' /\ {q, p} \in overlap'
    <3>1. overlap \subseteq overlap'
          /\ \A q \in Proc : pc[q] = "rename" => {p, q} \in overlap'
      BY <1>4, <1>7
    <3>2. \A q : {p, q} = {q, p}
      OBVIOUS
    <3> QED
      BY <3>1, <3>2
  <2>6. \A q \in Proc : Born(q) => Born(q)'
    BY <1>3, <1>7 DEF Born
  <2>7. OwnRow'
    <3>1. \A t \in Slot : pid[t] # 0 => pid[t] \in Proc
      BY DEF IInv, TypeOK, ControlTypes
    <3>2. \A t \in Slot : pid'[t] # 0 => row'[pid'[t]] = t /\ Born(pid[t])'
      BY <1>1, <2>6, <3>1 DEF HInv, OwnRow, shared
    <3>3. \A q \in Proc : ptr'[q] # 0 => ptr'[q] = row'[q] /\ Born(q)'
      BY <1>1, <2>6 DEF HInv, OwnRow
    <3>4. \A q \in Proc : pc'[q] \in {"none", "choose"} => rivals'[q] = {}
      BY <1>1, <1>3, <1>7 DEF HInv, OwnRow
    <3> QED
      BY <3>2, <3>3, <3>4 DEF OwnRow, Born
  <2>8. Naming'
    <3> SUFFICES ASSUME Alone PROVE Naming'
      BY <1>1 DEF Naming, Alone
    <3>1. \A q \in Proc : pc'[q] = "fill" => pid'[row'[q]] = 0 /\ name'[row'[q]] = NoName
      BY <1>1, <1>3, <1>7 DEF HInv, Naming, shared
    <3>2. ASSUME NEW q \in Proc, NEW r \in Proc, q # r, pc'[q] = "rename", pc'[r] = "rename"
          PROVE  {q, r} \in overlap'
      <4>1. CASE q = p
        BY <1>3, <2>5, <3>2, <4>1
      <4>2. CASE r = p
        BY <1>3, <2>5, <3>2, <4>2
      <4>3. CASE q # p /\ r # p
        BY <1>3, <2>5, <3>2, <4>3 DEF HInv, Naming
      <4> QED
        BY <4>1, <4>2, <4>3
    <3>3. ASSUME NEW q \in Proc, pc'[q] = "rename", NEW t \in Slot, t # ptr[q],
                 pid[t] # 0, name[t] = cmd'[q].n
          PROVE  {q, pid[t]} \in overlap'
      <4>1. CASE q = p
        BY <1>3, <2>4, <3>3, <4>1
      <4>2. CASE q # p
        BY <1>3, <2>5, <3>3, <4>2 DEF HInv, Naming, Enabled
      <4> QED
        BY <4>1, <4>2
    <3> QED
      BY <1>1, <3>1, <3>2, <3>3 DEF Naming, Enabled, shared
  <2>9. NamesUnique'
    BY <1>1, <2>5 DEF HInv, NamesUnique, Enabled, Alone, shared
  <2>10. Hearing'
    <3>1. \A q \in Proc :
             /\ k[q] # 0 => pc'[q] \in {"scan", "kill", "killed"} /\ cmd'[q] = cmd[q]
             /\ q \in unheard /\ Alive(q)' => Alive(q)
      BY <1>1, <1>3, <1>7 DEF HInv, Hearing, Alive, Over
    <3>2. \A t \in Slot, q \in unheard : pid'[t] = q => pid[t] = q
      BY <1>1 DEF shared
    <3> QED
      BY <1>1, <1>5, <2>6, <3>1, <3>2, HearingFrame DEF shared
  <2> QED
    BY <2>7, <2>8, <2>9, <2>10 DEF HInv
<1> QED
  BY <1>6, <1>7

-----------------------------------------------------------------------------
(* Messages.                                                               *)

LEMMA WriteHeard == ASSUME IInv, HInv, NEW p \in Proc, Write(p) PROVE HInv'
<1>1. PICK there \in {"kill", "scan"} : pc' = [pc EXCEPT ![p] = there]
  BY DEF Write, Goto
<1>2. pc[p] = "write" /\ UNCHANGED <<pid, name, user_pipe, row, ptr, cmd, in, fdt, fdno,
                                     done, pending, leaked, rivals, overlap>>
      /\ message' = cmd[p].op /\ k' = [k EXCEPT ![p] = FirstRow(p)]
      /\ unheard' = {q \in Proc : Alive(q) /\ InTable(q)}
  BY DEF Write
<1>3. pc'[p] = there /\ \A q \in Proc \ {p} : pc'[q] = pc[q]
  <2>1. DOMAIN pc = Proc
    BY DEF IInv, TypeOK, ControlTypes
  <2> QED
    BY <1>1, <2>1
<1>4. k'[p] = FirstRow(p) /\ \A q \in Proc \ {p} : k'[q] = k[q]
  <2>1. DOMAIN k = Proc
    BY DEF IInv, TypeOK, ControlTypes
  <2> QED
    BY <1>2, <2>1
<1>5. \A q \in Proc : Born(q) => Born(q)'
  BY <1>3 DEF Born
<1>6. (OwnRow /\ Naming /\ NamesUnique)'
  BY <1>2, <1>3, <1>5, RowsFrame
<1>7. \A q \in unheard' : Born(q)'
  <2> SUFFICES ASSUME NEW q \in Proc, InTable(q) PROVE Born(q)
    BY <1>2, <1>5
  <2>1. get_client_by_pid(q) \in Slot /\ pid[get_client_by_pid(q)] = q /\ q # 0
    BY LookupType DEF InTable, Proc
  <2> QED
    BY <2>1 DEF HInv, OwnRow
<1>8. \A q \in Proc : k'[q] # 0 => pc'[q] \in {"scan", "kill", "killed"}
  BY <1>3, <1>4 DEF HInv, Hearing
<1>9. message' \in Broadcasts => \A s \in Slot : Coming(s)'
  <2> SUFFICES ASSUME cmd[p].op \in Broadcasts, NEW s \in Slot PROVE Coming(s)'
    BY <1>2
  <2>1. FirstRow(p) = 1
    BY DEF FirstRow, Broadcasts
  <2>2. 1 <= s
    BY DEF Slot
  <2>3. cmd'[p].op \in Broadcasts /\ k'[p] # 0 /\ k'[p] <= s
    BY <1>2, <1>4, <2>1, <2>2
  <2> QED
    BY <2>3 DEF Coming
<1>10. leaked' = 0 => \A q \in Proc : fdno'[q] = 0
  BY <1>2 DEF HInv, Hearing
<1>11. Hearing'
  BY <1>7, <1>8, <1>9, <1>10 DEF Hearing
<1> QED
  BY <1>6, <1>11 DEF HInv

(* The loop passes a row only after its client got the signal, or because  *)
(* the row is free.                                                        *)
LEMMA LoopHeard == ASSUME IInv, HInv, NEW p \in Proc, Scan(p) \/ Kill(p) PROVE HInv'
<1>1. /\ pc[p] \in {"scan", "kill"} /\ k[p] \in Slot
      /\ UNCHANGED <<shared, row, ptr, cmd, in, fdt, fdno, done, leaked, history>>
  BY DEF Scan, Kill, IInv, LocalInv
<1>2. \/ Scan(p) /\ Enabled(k[p]) /\ pc' = [pc EXCEPT ![p] = "kill"] /\ k' = k
      \/ Loop(p) /\ (Kill(p) \/ ~ Enabled(k[p]))
  BY DEF Scan, Kill, Goto
<1>3. \E there \in {"kill", "scan", "shell", "reset", "run", "prompt"} :
        /\ pc' = [pc EXCEPT ![p] = there]
        /\ there \notin {"kill", "scan"} => k'[p] = 0
  <2>1. CASE Loop(p)
    <3>1. CASE k[p] = CLIENT_NUMBER \/ cmd[p].op \in Private
      <4>1. k' = [k EXCEPT ![p] = 0] /\ pc' = [pc EXCEPT ![p] = Continue(p)]
        BY <2>1, <3>1 DEF Loop, Goto
      <4>2. Continue(p) \in {"shell", "reset", "run", "prompt"}
        BY DEF Continue
      <4> QED
        BY <4>1, <4>2 DEF IInv, TypeOK, ControlTypes
    <3>2. CASE ~ (k[p] = CLIENT_NUMBER \/ cmd[p].op \in Private)
      BY <2>1, <3>2 DEF Loop, Goto
    <3> QED
      BY <3>1, <3>2
  <2> QED
    BY <1>2, <2>1
<1>4. /\ pc'[p] \in {"kill", "scan"} \/ (pc'[p] \in {"shell", "reset", "run", "prompt"} /\ k'[p] = 0)
      /\ \A q \in Proc \ {p} : pc'[q] = pc[q]
  BY <1>3 DEF IInv, TypeOK, ControlTypes
<1>5. \A q \in Proc \ {p} : k'[q] = k[q]
  BY <1>2 DEF Loop, IInv, TypeOK, ControlTypes
<1>6. \A q \in Proc : Born(q) => Born(q)'
  BY <1>4 DEF Born
<1>7. (OwnRow /\ Naming /\ NamesUnique)'
  BY <1>1, <1>4, <1>6, RowsFrame DEF shared, history
<1>8. \A q \in Proc : k'[q] # 0 => pc'[q] \in {"scan", "kill", "killed"}
  BY <1>4, <1>5 DEF HInv, Hearing
<1>9. unheard' = unheard /\ unheard \subseteq Proc /\ \A q \in unheard : Born(q)'
  BY <1>1, <1>6 DEF HInv, Hearing, IInv, TypeOK, DataTypes, history
<1>10. ASSUME NEW q \in Proc
       PROVE  /\ pending[q] => pending'[q]
              /\ Kill(p) /\ Alive(q) /\ pid[k[p]] = q => pending'[q]
  <2>1. CASE Scan(p)
    <3>1. pending' = pending /\ pc[p] = "scan"
      BY <2>1 DEF Scan
    <3> QED
      BY <3>1 DEF Kill
  <2>2. CASE Kill(p)
    BY <2>2 DEF Kill
  <2> QED
    BY <2>1, <2>2
<1>11. ASSUME leaked = 0, message \in Broadcasts, NEW q \in unheard, Alive(q)',
              NEW s \in Slot, pid[s] = q
       PROVE  pending'[q] \/ Coming(s)'
  <2>1. q \in Proc /\ q # 0 /\ Alive(q)
    BY <1>1, <1>4, <1>9, <1>11 DEF Alive, Over, Proc
  <2>2. CASE pending[q]
    BY <1>10, <2>1, <2>2
  <2>3. CASE ~ pending[q]
    <3>1. PICK w \in Proc : cmd[w].op \in Broadcasts /\ k[w] # 0 /\ k[w] <= s
      BY <1>11, <2>1, <2>3 DEF HInv, Hearing, Coming
    <3>2. CASE w # p
      BY <1>1, <1>5, <3>1, <3>2 DEF Coming
    <3>3. CASE w = p
      <4>1. CASE k' = k
        BY <1>1, <3>1, <4>1 DEF Coming
      <4>2. CASE Loop(p) /\ Kill(p) /\ s = k[p]
        BY <1>10, <1>11, <2>1, <4>2
      <4>3. CASE Loop(p) /\ s # k[p]
        <5>1. k[p] \in 1 .. CLIENT_NUMBER /\ s \in 1 .. CLIENT_NUMBER /\ k[p] <= s
              /\ CLIENT_NUMBER \in Nat
          BY <1>1, <3>1, <3>3, ConcurrentAssumption DEF Slot
        <5>2. k[p] # CLIENT_NUMBER /\ k[p] + 1 <= s /\ k[p] + 1 # 0
          BY <4>3, <5>1
        <5>3. cmd[p].op \notin Private
          BY <3>1, <3>3 DEF Broadcasts, Private
        <5>4. k' = [k EXCEPT ![p] = k[p] + 1]
          BY <4>3, <5>2, <5>3 DEF Loop
        <5>5. k'[p] = k[p] + 1
          BY <5>4 DEF IInv, TypeOK, ControlTypes
        <5> QED
          BY <1>1, <3>1, <3>3, <5>2, <5>5 DEF Coming
      <4>4. CASE ~ Enabled(k[p]) /\ s = k[p]
        BY <1>11, <2>1, <4>4 DEF Enabled
      <4> QED
        BY <1>2, <4>1, <4>2, <4>3, <4>4
    <3> QED
      BY <3>2, <3>3
  <2> QED
    BY <2>2, <2>3
<1>12. leaked' = 0 => \A q \in Proc : fdno'[q] = 0
  BY <1>1 DEF HInv, Hearing
<1>13. Hearing'
  <2>1. leaked' = leaked /\ message' = message /\ pid' = pid
    BY <1>1 DEF shared
  <2> QED
    BY <1>8, <1>9, <1>11, <1>12, <2>1 DEF Hearing
<1> QED
  BY <1>7, <1>13 DEF HInv

(* Among the rows that are enabled one is the first.                       *)
LEMMA FirstRowExists ==
  ASSUME NEW s \in Slot, Enabled(s)
  PROVE  \E t \in first_enabled : TRUE
<1> DEFINE R == OpToRel(<, Nat)
           T == {t \in Slot : Enabled(t)}
<1>1. IsWellFoundedOn(R, Nat)
  BY NatLessThanWellFounded
<1>2. \A x, y \in Nat : x < y => <<x, y>> \in R
  BY DEF OpToRel
<1> HIDE DEF R
<1>3. T \subseteq Nat /\ T # {}
  BY ConcurrentAssumption DEF Slot
<1>4. PICK t \in T : \A u \in T : ~ (<<u, t>> \in R)
  BY <1>1, <1>3, WFMin
<1>5. t \in Slot /\ t \in Nat /\ Enabled(t)
  BY <1>3, <1>4
<1>6. ASSUME NEW u \in 1 .. t - 1 PROVE ~ Enabled(u)
  <2>1. u \in Slot /\ u \in Nat /\ u < t
    BY <1>5, ConcurrentAssumption DEF Slot
  <2> QED
    BY <1>2, <1>4, <1>5, <2>1
<1> QED
  BY <1>5, <1>6 DEF first_enabled

(* As long as no fork has failed, the handler sends the buffer whenever    *)
(* its client has a row.                                                   *)
LEMMA HandleHeard == ASSUME IInv, HInv, NEW p \in Proc, Handle(p) PROVE HInv'
<1> DEFINE reached == \E s \in first_enabled : fdno[pid[s]] = fdno[p]
<1>1. /\ UNCHANGED <<shared, local, leaked, rivals, overlap>>
      /\ pending' = [pending EXCEPT ![p] = FALSE]
      /\ unheard' = IF reached /\ message # "blank" THEN unheard \ {p} ELSE unheard
      /\ Alive(p)
  BY DEF Handle
<1>2. pc' = pc \/ pc' = [pc EXCEPT ![p] = "killed"]
  BY DEF Handle, Goto
<1>3. (\A q \in Proc \ {p} : pc'[q] = pc[q]) /\ pc'[p] \in {pc[p], "killed"}
  BY <1>2 DEF IInv, TypeOK, ControlTypes
<1>4. \A q \in Proc : Born(q) => Born(q)'
  BY <1>3 DEF Born
<1>5. (OwnRow /\ Naming /\ NamesUnique)'
  BY <1>1, <1>3, <1>4, RowsFrame DEF shared, local
<1>6. unheard' \subseteq unheard /\ unheard \subseteq Proc
  BY <1>1 DEF IInv, TypeOK, DataTypes
<1>7. \A q \in unheard' : Born(q)'
  BY <1>4, <1>6 DEF HInv, Hearing
<1>8. \A q \in Proc : k'[q] # 0 => pc'[q] \in {"scan", "kill", "killed"}
  BY <1>1, <1>3 DEF HInv, Hearing, local
<1>9. leaked' = 0 => \A q \in Proc : fdno'[q] = 0
  BY <1>1 DEF HInv, Hearing, local
<1>10. ASSUME leaked = 0, message \in Broadcasts, NEW q \in unheard', Alive(q)',
              NEW s \in Slot, pid[s] = q
       PROVE  pending'[q] \/ Coming(s)'
  <2>1. q \in Proc /\ q # 0 /\ message # "blank"
    BY <1>6, <1>10 DEF Proc, Broadcasts
  <2>2. CASE q = p
    <3>1. PICK t \in first_enabled : TRUE
      BY <1>10, <2>1, FirstRowExists DEF Enabled
    <3>2. pid[t] \in Proc
      BY <3>1 DEF first_enabled, Enabled, IInv, TypeOK, ControlTypes
    <3>3. fdno[pid[t]] = fdno[p]
      BY <1>10, <3>2 DEF HInv, Hearing
    <3>4. reached
      BY <3>1, <3>3
    <3> QED
      BY <1>1, <1>10, <2>1, <2>2, <3>4
  <2>3. CASE q # p
    <3>1. pending'[q] = pending[q] /\ (Alive(q)' => Alive(q))
      BY <1>1, <1>3, <2>1, <2>3 DEF IInv, TypeOK, DataTypes, Alive
    <3>2. pending[q] \/ Coming(s)
      BY <1>6, <1>10, <3>1 DEF HInv, Hearing
    <3>3. Coming(s) => Coming(s)'
      BY <1>1 DEF Coming, local
    <3> QED
      BY <3>1, <3>2, <3>3
  <2> QED
    BY <2>2, <2>3
<1>11. Hearing'
  <2>1. leaked' = leaked /\ message' = message /\ pid' = pid
    BY <1>1 DEF shared
  <2> HIDE DEF reached
  <2> QED
    BY <1>7, <1>8, <1>9, <1>10, <2>1 DEF Hearing
<1> QED
  BY <1>5, <1>11 DEF HInv

-----------------------------------------------------------------------------
LEMMA HeardKept == IInv /\ HInv /\ [Next]_vars => HInv'
<1> SUFFICES ASSUME IInv, HInv, [Next]_vars PROVE HInv'
  OBVIOUS
<1>1. CASE ForkFails
  BY <1>1, ForkFailsHeard
<1>2. ASSUME NEW p \in Proc, Accept(p) \/ Login(p) \/ Announce(p) \/ Handle(p)
      PROVE  HInv'
  BY <1>2, QuietSteps, ChooseHeard, ClaimHeard, WriteHeard, LoopHeard, HandleHeard
  DEF Login, Announce
<1>3. ASSUME NEW p \in Proc, my_shell(p) PROVE HInv'
  BY <1>3, CommandHeard, RenameHeard, QuietSteps, ResetHeard DEF my_shell
<1>4. CASE UNCHANGED vars
  <2>1. UNCHANGED <<pid, name, message, pc, row, ptr, cmd, k, fdno,
                    pending, leaked, unheard, rivals, overlap>>
    BY <1>4 DEF vars, shared, local, history
  <2>2. (OwnRow /\ Naming /\ NamesUnique)'
    BY <2>1, RowsFrame DEF Born
  <2>3. Hearing'
    BY <2>1 DEF HInv, Hearing, Born, Alive, Coming
  <2> QED
    BY <2>2, <2>3 DEF HInv
<1> QED
  BY <1>1, <1>2, <1>3, <1>4 DEF Next

LEMMA HeardInvariance == Spec => []HInv
<1> QED
  BY InitHeard, HeardKept, Invariance, PTL DEF Spec

-----------------------------------------------------------------------------
(* CrashExplained, for one process.                                        *)
Explained(p) ==
  pc[p] # "crashed" /\ pc'[p] = "crashed" =>
    \/ row'[p] = 0 \/ rivals'[p] # {}
    \/ pc[p] = "blank" /\ cmd[p].op \in {"send", "receive"} /\ ~ Enabled(Partner(p))

(* A process past init_client that the table does not hold is Lost.        *)
LEMMA NotHeldLost ==
  ASSUME IInv, NEW p \in Proc, ~ InTable(p), pc[p] \in Session
  PROVE  Lost(p)
<1>1. \A s \in Slot : pid[s] # p
  BY LookupType DEF InTable
<1>2. pc[p] \notin Over \cup {"choose", "clear", "fill"}
  BY DEF Session, Points, Over
<1> QED
  BY <1>1, <1>2 DEF IInv, TypeOK, ControlTypes, Table, RowKept, Lost

LEMMA CrashingSteps ==
  ASSUME IInv, NEW p \in Proc, NEW q \in Proc,
         \/ Choose(q) \/ Blank(q) \/ RunLost(q) \/ Reset(q)
         \/ \E c \in Commands : Command(q, c)
  PROVE  Explained(p)
<1> SUFFICES ASSUME pc[p] # "crashed", pc'[p] = "crashed"
             PROVE  \/ row'[p] = 0 \/ rivals'[p] # {}
                    \/ /\ pc[p] = "blank" /\ cmd[p].op \in {"send", "receive"}
                       /\ ~ Enabled(Partner(p))
  BY DEF Explained
<1>1. p = q
  BY DEF Choose, Blank, RunLost, Reset, Command, Goto, IInv, TypeOK, ControlTypes
<1>2. CASE Choose(q)
  BY <1>1, <1>2 DEF Choose, Goto, IInv, TypeOK, ControlTypes
<1>3. CASE Blank(q)
  <2>1. pc[p] = "blank" /\ cmd[p].op \in {"send", "receive"}
        /\ (~ InTable(p) \/ ~ Enabled(Partner(p))) /\ row' = row /\ rivals' = rivals
    BY <1>1, <1>3 DEF Blank, Goto, local, history, IInv, TypeOK, ControlTypes
  <2> QED
    BY <2>1, NotHeldLost DEF Session, Points, Lost
<1>4. CASE RunLost(q) \/ Reset(q)
  <2>1. pc[p] \in {"run", "reset"} /\ ~ InTable(p) /\ row' = row /\ rivals' = rivals
    BY <1>1, <1>4 DEF RunLost, Reset, InTable, Goto, local, history, IInv, TypeOK, ControlTypes
  <2> QED
    BY <2>1, NotHeldLost DEF Session, Points, Lost
<1>5. CASE \E c \in Commands : Command(q, c)
  <2>1. pc[p] = "prompt" /\ ptr[p] = 0 /\ row' = row /\ rivals' = rivals
    BY <1>1, <1>5 DEF Command, Goto, IInv, TypeOK, ControlTypes
  <2> QED
    BY <2>1 DEF IInv, Table, LostInv, Lost
<1> QED
  BY <1>2, <1>3, <1>4, <1>5

-----------------------------------------------------------------------------
(* Pids, rows, descriptors and loop counters keep their range whatever the *)
(* processes do to the shared table: the loops of broadcast stay in it,    *)
(* and every index a command uses names a row.                             *)
THEOREM SharedTypeCorrect == Spec => []TypeOK
<1>1. IInv => TypeOK
  BY DEF IInv
<1> QED
  BY <1>1, Invariance, PTL

(* A row is lost only to a process that chose it at the same time.         *)
THEOREM RowsKept == Spec => []RowKept
<1>1. IInv => RowKept
  BY DEF IInv, Table
<1> QED
  BY <1>1, Invariance, PTL

(* A process dies at an unchecked lookup (init_client to reset_client, a   *)
(* command, RunLost) only without a row of its own, or at the message      *)
(* about a partner who has left since the partner was checked.             *)
THEOREM LookupsExplained == Spec => CrashExplained
<1> DEFINE E == \A p \in Proc :
                  pc[p] # "crashed" /\ pc'[p] = "crashed" =>
                    \/ row'[p] = 0 \/ rivals'[p] # {}
                    \/ /\ pc[p] = "blank" /\ cmd[p].op \in {"send", "receive"}
                       /\ ~ Enabled(Partner(p))
<1>1. IInv /\ [Next]_vars => [E]_vars
  <2> SUFFICES ASSUME IInv, Next, NEW p \in Proc, pc[p] # "crashed", pc'[p] = "crashed"
               PROVE  Explained(p)
    BY DEF Explained
  <2>1. ASSUME NEW q \in Proc, Choose(q) \/ Blank(q) \/ RunLost(q) \/ Reset(q)
                              \/ (\E c \in Commands : Command(q, c))
        PROVE  Explained(p)
    BY <2>1, CrashingSteps
  <2>2. CASE ForkFails
    BY <2>2 DEF ForkFails
  <2>3. ASSUME NEW q \in Proc,
               \/ Accept(q) \/ Clear(q) \/ Fill(q) \/ Shell(q) \/ Write(q) \/ Scan(q)
               \/ Kill(q) \/ Handle(q) \/ Rename(q) \/ EndOfFile(q)
               \/ Receive(q) \/ Send(q) \/ Finish(q)
        PROVE  FALSE
    BY <2>3 DEF Accept, Clear, Fill, Shell, Write, Scan, Kill, Loop, Continue, Handle, Rename,
       EndOfFile, Receive, Send, Finish, Goto, IInv, TypeOK, ControlTypes
  <2> QED
    BY <2>1, <2>2, <2>3 DEF Next, Login, Announce, my_shell
<1> QED
  BY <1>1, Invariance, PTL DEF Spec, CrashExplained

(* Two clients share a nickname only if both were between checkname and    *)
(* the write of the name at once (or a row was shared before).             *)
THEOREM NicknamesUnique == Spec => []NamesUnique
<1>1. HInv => NamesUnique
  BY DEF HInv
<1> QED
  BY <1>1, HeardInvariance, PTL

(* Coalesced signals and the one buffer lose messages but never the last   *)
(* broadcast, while no fork has failed.                                    *)
THEOREM LastBroadcastHeard == Spec => []LatestHeard
<1>1. IInv /\ HInv => LatestHeard
  <2> SUFFICES ASSUME IInv, HInv, Quiet, leaked = 0, message \in Broadcasts,
                      NEW p \in unheard, InTable(p), Alive(p)
               PROVE  FALSE
    BY DEF LatestHeard
  <2>1. p \in Proc
    BY DEF IInv, TypeOK, DataTypes
  <2>2. get_client_by_pid(p) \in Slot /\ pid[get_client_by_pid(p)] = p
    BY <2>1, LookupType DEF InTable
  <2>3. pending[p] \/ Coming(get_client_by_pid(p))
    BY <2>2 DEF HInv, Hearing
  <2> QED
    BY <2>1, <2>3 DEF Quiet, Coming
<1> QED
  BY <1>1, Invariance, HeardInvariance, PTL

=============================================================================
