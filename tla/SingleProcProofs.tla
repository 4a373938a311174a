-------------------------- MODULE SingleProcProofs --------------------------
(***************************************************************************)
(* Proofs about SingleProc, for every table size, ring length, descriptor  *)
(* limit and set of lines that ConstantsAssumption allows.                 *)
(***************************************************************************)
EXTENDS SingleProc, FiniteSetTheorems, TLAPS

(* While a line is handled, its client is logged in, the segment is one of *)
(* the line's, and its sender and receiver were known when it started.     *)
HandlingInv ==
  pc \in {"input", "output", "fork"} =>
    /\ cur \in Used
    /\ line \in Lines
    /\ at \in 1 .. Len(line.seg)
    /\ line.from \in {None, 0} \cup Used
    /\ line.to \in {None, 0} \cup Used

(* The input chosen for a segment is still the client's own at the fork.   *)
InputOwn ==
  pc \in {"output", "fork"} /\ in # 0 => fdt[in] \in MayRead(cur)

IInv == /\ TypeOK
        /\ HandlingInv
        /\ ClientTable
        /\ PipesBetweenLive
        /\ FdsFaithful

-----------------------------------------------------------------------------
(* Lemmas about the operators.                                             *)

(* A number taken modulo the ring's length is an index of the ring.        *)
LEMMA ModIndex == \A a \in Nat : a % FILE_MAX \in Index
BY ConstantsAssumption DEF Index

(* Objects are equal only when they were made for the same table entry.    *)
LEMMA ObjEqual ==
  ASSUME NEW k1, NEW i1, NEW j1, NEW e1, NEW k2, NEW i2, NEW j2, NEW e2,
         Obj(k1, i1, j1, e1) = Obj(k2, i2, j2, e2)
  PROVE  k1 = k2 /\ i1 = i2 /\ j1 = j2 /\ e1 = e2
BY DEF Obj

LEMMA Kinds ==
  /\ Listener.kind = "listen" /\ Closed.kind = "closed"
  /\ \A i : Sock(i).kind = "sock"
  /\ \A i, j, e : UserEnd(i, j, e).kind = "user"
  /\ \A i, j, e : CrossEnd(i, j, e).kind = "cross"
  /\ \A j, e : LocalEnd(j, e).kind = "local"
BY DEF Listener, Closed, Sock, UserEnd, CrossEnd, LocalEnd, Obj

(* What the proofs use of the shape of a line.                             *)
LEMMA LineFacts ==
  ASSUME NEW l \in Lines
  PROVE  /\ l.from \in {None} \cup Nat
         /\ l.to \in {None} \cup Nat
         /\ Len(l.seg) \in Nat
         /\ Len(l.seg) \in 1 .. FILE_MAX - 1
         /\ \A k \in 1 .. Len(l.seg) :
               /\ l.seg[k].n \in Nat
               /\ l.seg[k].from => l.from # None
               /\ l.seg[k].to => l.to # None
<1>1. LineShape(l)
  BY ConstantsAssumption
<1>2. l.seg \in Seq(Segments) /\ Len(l.seg) \in Nat
  BY <1>1 DEF LineShape
<1>3. \A k \in 1 .. Len(l.seg) : l.seg[k] \in Segments
  BY <1>2
<1>4. \A k \in 1 .. Len(l.seg) : l.seg[k].n \in Nat
  BY <1>3 DEF Segments
<1> QED
  BY <1>1, <1>2, <1>4 DEF LineShape

(* The array indices of process_handler are in range while a line runs.    *)
LEMMA HandlingFacts ==
  ASSUME TypeOK, HandlingInv, pc \in {"input", "output", "fork"}
  PROVE  /\ cur \in Slot /\ cur \in Used
         /\ count \in Index
         /\ at \in Index /\ at + 1 \in Nat
         /\ from_id \in {0} \cup Used /\ from_id \in Id
         /\ to_id \in {0} \cup Used /\ to_id \in Id
         /\ Segment.n \in Nat
         /\ cross \in Cell
<1>1. cur \in Slot /\ cur \in Used /\ line \in Lines /\ at \in 1 .. Len(line.seg)
  BY DEF HandlingInv, Used
<1>2. at \in Index /\ at + 1 \in Nat
  BY <1>1, LineFacts, ConstantsAssumption DEF Index
<1>. Segment.n \in Nat
  BY <1>1, LineFacts DEF Segment
<1>3. Used \subseteq Slot /\ Slot \subseteq Id /\ 0 \in Id
  BY ConstantsAssumption DEF Used, Slot, Id
<1>4. (\E k \in 1 .. at : line.seg[k].from) => line.from # None
  BY <1>1, LineFacts
<1>5. (\E k \in 1 .. at : line.seg[k].to) => line.to # None
  BY <1>1, LineFacts
<1>6. from_id \in {0} \cup Used
  BY <1>4 DEF from_id, HandlingInv
<1>7. to_id \in {0} \cup Used
  BY <1>5 DEF to_id, HandlingInv
<1>8. count \in Index /\ cross \in Cell
  BY <1>1 DEF TypeOK, count, cross
<1> QED
  BY <1>1, <1>2, <1>3, <1>6, <1>7, <1>8

-----------------------------------------------------------------------------
(* Steps that leave the tables and the descriptors alone.                  *)

(* The relations between the tables survive a step that changes none of    *)
(* them, drops descriptors from the scan, and keeps or clears the local    *)
(* pipes.                                                                  *)
LEMMA TablesKept ==
  ASSUME TypeOK, ClientTable, PipesBetweenLive, FdsFaithful,
         UNCHANGED <<client_cnt, client_fd, id, afd, fdmax, tables, fdt>>,
         rfd' \subseteq afd,
         pipe_table' \in {pipe_table, [k \in Index |-> NoPipe]}
  PROVE  ClientTable' /\ PipesBetweenLive' /\ FdsFaithful'
<1>1. Used' = Used
  BY DEF Used
<1>2. ClientTable'
  BY <1>1 DEF ClientTable
<1>3. PipesBetweenLive'
  BY <1>1 DEF PipesBetweenLive, tables
<1>4. \A k \in Index, e \in End : pipe_table'[k][e] # 0 => pipe_table'[k][e] = pipe_table[k][e]
  BY DEF NoPipe
<1>5. FdsFaithful'
  BY <1>4 DEF FdsFaithful, tables
<1> QED
  BY <1>2, <1>3, <1>5

(* The scan serves descriptor f for the client that holds it.              *)
LEMMA ServingFacts ==
  ASSUME TypeOK, ClientTable, NEW i \in Slot, NEW f \in Fd, Serving(i, f)
  PROVE  /\ pc = "scan" /\ f \in rfd /\ f # sockfd /\ f # 0
         /\ client_fd[i] = f /\ i \in Used
         /\ env_path' = path[i] /\ env_path' \in Path
BY DEF Serving, Scanning, Lowest, get_client, Used, Fd, TypeOK, sockfd

LEMMA CountIndex ==
  ASSUME TypeOK, NEW i \in Slot, CountLine(i)
  PROVE  cnt_line' \in [Slot -> Index]
<1>1. cnt_line[i] + 1 \in Nat
  BY ConstantsAssumption DEF TypeOK, Index
<1>2. (cnt_line[i] + 1) % FILE_MAX \in Index
  BY <1>1, ModIndex
<1> QED
  BY <1>2 DEF CountLine, TypeOK

LEMMA SelectStep == ASSUME IInv, Select PROVE IInv'
<1> USE DEF IInv
<1>1. TypeOK'
  BY DEF TypeOK, Select, clientVars, tables, localVars
<1>2. HandlingInv'
  BY DEF HandlingInv, Select
<1>3. rfd' \subseteq afd
  BY DEF Select
<1> QED
  BY <1>1, <1>2, <1>3, TablesKept DEF Select, clientVars, localVars

LEMMA EmptyLineStep ==
  ASSUME IInv, NEW i \in Slot, NEW f \in Fd, EmptyLine(i, f) PROVE IInv'
<1> USE DEF IInv
<1>1. TypeOK'
  BY ServingFacts DEF TypeOK, EmptyLine, NextFd, clientVars, tables, localVars
<1>2. HandlingInv'
  BY DEF HandlingInv, EmptyLine, NextFd
<1>3. rfd' \subseteq afd
  BY DEF EmptyLine, NextFd, ClientTable
<1> QED
  BY <1>1, <1>2, <1>3, TablesKept DEF EmptyLine, clientVars, localVars

LEMMA TextCommandStep ==
  ASSUME IInv, NEW i \in Slot, NEW f \in Fd, TextCommand(i, f) PROVE IInv'
<1> USE DEF IInv
<1>1. TypeOK'
  BY ServingFacts, CountIndex DEF TypeOK, TextCommand, NextFd, tables, localVars
<1>2. HandlingInv'
  BY DEF HandlingInv, TextCommand, NextFd
<1>3. rfd' \subseteq afd
  BY DEF TextCommand, NextFd, ClientTable
<1> QED
  BY <1>1, <1>2, <1>3, TablesKept DEF TextCommand, localVars

LEMMA SetEnvStep ==
  ASSUME IInv, NEW i \in Slot, NEW f \in Fd, NEW p \in Paths, SetEnv(i, f, p)
  PROVE  IInv'
<1> USE DEF IInv
<1>1. TypeOK'
  BY ServingFacts, CountIndex DEF TypeOK, SetEnv, NextFd, tables, localVars, Path
<1>2. HandlingInv'
  BY DEF HandlingInv, SetEnv, NextFd
<1>3. rfd' \subseteq afd
  BY DEF SetEnv, NextFd, ClientTable
<1> QED
  BY <1>1, <1>2, <1>3, TablesKept DEF SetEnv, localVars

LEMMA SetNameStep ==
  ASSUME IInv, NEW i \in Slot, NEW f \in Fd, NEW n \in Name, SetName(i, f, n)
  PROVE  IInv'
<1> USE DEF IInv
<1>1. TypeOK'
  BY ServingFacts, CountIndex DEF TypeOK, SetName, NextFd, tables, localVars
<1>2. HandlingInv'
  BY DEF HandlingInv, SetName, NextFd
<1>3. rfd' \subseteq afd
  BY DEF SetName, NextFd, ClientTable
<1> QED
  BY <1>1, <1>2, <1>3, TablesKept DEF SetName, localVars

LEMMA RejectedLineStep ==
  ASSUME IInv, NEW i \in Slot, NEW f \in Fd, NEW l \in Lines, RejectedLine(i, f, l)
  PROVE  IInv'
<1> USE DEF IInv
<1>1. TypeOK'
  BY ServingFacts, CountIndex DEF TypeOK, RejectedLine, NextFd, tables, localVars
<1>2. HandlingInv'
  BY DEF HandlingInv, RejectedLine, NextFd
<1>3. rfd' \subseteq afd
  BY DEF RejectedLine, NextFd, ClientTable
<1> QED
  BY <1>1, <1>2, <1>3, TablesKept DEF RejectedLine, localVars

(* A line that passes its checks starts with a sender and a receiver that  *)
(* are logged in (or none, or the number 0).                               *)
LEMMA StartLineStep ==
  ASSUME IInv, NEW i \in Slot, NEW f \in Fd, NEW l \in Lines, StartLine(i, f, l)
  PROVE  IInv'
<1> USE DEF IInv
<1>1. TypeOK'
  <2>1. [k \in Index |-> NoPipe] \in [Index -> Cell]
    BY DEF NoPipe, Cell
  <2>2. i \in Id /\ 1 \in Index
    BY ConstantsAssumption DEF Slot, Id, Index
  <2> QED
    BY <2>1, <2>2, ServingFacts, CountIndex DEF TypeOK, StartLine, tables
<1>2. \A x : IdKnown(x) => x \in {0} \cup Used
  BY DEF IdKnown, ClientTable
<1>3. l.from \in {None, 0} \cup Used /\ l.to \in {None, 0} \cup Used
  BY <1>2 DEF StartLine, CanReceive, CanSend
<1>4. Used' = Used
  BY DEF StartLine, Used
<1>5. 1 \in 1 .. Len(l.seg)
  BY LineFacts
<1>6. HandlingInv'
  BY <1>3, <1>4, <1>5, ServingFacts DEF HandlingInv, StartLine
<1>7. rfd' \subseteq afd
  BY DEF StartLine, ClientTable
<1> QED
  BY <1>1, <1>6, <1>7, TablesKept DEF StartLine

-----------------------------------------------------------------------------
(* Logging in and out.                                                     *)

(* No table entry holds a descriptor that is free.                         *)
LEMMA FreeUnused ==
  ASSUME TypeOK, FdsFaithful, NEW f \in Free(fdt)
  PROVE  /\ f \in Fd /\ f # sockfd /\ f # 0
         /\ \A i \in Slot : client_fd[i] # f
         /\ \A i, j \in Id, e \in End : user_pipe[i][j][e] # f
         /\ \A i \in Slot, k \in Index, e \in End :
               cross_line_pipe_table[i][k][e] # f
         /\ \A k \in Index, e \in End : pipe_table[k][e] # f
<1>1. f \in Fd /\ f # 0 /\ fdt[f] = Closed
  BY DEF Free, Fd
<1>2. /\ Closed # Listener
      /\ \A i : Closed # Sock(i)
      /\ \A i, j, e : Closed # UserEnd(i, j, e)
      /\ \A i, j, e : Closed # CrossEnd(i, j, e)
      /\ \A j, e : Closed # LocalEnd(j, e)
  BY DEF Closed, Listener, Sock, UserEnd, CrossEnd, LocalEnd, Obj
<1> QED
  BY <1>1, <1>2 DEF FdsFaithful

(* The number of used slots changes with the slot taken or given up.       *)
LEMMA UsedFinite == IsFiniteSet(Used) /\ Cardinality(Used) \in 0 .. CLIENT_NUMBER
<1>1. IsFiniteSet(Slot) /\ Cardinality(Slot) = CLIENT_NUMBER
  BY ConstantsAssumption, FS_Interval DEF Slot
<1>2. Used \subseteq Slot
  BY DEF Used
<1>3. IsFiniteSet(Used) /\ Cardinality(Used) <= Cardinality(Slot)
  BY <1>1, <1>2, FS_Subset
<1>4. Cardinality(Used) \in Nat
  BY <1>3, FS_CardinalityType
<1> QED
  BY <1>1, <1>3, <1>4, ConstantsAssumption

LEMMA AcceptClientStep == ASSUME IInv, AcceptClient PROVE IInv'
<1> USE DEF IInv
<1>1. PICK f \in Fd, i \in Slot :
        /\ Lowest(f, Free(fdt))
        /\ get_available_client(i)
        /\ init_client(i, f)
        /\ afd' = afd \cup {f}
        /\ fdmax' = IF f > fdmax THEN f ELSE fdmax
        /\ fdt' = [fdt EXCEPT ![f] = Sock(i)]
  BY DEF AcceptClient
<1>2. f \in Free(fdt) /\ i \notin Used /\ client_fd[i] = 0
  BY <1>1 DEF Lowest, get_available_client, Used
<1>3. Sock(i) \in Object /\ i \in Id
  BY ConstantsAssumption DEF Sock, Obj, Object, Slot, Id, End
<1>4. [k \in Index |-> NoPipe] \in [Index -> Cell]
  BY DEF NoPipe, Cell
<1>5. 0 \in Index
  BY ConstantsAssumption DEF Index
<1>6. TypeOK'
  <2>1. client_cnt' \in 0 .. CLIENT_NUMBER
    BY ConstantsAssumption DEF AcceptClient, TypeOK
  <2>2. name' \in [Slot -> Name] /\ path' \in [Slot -> Path]
    BY <1>1 DEF TypeOK, init_client, Name, Path
  <2>3. /\ client_fd' \in [Slot -> {0} \cup Fd]
        /\ id' \in [Slot -> Id]
        /\ cnt_line' \in [Slot -> Index]
        /\ cross_line_pipe_table' \in [Slot -> [Index -> Cell]]
    BY <1>1, <1>3, <1>4, <1>5 DEF TypeOK, init_client, ClearRing
  <2>4. fdt' \in [Fd -> Object] /\ afd' \in SUBSET Fd /\ fdmax' \in Fd
    BY <1>1, <1>3 DEF TypeOK
  <2> QED
    BY <2>1, <2>2, <2>3, <2>4 DEF TypeOK, AcceptClient, NextFd, localVars
<1>7. HandlingInv'
  BY DEF HandlingInv, AcceptClient, NextFd
<1>8. Used' = Used \cup {i}
  BY <1>1, <1>2 DEF Used, init_client, TypeOK, Fd
<1>9. ClientTable'
  <2>1. client_cnt' = Cardinality(Used')
    <3>1. Cardinality(Used') = Cardinality(Used) + 1
      BY <1>2, <1>8, UsedFinite, FS_AddElement
    <3> QED
      BY <3>1 DEF AcceptClient, ClientTable
  <2>2. afd' = {sockfd} \cup {client_fd'[j] : j \in Used'}
    <3>1. \A j \in Used : client_fd'[j] = client_fd[j]
      BY <1>1, <1>2 DEF init_client, ClearRing, TypeOK, Used
    <3>2. client_fd'[i] = f
      BY <1>1 DEF init_client, ClearRing, TypeOK
    <3>3. {client_fd'[j] : j \in Used'} = {client_fd[j] : j \in Used} \cup {f}
      BY <1>8, <3>1, <3>2
    <3> QED
      BY <1>1, <3>3 DEF ClientTable
  <2>3. rfd' \subseteq afd'
    BY <1>1 DEF AcceptClient, NextFd, ClientTable
  <2>4. \A g \in afd' : g <= fdmax'
    BY <1>1 DEF ClientTable, TypeOK, Fd
  <2>5. \A j \in Slot : id'[j] = IF j \in Used' THEN j ELSE 0
    BY <1>1, <1>8 DEF init_client, ClearRing, ClientTable, TypeOK
  <2>6. \A j, k \in Used' : j # k => client_fd'[j] # client_fd'[k]
    BY <1>1, <1>2, <1>8, FreeUnused DEF init_client, ClearRing, ClientTable, TypeOK, Used
  <2> QED
    BY <2>1, <2>2, <2>3, <2>4, <2>5, <2>6 DEF ClientTable
<1>10. PipesBetweenLive'
  BY <1>8 DEF PipesBetweenLive, AcceptClient
<1>11. FdsFaithful'
  <2>1. \A g \in Fd : g # f => fdt'[g] = fdt[g]
    BY <1>1 DEF TypeOK
  <2>2. fdt'[sockfd] = Listener
    BY <1>2, <2>1, FreeUnused, ConstantsAssumption DEF FdsFaithful, sockfd, Fd
  <2>3. \A j \in Slot : client_fd'[j] # 0 => fdt'[client_fd'[j]] = Sock(j)
    BY <1>1, <1>2, <2>1, FreeUnused DEF FdsFaithful, init_client, TypeOK
  <2>4. \A a, b \in Id, e \in End :
          user_pipe'[a][b][e] # 0 => fdt'[user_pipe'[a][b][e]] = UserEnd(a, b, e)
    <3> TAKE a \in Id, b \in Id, e \in End
    <3>1. user_pipe[a][b][e] \in {0} \cup Fd
      BY DEF TypeOK, Cell
    <3> QED
      BY <1>2, <2>1, <3>1, FreeUnused DEF FdsFaithful, AcceptClient
  <2>5. \A j \in Slot, k \in Index, e \in End :
          LET g == cross_line_pipe_table'[j][k][e] IN g # 0 => fdt'[g] = CrossEnd(j, k, e)
    <3> TAKE j \in Slot, k \in Index, e \in End
    <3>1. cross_line_pipe_table[j][k][e] \in {0} \cup Fd
      BY DEF TypeOK, Cell
    <3>2. cross_line_pipe_table'[j][k][e] \in {0, cross_line_pipe_table[j][k][e]}
      BY <1>1 DEF init_client, ClearRing, TypeOK, NoPipe
    <3> QED
      BY <1>2, <2>1, <3>1, <3>2, FreeUnused DEF FdsFaithful
  <2>6. \A k \in Index, e \in End :
          pipe_table'[k][e] # 0 => fdt'[pipe_table'[k][e]] = LocalEnd(k, e)
    <3> TAKE k \in Index, e \in End
    <3>1. pipe_table[k][e] \in {0} \cup Fd
      BY DEF TypeOK, Cell
    <3> QED
      BY <1>2, <2>1, <3>1, FreeUnused DEF FdsFaithful, AcceptClient, localVars
  <2> QED
    BY <2>2, <2>3, <2>4, <2>5, <2>6 DEF FdsFaithful
<1> QED
  BY <1>6, <1>7, <1>9, <1>10, <1>11

(* Every table entry is 0 or a descriptor.                                 *)
LEMMA EntriesTyped ==
  ASSUME TypeOK
  PROVE  /\ \A i, j \in Id, e \in End : user_pipe[i][j][e] \in {0} \cup Fd
         /\ \A i \in Slot, k \in Index, e \in End :
               cross_line_pipe_table[i][k][e] \in {0} \cup Fd
         /\ \A k \in Index, e \in End : pipe_table[k][e] \in {0} \cup Fd
         /\ \A i \in Slot : client_fd[i] \in {0} \cup Fd
         /\ sockfd \in Fd
BY ConstantsAssumption DEF TypeOK, Cell, Fd, sockfd

(* Handing out free descriptors leaves every table entry faithful.         *)
LEMMA OpeningKeeps ==
  ASSUME TypeOK, FdsFaithful,
         \A g \in Fd : g \notin Free(fdt) => fdt'[g] = fdt[g]
  PROVE  /\ fdt'[sockfd] = Listener
         /\ \A i \in Slot : client_fd[i] # 0 => fdt'[client_fd[i]] = Sock(i)
         /\ \A i, j \in Id, e \in End :
               user_pipe[i][j][e] # 0 => fdt'[user_pipe[i][j][e]] = UserEnd(i, j, e)
         /\ \A i \in Slot, k \in Index, e \in End :
               LET f == cross_line_pipe_table[i][k][e]
               IN  f # 0 => fdt'[f] = CrossEnd(i, k, e)
         /\ \A k \in Index, e \in End :
               pipe_table[k][e] # 0 => fdt'[pipe_table[k][e]] = LocalEnd(k, e)
BY EntriesTyped, FreeUnused DEF FdsFaithful

LEMMA AcceptRefusedStep == ASSUME IInv, AcceptRefused PROVE IInv'
<1> USE DEF IInv
<1>1. PICK f \in Fd : Lowest(f, Free(fdt)) /\ fdt' = [fdt EXCEPT ![f] = Refused]
  BY DEF AcceptRefused
<1>2. f \in Free(fdt)
  BY <1>1 DEF Lowest
<1>3. Refused \in Object
  BY ConstantsAssumption DEF Refused, Obj, Object, Id, End
<1>4. TypeOK'
  BY <1>1, <1>3 DEF TypeOK, AcceptRefused, NextFd, clientVars, tables, localVars
<1>5. HandlingInv'
  BY DEF HandlingInv, AcceptRefused, NextFd
<1>6. Used' = Used
  BY DEF Used, AcceptRefused, clientVars
<1>7. ClientTable'
  BY <1>6 DEF ClientTable, AcceptRefused, NextFd, clientVars
<1>8. PipesBetweenLive'
  BY <1>6 DEF PipesBetweenLive, AcceptRefused, tables
<1>9. \A g \in Fd : g \notin Free(fdt) => fdt'[g] = fdt[g]
  BY <1>1, <1>2 DEF TypeOK
<1>10. FdsFaithful'
  BY <1>9, OpeningKeeps DEF FdsFaithful, AcceptRefused, clientVars, tables, localVars
<1> QED
  BY <1>4, <1>5, <1>7, <1>8, <1>10

(* What reset_client zeroes is all that is left of the client: no entry of *)
(* another client names a descriptor that the logout closes or loses.      *)
LEMMA LeaveStep ==
  ASSUME IInv, NEW i \in Slot, NEW f \in Fd, Leave(i, f) PROVE IInv'
<1> USE DEF IInv
<1>1. /\ f \in rfd /\ f # sockfd /\ f # 0 /\ client_fd[i] = f /\ i \in Used
      /\ env_path' \in Path
  BY ServingFacts DEF Leave
<1>2. i # 0 /\ Slot \subseteq Id /\ 0 \in Id /\ 0 \notin Slot
  BY ConstantsAssumption DEF Slot, Id
<1>3. Used' = Used \ {i}
  BY DEF Leave, Used, TypeOK
<1>4. Cardinality(Used') = Cardinality(Used) - 1
  BY <1>1, <1>3, UsedFinite, FS_RemoveElement
<1>5. \A a, b \in Id : user_pipe'[a][b] \in {NoPipe, user_pipe[a][b]}
  BY DEF Leave, WithoutUser
<1>6. \A a, b \in Id : a = i \/ (b = i /\ a # 0) => user_pipe'[a][b] = NoPipe
  BY DEF Leave, WithoutUser
<1>7. TypeOK'
  <2>1. client_cnt' \in 0 .. CLIENT_NUMBER
    <3>1. Used' \subseteq Used /\ Cardinality(Used) \in 1 .. CLIENT_NUMBER
      BY <1>1, <1>3, UsedFinite, FS_EmptySet
    <3> QED
      BY <3>1, ConstantsAssumption DEF Leave, ClientTable
  <2>2. NoPipe \in Cell /\ [k \in Index |-> NoPipe] \in [Index -> Cell]
    BY DEF NoPipe, Cell
  <2>3. user_pipe' \in [Id -> [Id -> Cell]]
    BY <2>2 DEF TypeOK, Leave, WithoutUser
  <2>4. Closed \in Object /\ Lost \in Object
    BY ConstantsAssumption DEF Closed, Lost, Obj, Object, Id, End
  <2>5. fdt' \in [Fd -> Object]
    BY <2>4 DEF TypeOK, Leave
  <2>6. 0 \in Index
    BY ConstantsAssumption DEF Index
  <2>7. name' \in [Slot -> Name] /\ path' \in [Slot -> Path]
    BY DEF TypeOK, Leave, Name, Path
  <2> QED
    BY <1>1, <1>2, <2>1, <2>2, <2>3, <2>5, <2>6, <2>7
       DEF TypeOK, Leave, ClearRing, NextFd, localVars
<1>8. HandlingInv'
  BY DEF HandlingInv, Leave, NextFd
<1>9. ClientTable'
  <2>1. \A j \in Used' : client_fd'[j] = client_fd[j] /\ client_fd[j] # f
    BY <1>1, <1>3 DEF Leave, ClientTable, TypeOK, Used
  <2>2. afd' = {sockfd} \cup {client_fd'[j] : j \in Used'}
    <3>1. {client_fd'[j] : j \in Used'} = {client_fd[j] : j \in Used} \ {f}
      BY <1>1, <1>3, <2>1
    <3> QED
      BY <1>1, <3>1 DEF Leave, ClientTable
  <2>3. rfd' \subseteq afd'
    BY DEF Leave, NextFd, ClientTable
  <2>4. \A j \in Slot : id'[j] = IF j \in Used' THEN j ELSE 0
    BY <1>3 DEF Leave, ClientTable, TypeOK
  <2>5. \A j, k \in Used' : j # k => client_fd'[j] # client_fd'[k]
    BY <1>3, <2>1 DEF ClientTable
  <2> QED
    BY <1>4, <2>2, <2>3, <2>4, <2>5 DEF ClientTable, Leave
<1>10. PipesBetweenLive'
  BY <1>2, <1>3, <1>5, <1>6 DEF PipesBetweenLive, Used
<1>11. FdsFaithful'
  <2>1. \A g \in Fd : g # f /\ g \notin Owned(i) => fdt'[g] = fdt[g]
    BY DEF Leave
  <2>2. fdt[f] = Sock(i)
    BY <1>1 DEF FdsFaithful
  <2>3. fdt'[sockfd] = Listener
    BY <1>1, <2>1, EntriesTyped
       DEF FdsFaithful, Owned, Listener, Obj
  <2>4. \A j \in Slot : client_fd'[j] # 0 => fdt'[client_fd'[j]] = Sock(j)
    <3> SUFFICES ASSUME NEW j \in Slot, client_fd'[j] # 0
                 PROVE  fdt'[client_fd'[j]] = Sock(j)
      OBVIOUS
    <3>1. j # i /\ client_fd'[j] = client_fd[j] /\ client_fd[j] # f
      BY <1>1 DEF Leave, TypeOK, ClientTable, Used
    <3>2. fdt[client_fd[j]] = Sock(j) /\ client_fd[j] \in Fd
      BY <3>1, EntriesTyped DEF FdsFaithful
    <3>3. client_fd[j] \notin Owned(i)
      BY <3>2 DEF Owned, Sock, Obj
    <3> QED
      BY <2>1, <3>1, <3>2, <3>3
  <2>5. \A a, b \in Id, e \in End :
          user_pipe'[a][b][e] # 0 => fdt'[user_pipe'[a][b][e]] = UserEnd(a, b, e)
    <3> SUFFICES ASSUME NEW a \in Id, NEW b \in Id, NEW e \in End,
                        user_pipe'[a][b][e] # 0
                 PROVE  fdt'[user_pipe'[a][b][e]] = UserEnd(a, b, e)
      OBVIOUS
    <3>1. user_pipe'[a][b] # NoPipe /\ user_pipe'[a][b] = user_pipe[a][b]
      BY <1>5 DEF NoPipe
    <3>2. a # i /\ b # i
      BY <1>6, <1>2, <3>1 DEF PipesBetweenLive, Used
    <3>3. /\ fdt[user_pipe[a][b][e]] = UserEnd(a, b, e)
          /\ user_pipe[a][b][e] \in Fd
      BY <3>1, EntriesTyped DEF FdsFaithful
    <3>4. user_pipe[a][b][e] # f /\ user_pipe[a][b][e] \notin Owned(i)
      BY <2>2, <3>2, <3>3 DEF Owned, UserEnd, Sock, Obj
    <3> QED
      BY <2>1, <3>1, <3>3, <3>4
  <2>6. \A j \in Slot, k \in Index, e \in End :
          LET g == cross_line_pipe_table'[j][k][e] IN g # 0 => fdt'[g] = CrossEnd(j, k, e)
    <3> SUFFICES ASSUME NEW j \in Slot, NEW k \in Index, NEW e \in End,
                        cross_line_pipe_table'[j][k][e] # 0
                 PROVE  fdt'[cross_line_pipe_table'[j][k][e]] = CrossEnd(j, k, e)
      OBVIOUS
    <3> DEFINE g == cross_line_pipe_table[j][k][e]
    <3>1. j # i /\ cross_line_pipe_table'[j][k][e] = g
      BY DEF Leave, ClearRing, TypeOK, NoPipe
    <3>2. fdt[g] = CrossEnd(j, k, e) /\ g \in Fd
      BY <3>1, EntriesTyped DEF FdsFaithful
    <3>3. g # f /\ g \notin Owned(i)
      BY <2>2, <3>1, <3>2 DEF Owned, CrossEnd, Sock, Obj
    <3> QED
      BY <2>1, <3>1, <3>2, <3>3
  <2>7. \A k \in Index, e \in End :
          pipe_table'[k][e] # 0 => fdt'[pipe_table'[k][e]] = LocalEnd(k, e)
    <3> SUFFICES ASSUME NEW k \in Index, NEW e \in End, pipe_table[k][e] # 0
                 PROVE  fdt'[pipe_table[k][e]] = LocalEnd(k, e)
      BY DEF Leave, localVars
    <3>1. fdt[pipe_table[k][e]] = LocalEnd(k, e) /\ pipe_table[k][e] \in Fd
      BY EntriesTyped DEF FdsFaithful
    <3>2. pipe_table[k][e] # f /\ pipe_table[k][e] \notin Owned(i)
      BY <2>2, <3>1 DEF Owned, LocalEnd, Sock, Obj
    <3> QED
      BY <2>1, <3>1, <3>2
  <2> QED
    BY <2>3, <2>4, <2>5, <2>6, <2>7 DEF FdsFaithful
<1> QED
  BY <1>7, <1>8, <1>9, <1>10, <1>11

-----------------------------------------------------------------------------
(* The steps of process_handler.                                           *)

(* Inside a line the logged-in clients do not change.                      *)
LEMMA HandlingKept ==
  ASSUME ClientTable, UNCHANGED <<loopVars, clientVars>>
  PROVE  ClientTable' /\ Used' = Used
BY DEF ClientTable, Used, loopVars, clientVars

(* Closing what is taken out of the tables leaves every other entry        *)
(* faithful: an entry with its own object is not among the closed ones.    *)
LEMMA ClosingKeeps ==
  ASSUME TypeOK, FdsFaithful, NEW S, fdt' = Close(fdt, S),
         \A g \in S : g \in Fd => fdt[g].kind \notin {"listen", "sock"}
  PROVE  /\ fdt'[sockfd] = Listener
         /\ \A i \in Slot : client_fd[i] # 0 => fdt'[client_fd[i]] = Sock(i)
         /\ \A i, j \in Id, e \in End :
               user_pipe[i][j][e] # 0 /\ user_pipe[i][j][e] \notin S
                 => fdt'[user_pipe[i][j][e]] = UserEnd(i, j, e)
         /\ \A i \in Slot, k \in Index, e \in End :
               LET f == cross_line_pipe_table[i][k][e]
               IN  f # 0 /\ f \notin S => fdt'[f] = CrossEnd(i, k, e)
         /\ \A k \in Index, e \in End :
               pipe_table[k][e] # 0 /\ pipe_table[k][e] \notin S
                 => fdt'[pipe_table[k][e]] = LocalEnd(k, e)
<1>1. \A g \in Fd : g \notin S => fdt'[g] = fdt[g]
  BY DEF Close
<1>2. sockfd \notin S
  BY EntriesTyped, Kinds DEF FdsFaithful
<1>3. \A i \in Slot : client_fd[i] # 0 => client_fd[i] \notin S
  BY EntriesTyped, Kinds DEF FdsFaithful
<1> QED
  BY <1>1, <1>2, <1>3, EntriesTyped DEF FdsFaithful

LEMMA CloseTyped ==
  ASSUME TypeOK, NEW S PROVE Close(fdt, S) \in [Fd -> Object]
<1>1. Closed \in Object
  BY ConstantsAssumption DEF Closed, Obj, Object, Id, End
<1> QED
  BY <1>1 DEF Close, TypeOK

LEMMA LineDoneFacts ==
  ASSUME LineDone
  PROVE  /\ pc' \in {"select", "scan"}
         /\ cur' \in Id /\ line' = NoLine /\ at' \in Index
         /\ pipe_table' = [k \in Index |-> NoPipe]
         /\ pipe_table' \in [Index -> Cell]
         /\ in' = 0 /\ out' = 0
BY ConstantsAssumption DEF LineDone, Id, Index, NoPipe, Cell

LEMMA BreakLineStep == ASSUME IInv, BreakLine PROVE IInv'
<1> USE DEF IInv
<1>1. TypeOK'
  BY LineDoneFacts DEF TypeOK, BreakLine, loopVars, clientVars, tables
<1>2. HandlingInv'
  BY LineDoneFacts DEF HandlingInv, BreakLine
<1>3. rfd' \subseteq afd
  BY DEF BreakLine, loopVars, ClientTable
<1> QED
  BY <1>1, <1>2, <1>3, LineDoneFacts, TablesKept DEF BreakLine, loopVars, clientVars

LEMMA CrossInputStep == ASSUME IInv, CrossInput PROVE IInv'
<1> USE DEF IInv
<1> DEFINE S == {cross[1]}
<1>1. /\ cur \in Slot /\ count \in Index /\ cross \in Cell
  BY HandlingFacts DEF CrossInput
<1>2. /\ loopVars' = loopVars /\ clientVars' = clientVars
      /\ user_pipe' = user_pipe /\ pipe_table' = pipe_table
      /\ env_path' = env_path /\ cur' = cur /\ line' = line /\ at' = at
      /\ out' = out /\ pc' = "output" /\ pc = "input"
      /\ cross_line_pipe_table' = [cross_line_pipe_table EXCEPT ![cur][count][1] = 0]
      /\ fdt' = Close(fdt, S)
      /\ in' \in {0, cross[0]}
  BY DEF CrossInput, Handling
<1>3. cross[1] # 0 => cross[1] \in Fd /\ fdt[cross[1]] = CrossEnd(cur, count, 1)
  BY <1>1, EntriesTyped DEF FdsFaithful, cross, End
<1>4. 0 \in {0} \cup Fd /\ 1 \in End /\ 0 \in End
  BY DEF End
<1>5. TypeOK'
  <2>1. in' \in {0} \cup Fd
    BY <1>1, <1>2, <1>4 DEF Cell
  <2>2. cross_line_pipe_table' \in [Slot -> [Index -> Cell]]
    BY <1>1, <1>2, <1>4 DEF TypeOK, Cell
  <2> QED
    BY <1>2, <2>1, <2>2, CloseTyped DEF TypeOK, loopVars, clientVars
<1>6. ClientTable' /\ Used' = Used
  BY <1>2, HandlingKept
<1>7. HandlingInv'
  BY <1>2, <1>6 DEF HandlingInv
<1>8. PipesBetweenLive'
  BY <1>2, <1>6 DEF PipesBetweenLive
<1>9. FdsFaithful'
  <2>1. \A g \in S : g \in Fd => fdt[g].kind = "cross" /\ fdt[g] = CrossEnd(cur, count, 1)
    BY <1>3 DEF CrossEnd, Obj, Fd
  <2>2. \A i, j \in Id, e \in End : user_pipe[i][j][e] # 0 => user_pipe[i][j][e] \notin S
    BY <2>1, EntriesTyped, Kinds DEF FdsFaithful
  <2>3. \A k \in Index, e \in End : pipe_table[k][e] # 0 => pipe_table[k][e] \notin S
    BY <2>1, EntriesTyped, Kinds DEF FdsFaithful
  <2>4. \A i \in Slot, k \in Index, e \in End :
          cross_line_pipe_table'[i][k][e] # 0 =>
            /\ cross_line_pipe_table'[i][k][e] = cross_line_pipe_table[i][k][e]
            /\ cross_line_pipe_table[i][k][e] \notin S
    <3> SUFFICES ASSUME NEW i \in Slot, NEW k \in Index, NEW e \in End,
                        cross_line_pipe_table'[i][k][e] # 0
                 PROVE  /\ cross_line_pipe_table'[i][k][e] = cross_line_pipe_table[i][k][e]
                        /\ cross_line_pipe_table[i][k][e] \notin S
      OBVIOUS
    <3>1. /\ <<i, k, e>> # <<cur, count, 1>>
          /\ cross_line_pipe_table'[i][k][e] = cross_line_pipe_table[i][k][e]
      BY <1>1, <1>2, <1>4 DEF TypeOK, Cell
    <3>2. fdt[cross_line_pipe_table[i][k][e]] = CrossEnd(i, k, e)
      BY <3>1 DEF FdsFaithful
    <3>3. CrossEnd(i, k, e) # CrossEnd(cur, count, 1)
      BY <3>1, ObjEqual DEF CrossEnd
    <3> QED
      BY <2>1, <3>1, <3>2, <3>3, EntriesTyped
  <2>5. \A g \in S : g \in Fd => fdt[g].kind \notin {"listen", "sock"}
    BY <2>1
  <2> HIDE DEF S
  <2> QED
    BY <1>2, <2>2, <2>3, <2>4, <2>5, ClosingKeeps DEF FdsFaithful, clientVars
<1> QED
  BY <1>5, <1>6, <1>7, <1>8, <1>9

LEMMA UserInputStep == ASSUME IInv, UserInput PROVE IInv'
<1> USE DEF IInv
<1> DEFINE p == user_pipe[from_id][cur]
           S == {p[1]}
<1>1. /\ cur \in Slot /\ cur \in Id /\ from_id \in Id
  BY HandlingFacts DEF UserInput, TypeOK
<1>2. /\ loopVars' = loopVars /\ clientVars' = clientVars
      /\ cross_line_pipe_table' = cross_line_pipe_table /\ pipe_table' = pipe_table
      /\ env_path' = env_path /\ cur' = cur /\ line' = line /\ at' = at
      /\ out' = out /\ pc' = "output" /\ pc = "input"
      /\ user_pipe' = [user_pipe EXCEPT ![from_id][cur][1] = 0]
      /\ fdt' = Close(fdt, S)
      /\ in' \in {0, p[0]}
  BY DEF UserInput, Handling
<1>3. p \in Cell /\ 0 \in {0} \cup Fd /\ 1 \in End /\ 0 \in End
  BY <1>1 DEF TypeOK, End
<1>4. p[1] # 0 => p[1] \in Fd /\ fdt[p[1]] = UserEnd(from_id, cur, 1)
  BY <1>1, <1>3, EntriesTyped DEF FdsFaithful
<1>5. TypeOK'
  <2>1. in' \in {0} \cup Fd
    BY <1>2, <1>3 DEF Cell
  <2>2. user_pipe' \in [Id -> [Id -> Cell]]
    BY <1>1, <1>2, <1>3 DEF TypeOK, Cell
  <2> QED
    BY <1>2, <2>1, <2>2, CloseTyped DEF TypeOK, loopVars, clientVars
<1>6. ClientTable' /\ Used' = Used
  BY <1>2, HandlingKept
<1>7. HandlingInv'
  BY <1>2, <1>6 DEF HandlingInv
<1>8. PipesBetweenLive'
  <2>1. \A a, b \in Id : user_pipe[a][b] = NoPipe => user_pipe'[a][b] = NoPipe
    BY <1>1, <1>2, <1>3 DEF TypeOK, Cell, NoPipe
  <2> QED
    BY <1>6, <2>1 DEF PipesBetweenLive
<1>9. FdsFaithful'
  <2>1. \A g \in S : g \in Fd => /\ fdt[g] = UserEnd(from_id, cur, 1)
                                  /\ fdt[g].kind = "user"
    BY <1>4, Kinds DEF Fd
  <2>2. \A i \in Slot, k \in Index, e \in End :
          cross_line_pipe_table[i][k][e] # 0 => cross_line_pipe_table[i][k][e] \notin S
    BY <2>1, EntriesTyped, Kinds DEF FdsFaithful
  <2>3. \A k \in Index, e \in End : pipe_table[k][e] # 0 => pipe_table[k][e] \notin S
    BY <2>1, EntriesTyped, Kinds DEF FdsFaithful
  <2>4. \A i, j \in Id, e \in End :
          user_pipe'[i][j][e] # 0 =>
            user_pipe'[i][j][e] = user_pipe[i][j][e] /\ user_pipe[i][j][e] \notin S
    <3> SUFFICES ASSUME NEW i \in Id, NEW j \in Id, NEW e \in End,
                        user_pipe'[i][j][e] # 0
                 PROVE  /\ user_pipe'[i][j][e] = user_pipe[i][j][e]
                        /\ user_pipe[i][j][e] \notin S
      OBVIOUS
    <3>1. /\ <<i, j, e>> # <<from_id, cur, 1>>
          /\ user_pipe'[i][j][e] = user_pipe[i][j][e]
      BY <1>1, <1>2, <1>3 DEF TypeOK, Cell
    <3>2. fdt[user_pipe[i][j][e]] = UserEnd(i, j, e)
      BY <3>1 DEF FdsFaithful
    <3>3. UserEnd(i, j, e) # UserEnd(from_id, cur, 1)
      BY <3>1, ObjEqual DEF UserEnd
    <3> QED
      BY <2>1, <3>1, <3>2, <3>3, EntriesTyped
  <2>5. \A g \in S : g \in Fd => fdt[g].kind \notin {"listen", "sock"}
    BY <2>1
  <2> HIDE DEF S
  <2> QED
    BY <1>2, <2>2, <2>3, <2>4, <2>5, ClosingKeeps DEF FdsFaithful, clientVars
<1> QED
  BY <1>5, <1>6, <1>7, <1>8, <1>9

LEMMA PlainInputStep == ASSUME IInv, PlainInput PROVE IInv'
<1> USE DEF IInv
<1> DEFINE S == {pipe_table[at][1]}
<1>1. at \in Index
  BY HandlingFacts DEF PlainInput
<1>2. /\ loopVars' = loopVars /\ clientVars' = clientVars /\ tables' = tables
      /\ env_path' = env_path /\ cur' = cur /\ line' = line /\ at' = at
      /\ out' = out /\ pc' = "output" /\ pc = "input"
      /\ pipe_table' = [pipe_table EXCEPT ![at][1] = 0]
      /\ fdt' = Close(fdt, S)
      /\ in' = pipe_table[at][0]
  BY DEF PlainInput, Handling
<1>3. pipe_table[at] \in Cell /\ 0 \in {0} \cup Fd /\ 1 \in End /\ 0 \in End
  BY <1>1 DEF TypeOK, End
<1>4. S \cap Fd # {} => fdt[pipe_table[at][1]] = LocalEnd(at, 1)
  BY <1>1, <1>3 DEF FdsFaithful, Fd
<1>5. TypeOK'
  <2>1. in' \in {0} \cup Fd
    BY <1>2, <1>3 DEF Cell
  <2>2. pipe_table' \in [Index -> Cell]
    BY <1>1, <1>2, <1>3 DEF TypeOK, Cell
  <2> QED
    BY <1>2, <2>1, <2>2, CloseTyped DEF TypeOK, loopVars, clientVars, tables
<1>6. ClientTable' /\ Used' = Used
  BY <1>2, HandlingKept
<1>7. HandlingInv'
  BY <1>2, <1>6 DEF HandlingInv
<1>8. PipesBetweenLive'
  BY <1>2, <1>6 DEF PipesBetweenLive, tables
<1>9. FdsFaithful'
  <2>1. \A g \in S : g \in Fd => fdt[g] = LocalEnd(at, 1) /\ fdt[g].kind = "local"
    BY <1>4, Kinds
  <2>2. \A i \in Slot, k \in Index, e \in End :
          cross_line_pipe_table[i][k][e] # 0 => cross_line_pipe_table[i][k][e] \notin S
    BY <2>1, EntriesTyped, Kinds DEF FdsFaithful
  <2>3. \A i, j \in Id, e \in End : user_pipe[i][j][e] # 0 => user_pipe[i][j][e] \notin S
    BY <2>1, EntriesTyped, Kinds DEF FdsFaithful
  <2>4. \A k \in Index, e \in End :
          pipe_table'[k][e] # 0 =>
            pipe_table'[k][e] = pipe_table[k][e] /\ pipe_table[k][e] \notin S
    <3> SUFFICES ASSUME NEW k \in Index, NEW e \in End, pipe_table'[k][e] # 0
                 PROVE  pipe_table'[k][e] = pipe_table[k][e] /\ pipe_table[k][e] \notin S
      OBVIOUS
    <3>1. <<k, e>> # <<at, 1>> /\ pipe_table'[k][e] = pipe_table[k][e]
      BY <1>1, <1>2, <1>3 DEF TypeOK, Cell
    <3>2. fdt[pipe_table[k][e]] = LocalEnd(k, e)
      BY <3>1 DEF FdsFaithful
    <3>3. LocalEnd(k, e) # LocalEnd(at, 1)
      BY <3>1, ObjEqual DEF LocalEnd
    <3> QED
      BY <2>1, <3>1, <3>2, <3>3, EntriesTyped
  <2>5. \A g \in S : g \in Fd => fdt[g].kind \notin {"listen", "sock"}
    BY <2>1
  <2> HIDE DEF S
  <2> QED
    BY <1>2, <2>2, <2>3, <2>4, <2>5, ClosingKeeps DEF FdsFaithful, clientVars, tables
<1> QED
  BY <1>5, <1>6, <1>7, <1>8, <1>9

(* A pipe is opened on two free descriptors that differ.                   *)
LEMMA PipeGivesFacts ==
  ASSUME TypeOK, NEW r \in Fd, NEW w \in Fd, PipeGives(r, w),
         NEW o0, NEW o1, fdt' = Opened(r, w, o0, o1)
  PROVE  /\ r \in Free(fdt) /\ w \in Free(fdt) /\ r # w
         /\ fdt'[r] = o0 /\ fdt'[w] = o1
         /\ \A g \in Fd : g \notin Free(fdt) => fdt'[g] = fdt[g]
         /\ o0 \in Object /\ o1 \in Object => fdt' \in [Fd -> Object]
         /\ Ends(r, w) \in Cell /\ Ends(r, w)[0] = r /\ Ends(r, w)[1] = w
<1>1. r \in Free(fdt) /\ w \in Free(fdt) /\ r # w
  BY DEF PipeGives, Lowest
<1>2. /\ fdt'[r] = o0 /\ fdt'[w] = o1
      /\ \A g \in Fd : g \notin {r, w} => fdt'[g] = fdt[g]
  BY <1>1 DEF Opened, TypeOK
<1>3. o0 \in Object /\ o1 \in Object => fdt' \in [Fd -> Object]
  BY DEF Opened, TypeOK
<1>4. Ends(r, w) \in Cell /\ Ends(r, w)[0] = r /\ Ends(r, w)[1] = w
  BY DEF Ends, Cell, End
<1> QED
  BY <1>1, <1>2, <1>3, <1>4

LEMMA PipeOutputStep == ASSUME IInv, PipeOutput PROVE IInv'
<1> USE DEF IInv
<1> DEFINE next == (at + 1) % FILE_MAX
<1>1. next \in Index
  BY HandlingFacts, ModIndex DEF PipeOutput, Output
<1> HIDE DEF next
<1>2. /\ loopVars' = loopVars /\ clientVars' = clientVars /\ tables' = tables
      /\ env_path' = env_path /\ cur' = cur /\ line' = line /\ at' = at
      /\ in' = in /\ pc' = "fork" /\ pc = "output"
  BY DEF PipeOutput, Handling, Output
<1>3. ClientTable' /\ Used' = Used
  BY <1>2, HandlingKept
<1>4. HandlingInv'
  BY <1>2, <1>3 DEF HandlingInv
<1>5. PipesBetweenLive'
  BY <1>2, <1>3 DEF PipesBetweenLive, tables
<1>6. CASE /\ PipeFails /\ out' = 0 /\ UNCHANGED <<pipe_table, fdt>>
  <2>1. TypeOK'
    BY <1>2, <1>6 DEF TypeOK, loopVars, clientVars, tables
  <2>2. FdsFaithful'
    BY <1>2, <1>6 DEF FdsFaithful, clientVars, tables
  <2> QED
    BY <1>3, <1>4, <1>5, <2>1, <2>2
<1>7. ASSUME NEW r \in Fd, NEW w \in Fd, PipeGives(r, w),
             pipe_table' = [pipe_table EXCEPT ![next] = Ends(r, w)],
             fdt' = Opened(r, w, LocalEnd(next, 0), LocalEnd(next, 1)),
             out' = w
      PROVE  IInv'
  <2>1. LocalEnd(next, 0) \in Object /\ LocalEnd(next, 1) \in Object
    BY <1>1, ConstantsAssumption DEF LocalEnd, Obj, Object, Id, Index, End
  <2>2. /\ Ends(r, w) \in Cell /\ Ends(r, w)[0] = r /\ Ends(r, w)[1] = w
        /\ fdt'[r] = LocalEnd(next, 0) /\ fdt'[w] = LocalEnd(next, 1)
        /\ fdt' \in [Fd -> Object]
        /\ \A g \in Fd : g \notin Free(fdt) => fdt'[g] = fdt[g]
    BY <1>7, <2>1, PipeGivesFacts
  <2>3. TypeOK'
    BY <1>1, <1>2, <1>7, <2>2 DEF TypeOK, loopVars, clientVars, tables
  <2>4. \A k \in Index, e \in End :
          pipe_table'[k][e] # 0 => fdt'[pipe_table'[k][e]] = LocalEnd(k, e)
    <3> SUFFICES ASSUME NEW k \in Index, NEW e \in End, pipe_table'[k][e] # 0
                 PROVE  fdt'[pipe_table'[k][e]] = LocalEnd(k, e)
      OBVIOUS
    <3>1. CASE k = next
      BY <1>1, <1>7, <2>2, <3>1 DEF TypeOK, End
    <3>2. CASE k # next
      BY <1>1, <1>7, <2>2, <3>2, OpeningKeeps DEF TypeOK
    <3> QED
      BY <3>1, <3>2
  <2>5. FdsFaithful'
    BY <1>2, <2>2, <2>4, OpeningKeeps DEF FdsFaithful, clientVars, tables
  <2> QED
    BY <1>3, <1>4, <1>5, <2>3, <2>5
<1> QED
  BY <1>6, <1>7 DEF PipeOutput, next

LEMMA NumberOutputStep == ASSUME IInv, NumberOutput PROVE IInv'
<1> USE DEF IInv
<1> DEFINE next == (count + Segment.n) % FILE_MAX
           due  == cross_line_pipe_table[cur][next]
<1>1. cur \in Slot /\ cur \in Id
  BY HandlingFacts DEF NumberOutput, Output, TypeOK
<1>2. next \in Index
  <2>1. count \in Index /\ Segment.n \in Nat
    BY HandlingFacts DEF NumberOutput, Output
  <2>2. count + Segment.n \in Nat
    BY <2>1, ConstantsAssumption DEF Index
  <2> QED
    BY <2>2, ModIndex
<1>3. /\ loopVars' = loopVars /\ clientVars' = clientVars
      /\ user_pipe' = user_pipe /\ pipe_table' = pipe_table
      /\ env_path' = env_path /\ cur' = cur /\ line' = line /\ at' = at
      /\ in' = in /\ pc' = "fork" /\ pc = "output"
  BY DEF NumberOutput, Handling, Output
<1>4. ClientTable' /\ Used' = Used
  BY <1>3, HandlingKept
<1>5. HandlingInv'
  BY <1>3, <1>4 DEF HandlingInv
<1>6. PipesBetweenLive'
  BY <1>3, <1>4 DEF PipesBetweenLive
<1>7. CASE UNCHANGED <<cross_line_pipe_table, fdt>> /\ out' \in {0, due[1]}
  <2>1. out' \in {-1, 0} \cup Fd
    BY <1>1, <1>2, <1>7, EntriesTyped DEF End
  <2>2. TypeOK'
    BY <1>3, <1>7, <2>1 DEF TypeOK, loopVars, clientVars
  <2>3. FdsFaithful'
    BY <1>3, <1>7 DEF FdsFaithful, clientVars
  <2> QED
    BY <1>4, <1>5, <1>6, <2>2, <2>3
<1>8. ASSUME NEW r \in Fd, NEW w \in Fd, PipeGives(r, w),
             cross_line_pipe_table' =
               [cross_line_pipe_table EXCEPT ![cur][next] = Ends(r, w)],
             fdt' = Opened(r, w, CrossEnd(cur, next, 0), CrossEnd(cur, next, 1)),
             out' = w
      PROVE  IInv'
  <2> HIDE DEF next
  <2>1. CrossEnd(cur, next, 0) \in Object /\ CrossEnd(cur, next, 1) \in Object
    BY <1>1, <1>2, ConstantsAssumption DEF CrossEnd, Obj, Object, Index, End
  <2>2. /\ Ends(r, w) \in Cell /\ Ends(r, w)[0] = r /\ Ends(r, w)[1] = w
        /\ fdt'[r] = CrossEnd(cur, next, 0) /\ fdt'[w] = CrossEnd(cur, next, 1)
        /\ fdt' \in [Fd -> Object]
        /\ \A g \in Fd : g \notin Free(fdt) => fdt'[g] = fdt[g]
    BY <1>8, <2>1, PipeGivesFacts
  <2>3. TypeOK'
    BY <1>1, <1>2, <1>3, <1>8, <2>2 DEF TypeOK, loopVars, clientVars
  <2>4. \A i \in Slot, k \in Index, e \in End :
          LET f == cross_line_pipe_table'[i][k][e] IN f # 0 => fdt'[f] = CrossEnd(i, k, e)
    <3> SUFFICES ASSUME NEW i \in Slot, NEW k \in Index, NEW e \in End,
                        cross_line_pipe_table'[i][k][e] # 0
                 PROVE  fdt'[cross_line_pipe_table'[i][k][e]] = CrossEnd(i, k, e)
      OBVIOUS
    <3>1. CASE i = cur /\ k = next
      <4>1. cross_line_pipe_table'[i][k] = Ends(r, w)
        BY <1>1, <1>2, <1>8, <3>1 DEF TypeOK
      <4> QED
        BY <2>2, <3>1, <4>1 DEF End
    <3>2. CASE ~ (i = cur /\ k = next)
      <4>1. cross_line_pipe_table'[i][k] = cross_line_pipe_table[i][k]
        BY <1>1, <1>2, <1>8, <3>2 DEF TypeOK
      <4> QED
        BY <2>2, <4>1, OpeningKeeps
    <3> QED
      BY <3>1, <3>2
  <2>5. FdsFaithful'
    BY <1>3, <2>2, <2>4, OpeningKeeps DEF FdsFaithful, clientVars
  <2> QED
    BY <1>4, <1>5, <1>6, <2>3, <2>5
<1> QED
  BY <1>7, <1>8 DEF NumberOutput

LEMMA FileOutputStep == ASSUME IInv, FileOutput PROVE IInv'
<1> USE DEF IInv
<1>1. /\ loopVars' = loopVars /\ clientVars' = clientVars /\ tables' = tables
      /\ env_path' = env_path /\ cur' = cur /\ line' = line /\ at' = at
      /\ in' = in /\ pc' = "fork" /\ pc = "output" /\ pipe_table' = pipe_table
  BY DEF FileOutput, Handling, Output
<1>2. /\ out' \in {-1} \cup Fd /\ fdt' \in [Fd -> Object]
      /\ \A g \in Fd : g \notin Free(fdt) => fdt'[g] = fdt[g]
  <2>1. File \in Object
    BY ConstantsAssumption DEF File, Obj, Object, Id, End
  <2> QED
    BY <2>1 DEF FileOutput, Lowest, TypeOK
<1>3. TypeOK'
  BY <1>1, <1>2 DEF TypeOK, loopVars, clientVars, tables
<1>4. ClientTable' /\ Used' = Used
  BY <1>1, HandlingKept
<1>5. HandlingInv'
  BY <1>1, <1>4 DEF HandlingInv
<1>6. PipesBetweenLive'
  BY <1>1, <1>4 DEF PipesBetweenLive, tables
<1>7. FdsFaithful'
  BY <1>1, <1>2, OpeningKeeps DEF FdsFaithful, clientVars, tables
<1> QED
  BY <1>3, <1>4, <1>5, <1>6, <1>7

LEMMA UserOutputStep == ASSUME IInv, UserOutput PROVE IInv'
<1> USE DEF IInv
<1>1. /\ cur \in Used /\ cur \in Id /\ to_id \in Used /\ to_id \in Id
  BY HandlingFacts DEF UserOutput, Output, TypeOK
<1>2. /\ loopVars' = loopVars /\ clientVars' = clientVars
      /\ cross_line_pipe_table' = cross_line_pipe_table /\ pipe_table' = pipe_table
      /\ env_path' = env_path /\ cur' = cur /\ line' = line /\ at' = at
      /\ in' = in /\ pc' = "fork" /\ pc = "output"
  BY DEF UserOutput, Handling, Output
<1>3. ClientTable' /\ Used' = Used
  BY <1>2, HandlingKept
<1>4. HandlingInv'
  BY <1>2, <1>3 DEF HandlingInv
<1>5. CASE UNCHANGED <<user_pipe, fdt>> /\ out' = user_pipe[cur][to_id][1]
  <2>1. out' \in {-1, 0} \cup Fd
    BY <1>1, <1>5, EntriesTyped DEF End
  <2>2. TypeOK'
    BY <1>2, <1>5, <2>1 DEF TypeOK, loopVars, clientVars
  <2>3. FdsFaithful'
    BY <1>2, <1>5 DEF FdsFaithful, clientVars
  <2>4. PipesBetweenLive'
    BY <1>3, <1>5 DEF PipesBetweenLive
  <2> QED
    BY <1>3, <1>4, <2>2, <2>3, <2>4
<1>6. ASSUME NEW r \in Fd, NEW w \in Fd, PipeGives(r, w),
             user_pipe' = [user_pipe EXCEPT ![cur][to_id] = Ends(r, w)],
             fdt' = Opened(r, w, UserEnd(cur, to_id, 0), UserEnd(cur, to_id, 1)),
             out' = w
      PROVE  IInv'
  <2>1. UserEnd(cur, to_id, 0) \in Object /\ UserEnd(cur, to_id, 1) \in Object
    BY <1>1, ConstantsAssumption DEF UserEnd, Obj, Object, Id, End
  <2>2. /\ Ends(r, w) \in Cell /\ Ends(r, w)[0] = r /\ Ends(r, w)[1] = w
        /\ fdt'[r] = UserEnd(cur, to_id, 0) /\ fdt'[w] = UserEnd(cur, to_id, 1)
        /\ fdt' \in [Fd -> Object]
        /\ \A g \in Fd : g \notin Free(fdt) => fdt'[g] = fdt[g]
    BY <1>6, <2>1, PipeGivesFacts
  <2>3. TypeOK'
    BY <1>1, <1>2, <1>6, <2>2 DEF TypeOK, loopVars, clientVars
  <2>4. \A i, j \in Id :
          ~ (i = cur /\ j = to_id) => user_pipe'[i][j] = user_pipe[i][j]
    BY <1>1, <1>6 DEF TypeOK
  <2>5. \A i, j \in Id, e \in End :
          user_pipe'[i][j][e] # 0 => fdt'[user_pipe'[i][j][e]] = UserEnd(i, j, e)
    <3> SUFFICES ASSUME NEW i \in Id, NEW j \in Id, NEW e \in End,
                        user_pipe'[i][j][e] # 0
                 PROVE  fdt'[user_pipe'[i][j][e]] = UserEnd(i, j, e)
      OBVIOUS
    <3>1. CASE i = cur /\ j = to_id
      <4>1. user_pipe'[i][j] = Ends(r, w)
        BY <1>1, <1>6, <3>1 DEF TypeOK
      <4> QED
        BY <2>2, <3>1, <4>1 DEF End
    <3>2. CASE ~ (i = cur /\ j = to_id)
      BY <2>2, <2>4, <3>2, OpeningKeeps
    <3> QED
      BY <3>1, <3>2
  <2>6. FdsFaithful'
    BY <1>2, <2>2, <2>5, OpeningKeeps DEF FdsFaithful, clientVars
  <2>7. PipesBetweenLive'
    BY <1>1, <1>3, <2>4 DEF PipesBetweenLive
  <2> QED
    BY <1>3, <1>4, <2>3, <2>6, <2>7
<1> QED
  BY <1>5, <1>6 DEF UserOutput

LEMMA ClientOutputStep == ASSUME IInv, ClientOutput PROVE IInv'
<1> USE DEF IInv
<1>1. /\ loopVars' = loopVars /\ clientVars' = clientVars /\ tables' = tables
      /\ env_path' = env_path /\ cur' = cur /\ line' = line /\ at' = at
      /\ in' = in /\ pc' = "fork" /\ pc = "output" /\ pipe_table' = pipe_table
      /\ fdt' = fdt /\ out' = client_fd[cur]
  BY DEF ClientOutput, Handling, Output
<1>2. out' \in {-1, 0} \cup Fd
  BY <1>1, HandlingFacts, EntriesTyped
<1>3. TypeOK'
  BY <1>1, <1>2 DEF TypeOK, loopVars, clientVars, tables
<1>4. ClientTable' /\ Used' = Used
  BY <1>1, HandlingKept
<1>5. HandlingInv'
  BY <1>1, <1>4 DEF HandlingInv
<1>6. PipesBetweenLive'
  BY <1>1, <1>4 DEF PipesBetweenLive, tables
<1>7. FdsFaithful'
  BY <1>1 DEF FdsFaithful, clientVars, tables
<1> QED
  BY <1>3, <1>4, <1>5, <1>6, <1>7

(* Every descriptor closed after the fork leaves the tables in the same    *)
(* step, and no other entry holds it.                                      *)
LEMMA ForkStep == ASSUME IInv, Fork PROVE IInv'
<1> USE DEF IInv
<1> DEFINE S == ClosedAfterFork
<1>1. /\ cur \in Slot /\ cur \in Used /\ cur \in Id /\ count \in Index
      /\ at \in Index /\ cross \in Cell
      /\ from_id \in Id /\ to_id \in Id /\ line \in Lines /\ pc = "fork"
      /\ at \in 1 .. Len(line.seg)
  BY HandlingFacts DEF Fork, TypeOK, HandlingInv
<1>2. /\ loopVars' = loopVars /\ clientVars' = clientVars /\ env_path' = env_path
      /\ fdt' = Close(fdt, S)
      /\ cross_line_pipe_table' = [cross_line_pipe_table EXCEPT ![cur][count] = NoPipe]
      /\ user_pipe' = UserPipesAfterFork
  BY DEF Fork
<1>3. NoPipe \in Cell
  BY DEF NoPipe, Cell
<1>4. /\ pc' \in {"select", "scan", "input"}
      /\ cur' \in Id /\ line' \in Lines \cup {NoLine} /\ at' \in Index
      /\ in' \in {0} \cup Fd /\ out' \in {-1, 0} \cup Fd
      /\ pipe_table' \in [Index -> Cell]
      /\ pc' = "input" => cur' = cur /\ line' = line /\ at' \in 1 .. Len(line.seg)
      /\ \A k \in Index : pipe_table'[k] = NoPipe \/ (k # at /\ pipe_table'[k] = pipe_table[k])
  <2>1. CASE at = Len(line.seg)
    <3>1. LineDone
      BY <2>1 DEF Fork
    <3>2. \A k \in Index : pipe_table'[k] = NoPipe
      BY <3>1, LineDoneFacts
    <3> QED
      BY <3>1, <3>2, LineDoneFacts
  <2>2. CASE at # Len(line.seg)
    <3>1. /\ pc' = "input" /\ at' = at + 1 /\ in' = 0 /\ out' = client_fd[cur]
          /\ cur' = cur /\ line' = line
          /\ pipe_table' = [pipe_table EXCEPT ![at] = NoPipe]
      BY <2>2 DEF Fork
    <3>2. at' \in 1 .. Len(line.seg) /\ at' \in Index
      BY <1>1, <2>2, <3>1, LineFacts, ConstantsAssumption DEF Index
    <3>3. out' \in {-1, 0} \cup Fd
      BY <1>1, <3>1, EntriesTyped
    <3>4. /\ pipe_table' \in [Index -> Cell]
          /\ \A k \in Index :
               pipe_table'[k] = NoPipe \/ (k # at /\ pipe_table'[k] = pipe_table[k])
      BY <1>1, <1>3, <3>1 DEF TypeOK
    <3> QED
      BY <1>1, <3>1, <3>2, <3>3, <3>4
  <2> QED
    BY <2>1, <2>2
<1>5. \A a, b \in Id :
        /\ user_pipe'[a][b] \in Cell
        /\ user_pipe[a][b] = NoPipe => user_pipe'[a][b] = NoPipe
        /\ \A e \in End : user_pipe'[a][b][e] # 0 =>
             /\ user_pipe'[a][b][e] = user_pipe[a][b][e]
             /\ <<a, b>> \notin ReceivedPipe
             /\ ~ (<<a, b>> \in SentPipe /\ e = 1)
  <2> TAKE a \in Id, b \in Id
  <2>1. user_pipe[a][b] \in Cell
    BY DEF TypeOK
  <2>2. user_pipe'[a][b] = IF <<a, b>> \in ReceivedPipe THEN NoPipe
                           ELSE IF <<a, b>> \in SentPipe THEN Ends(user_pipe[a][b][0], 0)
                           ELSE user_pipe[a][b]
    BY <1>2 DEF UserPipesAfterFork
  <2>3. Ends(user_pipe[a][b][0], 0) \in Cell
    BY <2>1 DEF Ends, Cell, End
  <2> QED
    BY <1>3, <2>1, <2>2, <2>3 DEF Ends, NoPipe, End
<1>6. TypeOK'
  <2>1. user_pipe' \in [Id -> [Id -> Cell]]
    <3>1. ASSUME NEW a \in Id PROVE user_pipe'[a] \in [Id -> Cell]
      <4>1. user_pipe'[a] = [b \in Id |-> user_pipe'[a][b]]
        BY <1>2 DEF UserPipesAfterFork
      <4>2. \A b \in Id : user_pipe'[a][b] \in Cell
        BY <1>5
      <4> QED
        BY <4>1, <4>2
    <3>2. user_pipe' = [a \in Id |-> user_pipe'[a]]
      BY <1>2 DEF UserPipesAfterFork
    <3> QED
      BY <3>1, <3>2
  <2>2. cross_line_pipe_table' \in [Slot -> [Index -> Cell]]
    BY <1>1, <1>2, <1>3 DEF TypeOK
  <2> HIDE DEF S
  <2> QED
    BY <1>2, <1>4, <2>1, <2>2, CloseTyped DEF TypeOK, loopVars, clientVars
<1>7. ClientTable' /\ Used' = Used
  BY <1>2, HandlingKept
<1>8. HandlingInv'
  BY <1>1, <1>4, <1>7 DEF HandlingInv
<1>9. PipesBetweenLive'
  BY <1>5, <1>7 DEF PipesBetweenLive
<1>10. FdsFaithful'
  <2>1. \A g \in S : g \in Fd =>
          \/ \E e \in End : fdt[g] = LocalEnd(at, e)
          \/ \E e \in End : fdt[g] = CrossEnd(cur, count, e)
          \/ \E p \in ReceivedPipe, e \in End : fdt[g] = UserEnd(p[1], p[2], e)
          \/ \E p \in SentPipe : fdt[g] = UserEnd(p[1], p[2], 1)
    <3> SUFFICES ASSUME NEW g \in S, g \in Fd
                 PROVE  \/ \E e \in End : fdt[g] = LocalEnd(at, e)
                        \/ \E e \in End : fdt[g] = CrossEnd(cur, count, e)
                        \/ \E p \in ReceivedPipe, e \in End : fdt[g] = UserEnd(p[1], p[2], e)
                        \/ \E p \in SentPipe : fdt[g] = UserEnd(p[1], p[2], 1)
      OBVIOUS
    <3>1. g # 0 /\ 1 \in End
      BY DEF Fd, End
    <3>2. \A p \in ReceivedPipe \cup SentPipe : p[1] \in Id /\ p[2] \in Id
      BY <1>1 DEF ReceivedPipe, SentPipe
    <3>3. CASE g \in {pipe_table[at][e] : e \in End}
      BY <1>1, <3>1, <3>3 DEF FdsFaithful
    <3>4. CASE g \in {cross[e] : e \in End}
      BY <1>1, <3>1, <3>4 DEF FdsFaithful, cross
    <3>5. CASE g \in {user_pipe[p[1]][p[2]][e] : p \in ReceivedPipe, e \in End}
      BY <3>1, <3>2, <3>5 DEF FdsFaithful
    <3>6. CASE g \in {user_pipe[p[1]][p[2]][1] : p \in SentPipe}
      BY <3>1, <3>2, <3>6 DEF FdsFaithful
    <3> QED
      BY <3>3, <3>4, <3>5, <3>6 DEF ClosedAfterFork
  <2> HIDE DEF S
  <2>2. \A g \in S : g \in Fd => fdt[g].kind \notin {"listen", "sock"}
    BY <2>1, Kinds
  <2>3. \A a, b \in Id, e \in End : user_pipe'[a][b][e] # 0 =>
          user_pipe'[a][b][e] = user_pipe[a][b][e] /\ user_pipe[a][b][e] \notin S
    <3> SUFFICES ASSUME NEW a \in Id, NEW b \in Id, NEW e \in End,
                        user_pipe'[a][b][e] # 0
                 PROVE  /\ user_pipe'[a][b][e] = user_pipe[a][b][e]
                        /\ user_pipe[a][b][e] \notin S
      OBVIOUS
    <3> DEFINE g == user_pipe[a][b][e]
    <3>1. /\ user_pipe'[a][b][e] = g /\ g # 0
          /\ <<a, b>> \notin ReceivedPipe /\ ~ (<<a, b>> \in SentPipe /\ e = 1)
      BY <1>5
    <3>2. g \in Fd /\ fdt[g] = UserEnd(a, b, e) /\ fdt[g].kind = "user"
      BY <3>1, EntriesTyped, Kinds DEF FdsFaithful
    <3>3. g \in S =>
            \/ \E p \in ReceivedPipe, d \in End : UserEnd(a, b, e) = UserEnd(p[1], p[2], d)
            \/ \E p \in SentPipe : UserEnd(a, b, e) = UserEnd(p[1], p[2], 1)
      BY <2>1, <3>2, Kinds
    <3>4. \A p, d : UserEnd(a, b, e) = UserEnd(p[1], p[2], d) => a = p[1] /\ b = p[2] /\ e = d
      BY ObjEqual DEF UserEnd
    <3>5. \A p \in ReceivedPipe \cup SentPipe : p = <<p[1], p[2]>>
      BY DEF ReceivedPipe, SentPipe
    <3> QED
      BY <3>1, <3>3, <3>4, <3>5
  <2>4. \A i \in Slot, k \in Index, e \in End :
          cross_line_pipe_table'[i][k][e] # 0 =>
            /\ cross_line_pipe_table'[i][k][e] = cross_line_pipe_table[i][k][e]
            /\ cross_line_pipe_table[i][k][e] \notin S
    <3> SUFFICES ASSUME NEW i \in Slot, NEW k \in Index, NEW e \in End,
                        cross_line_pipe_table'[i][k][e] # 0
                 PROVE  /\ cross_line_pipe_table'[i][k][e] = cross_line_pipe_table[i][k][e]
                        /\ cross_line_pipe_table[i][k][e] \notin S
      OBVIOUS
    <3> DEFINE g == cross_line_pipe_table[i][k][e]
    <3>1. <<i, k>> # <<cur, count>> /\ cross_line_pipe_table'[i][k][e] = g
      BY <1>1, <1>2 DEF TypeOK, NoPipe
    <3>2. g \in Fd /\ fdt[g] = CrossEnd(i, k, e) /\ fdt[g].kind = "cross"
      BY <3>1, EntriesTyped, Kinds DEF FdsFaithful
    <3>3. \A d : CrossEnd(i, k, e) # CrossEnd(cur, count, d)
      BY <3>1, ObjEqual DEF CrossEnd
    <3> QED
      BY <2>1, <3>1, <3>2, <3>3, Kinds
  <2>5. \A k \in Index, e \in End :
          pipe_table'[k][e] # 0 =>
            pipe_table'[k][e] = pipe_table[k][e] /\ pipe_table[k][e] \notin S
    <3> SUFFICES ASSUME NEW k \in Index, NEW e \in End, pipe_table'[k][e] # 0
                 PROVE  pipe_table'[k][e] = pipe_table[k][e] /\ pipe_table[k][e] \notin S
      OBVIOUS
    <3> DEFINE g == pipe_table[k][e]
    <3>1. k # at /\ pipe_table'[k][e] = g
      BY <1>4 DEF NoPipe
    <3>2. g \in Fd /\ fdt[g] = LocalEnd(k, e) /\ fdt[g].kind = "local"
      BY <3>1, EntriesTyped, Kinds DEF FdsFaithful
    <3>3. \A d : LocalEnd(k, e) # LocalEnd(at, d)
      BY <3>1, ObjEqual DEF LocalEnd
    <3> QED
      BY <2>1, <3>1, <3>2, <3>3, Kinds
  <2> QED
    BY <1>2, <2>2, <2>3, <2>4, <2>5, ClosingKeeps DEF FdsFaithful, clientVars
<1> QED
  BY <1>6, <1>7, <1>8, <1>9, <1>10

-----------------------------------------------------------------------------
(* The theorems.                                                           *)

LEMMA InitInv == Init => IInv
<1> SUFFICES ASSUME Init PROVE IInv
  OBVIOUS
<1>1. Used = {} /\ Slot \subseteq Id
  BY ConstantsAssumption DEF Init, Used, Slot, Id
<1>2. TypeOK
  <2>1. Closed \in Object /\ Listener \in Object
    BY ConstantsAssumption DEF Closed, Listener, Obj, Object, Id, End
  <2>2. sockfd \in Fd /\ 0 \in Index /\ 0 \in Id
    BY ConstantsAssumption DEF Fd, sockfd, Index, Id
  <2>3. NoPipe \in Cell
    BY DEF NoPipe, Cell
  <2> QED
    BY <2>1, <2>2, <2>3, ConstantsAssumption DEF Init, TypeOK, Name, Path
<1>3. HandlingInv
  BY DEF Init, HandlingInv
<1>4. ClientTable
  <2>1. Cardinality(Used) = 0
    BY <1>1, FS_EmptySet
  <2>2. afd = {sockfd} \cup {client_fd[i] : i \in Used}
    BY <1>1 DEF Init
  <2> QED
    BY <1>1, <2>1, <2>2 DEF Init, ClientTable, sockfd
<1>5. PipesBetweenLive
  BY DEF Init, PipesBetweenLive
<1>6. FdsFaithful
  BY <1>2 DEF Init, FdsFaithful, NoPipe, TypeOK
<1> QED
  BY <1>2, <1>3, <1>4, <1>5, <1>6 DEF IInv

LEMMA NextInv == IInv /\ [Next]_vars => IInv'
<1> SUFFICES ASSUME IInv, [Next]_vars PROVE IInv'
  OBVIOUS
<1>1. CASE Select
  BY <1>1, SelectStep
<1>2. CASE AcceptClient
  BY <1>2, AcceptClientStep
<1>3. CASE AcceptRefused
  BY <1>3, AcceptRefusedStep
<1>4. ASSUME NEW f \in Fd, NEW i \in Slot, Shell(i, f) PROVE IInv'
  BY <1>4, EmptyLineStep, TextCommandStep, SetEnvStep, SetNameStep, LeaveStep,
     RejectedLineStep, StartLineStep DEF Shell, Name
<1>5. CASE process_handler
  BY <1>5, BreakLineStep, CrossInputStep, UserInputStep, PlainInputStep,
     PipeOutputStep, NumberOutputStep, FileOutputStep, UserOutputStep,
     ClientOutputStep, ForkStep DEF process_handler
<1>6. CASE UNCHANGED vars
  <2>1. Used' = Used
    BY <1>6 DEF Used, vars, clientVars
  <2> QED
    BY <1>6, <2>1 DEF IInv, TypeOK, HandlingInv, ClientTable, PipesBetweenLive,
       FdsFaithful, vars, loopVars, clientVars, tables, localVars
<1> QED
  BY <1>1, <1>2, <1>3, <1>4, <1>5, <1>6 DEF Next

(* The inductive invariant holds throughout.                               *)
THEOREM Invariance == Spec => []IInv
BY InitInv, NextInv, PTL DEF Spec

(* Array indices, descriptors and counters stay in range.                  *)
THEOREM TypeCorrect == Spec => []TypeOK
<1>1. IInv => TypeOK
  BY DEF IInv
<1> QED
  BY <1>1, Invariance, PTL

(* The login count, the watched descriptors and the client table agree: a  *)
(* login below the limit finds a slot and a served descriptor a client.    *)
THEOREM TableCoherent == Spec => []ClientTable
<1>1. IInv => ClientTable
  BY DEF IInv
<1> QED
  BY <1>1, Invariance, PTL

(* No client inherits a user pipe from the one that had its id before.     *)
THEOREM NoInheritedPipe == Spec => []PipesBetweenLive
<1>1. IInv => PipesBetweenLive
  BY DEF IInv
<1> QED
  BY <1>1, Invariance, PTL

(* No table entry is used after its descriptor was closed or reused.       *)
THEOREM NoStaleDescriptor == Spec => []FdsFaithful
<1>1. IInv => FdsFaithful
  BY DEF IInv
<1> QED
  BY <1>1, Invariance, PTL

-----------------------------------------------------------------------------
(* Isolation: what a forked process may read and write.                    *)

(* The objects a process may be given are open, and none is a socket of    *)
(* another client.                                                         *)
LEMMA MayReadOpen == \A c : Closed \notin MayRead(c)
BY Kinds DEF MayRead

(* Choosing the input gives the segment a read end of the client's own.    *)
LEMMA InputStep ==
  ASSUME IInv, CrossInput \/ UserInput \/ PlainInput
  PROVE  InputOwn'
<1> USE DEF IInv
<1>1. /\ cur \in Slot /\ cur \in Used /\ cur \in Id /\ count \in Index
      /\ at \in Index /\ from_id \in Id /\ cur' = cur
      /\ 0 \in End /\ 1 \in End
  BY HandlingFacts DEF TypeOK, CrossInput, UserInput, PlainInput, Handling, End
<1>2. MayRead(cur)' = MayRead(cur)
  BY <1>1 DEF MayRead
<1>3. SUFFICES ASSUME in' # 0 PROVE fdt'[in'] \in MayRead(cur)
  BY <1>2 DEF InputOwn
<1>4. CASE CrossInput
  <2>1. in' = cross[0] /\ fdt' = Close(fdt, {cross[1]})
    BY <1>3, <1>4 DEF CrossInput
  <2>2. in' \in Fd /\ fdt[in'] = CrossEnd(cur, count, 0)
    BY <1>1, <1>3, <2>1, EntriesTyped DEF FdsFaithful, cross
  <2>3. cross[1] # 0 => fdt[cross[1]] = CrossEnd(cur, count, 1)
    BY <1>1 DEF FdsFaithful, cross
  <2>4. CrossEnd(cur, count, 0) # CrossEnd(cur, count, 1)
    BY ObjEqual DEF CrossEnd
  <2>5. fdt'[in'] = CrossEnd(cur, count, 0)
    BY <1>3, <2>1, <2>2, <2>3, <2>4 DEF Close
  <2> QED
    BY <1>1, <2>5 DEF MayRead
<1>5. CASE UserInput
  <2> DEFINE p == user_pipe[from_id][cur]
  <2>1. in' = p[0] /\ fdt' = Close(fdt, {p[1]})
    BY <1>3, <1>5 DEF UserInput
  <2>2. in' \in Fd /\ fdt[in'] = UserEnd(from_id, cur, 0)
    BY <1>1, <1>3, <2>1, EntriesTyped DEF FdsFaithful
  <2>3. p[1] # 0 => fdt[p[1]] = UserEnd(from_id, cur, 1)
    BY <1>1 DEF FdsFaithful
  <2>4. UserEnd(from_id, cur, 0) # UserEnd(from_id, cur, 1)
    BY ObjEqual DEF UserEnd
  <2>5. fdt'[in'] = UserEnd(from_id, cur, 0)
    BY <1>3, <2>1, <2>2, <2>3, <2>4 DEF Close
  <2>6. from_id \in Slot
    BY <1>1, <1>3, <2>1 DEF PipesBetweenLive, NoPipe, Used
  <2> QED
    BY <2>5, <2>6 DEF MayRead
<1>6. CASE PlainInput
  <2>1. in' = pipe_table[at][0] /\ fdt' = Close(fdt, {pipe_table[at][1]})
    BY <1>3, <1>6 DEF PlainInput
  <2>2. in' \in Fd /\ fdt[in'] = LocalEnd(at, 0)
    BY <1>1, <1>3, <2>1, EntriesTyped DEF FdsFaithful
  <2>3. pipe_table[at][1] # 0 => fdt[pipe_table[at][1]] = LocalEnd(at, 1)
    BY <1>1 DEF FdsFaithful
  <2>4. LocalEnd(at, 0) # LocalEnd(at, 1)
    BY ObjEqual DEF LocalEnd
  <2>5. fdt'[in'] = LocalEnd(at, 0)
    BY <1>3, <2>1, <2>2, <2>3, <2>4 DEF Close
  <2> QED
    BY <1>1, <2>5 DEF MayRead
<1> QED
  BY <1>4, <1>5, <1>6

(* Opening the output disturbs neither the input nor anyone else's object. *)
LEMMA OutputStep ==
  ASSUME IInv, InputOwn,
         PipeOutput \/ NumberOutput \/ FileOutput \/ UserOutput \/ ClientOutput
  PROVE  InputOwn' /\ Isolation'
<1> USE DEF IInv
<1>1. /\ cur \in Slot /\ cur \in Used /\ count \in Index /\ at \in Index
      /\ to_id \in {0} \cup Used /\ Segment.n \in Nat
      /\ pc = "output" /\ pc' = "fork" /\ cur' = cur /\ in' = in
      /\ 0 \in End /\ 1 \in End
  BY HandlingFacts DEF PipeOutput, NumberOutput, FileOutput, UserOutput,
     ClientOutput, Output, Handling, End
<1>2. MayRead(cur)' = MayRead(cur) /\ MayWrite(cur)' = MayWrite(cur)
  BY <1>1 DEF MayRead, MayWrite
<1>3. \A g \in Fd : g \notin Free(fdt) => fdt'[g] = fdt[g]
  <2>1. CASE PipeOutput
    BY <2>1, PipeGivesFacts DEF PipeOutput
  <2>2. CASE NumberOutput
    BY <2>2, PipeGivesFacts DEF NumberOutput
  <2>3. CASE FileOutput
    BY <2>3 DEF FileOutput, Lowest, TypeOK
  <2>4. CASE UserOutput
    BY <2>4, PipeGivesFacts DEF UserOutput
  <2>5. CASE ClientOutput
    BY <2>5 DEF ClientOutput
  <2> QED
    BY <2>1, <2>2, <2>3, <2>4, <2>5
<1>4. in # 0 => fdt'[in] \in MayRead(cur)
  BY <1>1, <1>3, MayReadOpen DEF InputOwn, Free, TypeOK
<1>5. out' \in Fd => fdt'[out'] \in MayWrite(cur)
  <2> SUFFICES ASSUME out' \in Fd PROVE fdt'[out'] \in MayWrite(cur)
    OBVIOUS
  <2>1. out' # 0 /\ out' # -1
    BY DEF Fd
  <2>2. CASE PipeOutput
    <3> DEFINE next == (at + 1) % FILE_MAX
    <3>1. next \in Index
      BY HandlingFacts, <1>1, ModIndex
    <3>2. fdt'[out'] = LocalEnd(next, 1)
      BY <2>1, <2>2, PipeGivesFacts DEF PipeOutput
    <3> QED
      BY <3>1, <3>2 DEF MayWrite
  <2>3. CASE NumberOutput
    <3> DEFINE next == (count + Segment.n) % FILE_MAX
    <3>1. next \in Index
      <4>1. count + Segment.n \in Nat
        BY <1>1, ConstantsAssumption DEF Index
      <4> QED
        BY <4>1, ModIndex
    <3>2. fdt'[out'] = CrossEnd(cur, next, 1)
      <4>1. CASE UNCHANGED fdt /\ out' = cross_line_pipe_table[cur][next][1]
        BY <1>1, <2>1, <3>1, <4>1 DEF FdsFaithful
      <4>2. CASE \E r, w \in Fd :
                   /\ PipeGives(r, w)
                   /\ fdt' = Opened(r, w, CrossEnd(cur, next, 0), CrossEnd(cur, next, 1))
                   /\ out' = w
        BY <4>2, PipeGivesFacts
      <4> QED
        BY <2>1, <2>3, <4>1, <4>2 DEF NumberOutput
    <3> QED
      BY <3>1, <3>2 DEF MayWrite
  <2>4. CASE FileOutput
    BY <2>1, <2>4 DEF FileOutput, TypeOK, MayWrite
  <2>5. CASE UserOutput
    <3>1. to_id \in Slot /\ to_id \in Id /\ cur \in Id
      BY <1>1, <2>5, HandlingFacts DEF UserOutput, Used, TypeOK
    <3>2. fdt'[out'] = UserEnd(cur, to_id, 1)
      <4>1. CASE UNCHANGED fdt /\ out' = user_pipe[cur][to_id][1]
        BY <1>1, <2>1, <3>1, <4>1 DEF FdsFaithful
      <4>2. CASE \E r, w \in Fd :
                   /\ PipeGives(r, w)
                   /\ fdt' = Opened(r, w, UserEnd(cur, to_id, 0), UserEnd(cur, to_id, 1))
                   /\ out' = w
        BY <4>2, PipeGivesFacts
      <4> QED
        BY <2>5, <4>1, <4>2 DEF UserOutput
    <3> QED
      BY <3>1, <3>2 DEF MayWrite
  <2>6. CASE ClientOutput
    BY <1>1, <2>1, <2>6 DEF ClientOutput, FdsFaithful, MayWrite
  <2> QED
    BY <1>1, <2>2, <2>3, <2>4, <2>5, <2>6
<1> QED
  BY <1>1, <1>2, <1>4, <1>5 DEF InputOwn, Isolation

(* Every other step leaves the two phases between choosing an input and    *)
(* the fork.                                                               *)
LEMMA OtherStep ==
  ASSUME IInv, Next,
         ~ (CrossInput \/ UserInput \/ PlainInput),
         ~ (PipeOutput \/ NumberOutput \/ FileOutput \/ UserOutput \/ ClientOutput)
  PROVE  pc' \notin {"output", "fork"}
<1>1. CASE Select \/ AcceptClient \/ AcceptRefused
  BY <1>1 DEF Select, AcceptClient, AcceptRefused, NextFd
<1>2. ASSUME NEW f \in Fd, NEW i \in Slot, Shell(i, f)
      PROVE  pc' \notin {"output", "fork"}
  BY <1>2 DEF Shell, EmptyLine, TextCommand, SetEnv, SetName, Leave, RejectedLine,
     StartLine, NextFd
<1>3. CASE BreakLine \/ Fork
  BY <1>3 DEF BreakLine, Fork, LineDone
<1> QED
  BY <1>1, <1>2, <1>3 DEF Next, process_handler

(* A forked process reads only pipes meant for its client and writes only  *)
(* to its client's connection and pipes, or to a file.                     *)
THEOREM ProcessIsolation == Spec => []Isolation
<1> DEFINE J == IInv /\ InputOwn /\ Isolation
<1>1. Init => J
  BY InitInv DEF Init, InputOwn, Isolation
<1>2. J /\ [Next]_vars => J'
  <2> SUFFICES ASSUME J, [Next]_vars PROVE InputOwn' /\ Isolation'
    BY NextInv
  <2>1. CASE CrossInput \/ UserInput \/ PlainInput
    <3>1. pc' # "fork"
      BY <2>1 DEF CrossInput, UserInput, PlainInput
    <3> QED
      BY <2>1, <3>1, InputStep DEF Isolation
  <2>2. CASE PipeOutput \/ NumberOutput \/ FileOutput \/ UserOutput \/ ClientOutput
    BY <2>2, OutputStep
  <2>3. CASE /\ Next
             /\ ~ (CrossInput \/ UserInput \/ PlainInput)
             /\ ~ (PipeOutput \/ NumberOutput \/ FileOutput \/ UserOutput \/ ClientOutput)
    BY <2>3, OtherStep DEF InputOwn, Isolation
  <2>4. CASE UNCHANGED vars
    BY <2>4 DEF InputOwn, Isolation, MayRead, MayWrite, vars, localVars
  <2> QED
    BY <2>1, <2>2, <2>3, <2>4
<1>3. J => Isolation
  OBVIOUS
<1> QED
  BY <1>1, <1>2, <1>3, PTL DEF Spec

-----------------------------------------------------------------------------
(* One environment, one PATH at a time.                                    *)

(* From the start of a line to its end PATH stays that of its client.      *)
PathInv ==
  pc \in {"input", "output", "fork"} => env_path = path[cur]

(* A line's processes run under the PATH of the client that typed it: no   *)
(* step between my_shell's setenv and the last fork changes PATH, the      *)
(* client's own path or the client.                                        *)
THEOREM OwnPath == Spec => []RunsUnderOwnPath
<1>1. Init => PathInv
  BY DEF Init, PathInv
<1>2. PathInv /\ [Next]_vars => PathInv'
  <2> SUFFICES ASSUME PathInv, [Next]_vars PROVE PathInv'
    OBVIOUS
  <2>1. CASE Select \/ AcceptClient \/ AcceptRefused
    BY <2>1 DEF Select, AcceptClient, AcceptRefused, NextFd, PathInv
  <2>2. ASSUME NEW f \in Fd, NEW i \in Slot, Shell(i, f) PROVE PathInv'
    <3>1. ASSUME NEW l \in Lines, StartLine(i, f, l) PROVE PathInv'
      BY <3>1 DEF StartLine, Serving, PathInv
    <3>2. CASE pc' \in {"select", "scan"}
      BY <3>2 DEF PathInv
    <3> QED
      BY <2>2, <3>1, <3>2 DEF Shell, EmptyLine, TextCommand, SetEnv, SetName,
         Leave, RejectedLine, NextFd
  <2>3. CASE BreakLine
    BY <2>3 DEF BreakLine, LineDone, PathInv
  <2>4. CASE CrossInput \/ UserInput \/ PlainInput
    BY <2>4 DEF CrossInput, UserInput, PlainInput, Handling, clientVars, PathInv
  <2>5. CASE PipeOutput \/ NumberOutput \/ FileOutput \/ UserOutput \/ ClientOutput
    BY <2>5 DEF PipeOutput, NumberOutput, FileOutput, UserOutput, ClientOutput,
       Output, Handling, clientVars, PathInv
  <2>6. CASE Fork
    BY <2>6 DEF Fork, LineDone, clientVars, PathInv
  <2>7. CASE UNCHANGED vars
    BY <2>7 DEF vars, clientVars, localVars, PathInv
  <2> QED
    BY <2>1, <2>2, <2>3, <2>4, <2>5, <2>6, <2>7 DEF Next, process_handler
<1>3. PathInv => RunsUnderOwnPath
  BY DEF PathInv, RunsUnderOwnPath
<1> QED
  BY <1>1, <1>2, <1>3, PTL DEF Spec

-----------------------------------------------------------------------------
(* The refinement of InfoServer.  IInv says what the steps rely on: rows   *)
(* have descriptors of their own, and ids in tables are of clients.        *)

(* The pipes of the abstract server.                                       *)
Waiting == {p \in Slot \X Slot : user_pipe[p[1]][p[2]][0] # 0}

(* Steps that leave rows and read ends alone leave the promise alone.      *)
LEMMA Stutter ==
  ASSUME UNCHANGED <<client_fd, name>>,
         \A i, j \in Slot : user_pipe'[i][j][0] = user_pipe[i][j][0]
  PROVE  UNCHANGED Promise!svars
<1>1. Used' = Used
  BY DEF Used
<1>2. Waiting' = Waiting
  BY DEF Waiting
<1> QED
  BY <1>1, <1>2 DEF Promise!svars, Waiting

(* A login takes the lowest free id.                                       *)
LEMMA LoginStep ==
  ASSUME IInv, AcceptClient
  PROVE  \E u \in Slot : Promise!Login(u)
<1>1. PICK f \in Fd, i \in Slot :
        get_available_client(i) /\ init_client(i, f)
  BY DEF AcceptClient
<1>2. user_pipe' = user_pipe
  BY DEF AcceptClient
<1>3. Used' = Used \cup {i}
  BY <1>1 DEF IInv, TypeOK, init_client, Used, Fd
<1>4. /\ i \in Slot \ Used /\ \A v \in Slot \ Used : i <= v
      /\ name' = [name EXCEPT ![i] = NoName]
  BY <1>1 DEF get_available_client, Lowest, init_client
<1>5. Waiting' = Waiting
  BY <1>2 DEF Waiting
<1> QED
  BY <1>3, <1>4, <1>5 DEF Promise!Login, Promise!User, Slot, Waiting

(* The client of a served descriptor is logged in.                         *)
LEMMA ServedUsed ==
  ASSUME NEW f \in Fd, NEW i \in Slot, Serving(i, f)
  PROVE  i \in Used /\ client_fd[i] = f
BY DEF Serving, get_client, Lowest, Used, Fd

(* A logout forgets exactly the pipes from and to the client.              *)
LEMMA LogoutStep ==
  ASSUME IInv, NEW f \in Fd, NEW i \in Slot, Leave(i, f)
  PROVE  Promise!Logout(i)
<1>1. i \in Used
  BY ServedUsed DEF Leave
<1>2. Used' = Used \ {i}
  BY DEF IInv, TypeOK, Leave, Used
<1>3. \A a, b \in Slot : user_pipe'[a][b][0] =
        IF a = i \/ b = i THEN 0 ELSE user_pipe[a][b][0]
  BY DEF Leave, WithoutUser, Slot, Id, NoPipe, End
<1>4. Waiting' = {p \in Waiting : p[1] # i /\ p[2] # i}
  BY <1>3 DEF Waiting
<1>5. name' = [name EXCEPT ![i] = Blank]
  BY DEF Leave
<1> QED
  BY <1>1, <1>2, <1>4, <1>5 DEF Promise!Logout, Waiting

(* A nickname is given only if no other client has it: rows of other       *)
(* clients hold other descriptors, which is how checkname tells them.      *)
LEMMA RenameStep ==
  ASSUME IInv, NEW f \in Fd, NEW i \in Slot, NEW n \in Names \cup {NoName, Blank},
         SetName(i, f, n)
  PROVE  Promise!Rename(i, n) \/ UNCHANGED Promise!svars
<1>1. i \in Used
  BY ServedUsed DEF SetName
<1>2. Used' = Used /\ Waiting' = Waiting /\ client_fd' = client_fd
  BY DEF SetName, tables, Used, Waiting
<1>3. CASE checkname(i, n)
  <2>1. name' = [name EXCEPT ![i] = n]
    BY <1>3 DEF SetName
  <2>2. \A v \in Used \ {i} : name[v] # n
    BY <1>1, <1>3 DEF checkname, IInv, ClientTable, Used
  <2> QED
    BY <1>1, <1>2, <2>1, <2>2 DEF Promise!Rename, Waiting
<1>4. CASE ~ checkname(i, n)
  BY <1>2, <1>4 DEF SetName, Promise!svars, Waiting
<1> QED
  BY <1>3, <1>4

(* Making a user pipe is a send, or replaces what waits already.           *)
LEMMA SendStep ==
  ASSUME IInv, UserOutput
  PROVE  (\E u, v \in Slot : Promise!Send(u, v)) \/ UNCHANGED Promise!svars
<1>1. cur \in Slot /\ cur \in Used /\ cur \in Id /\ to_id \in Used
      /\ to_id \in Slot /\ to_id \in Id
  BY HandlingFacts DEF IInv, UserOutput, Output, Used, TypeOK
<1>2. UNCHANGED <<client_fd, name>>
  BY DEF UserOutput, Handling, clientVars
<1>3. CASE user_pipe' = user_pipe
  BY <1>2, <1>3, Stutter
<1>4. CASE \E r, w \in Fd : user_pipe' = [user_pipe EXCEPT ![cur][to_id] = Ends(r, w)]
  <2>1. PICK r \in Fd, w \in Fd :
          user_pipe' = [user_pipe EXCEPT ![cur][to_id] = Ends(r, w)]
    BY <1>4
  <2>2. \A a, b \in Slot : user_pipe'[a][b][0] =
          IF a = cur /\ b = to_id THEN r ELSE user_pipe[a][b][0]
    <3>1. Slot \subseteq Id /\ Ends(r, w)[0] = r
      BY DEF Slot, Id, Ends, End
    <3>2. user_pipe \in [Id -> [Id -> Cell]]
      BY DEF IInv, TypeOK
    <3>3. \A a, b \in Id : user_pipe'[a][b] =
            IF a = cur /\ b = to_id THEN Ends(r, w) ELSE user_pipe[a][b]
      BY <1>1, <2>1, <3>2
    <3> QED
      BY <3>1, <3>3
  <2>3. r # 0
    BY DEF Fd
  <2>4. Waiting' = Waiting \cup {<<cur, to_id>>}
    BY <1>1, <2>2, <2>3 DEF Waiting
  <2>5. Used' = Used
    BY <1>2 DEF Used
  <2>6. CASE <<cur, to_id>> \in Waiting
    BY <1>2, <2>4, <2>5, <2>6 DEF Promise!svars, Waiting
  <2>7. CASE <<cur, to_id>> \notin Waiting
    BY <1>1, <1>2, <2>4, <2>5, <2>7 DEF Promise!Send, Waiting
  <2> QED
    BY <2>6, <2>7
<1> QED
  BY <1>3, <1>4 DEF UserOutput

(* After the fork the pipe received is gone; the pipe sent still waits.    *)
LEMMA ReceiveStep ==
  ASSUME IInv, Fork
  PROVE  (\E u, v \in Slot : Promise!Receive(u, v)) \/ UNCHANGED Promise!svars
<1>1. /\ cur \in Slot /\ cur \in Used /\ cur \in Id
      /\ from_id \in {0} \cup Used
  BY HandlingFacts DEF IInv, Fork, TypeOK
<1>2. UNCHANGED <<client_fd, name>> /\ user_pipe' = UserPipesAfterFork
  BY DEF Fork, clientVars
<1>3. \A a, b \in Slot : user_pipe'[a][b][0] =
        IF from_id # 0 /\ a = from_id /\ b = cur THEN 0 ELSE user_pipe[a][b][0]
  <2>1. Slot \subseteq Id /\ NoPipe[0] = 0 /\ \A r, w : Ends(r, w)[0] = r
    BY DEF Slot, Id, NoPipe, Ends, End
  <2>2. \A a, b : <<a, b>> \in ReceivedPipe <=> from_id # 0 /\ a = from_id /\ b = cur
    BY DEF ReceivedPipe
  <2>3. \A a, b \in Id : user_pipe'[a][b] =
          IF <<a, b>> \in ReceivedPipe THEN NoPipe
          ELSE IF <<a, b>> \in SentPipe THEN Ends(user_pipe[a][b][0], 0)
          ELSE user_pipe[a][b]
    BY <1>2 DEF UserPipesAfterFork
  <2>4. SUFFICES ASSUME NEW a \in Slot, NEW b \in Slot
                 PROVE  user_pipe'[a][b][0] =
                          IF from_id # 0 /\ a = from_id /\ b = cur THEN 0
                          ELSE user_pipe[a][b][0]
    OBVIOUS
  <2>5. CASE <<a, b>> \in ReceivedPipe
    BY <2>1, <2>2, <2>3, <2>5
  <2>6. CASE <<a, b>> \notin ReceivedPipe /\ <<a, b>> \in SentPipe
    <3>1. user_pipe'[a][b] = Ends(user_pipe[a][b][0], 0)
      BY <2>1, <2>3, <2>6
    <3> QED
      BY <2>1, <2>2, <2>6, <3>1
  <2>7. CASE <<a, b>> \notin ReceivedPipe /\ <<a, b>> \notin SentPipe
    <3>1. user_pipe'[a][b] = user_pipe[a][b]
      BY <2>1, <2>3, <2>7
    <3> QED
      BY <2>2, <2>7, <3>1
  <2> QED
    BY <2>5, <2>6, <2>7
<1>4. Used' = Used
  BY <1>2 DEF Used
<1>5. CASE from_id # 0 /\ <<from_id, cur>> \in Waiting
  <2>1. Waiting' = Waiting \ {<<from_id, cur>>}
    BY <1>3, <1>5 DEF Waiting
  <2>2. from_id \in Slot
    BY <1>1, <1>5 DEF Used
  <2> QED
    BY <1>1, <1>2, <1>4, <1>5, <2>1, <2>2 DEF Promise!Receive, Waiting
<1>6. CASE ~ (from_id # 0 /\ <<from_id, cur>> \in Waiting)
  <2>1. \A a, b \in Slot : user_pipe'[a][b][0] = user_pipe[a][b][0]
    BY <1>3, <1>6 DEF Waiting
  <2> QED
    BY <1>2, <2>1, Stutter
<1> QED
  BY <1>5, <1>6

(* Choosing an input clears at most the write end of a user pipe.          *)
LEMMA InputStutters ==
  ASSUME IInv, CrossInput \/ UserInput \/ PlainInput
  PROVE  UNCHANGED Promise!svars
<1>1. UNCHANGED <<client_fd, name>>
  BY DEF CrossInput, UserInput, PlainInput, Handling, clientVars
<1>2. CASE CrossInput \/ PlainInput
  BY <1>1, <1>2, Stutter DEF CrossInput, PlainInput, tables
<1>3. CASE UserInput
  <2>1. user_pipe' = [user_pipe EXCEPT ![from_id][cur][1] = 0]
    BY <1>3 DEF UserInput
  <2>2. from_id \in Id /\ cur \in Id
    BY <1>3, HandlingFacts DEF IInv, UserInput, TypeOK
  <2>3. \A i, j \in Slot : user_pipe'[i][j][0] = user_pipe[i][j][0]
    BY <2>1, <2>2 DEF IInv, TypeOK, Slot, Id, Cell, End
  <2> QED
    BY <1>1, <2>3, Stutter
<1> QED
  BY <1>2, <1>3

(* Every step of the server is a step of the abstract server, or nothing.  *)
LEMMA StepSimulation == IInv /\ [Next]_vars => [Promise!Next]_(Promise!svars)
<1> SUFFICES ASSUME IInv, [Next]_vars
             PROVE  Promise!Next \/ UNCHANGED Promise!svars
  OBVIOUS
<1>1. CASE AcceptClient
  BY <1>1, LoginStep DEF Promise!Next, Promise!User, Slot
<1>2. CASE Select \/ AcceptRefused
  BY <1>2, Stutter DEF Select, AcceptRefused, clientVars, tables
<1>3. ASSUME NEW f \in Fd, NEW i \in Slot, Shell(i, f)
      PROVE  Promise!Next \/ UNCHANGED Promise!svars
  <2>1. CASE Leave(i, f)
    BY <2>1, LogoutStep DEF Promise!Next, Promise!User, Slot
  <2>2. ASSUME NEW n \in Names \cup {NoName, Blank}, SetName(i, f, n)
        PROVE  Promise!Next \/ UNCHANGED Promise!svars
    BY <2>2, RenameStep DEF Promise!Next, Promise!User, Slot
  <2>3. CASE \/ EmptyLine(i, f) \/ TextCommand(i, f)
             \/ \E p \in Paths : SetEnv(i, f, p)
             \/ \E l \in Lines : RejectedLine(i, f, l) \/ StartLine(i, f, l)
    BY <2>3, Stutter DEF EmptyLine, TextCommand, SetEnv, RejectedLine, StartLine,
       clientVars, tables
  <2> QED
    BY <1>3, <2>1, <2>2, <2>3 DEF Shell
<1>4. CASE UserOutput
  BY <1>4, SendStep DEF Promise!Next, Promise!User, Slot
<1>5. CASE Fork
  BY <1>5, ReceiveStep DEF Promise!Next, Promise!User, Slot
<1>6. CASE CrossInput \/ UserInput \/ PlainInput
  BY <1>6, InputStutters
<1>7. CASE BreakLine \/ PipeOutput \/ NumberOutput \/ FileOutput \/ ClientOutput
  BY <1>7, Stutter DEF BreakLine, PipeOutput, NumberOutput, FileOutput,
     ClientOutput, Handling, clientVars, tables
<1>8. CASE UNCHANGED vars
  BY <1>8, Stutter DEF vars, clientVars, tables
<1> QED
  BY <1>1, <1>2, <1>3, <1>4, <1>5, <1>6, <1>7, <1>8 DEF Next, process_handler

(* No one is logged in at the start, and nothing waits.                    *)
LEMMA InitSimulation == Init => Promise!Init
BY DEF Init, Promise!Init, Promise!User, Used, Slot, Id, NoPipe, End

(* The single-process server implements InfoServer: whatever happens to    *)
(* descriptors, tables and processes, users see logins at the lowest free  *)
(* id, unique nicknames, and pipes received once by whom they were sent to.*)
THEOREM PromiseKept == Spec => ServesAsPromised
BY InitSimulation, StepSimulation, Invariance, PTL
   DEF Spec, ServesAsPromised, Promise!Spec

-----------------------------------------------------------------------------
(* Nicknames.                                                              *)

(* Two logged-in clients never have the same nickname, the initial one     *)
(* excepted, whatever order they log in, rename themselves and leave in.   *)
THEOREM NicknamesUnique == Spec => []UniqueNames
<1>1. Init => UniqueNames
  BY DEF Init, UniqueNames, Used
<1>2. IInv /\ UniqueNames /\ [Next]_vars => UniqueNames'
  <2> SUFFICES ASSUME IInv, UniqueNames, [Next]_vars PROVE UniqueNames'
    OBVIOUS
  <2>1. CASE UNCHANGED Promise!svars
    BY <2>1 DEF Promise!svars, UniqueNames
  <2>2. ASSUME NEW u \in Slot, Promise!Login(u) PROVE UniqueNames'
    BY <2>2 DEF Promise!Login, UniqueNames, IInv, TypeOK, Used
  <2>3. ASSUME NEW u \in Slot, Promise!Logout(u) PROVE UniqueNames'
    BY <2>3 DEF Promise!Logout, UniqueNames, IInv, TypeOK, Used
  <2>4. ASSUME NEW u \in Slot, NEW n, Promise!Rename(u, n) PROVE UniqueNames'
    BY <2>4 DEF Promise!Rename, UniqueNames, IInv, TypeOK, Used
  <2>5. ASSUME NEW u, NEW v, Promise!Send(u, v) \/ Promise!Receive(u, v)
        PROVE  UniqueNames'
    BY <2>5 DEF Promise!Send, Promise!Receive, UniqueNames
  <2> QED
    BY <2>1, <2>2, <2>3, <2>4, <2>5, StepSimulation
       DEF Promise!Next, Promise!User, Slot
<1> QED
  BY <1>1, <1>2, Invariance, PTL DEF Spec

-----------------------------------------------------------------------------
(* No descriptor is lost, and no write end outlives the choice of its      *)
(* reader.  E is the set of pipe ends followed: the write ends alone, or   *)
(* both; what is said of the write ends needs nothing of the lines, while  *)
(* a read end can be lost on a line where a user types the word end.       *)

(* Every open connection, and every open pipe end of E, is in the table it *)
(* was made for.                                                           *)
TrackedFd(E, f) ==
  LET o == fdt[f] IN
  /\ o.kind = "sock" => o.i \in Slot /\ client_fd[o.i] = f
  /\ o.e \in E =>
       /\ o.kind = "user"  => o.j \in Id /\ user_pipe[o.i][o.j][o.e] = f
       /\ o.kind = "cross" => /\ o.i \in Slot /\ o.j \in Index
                             /\ cross_line_pipe_table[o.i][o.j][o.e] = f
       /\ o.kind = "local" => o.j \in Index /\ pipe_table[o.j][o.e] = f

Tracked(E) == \A f \in Fd : TrackedFd(E, f)

(* A slot in no use has an empty ring, so a login overwrites nothing.      *)
UnusedRing ==
  \A i \in Slot \ Used : cross_line_pipe_table[i] = [k \in Index |-> NoPipe]

Handled == pc \in {"input", "output", "fork"}

(* A numbered pipe has no read end without a write end, but for the one    *)
(* that the running segment has taken as its input.                        *)
RingWhole ==
  \A i \in Slot, k \in Index :
    cross_line_pipe_table[i][k][1] = 0 /\ cross_line_pipe_table[i][k][0] # 0
      => pc \in {"output", "fork"} /\ i = cur /\ k = cnt_line[cur]

(* The only pipes between segments are the one into this segment and, once *)
(* it is made, the one out of it.                                          *)
LocalPipes ==
  \A k \in Index : pipe_table[k] # NoPipe =>
    /\ Handled
    /\ \/ k = at /\ at > 1 /\ line.seg[at - 1].term = "pipe"
       \/ k = at + 1 /\ pc = "fork" /\ Segment.term = "pipe"

(* Until the line's own user pipe is made, no end of E of it is open.      *)
SendClear(E) ==
  Handled /\ ~ (pc = "fork" /\ Segment.term = "end" /\ to_id # 0)
          /\ line.to \notin {None, 0}
    => \A e \in E : user_pipe[cur][line.to][e] = 0

(* No client sends itself a pipe on the line on which it receives one.     *)
NotBoth == Handled => ~ (line.from = cur /\ line.to = cur)

(* The write end that belongs to the chosen input is out of the tables.    *)
InputClosed ==
  pc \in {"output", "fork"} /\ in # 0 =>
    \/ in = cross[0] /\ cross[1] = 0
    \/ /\ from_id # 0 /\ in = user_pipe[from_id][cur][0]
       /\ user_pipe[from_id][cur][1] = 0
    \/ in = pipe_table[at][0] /\ pipe_table[at][1] = 0

TInv(E) == /\ Tracked(E)
           /\ UnusedRing
           /\ RingWhole
           /\ LocalPipes
           /\ SendClear(E)
           /\ NotBoth
           /\ InputClosed

(* The word end closes every line and stands nowhere else in it.           *)
EndOnce ==
  \A l \in Lines : \A k \in 1 .. Len(l.seg) - 1 : l.seg[k].term # "end"

(* Descriptors that are not of N keep their object or stand for none that  *)
(* a table names, and an entry is only forgotten with its descriptor.      *)
LEMMA TrackedFrame ==
  ASSUME TypeOK, NEW E \in SUBSET End, Tracked(E), NEW N, client_fd' = client_fd,
         \A f \in Fd \ N : \/ fdt'[f] = fdt[f]
                           \/ fdt'[f].kind \notin {"sock", "user", "cross", "local"},
         \A f \in N \cap Fd : TrackedFd(E, f)',
         \A i, j \in Id, e \in E : \A f \in Fd \ N :
            user_pipe[i][j][e] = f /\ fdt'[f] = fdt[f] => user_pipe'[i][j][e] = f,
         \A i \in Slot, k \in Index, e \in E : \A f \in Fd \ N :
            cross_line_pipe_table[i][k][e] = f /\ fdt'[f] = fdt[f]
              => cross_line_pipe_table'[i][k][e] = f,
         \A k \in Index, e \in E : \A f \in Fd \ N :
            pipe_table[k][e] = f /\ fdt'[f] = fdt[f] => pipe_table'[k][e] = f
  PROVE  Tracked(E)'
<1> SUFFICES ASSUME NEW f \in Fd PROVE TrackedFd(E, f)'
  BY DEF Tracked
<1>1. CASE f \in N
  BY <1>1
<1>2. CASE f \notin N /\ fdt'[f].kind \notin {"sock", "user", "cross", "local"}
  BY <1>2 DEF TrackedFd
<1>3. CASE f \notin N /\ fdt'[f] = fdt[f]
  <2>1. TrackedFd(E, f) /\ fdt[f] \in Object
    BY DEF Tracked, TypeOK
  <2>2. fdt[f].i \in Id
    BY <2>1 DEF Object
  <2> QED
    BY <1>3, <2>1, <2>2 DEF TrackedFd
<1> QED
  BY <1>1, <1>2, <1>3

(* The same for a step that opens nothing a table names.                   *)
LEMMA TrackedKept ==
  ASSUME TypeOK, NEW E \in SUBSET End, Tracked(E), client_fd' = client_fd,
         \A f \in Fd : \/ fdt'[f] = fdt[f]
                       \/ fdt'[f].kind \notin {"sock", "user", "cross", "local"},
         \A i, j \in Id, e \in E : \A f \in Fd :
            user_pipe[i][j][e] = f /\ fdt'[f] = fdt[f] => user_pipe'[i][j][e] = f,
         \A i \in Slot, k \in Index, e \in E : \A f \in Fd :
            cross_line_pipe_table[i][k][e] = f /\ fdt'[f] = fdt[f]
              => cross_line_pipe_table'[i][k][e] = f,
         \A k \in Index, e \in E : \A f \in Fd :
            pipe_table[k][e] = f /\ fdt'[f] = fdt[f] => pipe_table'[k][e] = f
  PROVE  Tracked(E)'
<1> SUFFICES ASSUME NEW f \in Fd PROVE TrackedFd(E, f)'
  BY DEF Tracked
<1>1. CASE fdt'[f].kind \notin {"sock", "user", "cross", "local"}
  BY <1>1 DEF TrackedFd
<1>2. CASE fdt'[f] = fdt[f]
  <2>1. TrackedFd(E, f) /\ fdt[f] \in Object
    BY DEF Tracked, TypeOK
  <2>2. fdt[f].i \in Id
    BY <2>1 DEF Object
  <2> QED
    BY <1>2, <2>1, <2>2 DEF TrackedFd
<1> QED
  BY <1>1, <1>2

(* Steps outside a line that leave the tables alone.                       *)
LEMMA QuietStep ==
  ASSUME IInv, NEW E \in SUBSET End, TInv(E),
         pc \in {"select", "scan"}, pc' \in {"select", "scan"},
         UNCHANGED <<client_fd, tables, localVars>>,
         \A f \in Fd : fdt'[f] = fdt[f] \/ fdt'[f] = Refused
  PROVE  TInv(E)'
<1>1. Tracked(E)'
  <2>1. Refused.kind = "refused"
    BY DEF Refused, Obj
  <2>2. \A f \in Fd : \/ fdt'[f] = fdt[f]
                           \/ fdt'[f].kind \notin {"sock", "user", "cross", "local"}
    BY <2>1
  <2>3. /\ user_pipe' = user_pipe /\ cross_line_pipe_table' = cross_line_pipe_table
        /\ pipe_table' = pipe_table
    BY DEF tables, localVars
  <2>4. TypeOK /\ Tracked(E) /\ client_fd' = client_fd
    BY DEF TInv, IInv
  <2> QED
    BY <2>2, <2>3, <2>4, TrackedKept
<1>2. UnusedRing'
  BY DEF TInv, UnusedRing, Used, tables
<1>3. RingWhole' /\ LocalPipes'
  BY DEF TInv, RingWhole, LocalPipes, Handled, tables, localVars
<1>4. SendClear(E)' /\ NotBoth' /\ InputClosed'
  BY DEF SendClear, NotBoth, Handled, InputClosed
<1> QED
  BY <1>1, <1>2, <1>3, <1>4 DEF TInv

(* A login takes a slot whose ring is empty.                               *)
LEMMA AcceptClientTracks ==
  ASSUME IInv, NEW E \in SUBSET End, TInv(E), AcceptClient
  PROVE  TInv(E)'
<1>1. PICK f \in Fd, i \in Slot :
        /\ Lowest(f, Free(fdt))
        /\ get_available_client(i)
        /\ init_client(i, f)
        /\ fdt' = [fdt EXCEPT ![f] = Sock(i)]
  BY DEF AcceptClient
<1>2. i \in Slot \ Used /\ client_fd[i] = 0
  BY <1>1 DEF get_available_client, Lowest, Used
<1>3. /\ user_pipe' = user_pipe /\ pipe_table' = pipe_table
      /\ pc = "scan" /\ pc' \in {"select", "scan"}
  BY DEF AcceptClient, localVars, Scanning, NextFd
<1>4. /\ client_fd' = [client_fd EXCEPT ![i] = f]
      /\ cross_line_pipe_table' =
           [cross_line_pipe_table EXCEPT ![i] = [k \in Index |-> NoPipe]]
  BY <1>1 DEF init_client, ClearRing
<1>5. cross_line_pipe_table' = cross_line_pipe_table
  BY <1>2, <1>4 DEF TInv, UnusedRing, IInv, TypeOK
<1>6. Tracked(E)'
  <2> SUFFICES ASSUME NEW g \in Fd PROVE TrackedFd(E, g)'
    BY DEF Tracked
  <2>1. CASE g = f
    <3>1. fdt'[g] = Sock(i) /\ Sock(i).i = i
      BY <1>1, <2>1 DEF IInv, TypeOK, Sock, Obj
    <3>2. client_fd'[i] = g
      BY <1>4, <2>1 DEF IInv, TypeOK
    <3> QED
      BY <3>1, <3>2, Kinds DEF TrackedFd
  <2>2. CASE g # f
    <3>1. fdt'[g] = fdt[g]
      BY <1>1, <2>2 DEF IInv, TypeOK
    <3>2. TrackedFd(E, g)
      BY DEF TInv, Tracked
    <3>3. \A j \in Slot : client_fd[j] = g => client_fd'[j] = g
      BY <1>2, <1>4 DEF IInv, TypeOK, Fd
    <3> QED
      BY <1>3, <1>5, <3>1, <3>2, <3>3 DEF TrackedFd
  <2> QED
    BY <2>1, <2>2
<1>7. UnusedRing'
  <2>1. Used \subseteq Used'
    BY <1>2, <1>4 DEF Used, IInv, TypeOK
  <2> QED
    BY <1>5, <2>1 DEF TInv, UnusedRing
<1>8. RingWhole' /\ LocalPipes'
  BY <1>3, <1>5 DEF TInv, RingWhole, LocalPipes, Handled
<1>9. SendClear(E)' /\ NotBoth' /\ InputClosed'
  BY <1>3 DEF SendClear, NotBoth, Handled, InputClosed
<1> QED
  BY <1>6, <1>7, <1>8, <1>9 DEF TInv

(* A logout strikes the client's pipes out of the tables and loses their   *)
(* descriptors in the same step.                                           *)
LEMMA LeaveTracks ==
  ASSUME IInv, NEW E \in SUBSET End, TInv(E),
         NEW i \in Slot, NEW f \in Fd, Leave(i, f)
  PROVE  TInv(E)'
<1>1. /\ pipe_table' = pipe_table
      /\ pc = "scan" /\ pc' \in {"select", "scan"}
      /\ client_fd[i] = f
  BY ServingFacts DEF IInv, Leave, localVars, NextFd
<1>2. /\ client_fd' = [client_fd EXCEPT ![i] = 0]
      /\ cross_line_pipe_table' =
           [cross_line_pipe_table EXCEPT ![i] = [k \in Index |-> NoPipe]]
      /\ user_pipe' = WithoutUser(i)
      /\ fdt' = [g \in Fd |-> IF g = f THEN Closed
                              ELSE IF g \in Owned(i) THEN Lost ELSE fdt[g]]
  BY DEF Leave, ClearRing
<1>3. Lost.kind = "lost"
  BY DEF Lost, Obj
<1>4. Tracked(E)'
  <2> SUFFICES ASSUME NEW g \in Fd PROVE TrackedFd(E, g)'
    BY DEF Tracked
  <2>1. CASE g = f \/ g \in Owned(i)
    BY <1>2, <1>3, <2>1, Kinds DEF TrackedFd
  <2>2. CASE g # f /\ g \notin Owned(i)
    <3> DEFINE o == fdt[g]
    <3>1. fdt'[g] = o /\ o \in Object /\ o.i \in Id
      BY <1>2, <2>2 DEF IInv, TypeOK, Object
    <3>2. TrackedFd(E, g)
      BY DEF TInv, Tracked
    <3>3. \A j \in Slot : client_fd[j] = g => client_fd'[j] = g
      BY <1>1, <1>2, <2>2 DEF IInv, TypeOK
    <3>4. /\ o.kind = "cross" => o.i # i
          /\ o.kind = "user" => o.i # i /\ o.j # i
      BY <2>2 DEF Owned
    <3>5. \A j \in Slot : j # i => cross_line_pipe_table'[j] = cross_line_pipe_table[j]
      BY <1>2 DEF IInv, TypeOK
    <3>6. \A a, b \in Id : a # i /\ b # i => user_pipe'[a][b] = user_pipe[a][b]
      BY <1>2 DEF WithoutUser
    <3> QED
      BY <1>1, <3>1, <3>2, <3>3, <3>4, <3>5, <3>6 DEF TrackedFd
  <2> QED
    BY <2>1, <2>2
<1>5. UnusedRing'
  <2>1. \A j \in Slot \ {i} : j \in Used => j \in Used'
    BY <1>2 DEF Used, IInv, TypeOK
  <2> QED
    BY <1>2, <2>1 DEF TInv, UnusedRing, IInv, TypeOK
<1>6. RingWhole'
  <2>1. \A j \in Slot, k \in Index :
          \/ cross_line_pipe_table'[j][k] = NoPipe
          \/ cross_line_pipe_table'[j][k] = cross_line_pipe_table[j][k]
    BY <1>2 DEF IInv, TypeOK
  <2> QED
    BY <1>1, <2>1 DEF TInv, RingWhole, NoPipe, End
<1>7. LocalPipes'
  BY <1>1 DEF TInv, LocalPipes, Handled
<1>8. SendClear(E)' /\ NotBoth' /\ InputClosed'
  BY <1>1 DEF SendClear, NotBoth, Handled, InputClosed
<1> QED
  BY <1>4, <1>5, <1>6, <1>7, <1>8 DEF TInv

(* A line starts with no pipe between segments, and with the entry of the  *)
(* pipe it is to send empty.                                               *)
LEMMA StartLineTracks ==
  ASSUME IInv, NEW E \in SUBSET End, TInv(E),
         NEW i \in Slot, NEW f \in Fd, NEW l \in Lines, StartLine(i, f, l)
  PROVE  TInv(E)'
<1>1. /\ pc = "scan" /\ pc' = "input" /\ cur' = i /\ line' = l
      /\ client_fd' = client_fd /\ fdt' = fdt
      /\ user_pipe' = user_pipe /\ cross_line_pipe_table' = cross_line_pipe_table
      /\ pipe_table' = [k \in Index |-> NoPipe]
      /\ CanReceive(i, l) /\ CanSend(i, l)
  BY ServingFacts DEF IInv, StartLine, tables
<1>2. pipe_table' = pipe_table
  <2>1. \A k \in Index : pipe_table[k] = NoPipe
    BY <1>1 DEF TInv, LocalPipes, Handled
  <2> QED
    BY <1>1, <2>1 DEF IInv, TypeOK
<1>3. Tracked(E)'
  BY <1>1, <1>2 DEF TInv, Tracked, TrackedFd
<1>4. UnusedRing' /\ RingWhole'
  BY <1>1 DEF TInv, UnusedRing, RingWhole, Used
<1>5. LocalPipes' /\ InputClosed'
  BY <1>1 DEF LocalPipes, InputClosed
<1>6. SendClear(E)'
  <2>1. l.to \notin {None, 0} => user_pipe[i][l.to] = NoPipe
    BY <1>1 DEF CanSend
  <2> QED
    BY <1>1, <2>1 DEF SendClear, NoPipe
<1>7. NotBoth'
  <2>1. i # None /\ NoPipe[0] = 0
    BY DEF Slot, None, NoPipe, End
  <2> QED
    BY <1>1, <2>1 DEF NotBoth, CanReceive, CanSend
<1> QED
  BY <1>3, <1>4, <1>5, <1>6, <1>7 DEF TInv

(* A line that ends after a numbered pipe has no pipe between segments.    *)
LEMMA NumberLast ==
  ASSUME NEW l \in Lines, NEW a \in 1 .. Len(l.seg), l.seg[a].term = "end",
         NEW m \in 1 .. a - 1, l.seg[m].term = "number"
  PROVE  l.seg[a - 1].term = "number"
<1>1. LineShape(l) /\ Len(l.seg) \in Nat
  BY ConstantsAssumption, LineFacts
<1>2. m \in 1 .. Len(l.seg)
  BY <1>1
<1>3. \A x \in m + 1 .. Len(l.seg) - 1 : l.seg[x].term = "number"
  BY <1>1, <1>2 DEF LineShape
<1>4. a - 1 = m \/ a - 1 \in m + 1 .. Len(l.seg) - 1
  BY <1>1
<1> QED
  BY <1>3, <1>4

LEMMA BreakLineTracks ==
  ASSUME IInv, NEW E \in SUBSET End, TInv(E), BreakLine
  PROVE  TInv(E)'
<1>1. /\ client_fd' = client_fd /\ fdt' = fdt
      /\ user_pipe' = user_pipe /\ cross_line_pipe_table' = cross_line_pipe_table
      /\ pipe_table' = [k \in Index |-> NoPipe]
      /\ pc = "input" /\ pc' \in {"select", "scan"} /\ stop_here
  BY LineDoneFacts DEF BreakLine, clientVars, tables
<1>2. pipe_table' = pipe_table
  <2>1. line \in Lines /\ at \in 1 .. Len(line.seg)
    BY <1>1 DEF IInv, HandlingInv
  <2>2. line.seg[at - 1].term = "number"
    BY <1>1, <2>1, NumberLast DEF stop_here, number_pipe, Segment
  <2>3. \A k \in Index : pipe_table[k] = NoPipe
    BY <1>1, <2>2 DEF TInv, LocalPipes
  <2> QED
    BY <1>1, <2>3 DEF IInv, TypeOK
<1>3. Tracked(E)'
  BY <1>1, <1>2 DEF TInv, Tracked, TrackedFd
<1>4. UnusedRing' /\ RingWhole'
  BY <1>1 DEF TInv, UnusedRing, RingWhole, Used
<1>5. LocalPipes'
  BY <1>1 DEF LocalPipes
<1>6. SendClear(E)' /\ NotBoth' /\ InputClosed'
  BY <1>1 DEF SendClear, NotBoth, Handled, InputClosed
<1> QED
  BY <1>3, <1>4, <1>5, <1>6 DEF TInv

(* What a step inside a line leaves alone.                                 *)
LEMMA InputFrame ==
  ASSUME IInv, CrossInput \/ UserInput \/ PlainInput
  PROVE  /\ pc = "input" /\ pc' = "output"
         /\ client_fd' = client_fd /\ cnt_line' = cnt_line
         /\ cur' = cur /\ line' = line /\ at' = at
         /\ Segment' = Segment /\ to_id' = to_id /\ from_id' = from_id
         /\ count' = count /\ Used' = Used
         /\ cur \in Slot /\ cur \in Id /\ count \in Index /\ at \in Index
         /\ from_id \in Id /\ to_id \in Id /\ cur \in Used
         /\ line \in Lines /\ at \in 1 .. Len(line.seg)
         /\ 0 \in End /\ 1 \in End
<1>1. /\ pc = "input" /\ pc' = "output" /\ UNCHANGED <<clientVars, cur, line, at>>
  BY DEF CrossInput, UserInput, PlainInput, Handling
<1> QED
  BY <1>1, HandlingFacts DEF IInv, TypeOK, HandlingInv, clientVars, Segment, to_id,
     from_id, count, Used, End

(* A closed pipe end names nothing any more.                               *)
LEMMA CloseChange ==
  ASSUME TypeOK, NEW S, fdt' = Close(fdt, S)
  PROVE  \A f \in Fd : /\ f \notin S => fdt'[f] = fdt[f]
                       /\ f \in S => fdt'[f] = Closed
                       /\ \/ fdt'[f] = fdt[f]
                          \/ fdt'[f].kind \notin {"sock", "user", "cross", "local"}
BY Kinds DEF Close

LEMMA CrossInputTracks ==
  ASSUME IInv, NEW E \in SUBSET End, TInv(E), CrossInput
  PROVE  TInv(E)'
<1>1. /\ pc = "input" /\ pc' = "output"
      /\ client_fd' = client_fd /\ cnt_line' = cnt_line
      /\ cur' = cur /\ line' = line /\ at' = at
      /\ Segment' = Segment /\ to_id' = to_id /\ count' = count /\ Used' = Used
      /\ cur \in Slot /\ count \in Index /\ cur \in Used /\ 0 \in End /\ 1 \in End
  BY InputFrame
<1>2. /\ user_pipe' = user_pipe /\ pipe_table' = pipe_table
      /\ cross_line_pipe_table' = [cross_line_pipe_table EXCEPT ![cur][count][1] = 0]
      /\ fdt' = Close(fdt, {cross[1]})
      /\ in' \in {0, cross[0]}
  BY DEF CrossInput
<1>3. cross_line_pipe_table \in [Slot -> [Index -> Cell]]
  BY DEF IInv, TypeOK
<1>4. \A i \in Slot, k \in Index, e \in End :
        cross_line_pipe_table'[i][k][e] =
          IF i = cur /\ k = count /\ e = 1 THEN 0 ELSE cross_line_pipe_table[i][k][e]
  BY <1>1, <1>2, <1>3 DEF Cell
<1>5. Tracked(E)'
  <2>1. cross[1] # 0 => cross[1] \in Fd /\ fdt[cross[1]] = CrossEnd(cur, count, 1)
    BY <1>1, EntriesTyped DEF IInv, FdsFaithful, cross
  <2>2. \A f \in Fd : f = cross[1] => fdt'[f] # fdt[f]
    <3>1. \A f \in Fd : f = cross[1] => f # 0 /\ fdt'[f] = Closed
      BY <1>2 DEF Close, Fd
    <3> QED
      BY <2>1, <3>1, Kinds
  <2>3. \A i \in Slot, k \in Index, e \in E : \A f \in Fd :
          cross_line_pipe_table[i][k][e] = f /\ fdt'[f] = fdt[f]
            => cross_line_pipe_table'[i][k][e] = f
    BY <1>4, <2>2 DEF cross
  <2>4. \A f \in Fd : \/ fdt'[f] = fdt[f]
                           \/ fdt'[f].kind \notin {"sock", "user", "cross", "local"}
    BY <1>2, CloseChange DEF IInv
  <2>5. TypeOK /\ Tracked(E)
    BY DEF TInv, IInv
  <2>6. client_fd' = client_fd /\ user_pipe' = user_pipe /\ pipe_table' = pipe_table
    BY <1>1, <1>2
  <2> QED
    BY <2>3, <2>4, <2>5, <2>6, TrackedKept
<1>6. UnusedRing'
  <2>1. \A i \in Slot : i # cur => cross_line_pipe_table'[i] = cross_line_pipe_table[i]
    BY <1>2, <1>3
  <2> QED
    BY <1>1, <2>1 DEF TInv, UnusedRing
<1>7. RingWhole'
  BY <1>1, <1>4 DEF TInv, RingWhole, count
<1>8. LocalPipes'
  BY <1>1, <1>2 DEF TInv, LocalPipes, Handled
<1>9. SendClear(E)' /\ NotBoth'
  BY <1>1, <1>2 DEF TInv, SendClear, NotBoth, Handled
<1>10. InputClosed'
  <2>1. cross'[0] = cross[0] /\ cross'[1] = 0
    BY <1>1, <1>4 DEF cross
  <2> QED
    BY <1>2, <2>1 DEF InputClosed
<1> QED
  BY <1>5, <1>6, <1>7, <1>8, <1>9, <1>10 DEF TInv

LEMMA UserInputTracks ==
  ASSUME IInv, NEW E \in SUBSET End, TInv(E), UserInput
  PROVE  TInv(E)'
<1> DEFINE p == user_pipe[from_id][cur]
<1>1. /\ pc = "input" /\ pc' = "output"
      /\ client_fd' = client_fd /\ cnt_line' = cnt_line
      /\ cur' = cur /\ line' = line /\ at' = at
      /\ Segment' = Segment /\ to_id' = to_id /\ from_id' = from_id /\ Used' = Used
      /\ cur \in Id /\ from_id \in Id /\ 0 \in End /\ 1 \in End
  BY InputFrame
<1>2. /\ cross_line_pipe_table' = cross_line_pipe_table /\ pipe_table' = pipe_table
      /\ user_pipe' = [user_pipe EXCEPT ![from_id][cur][1] = 0]
      /\ fdt' = Close(fdt, {p[1]})
      /\ in' \in {0, p[0]} /\ p[0] # 0
  BY DEF UserInput
<1>3. user_pipe \in [Id -> [Id -> Cell]]
  BY DEF IInv, TypeOK
<1>4. \A a, b \in Id, e \in End :
        user_pipe'[a][b][e] =
          IF a = from_id /\ b = cur /\ e = 1 THEN 0 ELSE user_pipe[a][b][e]
  BY <1>1, <1>2, <1>3 DEF Cell
<1>5. Tracked(E)'
  <2>1. p[1] # 0 => p[1] \in Fd /\ fdt[p[1]] = UserEnd(from_id, cur, 1)
    BY <1>1, EntriesTyped DEF IInv, FdsFaithful
  <2>2. \A f \in Fd : f = p[1] => fdt'[f] # fdt[f]
    <3>1. \A f \in Fd : f = p[1] => f # 0 /\ fdt'[f] = Closed
      BY <1>2 DEF Close, Fd
    <3> QED
      BY <2>1, <3>1, Kinds
  <2>3. \A a, b \in Id, e \in E : \A f \in Fd :
          user_pipe[a][b][e] = f /\ fdt'[f] = fdt[f] => user_pipe'[a][b][e] = f
    BY <1>4, <2>2
  <2>4. \A f \in Fd : \/ fdt'[f] = fdt[f]
                           \/ fdt'[f].kind \notin {"sock", "user", "cross", "local"}
    BY <1>2, CloseChange DEF IInv
  <2>5. TypeOK /\ Tracked(E)
    BY DEF TInv, IInv
  <2>6. /\ client_fd' = client_fd /\ pipe_table' = pipe_table
        /\ cross_line_pipe_table' = cross_line_pipe_table
    BY <1>1, <1>2
  <2> QED
    BY <2>3, <2>4, <2>5, <2>6, TrackedKept
<1>6. UnusedRing' /\ RingWhole'
  BY <1>1, <1>2 DEF TInv, UnusedRing, RingWhole
<1>7. LocalPipes'
  BY <1>1, <1>2 DEF TInv, LocalPipes, Handled
<1>8. NotBoth'
  BY <1>1 DEF TInv, NotBoth, Handled
<1>9. SendClear(E)'
  <2>1. line.to \notin {None, 0} => line.to \in Id
    BY <1>1 DEF IInv, HandlingInv, Used, Slot, Id
  <2>2. \A a, b \in Id, e \in E : user_pipe[a][b][e] = 0 => user_pipe'[a][b][e] = 0
    BY <1>4
  <2> QED
    BY <1>1, <2>1, <2>2 DEF TInv, SendClear, Handled
<1>10. InputClosed'
  <2>1. from_id # 0
    BY <1>1, <1>2 DEF IInv, PipesBetweenLive, NoPipe, Used, Slot
  <2>2. user_pipe'[from_id][cur][0] = p[0] /\ user_pipe'[from_id][cur][1] = 0
    BY <1>1, <1>4
  <2> QED
    BY <1>1, <1>2, <2>1, <2>2 DEF InputClosed
<1> QED
  BY <1>5, <1>6, <1>7, <1>8, <1>9, <1>10 DEF TInv

LEMMA PlainInputTracks ==
  ASSUME IInv, NEW E \in SUBSET End, TInv(E), PlainInput
  PROVE  TInv(E)'
<1>1. /\ pc = "input" /\ pc' = "output"
      /\ client_fd' = client_fd /\ cnt_line' = cnt_line
      /\ cur' = cur /\ line' = line /\ at' = at
      /\ Segment' = Segment /\ to_id' = to_id /\ Used' = Used
      /\ at \in Index /\ 0 \in End /\ 1 \in End
  BY InputFrame
<1>2. /\ cross_line_pipe_table' = cross_line_pipe_table /\ user_pipe' = user_pipe
      /\ pipe_table' = [pipe_table EXCEPT ![at][1] = 0]
      /\ fdt' = Close(fdt, {pipe_table[at][1]})
      /\ in' = pipe_table[at][0]
  BY DEF PlainInput, tables
<1>3. pipe_table \in [Index -> Cell]
  BY DEF IInv, TypeOK
<1>4. \A k \in Index, e \in End :
        pipe_table'[k][e] = IF k = at /\ e = 1 THEN 0 ELSE pipe_table[k][e]
  BY <1>1, <1>2, <1>3 DEF Cell
<1>5. Tracked(E)'
  <2>1. pipe_table[at][1] # 0 =>
          pipe_table[at][1] \in Fd /\ fdt[pipe_table[at][1]] = LocalEnd(at, 1)
    BY <1>1, EntriesTyped DEF IInv, FdsFaithful
  <2>2. \A f \in Fd : f = pipe_table[at][1] => fdt'[f] # fdt[f]
    <3>1. \A f \in Fd : f = pipe_table[at][1] => f # 0 /\ fdt'[f] = Closed
      BY <1>2 DEF Close, Fd
    <3> QED
      BY <2>1, <3>1, Kinds
  <2>3. \A k \in Index, e \in E : \A f \in Fd :
          pipe_table[k][e] = f /\ fdt'[f] = fdt[f] => pipe_table'[k][e] = f
    BY <1>4, <2>2
  <2>4. \A f \in Fd : \/ fdt'[f] = fdt[f]
                           \/ fdt'[f].kind \notin {"sock", "user", "cross", "local"}
    BY <1>2, CloseChange DEF IInv
  <2>5. TypeOK /\ Tracked(E)
    BY DEF TInv, IInv
  <2>6. /\ client_fd' = client_fd /\ user_pipe' = user_pipe
        /\ cross_line_pipe_table' = cross_line_pipe_table
    BY <1>1, <1>2
  <2> QED
    BY <2>3, <2>4, <2>5, <2>6, TrackedKept
<1>6. UnusedRing' /\ RingWhole'
  BY <1>1, <1>2 DEF TInv, UnusedRing, RingWhole
<1>7. LocalPipes'
  <2>1. \A k \in Index : pipe_table[k] = NoPipe => pipe_table'[k] = NoPipe
    BY <1>1, <1>2, <1>3 DEF NoPipe, Cell
  <2> QED
    BY <1>1, <2>1 DEF TInv, LocalPipes, Handled
<1>8. SendClear(E)' /\ NotBoth'
  BY <1>1, <1>2 DEF TInv, SendClear, NotBoth, Handled
<1>9. InputClosed'
  <2>1. pipe_table'[at][0] = pipe_table[at][0] /\ pipe_table'[at][1] = 0
    BY <1>1, <1>4
  <2> QED
    BY <1>1, <1>2, <2>1 DEF InputClosed
<1> QED
  BY <1>5, <1>6, <1>7, <1>8, <1>9 DEF TInv

(* A pipe due at another line is not due at this one: a number that the    *)
(* ring's length does not divide moves an index.                           *)
LEMMA ShiftMoves ==
  ASSUME NEW c \in Index, NEW n \in Nat, n % FILE_MAX # 0
  PROVE  (c + n) % FILE_MAX # c
<1> DEFINE F == FILE_MAX
<1>1. F \in Nat /\ F > 0 /\ c \in 0 .. F - 1 /\ n % F # 0
  BY ConstantsAssumption DEF Index
<1> HIDE DEF F
<1>2. (c + n) % F # c
  BY <1>1
<1> QED
  BY <1>2 DEF F

(* The pipe to the next segment is another entry than the one of this.     *)
LEMMA NextEntry ==
  ASSUME IInv, PipeOutput
  PROVE  (at + 1) % FILE_MAX = at + 1 /\ at + 1 \in Index
<1>1. line \in Lines /\ at \in 1 .. Len(line.seg) /\ line.seg[at].term = "pipe"
  BY DEF PipeOutput, Output, IInv, HandlingInv, Segment
<1>2. LineShape(line) /\ Len(line.seg) \in Nat /\ Len(line.seg) <= FILE_MAX - 1
  BY <1>1, ConstantsAssumption, LineFacts
<1>3. at # Len(line.seg)
  BY <1>1, <1>2 DEF LineShape
<1>4. at + 1 \in 0 .. FILE_MAX - 1
  BY <1>1, <1>2, <1>3, ConstantsAssumption
<1> QED
  BY <1>4, ConstantsAssumption DEF Index

LEMMA OutputFrame ==
  ASSUME IInv, PipeOutput \/ NumberOutput \/ FileOutput \/ UserOutput \/ ClientOutput
  PROVE  /\ pc = "output" /\ pc' = "fork"
         /\ client_fd' = client_fd /\ cnt_line' = cnt_line
         /\ cur' = cur /\ line' = line /\ at' = at /\ in' = in
         /\ Segment' = Segment /\ to_id' = to_id /\ from_id' = from_id
         /\ count' = count /\ Used' = Used
         /\ cur \in Slot /\ cur \in Id /\ count \in Index /\ at \in Index
         /\ from_id \in Id /\ to_id \in Id /\ cur \in Used
         /\ line \in Lines /\ at \in 1 .. Len(line.seg)
         /\ 0 \in End /\ 1 \in End
<1>1. /\ pc = "output" /\ pc' = "fork" /\ UNCHANGED <<clientVars, cur, line, at, in>>
  BY DEF PipeOutput, NumberOutput, FileOutput, UserOutput, ClientOutput, Output, Handling
<1> QED
  BY <1>1, HandlingFacts DEF IInv, TypeOK, HandlingInv, clientVars, Segment, to_id,
     from_id, count, Used, End

(* An output that leaves the tables alone.                                 *)
LEMMA PlainOutputTracks ==
  ASSUME IInv, NEW E \in SUBSET End, TInv(E),
         PipeOutput \/ NumberOutput \/ FileOutput \/ UserOutput \/ ClientOutput,
         user_pipe' = user_pipe, pipe_table' = pipe_table,
         cross_line_pipe_table' = cross_line_pipe_table,
         \A f \in Fd : fdt'[f] = fdt[f] \/ fdt'[f] = File
  PROVE  TInv(E)'
<1>1. /\ pc = "output" /\ pc' = "fork"
      /\ client_fd' = client_fd /\ cnt_line' = cnt_line
      /\ cur' = cur /\ line' = line /\ at' = at /\ in' = in
      /\ Segment' = Segment /\ to_id' = to_id /\ from_id' = from_id
      /\ count' = count /\ Used' = Used
  BY OutputFrame
<1>2. Tracked(E)'
  <2>1. File.kind = "file"
    BY DEF File, Obj
  <2>2. \A f \in Fd : \/ fdt'[f] = fdt[f]
                           \/ fdt'[f].kind \notin {"sock", "user", "cross", "local"}
    BY <2>1
  <2>3. TypeOK /\ Tracked(E)
    BY DEF TInv, IInv
  <2>4. client_fd' = client_fd
    BY <1>1
  <2> QED
    BY <2>2, <2>3, <2>4, TrackedKept
<1>3. UnusedRing' /\ RingWhole'
  BY <1>1 DEF TInv, UnusedRing, RingWhole
<1>4. LocalPipes' /\ SendClear(E)' /\ NotBoth'
  BY <1>1 DEF TInv, LocalPipes, SendClear, NotBoth, Handled
<1>5. InputClosed'
  <2>1. cross' = cross
    BY <1>1 DEF cross
  <2> QED
    BY <1>1, <2>1 DEF TInv, InputClosed
<1> QED
  BY <1>2, <1>3, <1>4, <1>5 DEF TInv

(* A pipe opened on free descriptors, with objects that name its entry.    *)
LEMMA OpenedTracks ==
  ASSUME IInv, NEW E \in SUBSET End, Tracked(E), client_fd' = client_fd,
         NEW r \in Fd, NEW w \in Fd, PipeGives(r, w),
         NEW o0 \in Object, NEW o1 \in Object, fdt' = Opened(r, w, o0, o1),
         TrackedFd(E, r)', TrackedFd(E, w)',
         \A i, j \in Id, e \in E :
            user_pipe[i][j][e] # 0 => user_pipe'[i][j][e] = user_pipe[i][j][e],
         \A i \in Slot, k \in Index, e \in E :
            cross_line_pipe_table[i][k][e] # 0
              => cross_line_pipe_table'[i][k][e] = cross_line_pipe_table[i][k][e],
         \A k \in Index, e \in E :
            pipe_table[k][e] # 0 => pipe_table'[k][e] = pipe_table[k][e]
  PROVE  Tracked(E)'
<1> DEFINE N == {r, w}
<1>1. \A f \in Fd \ N : fdt'[f] = fdt[f]
  BY DEF Opened, IInv, TypeOK
<1>4. 0 \notin Fd
  BY DEF Fd
<1>2. \A f \in N \cap Fd : TrackedFd(E, f)'
  OBVIOUS
<1> HIDE DEF N
<1>3. TypeOK
  BY DEF IInv
<1> QED
  BY <1>1, <1>2, <1>3, <1>4, TrackedFrame

LEMMA PipeOutputTracks ==
  ASSUME IInv, NEW E \in SUBSET End, TInv(E), PipeOutput
  PROVE  TInv(E)'
<1> DEFINE next == at + 1
<1>1. (at + 1) % FILE_MAX = next /\ next \in Index
  BY NextEntry
<1>2. /\ pc = "output" /\ pc' = "fork"
      /\ client_fd' = client_fd /\ cnt_line' = cnt_line
      /\ cur' = cur /\ line' = line /\ at' = at /\ in' = in
      /\ Segment' = Segment /\ to_id' = to_id /\ from_id' = from_id
      /\ count' = count /\ Used' = Used /\ at \in Index /\ 0 \in End /\ 1 \in End
      /\ Segment.term = "pipe"
      /\ user_pipe' = user_pipe /\ cross_line_pipe_table' = cross_line_pipe_table
  BY OutputFrame DEF PipeOutput, Output, tables
<1>3. next # at
  BY <1>2 DEF Index
<1> HIDE DEF next
<1>4. CASE UNCHANGED <<pipe_table, fdt>>
  BY <1>2, <1>4, PlainOutputTracks
<1>5. ASSUME NEW r \in Fd, NEW w \in Fd, PipeGives(r, w),
             pipe_table' = [pipe_table EXCEPT ![next] = Ends(r, w)],
             fdt' = Opened(r, w, LocalEnd(next, 0), LocalEnd(next, 1))
      PROVE  TInv(E)'
  <2>1. LocalEnd(next, 0) \in Object /\ LocalEnd(next, 1) \in Object
    BY <1>1, ConstantsAssumption DEF LocalEnd, Obj, Object, Id, Index, End
  <2>2. /\ Ends(r, w)[0] = r /\ Ends(r, w)[1] = w
        /\ fdt'[r] = LocalEnd(next, 0) /\ fdt'[w] = LocalEnd(next, 1)
    BY <1>5, <2>1, PipeGivesFacts DEF IInv
  <2>3. \A k \in Index :
          pipe_table'[k] = IF k = next THEN Ends(r, w) ELSE pipe_table[k]
    BY <1>1, <1>5 DEF IInv, TypeOK
  <2>4. pipe_table[next] = NoPipe
    BY <1>1, <1>2, <1>3 DEF TInv, LocalPipes
  <2>5. Tracked(E)'
    <3>1. TrackedFd(E, r)' /\ TrackedFd(E, w)'
      BY <1>1, <2>2, <2>3 DEF TrackedFd, LocalEnd, Obj
    <3>2. \A k \in Index, e \in E :
            pipe_table[k][e] # 0 => pipe_table'[k][e] = pipe_table[k][e]
      BY <2>3, <2>4 DEF NoPipe
    <3>3. Tracked(E)
      BY DEF TInv
    <3> QED
      BY <1>2, <1>5, <2>1, <3>1, <3>2, <3>3, OpenedTracks
  <2>6. UnusedRing' /\ RingWhole'
    BY <1>2 DEF TInv, UnusedRing, RingWhole
  <2>7. LocalPipes'
    BY <1>2, <2>3 DEF TInv, LocalPipes, Handled, next
  <2>8. SendClear(E)' /\ NotBoth'
    BY <1>2 DEF TInv, SendClear, NotBoth, Handled
  <2>9. InputClosed'
    <3>1. cross' = cross /\ pipe_table'[at] = pipe_table[at]
      BY <1>2, <1>3, <2>3 DEF cross
    <3> QED
      BY <1>2, <3>1 DEF TInv, InputClosed
  <2> QED
    BY <2>5, <2>6, <2>7, <2>8, <2>9 DEF TInv
<1> QED
  BY <1>1, <1>4, <1>5 DEF PipeOutput

LEMMA NumberOutputTracks ==
  ASSUME IInv, NEW E \in SUBSET End, TInv(E), NumberOutput
  PROVE  TInv(E)'
<1> DEFINE next == (count + Segment.n) % FILE_MAX
<1>1. /\ pc = "output" /\ pc' = "fork"
      /\ client_fd' = client_fd /\ cnt_line' = cnt_line
      /\ cur' = cur /\ line' = line /\ at' = at /\ in' = in
      /\ Segment' = Segment /\ to_id' = to_id /\ from_id' = from_id
      /\ count' = count /\ Used' = Used
      /\ cur \in Slot /\ count \in Index /\ cur \in Used /\ cur \in Id
      /\ line \in Lines /\ at \in 1 .. Len(line.seg) /\ 0 \in End /\ 1 \in End
      /\ Segment.term = "number"
      /\ user_pipe' = user_pipe /\ pipe_table' = pipe_table
  BY OutputFrame DEF NumberOutput, Output
<1>2. next \in Index /\ next # count
  <2>1. Segment.n \in Nat /\ Segment.n % FILE_MAX # 0
    BY <1>1, LineFacts, ConstantsAssumption DEF LineShape, Segment
  <2>2. count + Segment.n \in Nat
    BY <1>1, <2>1, ConstantsAssumption DEF Index
  <2> QED
    BY <1>1, <2>1, <2>2, ModIndex, ShiftMoves
<1> HIDE DEF next
<1>3. CASE UNCHANGED <<cross_line_pipe_table, fdt>>
  BY <1>1, <1>3, PlainOutputTracks
<1>4. ASSUME cross_line_pipe_table[cur][next][1] = 0,
             NEW r \in Fd, NEW w \in Fd, PipeGives(r, w),
             cross_line_pipe_table' =
               [cross_line_pipe_table EXCEPT ![cur][next] = Ends(r, w)],
             fdt' = Opened(r, w, CrossEnd(cur, next, 0), CrossEnd(cur, next, 1))
      PROVE  TInv(E)'
  <2>1. CrossEnd(cur, next, 0) \in Object /\ CrossEnd(cur, next, 1) \in Object
    BY <1>1, <1>2, ConstantsAssumption DEF CrossEnd, Obj, Object, Index, End
  <2>2. /\ Ends(r, w)[0] = r /\ Ends(r, w)[1] = w
        /\ fdt'[r] = CrossEnd(cur, next, 0) /\ fdt'[w] = CrossEnd(cur, next, 1)
    BY <1>4, <2>1, PipeGivesFacts DEF IInv
  <2>3. cross_line_pipe_table \in [Slot -> [Index -> Cell]]
    BY DEF IInv, TypeOK
  <2>4. \A i \in Slot, k \in Index :
          cross_line_pipe_table'[i][k] =
            IF i = cur /\ k = next THEN Ends(r, w) ELSE cross_line_pipe_table[i][k]
    BY <1>1, <1>2, <1>4, <2>3
  <2>5. \A e \in End : cross_line_pipe_table[cur][next][e] = 0
    BY <1>1, <1>2, <1>4 DEF TInv, RingWhole, count, End
  <2>6. Tracked(E)'
    <3>1. TrackedFd(E, r)' /\ TrackedFd(E, w)'
      BY <1>1, <1>2, <2>2, <2>4 DEF TrackedFd, CrossEnd, Obj
    <3>2. \A i \in Slot, k \in Index, e \in E :
            cross_line_pipe_table[i][k][e] # 0
              => cross_line_pipe_table'[i][k][e] = cross_line_pipe_table[i][k][e]
      BY <2>4, <2>5
    <3>3. Tracked(E)
      BY DEF TInv
    <3> QED
      BY <1>1, <1>4, <2>1, <3>1, <3>2, <3>3, OpenedTracks
  <2>7. UnusedRing'
    <3>1. \A i \in Slot : i # cur => cross_line_pipe_table'[i] = cross_line_pipe_table[i]
      BY <1>4, <2>3
    <3> QED
      BY <1>1, <3>1 DEF TInv, UnusedRing
  <2>8. RingWhole'
    <3>1. w # 0
      BY DEF Fd
    <3> QED
      BY <1>1, <2>2, <2>4, <3>1 DEF TInv, RingWhole
  <2>9. LocalPipes' /\ SendClear(E)' /\ NotBoth'
    BY <1>1 DEF TInv, LocalPipes, SendClear, NotBoth, Handled
  <2>10. InputClosed'
    <3>1. cross' = cross
      BY <1>1, <1>2, <2>4 DEF cross
    <3> QED
      BY <1>1, <3>1 DEF TInv, InputClosed
  <2> QED
    BY <2>6, <2>7, <2>8, <2>9, <2>10 DEF TInv
<1> QED
  BY <1>3, <1>4 DEF NumberOutput, next

LEMMA FileOutputTracks ==
  ASSUME IInv, NEW E \in SUBSET End, TInv(E), FileOutput
  PROVE  TInv(E)'
<1>1. /\ user_pipe' = user_pipe /\ pipe_table' = pipe_table
      /\ cross_line_pipe_table' = cross_line_pipe_table
  BY DEF FileOutput, tables
<1>2. \A f \in Fd : fdt'[f] = fdt[f] \/ fdt'[f] = File
  BY DEF FileOutput, IInv, TypeOK
<1> QED
  BY <1>1, <1>2, PlainOutputTracks

LEMMA ClientOutputTracks ==
  ASSUME IInv, NEW E \in SUBSET End, TInv(E), ClientOutput
  PROVE  TInv(E)'
<1>1. /\ user_pipe' = user_pipe /\ pipe_table' = pipe_table /\ fdt' = fdt
      /\ cross_line_pipe_table' = cross_line_pipe_table
  BY DEF ClientOutput, tables
<1> QED
  BY <1>1, PlainOutputTracks

(* The user pipe made is not the one received on the line.                 *)
LEMMA UserOutputTracks ==
  ASSUME IInv, NEW E \in SUBSET End, TInv(E), UserOutput
  PROVE  TInv(E)'
<1>1. /\ pc = "output" /\ pc' = "fork"
      /\ client_fd' = client_fd /\ cnt_line' = cnt_line
      /\ cur' = cur /\ line' = line /\ at' = at /\ in' = in
      /\ Segment' = Segment /\ to_id' = to_id /\ from_id' = from_id
      /\ count' = count /\ Used' = Used
      /\ cur \in Slot /\ cur \in Id /\ to_id \in Id /\ from_id \in Id
      /\ 0 \in End /\ 1 \in End
      /\ Segment.term = "end" /\ to_id # 0
      /\ cross_line_pipe_table' = cross_line_pipe_table /\ pipe_table' = pipe_table
  BY OutputFrame DEF UserOutput, Output
<1>2. line.to = to_id /\ line.to \notin {None, 0}
  BY <1>1 DEF to_id, Id, None
<1>3. from_id # 0 => line.from = from_id
  BY DEF from_id
<1>4. CASE UNCHANGED <<user_pipe, fdt>>
  BY <1>1, <1>4, PlainOutputTracks
<1>5. ASSUME NEW r \in Fd, NEW w \in Fd, PipeGives(r, w),
             user_pipe' = [user_pipe EXCEPT ![cur][to_id] = Ends(r, w)],
             fdt' = Opened(r, w, UserEnd(cur, to_id, 0), UserEnd(cur, to_id, 1))
      PROVE  TInv(E)'
  <2>1. UserEnd(cur, to_id, 0) \in Object /\ UserEnd(cur, to_id, 1) \in Object
    BY <1>1, ConstantsAssumption DEF UserEnd, Obj, Object, Id, End
  <2>2. /\ Ends(r, w)[0] = r /\ Ends(r, w)[1] = w
        /\ fdt'[r] = UserEnd(cur, to_id, 0) /\ fdt'[w] = UserEnd(cur, to_id, 1)
    BY <1>5, <2>1, PipeGivesFacts DEF IInv
  <2>3. \A a, b \in Id :
          user_pipe'[a][b] = IF a = cur /\ b = to_id THEN Ends(r, w) ELSE user_pipe[a][b]
    BY <1>1, <1>5 DEF IInv, TypeOK
  <2>4. \A e \in E : user_pipe[cur][to_id][e] = 0
    BY <1>1, <1>2 DEF TInv, SendClear, Handled
  <2>5. Tracked(E)'
    <3>1. TrackedFd(E, r)' /\ TrackedFd(E, w)'
      BY <1>1, <2>2, <2>3 DEF TrackedFd, UserEnd, Obj
    <3>2. \A a, b \in Id, e \in E :
            user_pipe[a][b][e] # 0 => user_pipe'[a][b][e] = user_pipe[a][b][e]
      BY <2>3, <2>4
    <3>3. Tracked(E)
      BY DEF TInv
    <3> QED
      BY <1>1, <1>5, <2>1, <3>1, <3>2, <3>3, OpenedTracks
  <2>6. UnusedRing' /\ RingWhole'
    BY <1>1 DEF TInv, UnusedRing, RingWhole
  <2>7. LocalPipes' /\ NotBoth'
    BY <1>1 DEF TInv, LocalPipes, NotBoth, Handled
  <2>8. SendClear(E)'
    BY <1>1 DEF SendClear
  <2>9. InputClosed'
    <3>1. cross' = cross
      BY <1>1 DEF cross
    <3>2. from_id # 0 => ~ (from_id = cur /\ cur = to_id)
      BY <1>1, <1>2, <1>3 DEF TInv, NotBoth, Handled
    <3>3. from_id # 0 => user_pipe'[from_id][cur] = user_pipe[from_id][cur]
      BY <1>1, <2>3, <3>2
    <3> QED
      BY <1>1, <3>1, <3>3 DEF TInv, InputClosed
  <2> QED
    BY <2>5, <2>6, <2>7, <2>8, <2>9 DEF TInv
<1> QED
  BY <1>4, <1>5 DEF UserOutput

LEMMA EndsFacts ==
  /\ NoPipe[0] = 0 /\ NoPipe[1] = 0
  /\ \A r, w : Ends(r, w)[0] = r /\ Ends(r, w)[1] = w
BY DEF NoPipe, Ends, End

(* What the fork closes leaves the tables, and what it strikes out of the  *)
(* tables it closes.                                                       *)
LEMMA ForkTracks ==
  ASSUME IInv, NEW E \in SUBSET End, TInv(E), Fork, E = {1} \/ EndOnce
  PROVE  TInv(E)'
<1>1. /\ pc = "fork" /\ client_fd' = client_fd /\ cnt_line' = cnt_line /\ Used' = Used
      /\ fdt' = Close(fdt, ClosedAfterFork)
      /\ cross_line_pipe_table' = [cross_line_pipe_table EXCEPT ![cur][count] = NoPipe]
      /\ user_pipe' = UserPipesAfterFork
  BY DEF Fork, clientVars, Used
<1>2. /\ cur \in Slot /\ cur \in Id /\ cur \in Used /\ count \in Index /\ at \in Index
      /\ from_id \in Id /\ to_id \in Id
      /\ line \in Lines /\ at \in 1 .. Len(line.seg) /\ 0 \in End /\ 1 \in End
  BY <1>1, HandlingFacts DEF IInv, TypeOK, HandlingInv, End
<1>3. \A i \in Slot, k \in Index :
        cross_line_pipe_table'[i][k] =
          IF i = cur /\ k = count THEN NoPipe ELSE cross_line_pipe_table[i][k]
  BY <1>1, <1>2 DEF IInv, TypeOK
<1>4. \A a, b \in Id : user_pipe'[a][b] =
        IF <<a, b>> \in ReceivedPipe THEN NoPipe
        ELSE IF <<a, b>> \in SentPipe THEN Ends(user_pipe[a][b][0], 0)
        ELSE user_pipe[a][b]
  BY <1>1 DEF UserPipesAfterFork
<1>5. /\ pc' \notin {"output", "fork"}
      /\ LocalPipes' /\ SendClear(E)' /\ NotBoth' /\ InputClosed'
      /\ \A k \in Index : k # at => pipe_table'[k] = pipe_table[k]
  <2>1. CASE at = Len(line.seg)
    <3>1. pc' \in {"select", "scan"} /\ pipe_table' = [k \in Index |-> NoPipe]
      BY <2>1, LineDoneFacts DEF Fork
    <3>2. Segment.term # "pipe"
      BY <1>2, <2>1, ConstantsAssumption DEF LineShape, Segment
    <3>3. \A k \in Index : k # at => pipe_table[k] = NoPipe
      BY <1>1, <3>2 DEF TInv, LocalPipes
    <3> QED
      BY <3>1, <3>3 DEF LocalPipes, SendClear, NotBoth, InputClosed, Handled
  <2>2. CASE at # Len(line.seg)
    <3>1. /\ pc' = "input" /\ at' = at + 1 /\ cur' = cur /\ line' = line
          /\ pipe_table' = [pipe_table EXCEPT ![at] = NoPipe]
      BY <2>2 DEF Fork
    <3>2. \A k \in Index : pipe_table'[k] = IF k = at THEN NoPipe ELSE pipe_table[k]
      BY <1>2, <2>2, <3>1 DEF IInv, TypeOK
    <3>3. LocalPipes'
      <4>1. at + 1 > 1 /\ (at + 1) - 1 = at
        BY <1>2
      <4>2. \A k \in Index : pipe_table'[k] # NoPipe =>
              k = at + 1 /\ line.seg[at].term = "pipe"
        BY <1>1, <3>2 DEF TInv, LocalPipes, Segment
      <4> QED
        BY <2>2, <3>1, <4>1, <4>2 DEF LocalPipes, Handled
    <3>4. SendClear(E)'
      <4> SUFFICES ASSUME line.to \notin {None, 0}, NEW e \in E
                   PROVE  user_pipe'[cur][line.to][e] = 0
        BY <2>2, <3>1 DEF SendClear
      <4>1. line.to \in Id
        BY <1>1 DEF IInv, HandlingInv, Used, Slot, Id
      <4>2. CASE Segment.term = "end" /\ to_id # 0
        <5>1. E = {1}
          BY <1>2, <2>2, <3>1, <4>2, LineFacts DEF EndOnce, Segment
        <5>2. to_id = line.to /\ <<cur, to_id>> \in SentPipe
          BY <4>2 DEF to_id, SentPipe
        <5> QED
          BY <1>2, <1>4, <4>1, <5>1, <5>2, EndsFacts
      <4>3. CASE ~ (Segment.term = "end" /\ to_id # 0)
        <5>1. user_pipe[cur][line.to][e] = 0
          BY <1>1, <4>3 DEF TInv, SendClear, Handled
        <5>2. e = 0 \/ e = 1
          BY DEF End
        <5>3. user_pipe'[cur][line.to] \in
                {NoPipe, Ends(user_pipe[cur][line.to][0], 0), user_pipe[cur][line.to]}
          BY <1>2, <1>4, <4>1
        <5> QED
          BY <5>1, <5>2, <5>3, EndsFacts
      <4> QED
        BY <4>2, <4>3
    <3>5. NotBoth' /\ InputClosed'
      BY <1>1, <2>2, <3>1 DEF TInv, NotBoth, Handled, InputClosed
    <3> QED
      BY <3>1, <3>2, <3>3, <3>4, <3>5
  <2> QED
    BY <2>1, <2>2
<1>6. Tracked(E)'
  <2> DEFINE S == ClosedAfterFork
  <2>1. \A f \in Fd : /\ f \in S => fdt'[f] = Closed
                      /\ f \notin S => fdt'[f] = fdt[f]
    BY <1>1 DEF Close
  <2>2. \A f \in Fd : \/ fdt'[f] = fdt[f]
                           \/ fdt'[f].kind \notin {"sock", "user", "cross", "local"}
    BY <2>1, Kinds
  <2>3. \A f \in Fd : fdt[f] # Closed /\ fdt'[f] = fdt[f] => f \notin S
    BY <2>1
  <2>4. \A a, b \in Id, e \in E : \A f \in Fd :
          user_pipe[a][b][e] = f /\ fdt'[f] = fdt[f] => user_pipe'[a][b][e] = f
    <3> SUFFICES ASSUME NEW a \in Id, NEW b \in Id, NEW e \in E, NEW f \in Fd,
                        user_pipe[a][b][e] = f, fdt'[f] = fdt[f]
                 PROVE  user_pipe'[a][b][e] = f
      OBVIOUS
    <3>1. e \in End /\ f # 0
      BY DEF Fd
    <3>6. e = 0 \/ e = 1
      BY <3>1 DEF End
    <3>2. fdt[f] = UserEnd(a, b, e)
      BY <3>1 DEF IInv, FdsFaithful
    <3>3. f \notin S
      BY <2>3, <3>2, Kinds
    <3>4. <<a, b>> \notin ReceivedPipe
      BY <3>1, <3>3 DEF ClosedAfterFork
    <3>5. ~ (<<a, b>> \in SentPipe /\ e = 1)
      BY <3>1, <3>3 DEF ClosedAfterFork
    <3> QED
      BY <1>4, <3>4, <3>5, <3>6, EndsFacts
  <2>5. \A i \in Slot, k \in Index, e \in E : \A f \in Fd :
          cross_line_pipe_table[i][k][e] = f /\ fdt'[f] = fdt[f]
            => cross_line_pipe_table'[i][k][e] = f
    <3> SUFFICES ASSUME NEW i \in Slot, NEW k \in Index, NEW e \in E, NEW f \in Fd,
                        cross_line_pipe_table[i][k][e] = f, fdt'[f] = fdt[f]
                 PROVE  cross_line_pipe_table'[i][k][e] = f
      OBVIOUS
    <3>1. e \in End /\ f # 0
      BY DEF Fd
    <3>2. fdt[f] = CrossEnd(i, k, e)
      BY <3>1 DEF IInv, FdsFaithful
    <3>3. f \notin S
      BY <2>3, <3>2, Kinds
    <3>4. ~ (i = cur /\ k = count)
      BY <3>1, <3>3 DEF ClosedAfterFork, cross
    <3> QED
      BY <1>3, <3>4
  <2>6. \A k \in Index, e \in E : \A f \in Fd :
          pipe_table[k][e] = f /\ fdt'[f] = fdt[f] => pipe_table'[k][e] = f
    <3> SUFFICES ASSUME NEW k \in Index, NEW e \in E, NEW f \in Fd,
                        pipe_table[k][e] = f, fdt'[f] = fdt[f]
                 PROVE  pipe_table'[k][e] = f
      OBVIOUS
    <3>1. e \in End /\ f # 0
      BY DEF Fd
    <3>2. fdt[f] = LocalEnd(k, e)
      BY <3>1 DEF IInv, FdsFaithful
    <3>3. f \notin S
      BY <2>3, <3>2, Kinds
    <3>4. k # at
      BY <3>1, <3>3 DEF ClosedAfterFork
    <3> QED
      BY <1>5, <3>4
  <2>7. TypeOK /\ Tracked(E) /\ client_fd' = client_fd
    BY <1>1 DEF TInv, IInv
  <2> HIDE DEF S
  <2> QED
    BY <2>2, <2>4, <2>5, <2>6, <2>7, TrackedKept
<1>7. UnusedRing'
  <2>1. \A i \in Slot : i # cur => cross_line_pipe_table'[i] = cross_line_pipe_table[i]
    BY <1>1, <1>2 DEF IInv, TypeOK
  <2> QED
    BY <1>1, <1>2, <2>1 DEF TInv, UnusedRing
<1>8. RingWhole'
  BY <1>1, <1>3, EndsFacts DEF TInv, RingWhole, count
<1> QED
  BY <1>5, <1>6, <1>7, <1>8 DEF TInv

LEMMA TrackNext ==
  ASSUME NEW E \in SUBSET End, E = {1} \/ EndOnce
  PROVE  IInv /\ TInv(E) /\ [Next]_vars => TInv(E)'
<1> SUFFICES ASSUME IInv, TInv(E), [Next]_vars PROVE TInv(E)'
  OBVIOUS
<1>1. CASE Select
  BY <1>1, QuietStep DEF Select, clientVars
<1>2. CASE AcceptClient
  BY <1>2, AcceptClientTracks
<1>3. CASE AcceptRefused
  <2>1. \A f \in Fd : fdt'[f] = fdt[f] \/ fdt'[f] = Refused
    BY <1>3 DEF AcceptRefused, IInv, TypeOK
  <2> QED
    BY <1>3, <2>1, QuietStep DEF AcceptRefused, clientVars, Scanning, NextFd
<1>4. ASSUME NEW f \in Fd, NEW i \in Slot, Shell(i, f) PROVE TInv(E)'
  <2>1. CASE EmptyLine(i, f)
    BY <2>1, QuietStep DEF EmptyLine, Serving, Scanning, NextFd, clientVars
  <2>2. CASE TextCommand(i, f)
    BY <2>2, QuietStep DEF TextCommand, Serving, Scanning, NextFd
  <2>3. ASSUME NEW p \in Paths, SetEnv(i, f, p) PROVE TInv(E)'
    BY <2>3, QuietStep DEF SetEnv, Serving, Scanning, NextFd
  <2>4. ASSUME NEW n \in Names \cup {NoName, Blank}, SetName(i, f, n) PROVE TInv(E)'
    BY <2>4, QuietStep DEF SetName, Serving, Scanning, NextFd
  <2>5. ASSUME NEW l \in Lines, RejectedLine(i, f, l) PROVE TInv(E)'
    BY <2>5, QuietStep DEF RejectedLine, Serving, Scanning, NextFd
  <2> QED
    BY <1>4, <2>1, <2>2, <2>3, <2>4, <2>5, LeaveTracks, StartLineTracks DEF Shell
<1>5. CASE process_handler
  BY <1>5, BreakLineTracks, CrossInputTracks, UserInputTracks, PlainInputTracks,
     PipeOutputTracks, NumberOutputTracks, FileOutputTracks, UserOutputTracks,
     ClientOutputTracks, ForkTracks DEF process_handler
<1>6. CASE UNCHANGED vars
  <2>1. /\ UNCHANGED <<pc, client_fd, cnt_line, user_pipe, cross_line_pipe_table>>
        /\ UNCHANGED <<cur, line, at, pipe_table, in, fdt>>
    BY <1>6 DEF vars, clientVars, tables, localVars
  <2> QED
    BY <2>1 DEF TInv, Tracked, TrackedFd, UnusedRing, Used, RingWhole, LocalPipes,
       Segment, SendClear, to_id, NotBoth, Handled, InputClosed, cross, count, from_id
<1> QED
  BY <1>1, <1>2, <1>3, <1>4, <1>5, <1>6 DEF Next

LEMMA TrackInit ==
  ASSUME NEW E \in SUBSET End
  PROVE  Init => TInv(E)
<1> SUFFICES ASSUME Init PROVE TInv(E)
  OBVIOUS
<1>1. Tracked(E)
  <2>1. \A f \in Fd : fdt[f] \in {Closed, Listener}
    BY DEF Init
  <2> QED
    BY <2>1, Kinds DEF Tracked, TrackedFd
<1>2. UnusedRing /\ RingWhole /\ LocalPipes
  BY EndsFacts DEF Init, UnusedRing, RingWhole, LocalPipes
<1>3. SendClear(E) /\ NotBoth /\ InputClosed
  BY DEF Init, SendClear, NotBoth, InputClosed, Handled
<1> QED
  BY <1>1, <1>2, <1>3 DEF TInv

(* While no user types the word end inside a line, every open connection   *)
(* and every open end of a pipe that no logout has lost is in the table it *)
(* was made for, so it is closed with that entry.                          *)
THEOREM DescriptorsTracked == EndOnce => (Spec => []FdsTracked)
<1> SUFFICES ASSUME EndOnce PROVE Spec => []FdsTracked
  OBVIOUS
<1>1. TypeOK /\ TInv(End) => FdsTracked
  BY DEF TypeOK, Object, TInv, Tracked, TrackedFd, FdsTracked, InTable
<1>2. IInv => TypeOK
  BY DEF IInv
<1>3. Init => TInv(End)
  BY TrackInit
<1>4. IInv /\ TInv(End) /\ [Next]_vars => TInv(End)'
  BY TrackNext
<1> QED
  BY <1>1, <1>2, <1>3, <1>4, Invariance, PTL DEF Spec

(* A step that makes a pipe end lost is a logout of the client it is of.   *)
LEMMA LostStep ==
  ASSUME TypeOK, Next, NEW f \in Fd, fdt'[f].kind = "lost", fdt[f].kind # "lost"
  PROVE  \E i \in Used \ Used' : f \in Owned(i)
<1>1. \A t : fdt' = Close(fdt, t) => FALSE
  BY Kinds DEF Close
<1>2. \A g, o : fdt' = [fdt EXCEPT ![g] = o] => o.kind = "lost"
  BY DEF TypeOK
<1>3. \A g, h, o, q : fdt' = Opened(g, h, o, q) => o.kind = "lost" \/ q.kind = "lost"
  BY DEF TypeOK, Opened
<1>4. /\ ~ Select /\ ~ BreakLine
      /\ ~ CrossInput /\ ~ UserInput /\ ~ PlainInput /\ ~ Fork
      /\ ~ AcceptClient /\ ~ AcceptRefused
  <2>1. ~ Select /\ ~ BreakLine
    BY DEF Select, BreakLine
  <2>2. ~ CrossInput /\ ~ UserInput /\ ~ PlainInput /\ ~ Fork
    BY <1>1 DEF CrossInput, UserInput, PlainInput, Fork
  <2>3. ~ AcceptClient
    BY <1>2, Kinds DEF AcceptClient
  <2>4. ~ AcceptRefused
    BY <1>2 DEF AcceptRefused, Refused, Obj
  <2> QED
    BY <2>1, <2>2, <2>3, <2>4
<1>5. ~ PipeOutput /\ ~ NumberOutput
  BY <1>3, Kinds DEF PipeOutput, NumberOutput
<1>6. ~ FileOutput /\ ~ UserOutput /\ ~ ClientOutput
  BY <1>2, <1>3, Kinds DEF FileOutput, File, Obj, UserOutput, ClientOutput
<1>7. PICK g \in Fd, i \in Slot : Shell(i, g)
  BY <1>4, <1>5, <1>6 DEF Next, process_handler
<1>8. Leave(i, g)
  BY <1>7 DEF Shell, EmptyLine, TextCommand, SetEnv, SetName, RejectedLine, StartLine
<1>9. f \in Owned(i)
  BY <1>8, Kinds DEF Leave
<1>10. i \in Used /\ i \notin Used'
  <2>1. client_fd[i] = g /\ g # 0
    BY <1>8 DEF Leave, Serving, get_client, Lowest, Fd
  <2>2. client_fd'[i] = 0
    BY <1>8 DEF Leave, TypeOK
  <2> QED
    BY <2>1, <2>2 DEF Used
<1> QED
  BY <1>9, <1>10

(* While no user types the word end inside a line, the only step after     *)
(* which the server has lost an open socket or pipe end is a logout, and   *)
(* what it loses is of that client.                                        *)
THEOREM LossOnlyAtLogout == EndOnce => (Spec => LostOnlyAtLogout)
<1> SUFFICES ASSUME EndOnce PROVE Spec => LostOnlyAtLogout
  OBVIOUS
<1> DEFINE A == \A f \in Untracked' \ Untracked : \E i \in Used \ Used' : f \in Owned(i)
<1>1. TypeOK /\ FdsTracked' /\ [Next]_vars => [A]_vars
  <2> SUFFICES ASSUME TypeOK, FdsTracked', Next, NEW f \in Untracked' \ Untracked
               PROVE  \E i \in Used \ Used' : f \in Owned(i)
    OBVIOUS
  <2>1. f \in Fd /\ fdt'[f].kind = "lost" /\ fdt[f].kind # "lost"
    BY DEF Untracked, FdsTracked
  <2> QED
    BY <2>1, LostStep
<1>2. IInv => TypeOK
  BY DEF IInv
<1> QED
  BY <1>1, <1>2, Invariance, DescriptorsTracked, PTL DEF Spec, LostOnlyAtLogout

(* On any line, when a process is forked to read a pipe, the server holds  *)
(* no write end of that pipe: the process sees the end of its input.       *)
THEOREM EndOfFileReached == Spec => []NoWriteEndKept
<1> DEFINE W == {1}
<1>1. IInv /\ TInv(W) => NoWriteEndKept
  <2> SUFFICES ASSUME IInv, TInv(W), pc = "fork", in # 0, NEW f \in Fd,
                      fdt[f] = [fdt[in] EXCEPT !.e = 1]
               PROVE  FALSE
    BY DEF NoWriteEndKept
  <2>1. /\ cur \in Slot /\ cur \in Id /\ count \in Index /\ at \in Index
        /\ from_id \in Id /\ 0 \in End /\ 1 \in End /\ f # 0
    BY HandlingFacts DEF IInv, TypeOK, End, Fd
  <2>2. TrackedFd(W, f)
    BY DEF TInv, Tracked
  <2>3. CASE in = cross[0] /\ cross[1] = 0
    <3>1. fdt[in] = CrossEnd(cur, count, 0)
      BY <2>1, <2>3 DEF IInv, FdsFaithful, cross
    <3>2. fdt[f] = CrossEnd(cur, count, 1)
      BY <3>1 DEF CrossEnd, Obj
    <3>3. cross_line_pipe_table[cur][count][1] = f
      BY <2>2, <3>2 DEF TrackedFd, CrossEnd, Obj
    <3> QED
      BY <2>1, <2>3, <3>3 DEF cross
  <2>4. CASE in = user_pipe[from_id][cur][0] /\ user_pipe[from_id][cur][1] = 0
    <3>1. fdt[in] = UserEnd(from_id, cur, 0)
      BY <2>1, <2>4 DEF IInv, FdsFaithful
    <3>2. fdt[f] = UserEnd(from_id, cur, 1)
      BY <3>1 DEF UserEnd, Obj
    <3>3. user_pipe[from_id][cur][1] = f
      BY <2>2, <3>2 DEF TrackedFd, UserEnd, Obj
    <3> QED
      BY <2>1, <2>4, <3>3
  <2>5. CASE in = pipe_table[at][0] /\ pipe_table[at][1] = 0
    <3>1. fdt[in] = LocalEnd(at, 0)
      BY <2>1, <2>5 DEF IInv, FdsFaithful
    <3>2. fdt[f] = LocalEnd(at, 1)
      BY <3>1 DEF LocalEnd, Obj
    <3>3. pipe_table[at][1] = f
      BY <2>2, <3>2 DEF TrackedFd, LocalEnd, Obj
    <3> QED
      BY <2>1, <2>5, <3>3
  <2> QED
    BY <2>3, <2>4, <2>5 DEF TInv, InputClosed
<1>2. W \in SUBSET End
  BY DEF End
<1>3. Init => TInv(W)
  BY <1>2, TrackInit
<1>4. IInv /\ TInv(W) /\ [Next]_vars => TInv(W)'
  BY <1>2, TrackNext
<1> QED
  BY <1>1, <1>3, <1>4, Invariance, PTL DEF Spec

=============================================================================
