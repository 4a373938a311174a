--------------------------- MODULE SelectLoopProofs ---------------------------
(* The count and the rows agree, only exit gives a row back, and SIGPIPE   *)
(* and an endless line come from a client in the table that left without   *)
(* exit.                                                                   *)
EXTENDS SelectLoop, FiniteSetTheorems, TLAPS

Busy == {i \in Slot : row[i] # Nobody}

(* A client has a row as long as it is served, and one only.               *)
Coherent ==
  /\ \A i, j \in Slot : row[i] \in Client /\ row[i] = row[j] => i = j
  /\ \A k \in Client : conn[k] = "served" <=> \E i \in Slot : row[i] = k
  /\ client_cnt = Cardinality(Busy)

(* Whose descriptor is ready, and whose line is read, is served.           *)
Current ==
  /\ \A k \in rfd \cap Client : conn[k] = "served" /\ k # cur
  /\ pc \in {"select", "scan"} => cur = Nobody
  /\ pc \in {"readline", "waitpid", "spin"} => cur \in Client /\ conn[cur] = "served"

IInv == TypeOK /\ Coherent /\ Current /\ EndExplained

-----------------------------------------------------------------------------
(* A broadcast raises SIGPIPE only on the connection of a client it is     *)
(* sent to that is not there any more.                                     *)
LEMMA BroadcastKills ==
  ASSUME TypeOK, NEW R, NEW k, NEW n \in 0 .. 2, NEW c \in Client,
         "kill" \in broadcast(R, k, n)[c]
  PROVE  peer[c] # "here" /\ (c \in R \/ (c = k /\ n # 0))
<1>1. peer[c] \in Peer
  BY DEF TypeOK
<1>2. "kill" \notin {peer[c]}
  BY <1>1 DEF Peer
<1>3. ASSUME peer[c] = "here"
      PROVE  FALSE
  <2>1. Send(peer[c]) = {"here"} /\ {peer[c]} = {"here"}
    BY <1>3 DEF Send
  <2>2. Sends({"here"}) = {"here"}
    BY DEF Sends, Send
  <2> QED
    BY <2>1, <2>2 DEF broadcast
<1>4. c \in R \/ (c = k /\ n # 0)
  BY <1>2 DEF broadcast
<1> QED
  BY <1>3, <1>4

(* What is left after a broadcast are peers that are one of the four.      *)
LEMMA SurvivesType ==
  ASSUME NEW reach, Survives(reach)
  PROVE  peer' \in [Client -> Peer] /\ \A k \in Client : peer'[k] \in reach[k]
  BY DEF Survives

LEMMA BusyFinite == IsFiniteSet(Busy) /\ Cardinality(Busy) \in Nat
<1>1. IsFiniteSet(Slot)
  BY FS_Interval, SelectAssumption DEF Slot
<1>2. IsFiniteSet(Busy)
  BY <1>1, FS_Subset DEF Busy
<1> QED
  BY <1>2, FS_CardinalityType

(* A row is taken: the one row that changes was free.                      *)
LEMMA RowTaken ==
  ASSUME TypeOK, Coherent, NEW k \in Client \cup {Failed}, init_client(k)
  PROVE  \E i \in Slot : /\ row[i] = Nobody
                         /\ row' = [row EXCEPT ![i] = k]
                         /\ Cardinality(Busy') = client_cnt + 1
<1>1. PICK i \in Slot : row[i] = Nobody /\ row' = [row EXCEPT ![i] = k]
  BY DEF init_client, get_available_client
<1>2. k # Nobody
  BY SelectAssumption
<1>3. Busy' = Busy \cup {i} /\ i \notin Busy
  BY <1>1, <1>2 DEF Busy, TypeOK
<1>4. Cardinality(Busy') = Cardinality(Busy) + 1
  BY <1>3, BusyFinite, FS_AddElement
<1> QED
  BY <1>1, <1>4 DEF Coherent

(* A row is given back: the table is coherent again.                       *)
LEMMA RowFreed ==
  ASSUME TypeOK, Coherent, NEW k \in Client, conn[k] = "served", reset_client(k)
  PROVE  /\ Coherent'
         /\ row' \in [Slot -> Client \cup {Nobody, Failed}]
         /\ client_cnt' \in 0 .. CLIENT_NUMBER
         /\ \A i \in Slot : row'[i] # row[i] => row[i] = k
<1>1. PICK i \in Slot : row[i] = k
  BY DEF Coherent
<1>2. k # Nobody /\ k # Failed
  BY SelectAssumption
<1>3. Busy' = Busy \ {i} /\ i \in Busy
  BY <1>1, <1>2 DEF Busy, TypeOK, reset_client, Coherent
<1>4. Cardinality(Busy') = Cardinality(Busy) - 1
  BY <1>3, BusyFinite, FS_RemoveElement
<1>5. client_cnt' = client_cnt - 1 /\ client_cnt = Cardinality(Busy)
  BY DEF reset_client, Coherent
<1>6. client_cnt' = Cardinality(Busy')
  BY <1>4, <1>5
<1>7. client_cnt # 0
  BY <1>3, <1>5, BusyFinite, FS_EmptySet
<1>8. \A c \in Client : conn'[c] = "served" <=> \E j \in Slot : row'[j] = c
  BY SelectAssumption DEF reset_client, Coherent, TypeOK
<1>9. \A j, l \in Slot : row'[j] \in Client /\ row'[j] = row'[l] => j = l
  BY SelectAssumption DEF reset_client, Coherent, TypeOK
<1>10. row' \in [Slot -> Client \cup {Nobody, Failed}]
  BY DEF reset_client, TypeOK
<1>11. client_cnt' \in 0 .. CLIENT_NUMBER
  BY <1>5, <1>7, SelectAssumption DEF TypeOK
<1> QED
  BY <1>6, <1>8, <1>9, <1>10, <1>11 DEF Coherent, reset_client

-----------------------------------------------------------------------------
LEMMA InitInv == Init => IInv
<1> SUFFICES ASSUME Init PROVE IInv
  OBVIOUS
<1>1. Busy = {}
  BY DEF Init, Busy
<1>2. client_cnt = Cardinality(Busy)
  BY <1>1, FS_EmptySet DEF Init
<1> QED
  BY <1>2, SelectAssumption DEF Init, IInv, TypeOK, Coherent, Current, EndExplained, Peer

(* What the clients do leaves the table alone.                             *)
LEMMA ClientsKeep ==
  ASSUME IInv, NEW k \in Client,
         Connects(k) \/ Begins(k) \/ Leaves(k) \/ \E l \in Line : Types(k, l)
  PROVE  IInv'
<1> USE DEF IInv, Acts, Up
<1>1. CASE Connects(k)
  BY <1>1 DEF Connects, TypeOK, Coherent, Current, EndExplained, Busy, table, clients
<1>2. CASE Begins(k)
  BY <1>2 DEF Begins, TypeOK, Coherent, Current, EndExplained, Busy, table, clients
<1>3. CASE Leaves(k)
  <2>1. PICK p \in {"closed", "reset"} : peer' = [peer EXCEPT ![k] = p]
    BY <1>3 DEF Leaves
  <2>2. TypeOK'
    BY <1>3, <2>1 DEF Leaves, TypeOK, table, clients, Peer
  <2>3. EndExplained'
    BY <1>3, <2>1 DEF Leaves, TypeOK, EndExplained, table
  <2> QED
    BY <1>3, <2>2, <2>3 DEF Leaves, Coherent, Current, Busy, table
<1>4. ASSUME NEW l \in Line, Types(k, l)
      PROVE  IInv'
  <2>1. TypeOK'
    <3>1. in' \in [Client -> Seq(Line)]
      <4>1. in \in [Client -> Seq(Line)] /\ Append(in[k], l) \in Seq(Line)
        BY DEF TypeOK
      <4> QED
        BY <1>4, <4>1 DEF Types
    <3>2. typed' \in [Client -> Nat] /\ \A c \in Client : typed'[c] <= MaxLines[c]
      <4>1. typed \in [Client -> Nat] /\ MaxLines \in [Client -> Nat]
        BY SelectAssumption DEF TypeOK
      <4>2. typed[k] < MaxLines[k] /\ typed' = [typed EXCEPT ![k] = @ + 1]
        BY <1>4 DEF Types
      <4>3. typed[k] + 1 \in Nat /\ typed[k] + 1 <= MaxLines[k]
        BY <4>1, <4>2
      <4>4. \A c \in Client : typed'[c] = IF c = k THEN typed[k] + 1 ELSE typed[c]
        BY <4>1, <4>2
      <4> QED
        BY <4>1, <4>2, <4>3, <4>4 DEF TypeOK
    <3> QED
      BY <1>4, <3>1, <3>2 DEF Types, TypeOK, table
  <2> QED
    BY <1>4, <2>1 DEF Types, Coherent, Current, EndExplained, Busy, table
<1> QED
  BY <1>1, <1>2, <1>3, <1>4

(* A client logs in.                                                       *)
LEMMA ConnectKeeps ==
  ASSUME IInv, NEW k \in Client, connect_client(k)
  PROVE  IInv'
<1> USE DEF IInv
<1>1. k # Nobody /\ k # Failed /\ conn[k] = "waiting"
  BY SelectAssumption DEF connect_client, Backlog
<1>2. rfd' \subseteq rfd /\ pc = "scan" /\ UNCHANGED <<cur, in, half, typed>>
  BY DEF connect_client, Accepting, clients
<1>3. CASE client_cnt < CLIENT_NUMBER
  <2>1. /\ init_client(k) /\ client_cnt' = client_cnt + 1
        /\ conn' = [conn EXCEPT ![k] = "served"]
        /\ \/ Kills(broadcast(Rows \cup {k}, k, 2))
           \/ Survives(broadcast(Rows \cup {k}, k, 2)) /\ UNCHANGED pc
    BY <1>3 DEF connect_client
  <2>2. PICK i \in Slot : /\ row[i] = Nobody
                          /\ row' = [row EXCEPT ![i] = k]
                          /\ Cardinality(Busy') = client_cnt + 1
    BY <2>1, RowTaken
  <2>3. \A j \in Slot : row[j] # k
    BY <1>1 DEF Coherent
  <2>4. Coherent'
    <3>1. \A j, l \in Slot : row'[j] \in Client /\ row'[j] = row'[l] => j = l
      BY <2>2, <2>3 DEF Coherent, TypeOK
    <3>2. \A c \in Client : conn'[c] = "served" <=> \E j \in Slot : row'[j] = c
      BY <2>1, <2>2, <2>3, SelectAssumption DEF Coherent, TypeOK
    <3> QED
      BY <2>1, <2>2, <3>1, <3>2 DEF Coherent
  <2>5. peer' \in [Client -> Peer] /\ pc' \in {"scan", "killed"}
    BY <1>2, <2>1, SurvivesType DEF Kills, TypeOK
  <2>6. TypeOK'
    <3>1. client_cnt' \in 0 .. CLIENT_NUMBER
      BY <1>3, <2>1, SelectAssumption DEF TypeOK
    <3>2. row' \in [Slot -> Client \cup {Nobody, Failed}]
      BY <2>2 DEF TypeOK
    <3>3. conn' \in [Client -> {"away", "waiting", "served", "refused", "over"}]
      BY <2>1 DEF TypeOK
    <3> QED
      BY <1>2, <2>5, <3>1, <3>2, <3>3 DEF TypeOK
  <2>7. Current'
    BY <1>1, <1>2, <2>1, <2>5 DEF Current, TypeOK
  <2>8. EndExplained'
    <3>1. SUFFICES ASSUME Kills(broadcast(Rows \cup {k}, k, 2)) PROVE EndExplained'
      BY <1>2, <2>1 DEF EndExplained
    <3>2. PICK c \in Client : "kill" \in broadcast(Rows \cup {k}, k, 2)[c]
      BY <3>1 DEF Kills
    <3>3. peer[c] # "here" /\ c \in Rows \cup {k}
      BY <3>2, BroadcastKills
    <3>4. \E j \in Slot : row'[j] = c
      BY <2>2, <3>3, SelectAssumption DEF Rows, TypeOK
    <3> QED
      BY <3>1, <3>3, <3>4 DEF EndExplained, Kills
  <2> QED
    BY <2>4, <2>6, <2>7, <2>8
<1>4. CASE ~ client_cnt < CLIENT_NUMBER
  <2>1. conn' = [conn EXCEPT ![k] = "refused"] /\ UNCHANGED <<pc, client_cnt, row, peer>>
    BY <1>4 DEF connect_client
  <2>2. TypeOK'
    BY <1>2, <2>1 DEF TypeOK
  <2>3. Coherent'
    BY <1>1, <2>1 DEF Coherent, Busy, TypeOK
  <2>4. Current' /\ EndExplained'
    BY <1>1, <1>2, <2>1 DEF Current, EndExplained, TypeOK
  <2> QED
    BY <2>2, <2>3, <2>4
<1> QED
  BY <1>3, <1>4

(* accept fails: a row is taken for nobody's connection.                   *)
LEMMA AcceptFailsKeeps ==
  ASSUME IInv, AcceptFails
  PROVE  IInv'
<1> USE DEF IInv
<1>1. /\ rfd' \subseteq rfd /\ pc = "scan" /\ UNCHANGED <<cur, conn, in, half, typed>>
  BY DEF AcceptFails, Accepting, clients
<1>2. CASE UNCHANGED <<pc, peer, client_cnt, row>>
  BY <1>1, <1>2 DEF TypeOK, Coherent, Current, EndExplained, Busy
<1>3. CASE pc' = "aborted" /\ UNCHANGED <<peer, client_cnt, row>>
  BY <1>1, <1>3 DEF TypeOK, Coherent, Current, EndExplained, Busy
<1>4. CASE /\ client_cnt < CLIENT_NUMBER
           /\ init_client(Failed) /\ client_cnt' = client_cnt + 1
           /\ \/ Kills(broadcast(Rows, Failed, 0))
              \/ Survives(broadcast(Rows, Failed, 0)) /\ UNCHANGED pc
  <2>1. PICK i \in Slot : /\ row[i] = Nobody
                          /\ row' = [row EXCEPT ![i] = Failed]
                          /\ Cardinality(Busy') = client_cnt + 1
    BY <1>4, RowTaken
  <2>2. Failed \notin Client /\ Nobody \notin Client
    BY SelectAssumption
  <2>3. Coherent'
    BY <1>1, <1>4, <2>1, <2>2 DEF Coherent, TypeOK
  <2>4. peer' \in [Client -> Peer] /\ pc' \in {"scan", "killed"}
    BY <1>1, <1>4, SurvivesType DEF Kills, TypeOK
  <2>5. TypeOK'
    BY <1>1, <1>4, <2>1, <2>4, SelectAssumption DEF TypeOK
  <2>6. Current'
    BY <1>1, <2>4 DEF Current
  <2>7. EndExplained'
    <3>1. SUFFICES ASSUME Kills(broadcast(Rows, Failed, 0)) PROVE EndExplained'
      BY <1>1, <1>4 DEF EndExplained
    <3>2. PICK c \in Client : "kill" \in broadcast(Rows, Failed, 0)[c]
      BY <3>1 DEF Kills
    <3>3. peer[c] # "here" /\ c \in Rows
      BY <3>2, BroadcastKills
    <3>4. \E j \in Slot : row'[j] = c
      BY <2>1, <2>2, <3>3 DEF Rows, TypeOK
    <3> QED
      BY <3>1, <3>3, <3>4 DEF EndExplained, Kills
  <2> QED
    BY <2>3, <2>5, <2>6, <2>7
<1> QED
  BY <1>2, <1>3, <1>4 DEF AcceptFails

(* The loop turns to the descriptors that are ready, and to a client.      *)
LEMMA LoopKeeps ==
  ASSUME IInv, \/ Select \/ ScanEnds \/ \E k \in Client : Turn(k)
  PROVE  IInv'
<1> USE DEF IInv
<1>1. CASE Select
  <2>1. PICK ready : /\ ready \subseteq afd \cup {Listener}
                     /\ rfd' = ready
    BY <1>1 DEF Select
  <2>2. TypeOK'
    BY <1>1, <2>1 DEF Select, TypeOK, afd, table, clients
  <2>3. Current'
    BY <1>1, <2>1, SelectAssumption DEF Select, Current, afd, table
  <2> QED
    BY <1>1, <2>2, <2>3 DEF Select, Coherent, EndExplained, Busy, table
<1>2. CASE ScanEnds
  BY <1>2 DEF ScanEnds, TypeOK, Coherent, Current, EndExplained, Busy, table, clients
<1>3. ASSUME NEW k \in Client, Turn(k)
      PROVE  IInv'
  BY <1>3 DEF Turn, TypeOK, Coherent, Current, EndExplained, Busy, table, clients
<1> QED
  BY <1>1, <1>2, <1>3

(* A line is taken off: what is left are lines.                            *)
LEMMA TakesType ==
  ASSUME TypeOK, NEW k \in Client, in[k] # <<>>, Takes(k)
  PROVE  /\ in' \in [Client -> Seq(Line)] /\ half' \in [Client -> BOOLEAN]
         /\ typed' \in [Client -> Nat] /\ \A c \in Client : typed'[c] <= MaxLines[c]
<1>1. in \in [Client -> Seq(Line)] /\ Tail(in[k]) \in Seq(Line)
  BY DEF TypeOK
<1> QED
  BY <1>1 DEF Takes, TypeOK

(* A broadcast while the line of a client is read or run: whoever kills    *)
(* the server is in the table, and the table stays as it is.               *)
LEMMA SendKeeps ==
  ASSUME IInv, pc \in {"readline", "waitpid"}, NEW n \in 0 .. 1,
         NEW R \in SUBSET Rows,
         Kills(broadcast(R, cur, n)), UNCHANGED <<rfd, cur, table>>,
         in' \in [Client -> Seq(Line)], half' \in [Client -> BOOLEAN],
         typed' \in [Client -> Nat], \A c \in Client : typed'[c] <= MaxLines[c]
  PROVE  IInv'
<1> USE DEF IInv
<1>1. PICK c \in Client : "kill" \in broadcast(R, cur, n)[c]
  BY DEF Kills
<1>2. peer[c] # "here" /\ (c \in R \/ c = cur)
  BY <1>1, BroadcastKills
<1>3. \E i \in Slot : row[i] = c
  BY <1>2 DEF Rows, Current, Coherent
<1>4. EndExplained'
  BY <1>2, <1>3 DEF EndExplained, Kills, table
<1>5. TypeOK'
  BY DEF Kills, TypeOK, table
<1> QED
  BY <1>4, <1>5 DEF Kills, Coherent, Current, Busy, table

(* The same, and the server goes on.                                       *)
LEMMA ReturnKeeps ==
  ASSUME IInv, pc \in {"readline", "waitpid"}, Returns, peer' \in [Client -> Peer],
         UNCHANGED <<rfd, table>>,
         in' \in [Client -> Seq(Line)], half' \in [Client -> BOOLEAN],
         typed' \in [Client -> Nat], \A c \in Client : typed'[c] <= MaxLines[c]
  PROVE  IInv'
<1> USE DEF IInv
<1>1. TypeOK'
  BY DEF TypeOK, Returns, table
<1>2. Current'
  BY SelectAssumption DEF Current, Returns, table
<1> QED
  BY <1>1, <1>2 DEF Returns, EndExplained, Coherent, Busy, table

(* The same, and the client's row is given back.                           *)
LEMMA LeaveKeeps ==
  ASSUME IInv, pc = "readline", Returns, reset_client(cur), UNCHANGED rfd,
         peer' \in [Client -> Peer],
         in' \in [Client -> Seq(Line)], half' \in [Client -> BOOLEAN],
         typed' \in [Client -> Nat], \A c \in Client : typed'[c] <= MaxLines[c]
  PROVE  IInv'
<1> USE DEF IInv
<1>1. cur \in Client /\ conn[cur] = "served"
  BY DEF Current
<1>2. /\ Coherent'
      /\ row' \in [Slot -> Client \cup {Nobody, Failed}]
      /\ client_cnt' \in 0 .. CLIENT_NUMBER
  BY <1>1, RowFreed
<1>3. conn' = [conn EXCEPT ![cur] = "over"]
  BY DEF reset_client
<1>4. TypeOK'
  BY <1>2, <1>3 DEF TypeOK, Returns
<1>5. Current'
  BY <1>1, <1>3, SelectAssumption DEF Current, Returns, TypeOK
<1> QED
  BY <1>2, <1>4, <1>5 DEF Returns, EndExplained

(* The read that fails returns a reset, and the broadcast after it meets   *)
(* that: the server does not outlive it.                                   *)
LEMMA ReadFailsKills ==
  ASSUME TypeOK, NEW k \in Client, ReadFails(k)
  PROVE  /\ pc' = "killed" /\ UNCHANGED <<rfd, cur, table, peer, clients>>
         /\ pc = "readline" /\ cur = k /\ peer[k] = "reset"
<1>1. DEFINE reach == [broadcast(Rows, k, 0) EXCEPT ![k] = Send("broken")]
<1>2. reach[k] = {"kill"}
  BY DEF broadcast, Send
<1>3. ~ Survives(reach)
  BY <1>2, SurvivesType DEF Peer
<1> QED
  BY <1>3 DEF ReadFails, Reading, Kills

LEMMA ReadlineKeeps ==
  ASSUME IInv, NEW k \in Client, my_shell(k)
  PROVE  IInv'
<1> USE DEF IInv
<1>1. pc = "readline" /\ cur = k /\ conn[k] = "served"
  BY DEF my_shell, EmptyLine, Exit, Yell, Short, Run, StaleNewline, EndOfFile, ReadFails,
         Reading, Current
<1>2. CASE EmptyLine(k)
  <2>1. in[k] # <<>> /\ Takes(k) /\ Returns /\ UNCHANGED <<rfd, table, peer>>
    BY <1>2 DEF EmptyLine, Drained
  <2> QED
    BY <1>1, <2>1, TakesType, ReturnKeeps DEF TypeOK
<1>3. CASE Exit(k)
  <2>1. in[k] # <<>> /\ Takes(k) /\ UNCHANGED rfd
    BY <1>3 DEF Exit, Drained
  <2>2. \/ Kills(broadcast(Rows, k, 0)) /\ UNCHANGED <<cur, table>>
        \/ Survives(broadcast(Rows, k, 0)) /\ reset_client(k) /\ Returns
    BY <1>3 DEF Exit, Logout
  <2>3. CASE Kills(broadcast(Rows, k, 0)) /\ UNCHANGED <<cur, table>>
    BY <1>1, <2>1, <2>3, TakesType, SendKeeps
  <2>4. CASE Survives(broadcast(Rows, k, 0)) /\ reset_client(k) /\ Returns
    BY <1>1, <2>1, <2>4, TakesType, LeaveKeeps, SurvivesType
  <2> QED
    BY <2>2, <2>3, <2>4
<1>4. CASE Yell(k)
  <2>1. in[k] # <<>> /\ Takes(k) /\ UNCHANGED <<rfd, table>>
    BY <1>4 DEF Yell, Drained
  <2>2. CASE Kills(broadcast(Rows, k, 1)) /\ UNCHANGED cur
    BY <1>1, <2>1, <2>2, TakesType, SendKeeps
  <2>3. CASE Survives(broadcast(Rows, k, 1)) /\ Returns
    BY <1>1, <2>1, <2>3, TakesType, ReturnKeeps, SurvivesType
  <2> QED
    BY <1>4, <2>2, <2>3 DEF Yell
<1>5. CASE Run(k)
  <2>1. in[k] # <<>> /\ Takes(k) /\ UNCHANGED <<rfd, cur, table, peer>> /\ pc' = "waitpid"
    BY <1>5 DEF Run, Drained
  <2>2. TypeOK'
    BY <2>1, TakesType DEF TypeOK, table
  <2> QED
    BY <1>1, <2>1, <2>2 DEF Coherent, Current, EndExplained, Busy, table
<1>6. CASE StaleNewline(k)
  <2>1. peer' \in [Client -> Peer]
    BY <1>6 DEF StaleNewline, TypeOK, Peer
  <2> QED
    BY <1>1, <1>6, <2>1, ReturnKeeps DEF StaleNewline, TypeOK, clients, table
<1>7. CASE EndOfFile(k)
  BY <1>1, <1>7 DEF EndOfFile, TypeOK, Coherent, Current, EndExplained, Busy, table, clients
<1>8. CASE ReadFails(k)
  <2>1. /\ pc' = "killed" /\ UNCHANGED <<rfd, cur, table, peer, clients>>
        /\ peer[k] = "reset"
    BY <1>8, ReadFailsKills
  <2> QED
    BY <1>1, <2>1 DEF TypeOK, Coherent, Current, EndExplained, Busy, table, clients
<1>9. CASE Short(k)
  <2>1. in[k] # <<>> /\ Takes(k) /\ UNCHANGED <<rfd, table>>
    BY <1>9 DEF Short, Drained
  <2>2. CASE pc' = "crashed" /\ UNCHANGED <<cur, peer>>
    <3>1. TypeOK'
      BY <2>1, <2>2, TakesType DEF TypeOK, table
    <3> QED
      BY <1>1, <2>1, <2>2, <3>1 DEF Coherent, Current, EndExplained, Busy, table
  <2>3. ASSUME NEW R \in {{}} \cup {{c} : c \in Rows},
               \/ Kills(broadcast(R, k, 1)) /\ UNCHANGED cur
               \/ Survives(broadcast(R, k, 1)) /\ Returns
        PROVE  IInv'
    <3>1. R \in SUBSET Rows
      OBVIOUS
    <3>2. CASE Kills(broadcast(R, k, 1)) /\ UNCHANGED cur
      BY <1>1, <2>1, <3>1, <3>2, TakesType, SendKeeps
    <3>3. CASE Survives(broadcast(R, k, 1)) /\ Returns
      BY <1>1, <2>1, <3>3, TakesType, ReturnKeeps, SurvivesType
    <3> QED
      BY <2>3, <3>2, <3>3
  <2> QED
    BY <1>9, <2>2, <2>3 DEF Short
<1> QED
  BY <1>2, <1>3, <1>4, <1>5, <1>6, <1>7, <1>8, <1>9 DEF my_shell

LEMMA RunningKeeps ==
  ASSUME IInv, WorkEnds \/ SpinEnds
  PROVE  IInv'
<1> USE DEF IInv
<1>1. CASE WorkEnds
  <2>1. PICK written \in 0 .. 1 :
          \/ Kills(broadcast({cur}, cur, written)) /\ UNCHANGED cur
          \/ Survives(broadcast({cur}, cur, written)) /\ Returns
    BY <1>1 DEF WorkEnds
  <2>2. pc = "waitpid" /\ {cur} \in SUBSET Rows
    BY <1>1 DEF WorkEnds, Current, Coherent, Rows
  <2>3. UNCHANGED <<rfd, table, in, half, typed>>
    BY <1>1 DEF WorkEnds, clients
  <2> QED
    BY <2>1, <2>2, <2>3, SendKeeps, ReturnKeeps, SurvivesType DEF TypeOK
<1>2. CASE SpinEnds
  BY <1>2 DEF SpinEnds, TypeOK, Coherent, Current, EndExplained, Busy, table, clients
<1> QED
  BY <1>1, <1>2

LEMMA NextKeeps == IInv /\ [Next]_vars => IInv'
<1> SUFFICES ASSUME IInv, [Next]_vars PROVE IInv'
  OBVIOUS
<1>1. CASE main
  BY <1>1, LoopKeeps, AcceptFailsKeeps, ConnectKeeps, ReadlineKeeps DEF main
<1>2. CASE WorkEnds \/ SpinEnds
  BY <1>2, RunningKeeps
<1>3. ASSUME NEW k \in Client,
             Connects(k) \/ Begins(k) \/ Leaves(k) \/ \E l \in Line : Types(k, l)
      PROVE  IInv'
  BY <1>3, ClientsKeep
<1>4. CASE UNCHANGED vars
  BY <1>4 DEF IInv, TypeOK, Coherent, Current, EndExplained, Busy, vars, table, clients
<1> QED
  BY <1>1, <1>2, <1>3, <1>4 DEF Next

-----------------------------------------------------------------------------
(* The inductive invariant holds for any table, clients and lines.         *)
THEOREM LoopInvariance == Spec => []IInv
  BY InitInv, NextKeeps, PTL DEF Spec

(* Types: the count never leaves 0 .. CLIENT_NUMBER, readline is only ever *)
(* entered for a client.                                                   *)
THEOREM LoopTypeCorrect == Spec => []TypeOK
  BY LoopInvariance, PTL DEF IInv

(* The count is that of the rows in use, and a client has one row while it *)
(* is served and none otherwise: main.cpp:47 and init_client agree.        *)
THEOREM RowsAlwaysCounted == Spec => []RowsCounted
<1>1. ASSUME IInv PROVE RowsCounted
  <2>1. ASSUME NEW k \in Client
        PROVE  Cardinality({i \in Slot : row[i] = k}) = IF conn[k] = "served" THEN 1 ELSE 0
    <3>1. CASE conn[k] = "served"
      <4>1. PICK i \in Slot : row[i] = k
        BY <1>1, <3>1 DEF IInv, Coherent
      <4>2. {j \in Slot : row[j] = k} = {i}
        BY <1>1, <4>1 DEF IInv, Coherent
      <4> QED
        BY <3>1, <4>2, FS_Singleton
    <3>2. CASE conn[k] # "served"
      <4>1. {j \in Slot : row[j] = k} = {}
        BY <1>1, <3>2 DEF IInv, Coherent
      <4> QED
        BY <3>2, <4>1, FS_EmptySet
    <3> QED
      BY <3>1, <3>2
  <2> QED
    BY <1>1, <2>1 DEF IInv, Coherent, Busy, RowsCounted
<1> QED
  BY <1>1, LoopInvariance, PTL

(* Whatever the clients send, SIGPIPE and the endless append end the       *)
(* process only while one that has closed or reset its connection is in    *)
(* the table.  A failed accept (main.cpp:48) and a command without its     *)
(* argument (shell.cpp:310, 426, 429) can end it too, in states of their   *)
(* own that the theorem leaves out.                                        *)
THEOREM EndAlwaysExplained == Spec => []EndExplained
  BY LoopInvariance, PTL DEF IInv

(* A row that is not free changes only when its client's exit is read.     *)
THEOREM RowsOnlyFreedByExit == Spec => OnlyExitFrees
<1>1. ASSUME IInv, [Next]_vars
      PROVE  [\A i \in Slot : row[i] # Nobody /\ row'[i] # row[i] =>
                row[i] \in Client /\ in[row[i]] # <<>> /\ Head(in[row[i]]) = "exit"]_vars
  <2> SUFFICES ASSUME Next, NEW i \in Slot, row[i] # Nobody, row'[i] # row[i]
               PROVE  row[i] \in Client /\ in[row[i]] # <<>> /\ Head(in[row[i]]) = "exit"
    BY <1>1 DEF vars, table
  <2>1. row' # row
    OBVIOUS
  <2>2. ~ (\E k \in Client \cup {Failed} : init_client(k))
    BY <1>1, RowTaken DEF IInv, TypeOK
  <2>3. ~ AcceptFails /\ \A k \in Client : ~ connect_client(k)
    BY <2>1, <2>2 DEF AcceptFails, connect_client
  <2>4. \A k \in Client : ~ ReadFails(k)
    BY <1>1, <2>1, ReadFailsKills DEF IInv, table
  <2>5. PICK k \in Client : Exit(k)
    BY <2>1, <2>3, <2>4
       DEF Next, main, my_shell, Select, ScanEnds, Turn, EmptyLine, Yell, Short, Run,
           StaleNewline, EndOfFile, WorkEnds, SpinEnds, Connects, Begins, Leaves, Types, table, clients
  <2>6. in[k] # <<>> /\ Head(in[k]) = "exit" /\ Logout(k)
    BY <2>5 DEF Exit, Drained
  <2>7. row[i] = k
    BY <1>1, <2>1, <2>6 DEF Logout, reset_client, table, IInv, TypeOK
  <2> QED
    BY <2>6, <2>7
<1> QED
  BY <1>1, LoopInvariance, PTL DEF Spec, OnlyExitFrees
==============================================================================
