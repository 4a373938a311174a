------------------------------ MODULE SocksServer ------------------------------
(***************************************************************************)
(* np_project4/socks_server.cpp: one connection from a browser, from the   *)
(* server's fork to the end of the process that serves it.  The process    *)
(* reads a request, asks the firewall, connects to the destination         *)
(* (CONNECT) or waits for it (BIND), and then relays with select, read and *)
(* blocking write.                                                         *)
(*                                                                         *)
(* The browser and the destination are TCP peers: what they send arrives   *)
(* in order, cut into chunks as the reader likes.  A peer may close        *)
(* ("fin"), shut down its sending side only ("half"), or be reset.         *)
(***************************************************************************)
EXTENDS FireWall, FiniteSets

CONSTANTS
  Confs,      \* contents of socks.conf
  Requests,   \* requests a browser makes
  BUFFER,     \* chunks one read returns at most (BUFFER_SIZE)
  CAP,        \* chunks a connection holds in each direction
  MaxSent     \* a bound: chunks each peer sends, the request aside

ASSUME SocksAssumption ==
  /\ \A conf \in Confs : \A k \in DOMAIN conf : Parsed(conf[k])
  /\ \A r \in Requests : r.version \in Nat /\ r.cmd \in Nat /\ r.addr \in Address
  /\ BUFFER \in Nat \ {0} /\ CAP \in Nat \ {0} /\ MaxSent \in Nat

Peer == {"browser", "dest"}

(* What passes a connection: data chunks are numbered by their sender, the *)
(* request is chunk 0, and the replies (0x5A and 0x5B) are told apart.     *)
Request  == 0
Granted  == -1
Rejected == -2
Chunk == -2 .. MaxSent

(* What dst_socket can be once do_transfer runs.  "dest" is the connection *)
(* to the destination; "none" is -1, the result of a do_bindmode that      *)
(* failed.  For a command that is neither CONNECT nor BIND the variable is *)
(* never set, and is whatever the stack held: a number select does not     *)
(* look at ("none" too), that of a descriptor that is not open ("closed"), *)
(* the browser's own socket, or another open descriptor, from which        *)
(* nothing comes ("other").                                                *)
NoSocket == "none"
Uninitialised == {NoSocket, "closed", "browser", "other"}

VARIABLES
  pc,      \* where the process is
  conf,    \* socks.conf
  req,     \* socks4_request
  dst,     \* dst_socket
  rfd,     \* the ready descriptors not served yet
  buf,     \* what was read and is not written yet
  to,      \* where it is being written
  inq,     \* chunks on their way to the server, by peer
  outq,    \* chunks on their way to the peer
  sent,    \* how many data chunks the peer has sent
  got,     \* what the peer has read
  state,   \* the peer's connection
  early    \* data chunks that were read together with the request

serverVars == <<pc, dst, rfd, buf, to>>
vars == <<serverVars, conf, req, inq, outq, sent, got, state, early>>

NoRequest == [version |-> 0, cmd |-> 0, addr |-> [j \in 1 .. 4 |-> 0]]

Init ==
  /\ pc = "fork" /\ dst = NoSocket /\ rfd = {} /\ buf = <<>> /\ to = "dest"
  /\ conf \in Confs
  /\ req = NoRequest /\ early = 0
  /\ inq = [p \in Peer |-> <<>>]
  /\ outq = [p \in Peer |-> <<>>]
  /\ sent = [p \in Peer |-> 0]
  /\ got = [p \in Peer |-> <<>>]
  /\ state = [p \in Peer |-> IF p = "browser" THEN "open" ELSE "none"]

-----------------------------------------------------------------------------
(* The peers.                                                              *)

(* The browser's first chunk is its request; it may send data after it     *)
(* without waiting for the reply.                                          *)
SendRequest(r) ==
  /\ state["browser"] = "open" /\ req = NoRequest
  /\ req' = r
  /\ inq' = [inq EXCEPT !["browser"] = <<Request>>]
  /\ UNCHANGED <<serverVars, conf, outq, sent, got, state, early>>

Send(p) ==
  /\ state[p] = "open"
  /\ p = "browser" => req # NoRequest
  /\ pc # "exit" /\ sent[p] < MaxSent /\ Len(inq[p]) < CAP
  /\ sent' = [sent EXCEPT ![p] = @ + 1]
  /\ inq' = [inq EXCEPT ![p] = Append(@, sent[p] + 1)]
  /\ UNCHANGED <<serverVars, conf, req, outq, got, state, early>>

Receive(p) ==
  /\ state[p] \in {"open", "half"} /\ outq[p] # <<>>
  /\ got' = [got EXCEPT ![p] = Append(@, Head(outq[p]))]
  /\ outq' = [outq EXCEPT ![p] = Tail(@)]
  /\ UNCHANGED <<serverVars, conf, req, inq, sent, state, early>>

ShutDown(p) ==
  /\ state[p] = "open"
  /\ state' = [state EXCEPT ![p] = "half"]
  /\ UNCHANGED <<serverVars, conf, req, inq, outq, sent, got, early>>

(* Closing with unread data resets the connection; what had arrived at the *)
(* server stays readable there.                                            *)
ClosePeer(p) ==
  /\ state[p] \in {"open", "half"}
  /\ state' = [state EXCEPT ![p] = IF outq[p] = <<>> THEN "fin" ELSE "reset"]
  /\ outq' = [outq EXCEPT ![p] = <<>>]
  /\ UNCHANGED <<serverVars, conf, req, inq, sent, got, early>>

-----------------------------------------------------------------------------
(* System calls on a peer's connection.  "dead" is a connection whose      *)
(* reset was reported, or that was written to after the peer closed.       *)

Readable(p) == inq[p] # <<>> \/ state[p] \in {"half", "fin", "reset", "dead"}
AtEof(p)    == inq[p] = <<>> /\ state[p] \in {"half", "fin", "dead"}
Failed(p)   == inq[p] = <<>> /\ state[p] = "reset"

(* read() of k chunks.                                                     *)
Takes(p, k) ==
  /\ k \in 1 .. BUFFER /\ k <= Len(inq[p])
  /\ inq' = [inq EXCEPT ![p] = SubSeq(@, k + 1, Len(@))]

(* write() of a chunk.  Lost: the peer has closed; its reset makes the     *)
(* next write raise SIGPIPE, which nothing handles.                        *)
Delivers(p, chunk) ==
  /\ state[p] \in {"open", "half"} /\ Len(outq[p]) < CAP
  /\ outq' = [outq EXCEPT ![p] = Append(@, chunk)]
  /\ UNCHANGED state
Loses(p) ==
  /\ state[p] \in {"fin", "reset"}
  /\ state' = [state EXCEPT ![p] = "dead"]
  /\ UNCHANGED outq
SigPipe(p) ==
  /\ state[p] = "dead"
  /\ pc' = "exit" /\ UNCHANGED <<outq, state>>

Reply(chunk, next) ==
  \/ Delivers("browser", chunk) /\ pc' = next
  \/ Loses("browser") /\ pc' = next
  \/ SigPipe("browser")

-----------------------------------------------------------------------------
(* main and client_handler.                                                *)

Fork ==
  /\ pc = "fork"
  /\ pc' = "request"
  /\ UNCHANGED <<dst, rfd, buf, to, conf, req, inq, outq, sent, got, state, early>>

(* When fork fails the server neither serves nor closes the connection.    *)
ForkFails ==
  /\ pc = "fork"
  /\ pc' = "orphan"
  /\ UNCHANGED <<dst, rfd, buf, to, conf, req, inq, outq, sent, got, state, early>>

(* do_transfer enters dst_socket into the set for select.  FD_SET of a     *)
(* number no set holds touches a bit select never looks at; where the      *)
(* build checks it (_FORTIFY_SOURCE), it ends the process.                 *)
Enters(d) == IF d = NoSocket THEN {"select", "exit"} ELSE {"select"}

(* One read fetches the request, and what data has arrived behind it.      *)
ReadRequest ==
  /\ pc = "request"
  /\ \E k \in 1 .. BUFFER : Takes("browser", k) /\ early' = k - 1
  /\ dst' \in IF req.version = 4 /\ req.cmd \notin {CONNECT, BIND}
              THEN Uninitialised ELSE {NoSocket}
  /\ pc' \in CASE req.version # 4                      -> {"exit"}
               [] req.version = 4 /\ req.cmd = CONNECT -> {"connect"}
               [] req.version = 4 /\ req.cmd = BIND    -> {"bind"}
               [] OTHER                                -> Enters(dst')
  /\ UNCHANGED <<rfd, buf, to, conf, req, outq, sent, got, state>>

(* End of file or an error instead of a request.                           *)
NoRequestRead ==
  /\ pc = "request"
  /\ inq["browser"] = <<>> /\ Readable("browser")
  /\ pc' = "exit"
  /\ UNCHANGED <<dst, rfd, buf, to, conf, req, inq, outq, sent, got, state, early>>

(* CONNECT: tcp_connect comes first, the firewall is asked afterwards.     *)
Connect ==
  /\ pc = "connect"
  /\ \/ pc' = "decide" /\ state' = [state EXCEPT !["dest"] = "open"]
     \/ pc' = "reject" /\ UNCHANGED state
  /\ UNCHANGED <<dst, rfd, buf, to, conf, req, inq, outq, sent, got, early>>

(* fire_wall ends the process when it cannot open socks.conf.              *)
NoConf ==
  /\ pc \in {"decide", "bind"}
  /\ pc' = "exit"
  /\ UNCHANGED <<dst, rfd, buf, to, conf, req, inq, outq, sent, got, state, early>>

Decide ==
  /\ pc = "decide"
  /\ IF fire_wall(conf, req.cmd, req.addr)
     THEN dst' = "dest" /\ Reply(Granted, "select")
     ELSE pc' = "reject" /\ UNCHANGED <<dst, outq, state>>
  /\ UNCHANGED <<rfd, buf, to, conf, req, inq, sent, got, early>>

Reject ==
  /\ pc = "reject"
  /\ Reply(Rejected, "exit")
  /\ UNCHANGED <<dst, rfd, buf, to, conf, req, inq, sent, got, early>>

(* BIND: a request the firewall refuses gets no reply.  A socket that      *)
(* cannot be bound leaves dst_socket at -1, also without a reply.          *)
Bind ==
  /\ pc = "bind"
  /\ \/ /\ ~ fire_wall(conf, req.cmd, req.addr)
        /\ pc' = "exit" /\ UNCHANGED <<outq, state>>
     \/ /\ fire_wall(conf, req.cmd, req.addr)
        /\ \/ Reply(Granted, "accept")
           \/ pc' \in Enters(dst) /\ UNCHANGED <<outq, state>>
  /\ UNCHANGED <<dst, rfd, buf, to, conf, req, inq, sent, got, early>>

(* Whoever connects to the bound port is the destination from now on.      *)
DestConnects ==
  /\ pc = "accept" /\ state["dest"] = "none"
  /\ state' = [state EXCEPT !["dest"] = "open"]
  /\ UNCHANGED <<serverVars, conf, req, inq, outq, sent, got, early>>

(* Fault: the reply is not sent again.                                     *)
AcceptSilently ==
  /\ pc = "accept" /\ state["dest"] # "none"
  /\ dst' = "dest" /\ pc' = "select"
  /\ UNCHANGED <<rfd, buf, to, conf, req, inq, outq, sent, got, state, early>>

Accept ==
  /\ pc = "accept" /\ state["dest"] # "none"
  /\ \/ dst' = "dest" /\ Reply(Granted, "select")
     \/ pc' \in Enters(dst) /\ UNCHANGED <<dst, outq, state>>    \* accept fails
  /\ UNCHANGED <<rfd, buf, to, conf, req, inq, sent, got, early>>

-----------------------------------------------------------------------------
(* do_transfer.                                                            *)

Relaying == pc \in {"select", "scan", "write"}

(* Fault: the destination is not put into the set select watches.          *)
BrowserOnly == {"browser"}

Watched == {"browser"} \cup (Peer \cap {dst})

Select ==
  /\ pc = "select" /\ dst # "closed"
  /\ rfd' = {p \in Watched : Readable(p)}
  /\ rfd' # {}
  /\ pc' = "scan"
  /\ UNCHANGED <<dst, buf, to, conf, req, inq, outq, sent, got, state, early>>

(* The set holds a descriptor that is not open: dst_socket never was, or   *)
(* both sides were closed and only the one at its end taken out.  Without  *)
(* a destination, or with the browser for one, nothing is left in the set  *)
(* then, and select blocks for ever.                                       *)
BadDescriptor == \/ pc = "select" /\ dst = "closed"
                 \/ pc = "closed" /\ dst \in {"dest", "other"}

(* Fault: every error of select is retried.                                *)
SelectRetries == BadDescriptor /\ UNCHANGED vars

(* select() reports EBADF: exit.                                           *)
SelectFails ==
  /\ BadDescriptor
  /\ pc' = "exit"
  /\ UNCHANGED <<dst, rfd, buf, to, conf, req, inq, outq, sent, got, state, early>>

(* Descriptors are served in ascending order; the destination's is 3 after *)
(* CONNECT and above 4 after BIND, the browser's is 4.                     *)
Serving(p) ==
  /\ pc = "scan" /\ p \in rfd
  /\ \A q \in rfd \ {p} : p = IF req.cmd = CONNECT THEN "dest" ELSE "browser"

After(p) == IF rfd = {p} THEN "select" ELSE "scan"

ReadData(p) ==
  /\ Serving(p)
  /\ \E k \in 1 .. BUFFER : /\ Takes(p, k)
                            /\ buf' = SubSeq(inq[p], 1, k)
  /\ to' = IF p = "browser" THEN dst ELSE "browser"
  /\ rfd' = rfd \ {p} /\ pc' = "write"
  /\ UNCHANGED <<dst, conf, req, outq, sent, got, state, early>>

(* read() returned -1: the program writes -1 bytes, which fails too.       *)
ReadFails(p) ==
  /\ Serving(p) /\ Failed(p)
  /\ state' = [state EXCEPT ![p] = "dead"]
  /\ rfd' = rfd \ {p} /\ pc' = After(p)
  /\ UNCHANGED <<dst, buf, to, conf, req, inq, outq, sent, got, early>>

(* End of file on one side takes it out of the set and closes both.        *)
ReadEof(p) ==
  /\ Serving(p) /\ AtEof(p)
  /\ pc' = "closed" /\ rfd' = {}
  /\ UNCHANGED <<dst, buf, to, conf, req, inq, outq, sent, got, state, early>>

(* Fault: the rest of a short write is forgotten.                          *)
WrittenShort(rest) ==
  /\ buf' = <<>>
  /\ pc' = IF rfd = {} THEN "select" ELSE "scan"

(* Fault: select runs again before the rest is written.                    *)
WrittenLater(rest) ==
  /\ buf' = rest
  /\ pc' = IF rfd = {} THEN "select" ELSE "scan"

Written(rest) ==
  /\ buf' = rest
  /\ pc' = IF rest # <<>> THEN "write" ELSE IF rfd = {} THEN "select" ELSE "scan"

(* write() blocks while the connection is full; when it fails, the rest of *)
(* the buffer is lost.                                                     *)
WriteData ==
  /\ pc = "write"
  /\ \/ /\ to \in Peer
        /\ \/ Delivers(to, Head(buf)) /\ Written(Tail(buf))
           \/ Loses(to) /\ Written(<<>>)
           \/ SigPipe(to) /\ UNCHANGED buf
     \/ to \notin Peer /\ Written(<<>>) /\ UNCHANGED <<outq, state>>
  /\ UNCHANGED <<dst, rfd, to, conf, req, inq, sent, got, early>>

-----------------------------------------------------------------------------
Server ==
  \/ Fork \/ ForkFails
  \/ ReadRequest \/ NoRequestRead
  \/ Connect \/ NoConf \/ Decide \/ Reject \/ Bind \/ Accept
  \/ Select \/ SelectFails
  \/ \E p \in Peer : ReadData(p) \/ ReadFails(p) \/ ReadEof(p)
  \/ WriteData

Peers ==
  \/ \E r \in Requests : SendRequest(r)
  \/ DestConnects
  \/ \E p \in Peer : Send(p) \/ Receive(p) \/ ShutDown(p) \/ ClosePeer(p)

Next == Server \/ Peers

(* The process is scheduled, and peers read what has arrived.              *)
Fairness == WF_vars(Server) /\ \A p \in Peer : WF_vars(Receive(p))

Spec == Init /\ [][Next]_vars /\ Fairness

-----------------------------------------------------------------------------
TypeOK ==
  /\ pc \in {"fork", "orphan", "request", "connect", "decide", "reject", "bind",
            "accept", "select", "scan", "write", "closed", "exit"}
  /\ conf \in Confs /\ req \in Requests \cup {NoRequest}
  /\ dst \in {"dest"} \cup Uninitialised /\ to \in {"dest"} \cup Uninitialised
  /\ rfd \in SUBSET Peer
  /\ buf \in Seq(Chunk) /\ (pc = "write" <=> buf # <<>> /\ pc # "exit")
  /\ inq \in [Peer -> Seq(Chunk)] /\ outq \in [Peer -> Seq(Chunk)]
  /\ sent \in [Peer -> 0 .. MaxSent] /\ got \in [Peer -> Seq(Chunk)]
  /\ state \in [Peer -> {"none", "open", "half", "fin", "reset", "dead"}]
  /\ early \in 0 .. MaxSent

(* Everything the server wrote to a peer, as long as the peer reads.       *)
Stream(p) == got[p] \o outq[p]
Other(p) == IF p = "browser" THEN "dest" ELSE "browser"

(* The replies before the relay: one for a CONNECT, two for a BIND, and    *)
(* all of them to the browser.                                             *)
Replies(p) == IF p = "browser" THEN [k \in 1 .. req.cmd |-> Granted] ELSE <<>>

(* Nothing the browser sends reaches a destination unless the request was  *)
(* a CONNECT or a BIND that a rule of socks.conf honours (fire_wall, asked *)
(* after the connection is made), and, in a file whose rules are all as    *)
(* its format foresees, allows.                                            *)
OnlyPermitted ==
  Stream("dest") # <<>> =>
    /\ req.cmd \in {CONNECT, BIND}
    /\ Honoured(conf, req.cmd, req.addr)
    /\ (\A k \in DOMAIN conf : WellFormed(conf[k])) =>
         Permitted(conf, req.cmd, req.addr)

(* The browser is told before it is served: the first data of a CONNECT    *)
(* follows one reply, that of a BIND two, and a refusal is all it gets.    *)
ReplyFirst ==
  LET s == Stream("browser") IN
  \A k \in 1 .. Len(s) :
    /\ s[k] = Rejected => k = 1 /\ Len(s) = 1
    /\ s[k] > 0 /\ req.cmd \in {CONNECT, BIND} =>
         Cardinality({j \in 1 .. k - 1 : s[j] = Granted}) = req.cmd

(* While the relay runs, it neither loses, repeats nor reorders: what the  *)
(* one side got, what is on its way and what is in the buffer are, after   *)
(* the replies, all that the other side sent (but for what was read        *)
(* together with the request).                                             *)
NothingLost ==
  dst = "dest" /\ Relaying =>
    \A p \in Peer : state[p] \in {"open", "half"} =>
      LET q == Other(p)
          held == IF pc = "write" /\ to = p THEN buf ELSE <<>>
          lost == IF q = "browser" THEN early ELSE 0 IN
      Stream(p) \o held \o inq[q] =
        Replies(p) \o [n \in 1 .. sent[q] - lost |-> n + lost]

(* When one side of a relay ends or closes, the process ends: whichever    *)
(* side it was, a closed descriptor stays in the set, and the EBADF of     *)
(* select is the only way out.  A relay without a destination, or back to  *)
(* the browser, is left out: there the set is empty and the process hangs. *)
RelayEnds ==
  (Relaying /\ dst \notin {NoSocket, "browser"} /\ \E p \in Watched : state[p] # "open")
    ~> pc = "exit"

(* What one side sends to a running relay reaches the other, unless a side *)
(* ends or closes: the blocking writes do not stop the relay as long as    *)
(* both peers read, which is assumed.                                      *)
Delivered ==
  \A p \in Peer, n \in 1 .. MaxSent :
    (Relaying /\ dst = "dest" /\ sent[p] >= n /\ (p = "browser" => n > early))
      ~> \/ \E k \in DOMAIN got[Other(p)] : got[Other(p)][k] = n
         \/ \E q \in Peer : state[q] # "open"
===============================================================================
