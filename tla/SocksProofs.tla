------------------------------ MODULE SocksProofs ------------------------------
(* fire_wall computes what its rules mean; a destination gets data only    *)
(* for a request they allow; and while the relay runs, it hands each side  *)
(* exactly what the other sent, after the replies.                         *)
EXTENDS SocksServer, FiniteSetTheorems, SequenceTheorems, TLAPS

(* Octets of a pattern with four tokens, all of them octets or stars.      *)
LEMMA OctetValue ==
  ASSUME NEW p \in [1 .. 4 -> {Star} \cup 0 .. 255], NEW j \in 1 .. 4
  PROVE  /\ p[j] = Star => Octet(p, j) = 0 /\ StarAt(p, j) = 1
         /\ p[j] # Star => /\ p[j] \in 0 .. 255 /\ Octet(p, j) = p[j]
                           /\ StarAt(p, j) = 0
<1>1. p[j] \in {Star} \cup 0 .. 255 /\ j \in DOMAIN p
  OBVIOUS
<1>2. \A a \in 0 .. 255 : a % 256 = a /\ a # Star
  BY DEF Star
<1> QED
  BY <1>1, <1>2 DEF Octet, StarAt

(* For rules whose stars stand at the end, the case analysis on the number *)
(* of stars (five conditions of fire_wall) is the octet-by-octet meaning.  *)
LEMMA MatchesMeaning ==
  ASSUME NEW p \in [1 .. 4 -> {Star} \cup 0 .. 255], NEW addr \in Address,
         \A j, k \in 1 .. 4 : j < k /\ p[j] = Star => p[k] = Star
  PROVE  Matches(p, addr) <=> \A j \in 1 .. 4 : p[j] \in {Star, addr[j]}
<1> DEFINE o(j) == Octet(p, j)
           s(j) == StarAt(p, j)
<1>1. \A j \in 1 .. 4 : \/ p[j] = Star /\ o(j) = 0 /\ s(j) = 1
                        \/ p[j] # Star /\ o(j) = p[j] /\ s(j) = 0
  BY OctetValue
<1>2. cnt(p) = s(1) + s(2) + s(3) + s(4)
  BY DEF cnt
<1>3. 1 \in 1 .. 4 /\ 2 \in 1 .. 4 /\ 3 \in 1 .. 4 /\ 4 \in 1 .. 4
  OBVIOUS
<1>4. /\ p[1] = Star => p[2] = Star
      /\ p[2] = Star => p[3] = Star
      /\ p[3] = Star => p[4] = Star
  BY <1>3
<1>5. ASSUME Matches(p, addr)
      PROVE  \A j \in 1 .. 4 : p[j] \in {Star, addr[j]}
  <2>1. PICK n \in 0 .. 4 : /\ \A j \in 1 .. 4 : j <= n => o(j) = addr[j]
                            /\ cnt(p) = 4 - n
    BY <1>5 DEF Matches
  <2> HIDE DEF o, s
  <2>2. \A j \in 1 .. 4 : j > n => p[j] = Star
    BY <2>1, <1>1, <1>2, <1>3, <1>4
  <2> QED
    BY <2>1, <2>2, <1>1
<1>6. ASSUME \A j \in 1 .. 4 : p[j] \in {Star, addr[j]}
      PROVE  Matches(p, addr)
  <2> HIDE DEF o, s
  <2>1. PICK n \in 0 .. 4 : \A j \in 1 .. 4 : p[j] = Star <=> j > n
    <3>1. CASE p[1] = Star
      <4> WITNESS 0 \in 0 .. 4
      <4> QED  BY <3>1, <1>3, <1>4
    <3>2. CASE p[1] # Star /\ p[2] = Star
      <4> WITNESS 1 \in 0 .. 4
      <4> QED  BY <3>2, <1>3, <1>4
    <3>3. CASE p[1] # Star /\ p[2] # Star /\ p[3] = Star
      <4> WITNESS 2 \in 0 .. 4
      <4> QED  BY <3>3, <1>3, <1>4
    <3>4. CASE p[1] # Star /\ p[2] # Star /\ p[3] # Star /\ p[4] = Star
      <4> WITNESS 3 \in 0 .. 4
      <4> QED  BY <3>4, <1>3, <1>4
    <3>5. CASE p[1] # Star /\ p[2] # Star /\ p[3] # Star /\ p[4] # Star
      <4> WITNESS 4 \in 0 .. 4
      <4> QED  BY <3>5, <1>3
    <3> QED
      BY <3>1, <3>2, <3>3, <3>4, <3>5
  <2>2. /\ \A j \in 1 .. 4 : j <= n => o(j) = addr[j]
        /\ \A j \in 1 .. 4 : j > n => o(j) = 0
    BY <2>1, <1>1, <1>6
  <2>3. cnt(p) = 4 - n
    BY <2>1, <1>1, <1>2, <1>3
  <2> QED
    BY <2>2, <2>3 DEF Matches, o
<1> QED
  BY <1>5, <1>6

(* Whatever the file, as long as its rules are well formed, fire_wall      *)
(* permits a CONNECT or BIND request exactly if one of the rules allows it. *)
THEOREM FireWallCorrect ==
  ASSUME NEW rules, \A k \in DOMAIN rules : WellFormed(rules[k]),
         NEW cmd \in {CONNECT, BIND}, NEW addr \in Address
  PROVE  fire_wall(rules, cmd, addr) <=> Permitted(rules, cmd, addr)
<1>1. ASSUME NEW k \in DOMAIN rules
      PROVE  Considered(rules[k], cmd) /\ Matches(rules[k].pattern, addr)
             <=> Allows(rules[k], cmd, addr)
  <2>1. WellFormed(rules[k])
    BY <1>1
  <2>2. Matches(rules[k].pattern, addr)
        <=> \A j \in 1 .. 4 : rules[k].pattern[j] \in {Star, addr[j]}
    BY <2>1, MatchesMeaning DEF WellFormed
  <2>3. Considered(rules[k], cmd)
        <=> rules[k].mode = IF cmd = CONNECT THEN "c" ELSE "b"
    BY <2>1 DEF WellFormed, Considered, CONNECT, BIND
  <2> QED
    BY <2>2, <2>3 DEF Allows
<1> QED
  BY <1>1 DEF fire_wall, Permitted

(* Whatever the lines of the file, what fire_wall permits one of them      *)
(* honours: its octets are those of the address but for as many zeroes as  *)
(* it has stars.                                                           *)
THEOREM FireWallHonours ==
  ASSUME NEW rules, NEW cmd, NEW addr, fire_wall(rules, cmd, addr)
  PROVE  Honoured(rules, cmd, addr)
<1>1. PICK k \in DOMAIN rules : /\ Considered(rules[k], cmd)
                                /\ Matches(rules[k].pattern, addr)
  BY DEF fire_wall
<1> DEFINE p == rules[k].pattern
<1>2. PICK n \in 0 .. 4 : /\ \A j \in 1 .. 4 : j <= n => Octet(p, j) = addr[j]
                          /\ \A j \in 1 .. 4 : j > n => Octet(p, j) = 0
                          /\ cnt(p) = 4 - n
  BY <1>1 DEF Matches
<1>3. Differing(p, addr) \subseteq n + 1 .. 4
  BY <1>2 DEF Differing
<1>4. IsFiniteSet(n + 1 .. 4) /\ Cardinality(n + 1 .. 4) = 4 - n
  BY FS_Interval
<1>5. Cardinality(Differing(p, addr)) <= cnt(p)
  BY <1>2, <1>3, <1>4, FS_Subset
<1>6. \A j \in Differing(p, addr) : Octet(p, j) = 0
  BY <1>2, <1>3
<1> QED
  BY <1>1, <1>5, <1>6 DEF Honoured, Honours
-----------------------------------------------------------------------------
(* A destination gets data only for a request the rules allow.             *)
Granting == req.cmd \in {CONNECT, BIND} /\ fire_wall(conf, req.cmd, req.addr)

(* The parts of the state the argument needs, with their types.            *)
Shape ==
  /\ conf \in Confs
  /\ req \in Requests \cup {NoRequest}
  /\ DOMAIN outq = Peer /\ DOMAIN got = Peer

(* dst_socket is set, and the second half of a BIND reached, only with the *)
(* firewall's consent; only the relay writes to the destination.           *)
Consent ==
  /\ dst = "dest" => Granting
  /\ pc = "accept" => Granting
  /\ pc \in {"connect", "decide"} => req.cmd = CONNECT
  /\ pc = "bind" => req.cmd = BIND
  /\ pc = "write" /\ to = "dest" => dst = "dest"
  /\ outq["dest"] # <<>> \/ got["dest"] # <<>> => Granting

IInv == Shape /\ Consent

-----------------------------------------------------------------------------
(* Initially nothing is set or written.                                    *)
LEMMA InitInv == Init => IInv
  BY DEF Init, IInv, Shape, Consent, Peer, NoSocket

(* A reply goes to the browser: the destination's queue is not touched.    *)
LEMMA ReplyKeeps ==
  ASSUME NEW chunk, NEW next, Reply(chunk, next), DOMAIN outq = Peer
  PROVE  /\ DOMAIN outq' = Peer
         /\ outq'["dest"] = outq["dest"]
         /\ pc' \in {next, "exit"}
  BY DEF Reply, Delivers, Loses, SigPipe, Peer

(* Before the relay: the firewall is asked before dst_socket is set.       *)
LEMMA HandshakeKeeps ==
  ASSUME IInv, \/ Fork \/ ForkFails \/ ReadRequest \/ NoRequestRead
               \/ Connect \/ NoConf \/ Decide \/ Reject \/ Bind \/ Accept
  PROVE  IInv'
<1> USE DEF IInv, Shape, Consent, Granting, NoSocket, Uninitialised, Enters
<1>1. CASE Fork
  BY <1>1 DEF Fork
<1>2. CASE ForkFails
  BY <1>2 DEF ForkFails
<1>3. CASE ReadRequest
  <2>1. pc' = "connect" => req.cmd = CONNECT
    BY <1>3 DEF ReadRequest, CONNECT, BIND
  <2>2. pc' = "bind" => req.cmd = BIND
    BY <1>3 DEF ReadRequest, CONNECT, BIND
  <2>3. pc' \in {"exit", "connect", "bind", "select"} /\ dst' # "dest"
    BY <1>3 DEF ReadRequest, CONNECT, BIND
  <2> QED
    BY <1>3, <2>1, <2>2, <2>3 DEF ReadRequest
<1>4. CASE NoRequestRead
  BY <1>4 DEF NoRequestRead
<1>5. CASE Connect
  BY <1>5 DEF Connect
<1>6. CASE Decide
  <2>1. CASE fire_wall(conf, req.cmd, req.addr)
    BY <1>6, <2>1, ReplyKeeps DEF Decide
  <2>2. CASE ~ fire_wall(conf, req.cmd, req.addr)
    BY <1>6, <2>2 DEF Decide
  <2> QED
    BY <2>1, <2>2
<1>7. CASE Reject
  BY <1>7, ReplyKeeps DEF Reject
<1>8. CASE Bind
  <2>1. CASE fire_wall(conf, req.cmd, req.addr)
    BY <1>8, <2>1, ReplyKeeps DEF Bind
  <2>2. CASE ~ fire_wall(conf, req.cmd, req.addr)
    BY <1>8, <2>2 DEF Bind
  <2> QED
    BY <2>1, <2>2
<1>9. CASE Accept
  BY <1>9, ReplyKeeps DEF Accept
<1>10. CASE NoConf
  BY <1>10 DEF NoConf
<1> QED
  BY <1>1, <1>2, <1>3, <1>4, <1>5, <1>6, <1>7, <1>8, <1>9, <1>10

(* The relay: data for the destination comes from the browser's side of a  *)
(* relay whose dst_socket is the destination.                              *)
LEMMA RelayKeeps ==
  ASSUME IInv, \/ Select \/ SelectFails \/ WriteData
               \/ \E p \in Peer : ReadData(p) \/ ReadFails(p) \/ ReadEof(p)
  PROVE  IInv'
<1> USE DEF IInv, Shape, Consent, Granting, NoSocket
<1>1. CASE Select
  BY <1>1 DEF Select
<1>2. CASE SelectFails
  BY <1>2 DEF SelectFails, BadDescriptor
<1>3. CASE WriteData
  <2>1. \/ UNCHANGED outq
        \/ to \in Peer /\ Delivers(to, Head(buf))
    BY <1>3 DEF WriteData, Loses, SigPipe
  <2>2. DOMAIN outq' = Peer /\ (to # "dest" => outq'["dest"] = outq["dest"])
    BY <2>1 DEF Delivers, Peer
  <2>3. pc = "write" /\ pc' \in {"write", "select", "scan", "exit"}
    BY <1>3 DEF WriteData, Written, SigPipe
  <2> QED
    BY <1>3, <2>2, <2>3 DEF WriteData
<1>4. ASSUME NEW p \in Peer, ReadData(p)
      PROVE  IInv'
  BY <1>4 DEF ReadData, Peer
<1>5. ASSUME NEW p \in Peer, ReadFails(p)
      PROVE  IInv'
  BY <1>5 DEF ReadFails, After
<1>6. ASSUME NEW p \in Peer, ReadEof(p)
      PROVE  IInv'
  BY <1>6 DEF ReadEof
<1> QED
  BY <1>1, <1>2, <1>3, <1>4, <1>5, <1>6

(* The peers: the request is sent once, before anything depends on it.     *)
LEMMA PeersKeep ==
  ASSUME IInv, Peers
  PROVE  IInv'
<1> USE DEF IInv, Shape, Consent, Granting, serverVars
<1>1. ASSUME NEW r \in Requests, SendRequest(r)
      PROVE  IInv'
  <2>1. req.cmd \notin {CONNECT, BIND}
    BY <1>1 DEF SendRequest, NoRequest, CONNECT, BIND
  <2> QED
    BY <1>1, <2>1 DEF SendRequest
<1>2. CASE DestConnects
  BY <1>2 DEF DestConnects
<1>3. ASSUME NEW p \in Peer, Send(p)
      PROVE  IInv'
  BY <1>3 DEF Send
<1>4. ASSUME NEW p \in Peer, Receive(p)
      PROVE  IInv'
  <2>1. /\ DOMAIN outq' = Peer /\ DOMAIN got' = Peer
        /\ p # "dest" => outq'["dest"] = outq["dest"] /\ got'["dest"] = got["dest"]
        /\ outq[p] # <<>>
    BY <1>4 DEF Receive, Peer
  <2> QED
    BY <1>4, <2>1 DEF Receive
<1>5. ASSUME NEW p \in Peer, ShutDown(p)
      PROVE  IInv'
  BY <1>5 DEF ShutDown
<1>6. ASSUME NEW p \in Peer, ClosePeer(p)
      PROVE  IInv'
  <2>1. /\ DOMAIN outq' = Peer
        /\ outq'["dest"] \in {outq["dest"], <<>>}
    BY <1>6 DEF ClosePeer, Peer
  <2> QED
    BY <1>6, <2>1 DEF ClosePeer
<1> QED
  BY <1>1, <1>2, <1>3, <1>4, <1>5, <1>6 DEF Peers

(* Whatever the lines of socks.conf, the requests and the sizes, a         *)
(* destination gets data only for a CONNECT or BIND request that a line    *)
(* honours, and that a rule allows if all rules are well formed.           *)
THEOREM RelayPermitted == Spec => []OnlyPermitted
<1>1. IInv /\ [Next]_vars => IInv'
  <2> SUFFICES ASSUME IInv, [Next]_vars PROVE IInv'
    OBVIOUS
  <2>1. CASE Server
    BY <2>1, HandshakeKeeps, RelayKeeps DEF Server
  <2>2. CASE Peers
    BY <2>2, PeersKeep
  <2>3. CASE UNCHANGED vars
    BY <2>3 DEF vars, serverVars, IInv, Shape, Consent, Granting
  <2> QED
    BY <2>1, <2>2, <2>3 DEF Next
<1>2. IInv => OnlyPermitted
  <2> SUFFICES ASSUME IInv, Stream("dest") # <<>>
               PROVE  /\ req.cmd \in {CONNECT, BIND}
                      /\ Honoured(conf, req.cmd, req.addr)
                      /\ (\A k \in DOMAIN conf : WellFormed(conf[k])) =>
                           Permitted(conf, req.cmd, req.addr)
    BY DEF OnlyPermitted
  <2>1. outq["dest"] # <<>> \/ got["dest"] # <<>>
    BY DEF Stream
  <2>2. Granting
    BY <2>1 DEF IInv, Consent
  <2>3. req.addr \in Address
    BY SocksAssumption DEF IInv, Shape, NoRequest, Address
  <2>4. Honoured(conf, req.cmd, req.addr)
    BY <2>2, FireWallHonours DEF Granting
  <2> QED
    BY <2>2, <2>3, <2>4, FireWallCorrect DEF Granting
<1> QED
  BY InitInv, <1>1, <1>2, PTL DEF Spec

-----------------------------------------------------------------------------
(* The relay.  What the two remaining invariants need to be inductive.     *)
Unread    == pc \in {"fork", "orphan", "request"}
Unreplied == Unread \/ pc \in {"connect", "decide", "reject", "bind"}
Listening(p) == state[p] \in {"open", "half"}

(* Where the process can be, for the command it serves.                    *)
Stage ==
  /\ pc \in {"connect", "decide", "reject"} => req.cmd = CONNECT
  /\ pc \in {"bind", "accept"} => req.cmd = BIND
  /\ dst = "dest" => req.cmd \in {CONNECT, BIND} /\ ~ Unreplied /\ pc # "accept"
  /\ dst \in {"closed", "browser", "other"} => req.cmd \notin {CONNECT, BIND} /\ req # NoRequest
  /\ pc \in {"scan", "write"} => dst # "closed"
  /\ "dest" \in rfd => dst = "dest"
  /\ pc = "write" => to = dst \/ (to = "browser" /\ dst = "dest")
  /\ req = NoRequest => Unread \/ pc = "exit"

(* The chunks numbered from a + 1 to b.                                    *)
Numbers(a, b) == [n \in 1 .. b - a |-> n + a]

(* What is known of the connections before the relay.                      *)
Before ==
  /\ Unread /\ req # NoRequest =>
       inq["browser"] = Numbers(-1, sent["browser"])
  /\ req = NoRequest => sent["browser"] = 0
  /\ Unread /\ req = NoRequest => inq["browser"] \in {<<>>, <<Request>>}
  /\ Unread \/ pc \in {"connect", "bind"} => state["dest"] = "none"
  /\ state["dest"] = "none" => sent["dest"] = 0 /\ inq["dest"] = <<>>
  /\ Unreplied \/ pc = "accept" => Stream("dest") = <<>>
  /\ Unreplied => Stream("browser") = <<>>
  /\ early <= sent["browser"]

(* All chunks on their way are data once the request has been read.        *)
Positive ==
  /\ \A k \in 1 .. Len(inq["dest"]) : inq["dest"][k] > 0
  /\ ~ Unread /\ pc # "exit" =>
       \A k \in 1 .. Len(inq["browser"]) : inq["browser"][k] > 0
  /\ \A k \in 1 .. Len(buf) : buf[k] > 0

(* What one side sent is with the other, on its way, or in the buffer.     *)
Held(p) == IF pc = "write" /\ to = p THEN buf ELSE <<>>
Wire(p) == (Stream(p) \o Held(p)) \o inq[Other(p)]
Grants(n) == [k \in 1 .. n |-> Granted]
Answered == IF Unreplied THEN 0 ELSE IF pc = "accept" THEN 1 ELSE req.cmd

(* Between reading the request and the end, except where dst_socket is not *)
(* the destination.                                                        *)
Passing == pc \in {"connect", "decide", "bind", "accept"} \/ (Relaying /\ dst = "dest")

Flow ==
  Passing =>
    /\ state["dest"] \in {"none", "open", "half"} =>
         Wire("dest") = Numbers(early, sent["browser"])
    /\ Listening("browser") =>
         Wire("browser") = Grants(Answered) \o Numbers(0, sent["dest"])

(* The shape of what the browser has been told.                            *)
Told ==
  LET s == Stream("browser") IN
  /\ \A k \in 1 .. Len(s) :
       /\ s[k] = Rejected => Len(s) = 1 /\ pc = "exit"
       /\ req.cmd \in {CONNECT, BIND} /\ s[k] # Rejected =>
            IF k <= req.cmd THEN s[k] = Granted ELSE s[k] > 0
  /\ Listening("browser") /\ pc = "accept" => Len(s) = 1
  /\ Listening("browser") /\ Relaying /\ dst = "dest" => Len(s) >= req.cmd
  /\ req = NoRequest => s = <<>>

RInv == TypeOK /\ Stage /\ Before /\ Positive /\ Flow /\ Told

-----------------------------------------------------------------------------
(* Sequences.                                                              *)
LEMMA NumbersType ==
  ASSUME NEW a \in Int, a >= -1, NEW b \in 0 .. MaxSent
  PROVE  Numbers(a, b) \in Seq(Chunk)
<1> DEFINE n == IF b >= a THEN b - a ELSE 0
<1>1. n \in Nat /\ 1 .. b - a = 1 .. n
  BY SocksAssumption
<1>2. [k \in 1 .. b - a |-> k + a] \in [1 .. n -> Chunk]
  BY <1>1, SocksAssumption DEF Chunk
<1> QED
  <2>1. Numbers(a, b) \in [1 .. n -> Chunk]
    BY <1>1, <1>2 DEF Numbers
  <2> HIDE DEF n
  <2> QED
    BY <1>1, <2>1, SeqDef

LEMMA GrantingType ==
  ASSUME NEW n \in Nat
  PROVE  Grants(n) \in Seq(Chunk)
<1>1. [k \in 1 .. n |-> Granted] \in [1 .. n -> Chunk]
  BY SocksAssumption DEF Chunk, Granted
<1> QED
  BY <1>1, SeqDef DEF Grants

(* One more chunk.                                                         *)
LEMMA NumbersNext ==
  ASSUME NEW a \in Int, a >= -1, NEW b \in 0 .. MaxSent, a <= b, b + 1 \in 0 .. MaxSent
  PROVE  Numbers(a, b + 1) = Append(Numbers(a, b), b + 1)
<1>1. Numbers(a, b) \in Seq(Chunk) /\ Numbers(a, b + 1) \in Seq(Chunk) /\ b + 1 \in Chunk
  BY NumbersType, SocksAssumption DEF Chunk
<1>2. /\ Len(Numbers(a, b)) = b - a
      /\ \A k \in 1 .. b - a : Numbers(a, b)[k] = k + a
  BY SocksAssumption DEF Numbers
<1>3. /\ Len(Numbers(a, b + 1)) = (b + 1) - a
      /\ \A k \in 1 .. (b + 1) - a : Numbers(a, b + 1)[k] = k + a
  BY SocksAssumption DEF Numbers
<1> DEFINE u == Append(Numbers(a, b), b + 1)
<1>4. /\ u \in Seq(Chunk) /\ Len(u) = (b - a) + 1
      /\ \A k \in 1 .. b - a : u[k] = k + a
      /\ u[(b - a) + 1] = b + 1
  <2> DEFINE v == Numbers(a, b)
             c == b + 1
  <2> HIDE DEF v, c
  <2>1. v \in Seq(Chunk) /\ Len(v) = b - a /\ \A k \in 1 .. b - a : v[k] = k + a
    BY <1>1, <1>2 DEF v
  <2>2. c \in Chunk
    BY <1>1 DEF c
  <2>3. /\ Append(v, c) \in Seq(Chunk) /\ Len(Append(v, c)) = (b - a) + 1
        /\ \A k \in 1 .. b - a : Append(v, c)[k] = v[k]
        /\ Append(v, c)[(b - a) + 1] = c
    BY <2>1, <2>2, AppendProperties
  <2> QED
    BY <2>1, <2>3 DEF v, c
<1> HIDE DEF u
<1>5. \A k \in 1 .. (b - a) + 1 : u[k] = k + a
  BY <1>4, SocksAssumption
<1>6. u = Numbers(a, b + 1)
  BY <1>1, <1>3, <1>4, <1>5, SeqEqual, SocksAssumption
<1> QED
  BY <1>6 DEF u

(* The rest, when the first k have been read.                              *)
LEMMA NumbersRest ==
  ASSUME NEW a \in Int, a >= -1, NEW b \in 0 .. MaxSent, a <= b, NEW k \in 1 .. b - a
  PROVE  /\ Len(Numbers(a, b)) = b - a
         /\ SubSeq(Numbers(a, b), k + 1, b - a) = Numbers(a + k, b)
<1>1. MaxSent \in Nat
  BY SocksAssumption
<1>2. /\ Numbers(a, b) \in Seq(Chunk) /\ Numbers(a + k, b) \in Seq(Chunk)
      /\ Len(Numbers(a, b)) = b - a /\ Len(Numbers(a + k, b)) = b - (a + k)
      /\ \A j \in 1 .. b - a : Numbers(a, b)[j] = j + a
      /\ \A j \in 1 .. b - (a + k) : Numbers(a + k, b)[j] = j + (a + k)
  <2>1. a + k \in Int /\ a + k >= -1
    BY <1>1
  <2>2. Numbers(a, b) \in Seq(Chunk) /\ Numbers(a + k, b) \in Seq(Chunk)
    BY <2>1, NumbersType
  <2> QED
    BY <1>1, <2>2 DEF Numbers
<1> DEFINE s == Numbers(a, b)
           u == Numbers(a + k, b)
           m == k + 1
           n == b - a
           r == SubSeq(s, m, n)
<1>3. m \in Int /\ n \in Int /\ \A j \in m .. n : s[j] \in Chunk
  BY <1>1, <1>2, ElementOfSeq
<1> HIDE DEF s, m, n
<1>4. /\ r \in Seq(Chunk) /\ Len(r) = (IF m <= n THEN n - m + 1 ELSE 0)
      /\ \A i \in 1 .. n - m + 1 : r[i] = s[m + i - 1]
  BY <1>3, SubSeqProperties
<1> HIDE DEF r
<1>5. Len(r) = b - (a + k) /\ \A i \in 1 .. b - (a + k) : r[i] = i + (a + k)
  BY <1>1, <1>2, <1>4 DEF s, m, n
<1> HIDE DEF u
<1>6. r = u
  BY <1>2, <1>4, <1>5, SeqEqual DEF u
<1> QED
  BY <1>2, <1>6 DEF r, s, u, m, n

LEMMA GrantsNext ==
  ASSUME NEW n \in Nat
  PROVE  Append(Grants(n), Granted) = Grants(n + 1)
<1>1. Grants(n) \in Seq(Chunk) /\ Grants(n + 1) \in Seq(Chunk) /\ Granted \in Chunk
  BY GrantingType, SocksAssumption DEF Chunk, Granted
<1>2. /\ Len(Grants(n)) = n /\ Len(Grants(n + 1)) = n + 1
      /\ \A k \in 1 .. n : Grants(n)[k] = Granted
      /\ \A k \in 1 .. n + 1 : Grants(n + 1)[k] = Granted
  BY DEF Grants
<1> DEFINE s == Grants(n)
           u == Grants(n + 1)
           c == Granted
<1> HIDE DEF s, u, c
<1>3. /\ Append(s, c) \in Seq(Chunk) /\ Len(Append(s, c)) = n + 1
      /\ \A k \in 1 .. n : Append(s, c)[k] = s[k]
      /\ Append(s, c)[n + 1] = c
  BY <1>1, <1>2, AppendProperties DEF s, c
<1>4. \A k \in 1 .. n + 1 : Append(s, c)[k] = u[k]
  BY <1>2, <1>3 DEF s, u, c
<1>5. Append(s, c) = u
  BY <1>1, <1>2, <1>3, <1>4, SeqEqual DEF u
<1> QED
  BY <1>5 DEF s, u, c

(* Concatenation of chunks in transit is associative.                       *)
LEMMA Associative ==
  \A S : \A s, t, u \in Seq(S) : (s \o t) \o u = s \o (t \o u)
  BY ConcatAssociative

(* Where a chunk is moved from does not change what is in transit.         *)
LEMMA Moved ==
  ASSUME NEW s \in Seq(Chunk), NEW h \in Seq(Chunk), NEW i \in Seq(Chunk), h # <<>>
  PROVE  (Append(s, Head(h)) \o Tail(h)) \o i = (s \o h) \o i
<1>1. Head(h) \in Chunk /\ Tail(h) \in Seq(Chunk) /\ <<Head(h)>> \in Seq(Chunk)
  BY HeadTailProperties
<1>2. <<Head(h)>> \o Tail(h) = h
  OBVIOUS
<1>3. Append(s, Head(h)) = s \o <<Head(h)>>
  BY <1>1, AppendIsConcat
<1>4. (s \o <<Head(h)>>) \o Tail(h) = s \o h
  BY <1>1, <1>2, Associative
<1> QED
  BY <1>3, <1>4

LEMMA Rejoined ==
  ASSUME NEW s \in Seq(Chunk), NEW t \in Seq(Chunk), NEW u \in Seq(Chunk)
  PROVE  (s \o t) \o u = (s \o <<>>) \o (t \o u)
<1>1. (s \o t) \o u = s \o (t \o u)
  BY ConcatAssociative
<1>2. s \o <<>> = s
  BY ConcatEmptySeq
<1> QED
  BY <1>1, <1>2, Zenon

LEMMA TakenUp ==
  ASSUME NEW s \in Seq(Chunk), NEW i \in Seq(Chunk), NEW k \in 1 .. Len(i)
  PROVE  /\ SubSeq(i, 1, k) \in Seq(Chunk) /\ Len(SubSeq(i, 1, k)) = k
         /\ SubSeq(i, k + 1, Len(i)) \in Seq(Chunk)
         /\ (s \o SubSeq(i, 1, k)) \o SubSeq(i, k + 1, Len(i)) = (s \o <<>>) \o i
<1>1. Len(i) \in Nat /\ \A j \in 1 .. Len(i) : i[j] \in Chunk
  BY LenProperties, ElementOfSeq
<1>2. SubSeq(i, 1, k) \in Seq(Chunk) /\ Len(SubSeq(i, 1, k)) = k
  BY <1>1, SubSeqProperties
<1>3. SubSeq(i, k + 1, Len(i)) \in Seq(Chunk)
  BY <1>1, SubSeqProperties
<1>4. SubSeq(i, 1, k) \o SubSeq(i, k + 1, Len(i)) = i
  <2>1. 1 \in 1 .. Len(i) + 1 /\ k \in 1 - 1 .. Len(i) /\ Len(i) \in k .. Len(i)
    BY <1>1
  <2>2. SubSeq(i, 1, k) \o SubSeq(i, k + 1, Len(i)) = SubSeq(i, 1, Len(i))
    BY <2>1, ConcatAdjacentSubSeq
  <2> QED
    BY <2>2, SubSeqFull
<1>5. (s \o SubSeq(i, 1, k)) \o SubSeq(i, k + 1, Len(i)) = (s \o <<>>) \o i
  <2> DEFINE t == SubSeq(i, 1, k)
             u == SubSeq(i, k + 1, Len(i))
  <2>1. t \in Seq(Chunk) /\ u \in Seq(Chunk) /\ t \o u = i
    BY <1>2, <1>3, <1>4
  <2> HIDE DEF t, u
  <2>2. (s \o t) \o u = (s \o <<>>) \o i
    BY <2>1, Rejoined, Zenon
  <2> QED
    BY <2>2 DEF t, u
<1> QED
  BY <1>2, <1>3, <1>5, Zenon

LEMMA SentOn ==
  ASSUME NEW s \in Seq(Chunk), NEW i \in Seq(Chunk), NEW c \in Chunk
  PROVE  s \o Append(i, c) = Append(s \o i, c)
<1>1. <<c>> \in Seq(Chunk) /\ s \o i \in Seq(Chunk)
  BY ConcatProperties
<1>2. Append(i, c) = i \o <<c>> /\ Append(s \o i, c) = (s \o i) \o <<c>>
  BY <1>1, AppendIsConcat
<1> QED
  BY <1>1, <1>2, Associative

(* Reading what has arrived leaves the stream.                             *)
LEMMA ReadOn ==
  ASSUME NEW g \in Seq(Chunk), NEW o \in Seq(Chunk), o # <<>>
  PROVE  /\ Append(g, Head(o)) \o Tail(o) = g \o o
         /\ Append(g, Head(o)) \in Seq(Chunk) /\ Tail(o) \in Seq(Chunk)
<1>1. Head(o) \in Chunk /\ Tail(o) \in Seq(Chunk) /\ <<Head(o)>> \in Seq(Chunk)
  BY HeadTailProperties
<1>2. <<Head(o)>> \o Tail(o) = o
  OBVIOUS
<1>3. Append(g, Head(o)) = g \o <<Head(o)>> /\ Append(g, Head(o)) \in Seq(Chunk)
  BY <1>1, AppendIsConcat, AppendProperties
<1> QED
  BY <1>1, <1>2, <1>3, Associative

-----------------------------------------------------------------------------
(* The relay's state, with its types.                                      *)
LEMMA Types ==
  ASSUME TypeOK
  PROVE  /\ MaxSent \in Nat /\ early \in Nat /\ req.cmd \in Nat
         /\ buf \in Seq(Chunk) /\ <<>> \in Seq(Chunk)
         /\ \A p \in Peer :
              /\ inq[p] \in Seq(Chunk) /\ outq[p] \in Seq(Chunk) /\ got[p] \in Seq(Chunk)
              /\ Stream(p) \in Seq(Chunk) /\ Held(p) \in Seq(Chunk)
              /\ sent[p] \in 0 .. MaxSent /\ sent[p] \in Nat
<1>1. \A p \in Peer : inq[p] \in Seq(Chunk) /\ outq[p] \in Seq(Chunk) /\ got[p] \in Seq(Chunk)
  BY DEF TypeOK
<1>2. \A p \in Peer : Stream(p) \in Seq(Chunk)
  BY <1>1, ConcatProperties DEF Stream
<1>3. buf \in Seq(Chunk) /\ <<>> \in Seq(Chunk)
  BY EmptySeq DEF TypeOK
<1>4. \A p \in Peer : Held(p) \in Seq(Chunk)
  BY <1>3 DEF Held
<1>5. MaxSent \in Nat /\ early \in Nat /\ req.cmd \in Nat
  BY SocksAssumption DEF TypeOK, NoRequest
<1>6. \A p \in Peer : sent[p] \in 0 .. MaxSent /\ sent[p] \in Nat
  BY <1>5 DEF TypeOK
<1> QED
  BY <1>1, <1>2, <1>3, <1>4, <1>5, <1>6

(* A step that moves no chunk: where the process and the peers may be after *)
(* it, for what is in transit to stay accounted for.                       *)
Calm ==
  /\ UNCHANGED <<req, inq, sent, early>>
  /\ UNCHANGED <<got, outq>> \/ \A p \in Peer : Stream(p)' = Stream(p)
  /\ buf' = buf /\ (pc = "write" <=> pc' = "write") /\ to' = to
  /\ Unread' => Unread
  /\ Unreplied' => Unreplied
  /\ pc' = "accept" => Unreplied \/ pc = "accept"
  /\ ~ Unread' /\ pc' # "exit" => ~ Unread
  /\ pc = "exit" => pc' = "exit"
  /\ Unread' \/ pc' \in {"connect", "bind"} => state'["dest"] = "none"
  /\ state'["dest"] = "none" => state["dest"] = "none"
  /\ state'["dest"] \in {"none", "open", "half"} => state["dest"] \in {"none", "open", "half"}
  /\ Listening("browser")' =>
       /\ Listening("browser")
       /\ pc' = "accept" => pc = "accept"
       /\ Relaying' /\ dst' = "dest" => Relaying /\ dst = "dest"
       /\ Passing' => Answered' = Answered
  /\ Passing' => Passing

LEMMA CalmKeeps ==
  ASSUME RInv, TypeOK', Stage', Calm
  PROVE  RInv'
<1> USE DEF RInv
<1>1. \A p \in Peer : Stream(p)' = Stream(p) /\ Held(p)' = Held(p) /\ Wire(p)' = Wire(p)
  BY DEF Calm, Stream, Held, Wire
<1>2. "browser" \in Peer /\ "dest" \in Peer
  BY DEF Peer
<1>3. Before'
  BY <1>1, <1>2 DEF Before, Calm
<1>4. Positive'
  BY DEF Positive, Calm
<1>5. Flow'
  <2>1. ASSUME Passing', state'["dest"] \in {"none", "open", "half"}
        PROVE  Wire("dest")' = Numbers(early', sent'["browser"])
    BY <1>1, <1>2, <2>1 DEF Flow, Calm
  <2>2. ASSUME Passing', Listening("browser")'
        PROVE  Wire("browser")' = Grants(Answered') \o Numbers(0, sent'["dest"])
    BY <1>1, <1>2, <2>2 DEF Flow, Calm
  <2> QED
    BY <2>1, <2>2 DEF Flow
<1>6. Told'
  <2>1. Stream("browser")' = Stream("browser") /\ req' = req
    BY <1>1, <1>2 DEF Calm
  <2> QED
    BY <2>1 DEF Told, Calm
<1> QED
  BY <1>3, <1>4, <1>5, <1>6

LEMMA RelayInit == Init => RInv
<1> SUFFICES ASSUME Init PROVE RInv
  OBVIOUS
<1> USE DEF Init
<1>1. TypeOK
  BY SocksAssumption, EmptySeq DEF TypeOK, Peer, NoSocket, Uninitialised
<1>2. Stage
  BY DEF Stage, Unread, Unreplied, NoSocket
<1>3. \A p \in Peer : Stream(p) = <<>>
  BY DEF Stream
<1>4. "browser" \in Peer /\ "dest" \in Peer
  BY DEF Peer
<1>5. Before
  BY <1>3, <1>4 DEF Before, Unread
<1>6. Positive
  BY <1>4 DEF Positive, Unread
<1>7. Flow
  BY DEF Flow, Passing, Relaying
<1>8. Told
  BY <1>3, <1>4 DEF Told, Relaying
<1> QED
  BY <1>1, <1>2, <1>5, <1>6, <1>7, <1>8 DEF RInv

(* The steps of the handshake that move no chunk.                          *)
LEMMA HandshakeCalm ==
  ASSUME RInv, \/ Fork \/ ForkFails \/ NoRequestRead \/ Connect \/ NoConf
               \/ (Decide \/ Reject \/ Bind \/ Accept) /\ UNCHANGED outq
  PROVE  RInv'
<1> USE DEF RInv
<1>1. CASE Fork
  <2>1. TypeOK' /\ Stage'
    BY <1>1 DEF Fork, TypeOK, Stage, Unread, Unreplied
  <2>2. Calm
    BY <1>1 DEF Before, Fork, Calm, Unread, Unreplied, Passing, Relaying, Listening, Answered, TypeOK
  <2> QED
    BY <2>1, <2>2, CalmKeeps
<1>2. CASE ForkFails
  <2>1. TypeOK' /\ Stage'
    BY <1>2 DEF ForkFails, TypeOK, Stage, Unread, Unreplied
  <2>2. Calm
    BY <1>2 DEF Before, ForkFails, Calm, Unread, Unreplied, Passing, Relaying, Listening, Answered, TypeOK
  <2> QED
    BY <2>1, <2>2, CalmKeeps
<1>3. CASE NoRequestRead
  <2>1. TypeOK' /\ Stage'
    BY <1>3 DEF NoRequestRead, TypeOK, Stage, Unread, Unreplied
  <2>2. Calm
    BY <1>3 DEF NoRequestRead, Calm, Unread, Unreplied, Passing, Relaying, Listening, Answered, TypeOK
  <2> QED
    BY <2>1, <2>2, CalmKeeps
<1>4. CASE Connect
  <2>1. pc = "connect" /\ pc' \in {"decide", "reject"} /\ state["dest"] = "none"
    BY <1>4 DEF Connect, Before
  <2>2. state' = state \/ state' = [state EXCEPT !["dest"] = "open"]
    BY <1>4 DEF Connect
  <2>3. /\ TypeOK' /\ Stage' /\ "browser" \in Peer /\ "dest" \in Peer
    BY <1>4, <2>1, <2>2 DEF Connect, TypeOK, Stage, Unread, Unreplied, Peer
  <2>4. /\ Listening("browser")' = Listening("browser")
        /\ state'["dest"] \in {"none", "open"}
    BY <2>1, <2>2, <2>3 DEF Listening, TypeOK
  <2>5. Calm
    BY <1>4, <2>1, <2>4 DEF Connect, Calm, Unread, Unreplied, Passing, Relaying, Answered
  <2> QED
    BY <2>3, <2>5, CalmKeeps
<1>5. ASSUME Decide \/ Reject \/ Bind \/ Accept, UNCHANGED outq
      PROVE  RInv'
  <2>1. /\ pc \in {"decide", "reject", "bind", "accept"}
        /\ UNCHANGED <<rfd, buf, to, conf, req, inq, outq, sent, got, early>>
        /\ dst' \in {dst, "dest"} /\ (dst' = "dest" => pc \in {"decide", "accept"})
    BY <1>5 DEF Decide, Reject, Bind, Accept, Stage, Unreplied
  <2>2. /\ \/ state' = state /\ (dst' = dst \/ pc' = "exit")
           \/ state' = [state EXCEPT !["browser"] = "dead"] /\ state' # state
        /\ pc' \in {"select", "reject", "accept", "exit"}
        /\ pc' = "reject" => pc = "decide" /\ state' = state
        /\ pc' = "accept" => pc = "bind" /\ state' # state
        /\ pc' = "select" => pc # "reject"
    <3>1. ASSUME NEW c \in Chunk, NEW n, Reply(c, n)
          PROVE  \/ state' = state /\ pc' = "exit"
                 \/ /\ state' = [state EXCEPT !["browser"] = "dead"] /\ state' # state
                    /\ pc' = n
      <4>1. Len(Append(outq["browser"], c)) = Len(outq["browser"]) + 1
        BY <3>1, Types, AppendProperties DEF Peer
      <4>2. ~ Delivers("browser", c)
        <5>1. outq["browser"] \in Seq(Chunk) /\ DOMAIN outq = Peer /\ "browser" \in Peer
          BY Types DEF TypeOK, Peer
        <5> QED
          BY <1>5, <4>1, <5>1 DEF Delivers
      <4>3. "browser" \in DOMAIN state
        BY DEF TypeOK, Peer
      <4> QED
        BY <3>1, <4>2, <4>3 DEF Reply, Loses, SigPipe
    <3>2. Granted \in Chunk /\ Rejected \in Chunk
      BY SocksAssumption DEF Chunk, Granted, Rejected
    <3>3. CASE Decide
      BY <3>1, <3>2, <3>3 DEF Decide
    <3>4. CASE Reject
      BY <3>1, <3>2, <3>4 DEF Reject
    <3>5. CASE Bind
      BY <3>1, <3>2, <3>5 DEF Bind, Enters
    <3>6. CASE Accept
      BY <3>1, <3>2, <3>6 DEF Accept, Enters
    <3> QED
      BY <1>5, <3>3, <3>4, <3>5, <3>6
  <2>5. dst = NoSocket
    BY <2>1 DEF Stage, Unreplied, CONNECT, BIND, TypeOK, NoSocket, Uninitialised
  <2>8. dst' = "dest" => pc \in {"decide", "accept"} /\ pc' \in {"select", "exit"}
    <3>1. dst' = "dest" => dst' # dst
      BY <2>5 DEF NoSocket
    <3> QED
      BY <2>1, <2>2, <2>5, <3>1
  <2>3. TypeOK' /\ Stage'
    <3>1. TypeOK'
      BY <2>1, <2>2 DEF TypeOK, Peer
    <3>2. /\ pc' \in {"connect", "decide", "reject"} => req.cmd = CONNECT
          /\ pc' \in {"bind", "accept"} => req.cmd = BIND
      BY <2>1, <2>2 DEF Stage
    <3>3. dst' = "dest" => req.cmd \in {CONNECT, BIND} /\ ~ Unreplied' /\ pc' # "accept"
      BY <2>8 DEF Stage, Unreplied, Unread
    <3>4. dst' \notin {"closed", "browser", "other"} /\ pc' \notin {"scan", "write"}
      BY <2>1, <2>2, <2>5 DEF NoSocket
    <3>5. req # NoRequest
      BY <2>1 DEF Stage, Unread
    <3> QED
      BY <2>1, <3>1, <3>2, <3>3, <3>4, <3>5 DEF Stage
  <2>4. /\ state'["dest"] = state["dest"]
        /\ Listening("browser")' => state' = state
    BY <2>2 DEF TypeOK, Listening, Peer
  <2>6. Calm
    <3>1. ASSUME Listening("browser")'
          PROVE  /\ Listening("browser") /\ pc' # "accept" /\ ~ Passing'
                 /\ ~ (Relaying' /\ dst' = "dest")
      <4>1. state' = state
        BY <2>4, <3>1
      <4>2. pc' # "accept" /\ pc' \in {"select", "reject", "exit"}
        BY <2>2, <4>1
      <4>3. pc' = "select" => dst' = dst
        BY <2>1, <2>2, <4>1
      <4>4. Listening("browser")
        BY <3>1, <4>1 DEF Listening
      <4> QED
        BY <2>5, <4>2, <4>3, <4>4 DEF Passing, Relaying, NoSocket
    <3>2. Passing' => Passing
      <4>1. ASSUME Passing', pc' = "select" PROVE pc \in {"decide", "accept"}
        BY <4>1, <2>8 DEF Passing, Relaying
      <4> QED
        BY <2>2, <4>1 DEF Relaying, Passing
    <3> QED
      BY <2>1, <2>2, <2>4, <3>1, <3>2 DEF Calm, Unread, Unreplied
  <2> QED
    BY <2>3, <2>6, CalmKeeps
<1>6. CASE NoConf
  <2>1. TypeOK' /\ Stage'
    BY <1>6 DEF NoConf, TypeOK, Stage, Unread, Unreplied
  <2>2. Calm
    BY <1>6 DEF NoConf, Calm, Unread, Unreplied, Passing, Relaying, Listening, Answered, TypeOK
  <2> QED
    BY <2>1, <2>2, CalmKeeps
<1> QED
  BY <1>1, <1>2, <1>3, <1>4, <1>5, <1>6

(* The relay's and the peers' steps that move no chunk.                    *)
LEMMA RelayCalm ==
  ASSUME RInv, \/ Select \/ SelectFails \/ DestConnects
               \/ \E p \in Peer : ReadFails(p) \/ ReadEof(p) \/ ShutDown(p)
  PROVE  RInv'
<1> USE DEF RInv
<1>1. CASE Select
  <2>1. TypeOK' /\ Stage'
    BY <1>1 DEF Select, TypeOK, Stage, Unread, Unreplied, Watched, Peer
  <2>2. Calm
    BY <1>1 DEF Select, Calm, Unread, Unreplied, Passing, Relaying, Listening, Answered, TypeOK
  <2> QED
    BY <2>1, <2>2, CalmKeeps
<1>2. CASE SelectFails
  <2>1. TypeOK' /\ Stage'
    BY <1>2 DEF SelectFails, BadDescriptor, TypeOK, Stage, Unread, Unreplied
  <2>2. Calm
    BY <1>2 DEF SelectFails, BadDescriptor, Calm, Unread, Unreplied, Passing, Relaying, Listening, Answered, TypeOK
  <2> QED
    BY <2>1, <2>2, CalmKeeps
<1>3. CASE DestConnects
  <2>1. TypeOK' /\ Stage' /\ "browser" \in Peer /\ "dest" \in Peer
    BY <1>3 DEF DestConnects, serverVars, TypeOK, Stage, Unread, Unreplied, Peer
  <2>2. Listening("browser")' = Listening("browser") /\ state'["dest"] = "open"
    BY <1>3, <2>1 DEF DestConnects, Listening, TypeOK
  <2>3. Calm
    BY <1>3, <2>2 DEF DestConnects, serverVars, Calm, Unread, Unreplied, Passing, Relaying, Answered
  <2> QED
    BY <2>1, <2>3, CalmKeeps
<1>4. ASSUME NEW p \in Peer, ReadFails(p) PROVE RInv'
  <2>1. pc = "scan" /\ pc' \in {"select", "scan"} /\ dst' = dst /\ rfd' \in SUBSET Peer
    BY <1>4 DEF ReadFails, Serving, After, TypeOK
  <2>2. TypeOK' /\ Stage' /\ "browser" \in Peer /\ "dest" \in Peer
    BY <1>4, <2>1 DEF ReadFails, TypeOK, Stage, Unread, Unreplied, Peer
  <2>3. /\ Listening("browser")' => Listening("browser")
        /\ state'["dest"] \in {state["dest"], "dead"}
    BY <1>4, <2>2 DEF ReadFails, Listening, TypeOK
  <2>4. Calm
    BY <1>4, <2>1, <2>3 DEF ReadFails, Calm, Unread, Unreplied, Passing, Relaying, Answered
  <2> QED
    BY <2>2, <2>4, CalmKeeps
<1>5. ASSUME NEW p \in Peer, ReadEof(p) PROVE RInv'
  <2>1. TypeOK' /\ Stage'
    BY <1>5 DEF ReadEof, Serving, TypeOK, Stage, Unread, Unreplied
  <2>2. Calm
    BY <1>5 DEF ReadEof, Serving, Calm, Unread, Unreplied, Passing, Relaying, Listening, Answered, TypeOK
  <2> QED
    BY <2>1, <2>2, CalmKeeps
<1>6. ASSUME NEW p \in Peer, ShutDown(p) PROVE RInv'
  <2>1. TypeOK' /\ Stage' /\ "browser" \in Peer /\ "dest" \in Peer
    BY <1>6 DEF ShutDown, serverVars, TypeOK, Stage, Unread, Unreplied, Peer
  <2>2. /\ Listening("browser")' => Listening("browser")
        /\ \/ state'["dest"] = state["dest"]
           \/ state'["dest"] = "half" /\ state["dest"] = "open"
    BY <1>6, <2>1 DEF ShutDown, Listening, TypeOK
  <2>3. Unread \/ pc \in {"connect", "bind"} => state'["dest"] = "none"
    BY <2>2 DEF Before
  <2>4. Calm
    BY <1>6, <2>2, <2>3 DEF ShutDown, serverVars, Calm, Unread, Unreplied, Passing, Relaying, Answered
  <2> QED
    BY <2>1, <2>4, CalmKeeps
<1> QED
  BY <1>1, <1>2, <1>3, <1>4, <1>5, <1>6

-----------------------------------------------------------------------------
(* The steps of the peers.                                                 *)

LEMMA RequestSent ==
  ASSUME RInv, NEW r \in Requests, SendRequest(r)
  PROVE  RInv'
<1> USE DEF RInv
<1>1. /\ req = NoRequest /\ req' = r
      /\ Unread \/ pc = "exit"
      /\ sent["browser"] = 0 /\ inq'["browser"] = <<Request>>
      /\ inq'["dest"] = inq["dest"]
      /\ UNCHANGED <<serverVars, conf, outq, sent, got, state, early>>
  BY DEF SendRequest, TypeOK, Stage, Before, Peer
<1>2. dst = NoSocket
  <2>1. req.cmd = 0
    BY <1>1 DEF NoRequest
  <2> QED
    BY <1>1, <2>1 DEF Stage, TypeOK, NoSocket, Uninitialised, CONNECT, BIND
<1>3. \A p \in Peer : Stream(p)' = Stream(p)
  BY <1>1 DEF Stream
<1>4. TypeOK'
  <2>1. <<Request>> \in Seq(Chunk)
    BY SocksAssumption DEF Chunk, Request
  <2>2. inq' \in [Peer -> Seq(Chunk)]
    BY <2>1 DEF SendRequest, TypeOK
  <2> QED
    BY <1>1, <2>2 DEF TypeOK, serverVars
<1>5. Stage'
  BY <1>1, <1>2 DEF Stage, Unread, Unreplied, serverVars, NoSocket
<1>6. Before'
  <2>1. inq'["browser"] = Numbers(-1, sent'["browser"])
    BY <1>1 DEF Request, Numbers
  <2> QED
    BY <1>1, <1>3, <2>1 DEF Before, Unread, Unreplied, serverVars, Peer
<1>7. Positive'
  BY <1>1 DEF Positive, Unread, serverVars
<1>8. Flow'
  BY <1>1 DEF Flow, Passing, Relaying, serverVars, Unread
<1>9. Told'
  <2>1. Stream("browser")' = <<>>
    BY <1>1, <1>3 DEF Told, Peer
  <2> QED
    BY <1>1, <2>1 DEF Told, Relaying, serverVars, Unread
<1> QED
  BY <1>4, <1>5, <1>6, <1>7, <1>8, <1>9

LEMMA ReceiveKeeps ==
  ASSUME RInv, NEW p \in Peer, Receive(p)
  PROVE  RInv'
<1> USE DEF RInv
<1>1. \A q \in Peer : got[q] \in Seq(Chunk) /\ outq[q] \in Seq(Chunk)
  BY Types
<1>2. /\ Append(got[p], Head(outq[p])) \o Tail(outq[p]) = got[p] \o outq[p]
      /\ Append(got[p], Head(outq[p])) \in Seq(Chunk) /\ Tail(outq[p]) \in Seq(Chunk)
  BY <1>1, ReadOn DEF Receive
<1>3. /\ got'[p] = Append(got[p], Head(outq[p])) /\ outq'[p] = Tail(outq[p])
      /\ \A q \in Peer : q # p => got'[q] = got[q] /\ outq'[q] = outq[q]
      /\ got' \in [Peer -> Seq(Chunk)] /\ outq' \in [Peer -> Seq(Chunk)]
  BY <1>2 DEF Receive, TypeOK
<1>4. \A q \in Peer : Stream(q)' = Stream(q)
  BY <1>2, <1>3 DEF Stream
<1>5. UNCHANGED <<serverVars, conf, req, inq, sent, state, early>>
  BY DEF Receive
<1>6. TypeOK' /\ Stage'
  BY <1>3, <1>5 DEF TypeOK, Stage, Unread, Unreplied, serverVars
<1>7. Unread \/ pc \in {"connect", "bind"} => state'["dest"] = "none"
  BY <1>5 DEF Before
<1>8. Calm
  BY <1>4, <1>5, <1>7 DEF Calm, serverVars, Unread, Unreplied, Passing, Relaying, Listening, Answered
<1> QED
  BY <1>6, <1>8, CalmKeeps

LEMMA CloseKeeps ==
  ASSUME RInv, NEW p \in Peer, ClosePeer(p)
  PROVE  RInv'
<1> USE DEF RInv
<1>1. /\ UNCHANGED <<serverVars, conf, req, inq, sent, got, early>>
      /\ state[p] \in {"open", "half"}
      /\ state'[p] \in {"fin", "reset"} /\ outq'[p] = <<>>
      /\ \A q \in Peer : q # p => state'[q] = state[q] /\ outq'[q] = outq[q]
  BY DEF ClosePeer, TypeOK
<1>2. "browser" \in Peer /\ "dest" \in Peer
  BY DEF Peer
<1>3. TypeOK' /\ Stage'
  <2>1. outq' \in [Peer -> Seq(Chunk)]
    BY EmptySeq DEF ClosePeer, TypeOK
  <2>2. state' \in [Peer -> {"none", "open", "half", "fin", "reset", "dead"}]
    BY DEF ClosePeer, TypeOK
  <2> QED
    BY <1>1, <2>1, <2>2 DEF TypeOK, Stage, Unread, Unreplied, serverVars
<1>4. \A q \in Peer : q # p => Stream(q)' = Stream(q) /\ Wire(q)' = Wire(q)
  BY <1>1 DEF Stream, Wire, Held, serverVars
<1>5. /\ Stream(p)' = got[p]
      /\ Len(got[p]) \in Nat /\ Len(outq[p]) \in Nat
      /\ Len(got[p]) <= Len(Stream(p))
      /\ \A k \in 1 .. Len(got[p]) : Stream(p)[k] = got[p][k]
  <2>1. got[p] \in Seq(Chunk) /\ outq[p] \in Seq(Chunk)
    BY Types
  <2>2. got[p] \o <<>> = got[p]
    <3> DEFINE g == got[p]
    <3> HIDE DEF g
    <3>1. g \in Seq(Chunk) => g \o <<>> = g
      BY ConcatEmptySeq
    <3> QED
      BY <2>1, <3>1 DEF g
  <2>3. /\ Len(got[p] \o outq[p]) = Len(got[p]) + Len(outq[p])
        /\ \A k \in 1 .. Len(got[p]) + Len(outq[p]) :
             (got[p] \o outq[p])[k] =
                IF k <= Len(got[p]) THEN got[p][k] ELSE outq[p][k - Len(got[p])]
    BY <2>1, ConcatProperties
  <2>4. Len(got[p]) \in Nat /\ Len(outq[p]) \in Nat
    BY <2>1, LenProperties
  <2> QED
    <3>1. Stream(p)' = got[p] /\ Stream(p) = got[p] \o outq[p]
      BY <1>1, <2>2 DEF Stream
    <3> DEFINE g == got[p]
               o == outq[p]
               s == Stream(p)
    <3> HIDE DEF g, o, s
    <3>2. /\ s = g \o o /\ Len(g) \in Nat /\ Len(o) \in Nat
          /\ Len(g \o o) = Len(g) + Len(o)
          /\ \A k \in 1 .. Len(g) + Len(o) :
               (g \o o)[k] = IF k <= Len(g) THEN g[k] ELSE o[k - Len(g)]
      BY <2>3, <2>4, <3>1 DEF g, o, s
    <3>3. Len(g) <= Len(s) /\ \A k \in 1 .. Len(g) : s[k] = g[k]
      BY <3>2
    <3> QED
      BY <2>4, <3>1, <3>3 DEF g, o, s
<1>6. \A q \in Peer : Stream(q) = <<>> => Stream(q)' = <<>>
  <2>1. Stream(p) = <<>> => got[p] = <<>>
    <3> DEFINE g == got[p]
               o == outq[p]
    <3> HIDE DEF g, o
    <3>1. g \in Seq(Chunk) /\ o \in Seq(Chunk) /\ g \o o = <<>> => g = <<>>
      BY ConcatEqualIffEmpty
    <3> QED
      BY Types, <3>1 DEF Stream, g, o
  <2> QED
    BY <1>4, <1>5, <2>1
<1>7. Before'
  BY <1>1, <1>2, <1>6 DEF Before, Unread, Unreplied, serverVars
<1>8. Positive'
  BY <1>1 DEF Positive, Unread, serverVars
<1>9. Flow'
  <2>1. p = "browser" \/ p = "dest"
    BY DEF Peer
  <2>2. CASE p = "browser"
    BY <1>1, <1>2, <1>4, <2>2 DEF Flow, Passing, Relaying, Listening, serverVars
  <2>3. CASE p = "dest"
    BY <1>1, <1>2, <1>4, <2>3 DEF Flow, Passing, Relaying, Listening, serverVars, Answered, Unreplied, Unread
  <2> QED
    BY <2>1, <2>2, <2>3
<1>10. Told'
  <2>1. CASE p = "dest"
    <3>1. Stream("browser")' = Stream("browser") /\ state'["browser"] = state["browser"]
      BY <1>1, <1>2, <1>4, <2>1
    <3> QED
      BY <1>1, <3>1 DEF Told, Relaying, Listening, serverVars
  <2>2. CASE p = "browser"
    <3> DEFINE g == got["browser"]
               s == Stream("browser")
    <3>1. /\ Stream("browser")' = g /\ Len(g) \in Nat /\ Len(g) <= Len(s) /\ Len(s) \in Nat
          /\ \A k \in 1 .. Len(g) : s[k] = g[k]
          /\ s = <<>> => g = <<>>
      <4>1. Stream("browser") \in Seq(Chunk)
        BY <1>2, Types
      <4> QED
        BY <1>2, <1>5, <1>6, <2>2, <4>1, LenProperties
    <3>2. ~ Listening("browser")'
      BY <1>1, <2>2 DEF Listening
    <3> HIDE DEF g, s
    <3>3. /\ \A k \in 1 .. Len(s) :
               /\ s[k] = Rejected => Len(s) = 1 /\ pc = "exit"
               /\ req.cmd \in {CONNECT, BIND} /\ s[k] # Rejected =>
                    IF k <= req.cmd THEN s[k] = Granted ELSE s[k] > 0
          /\ req = NoRequest => s = <<>>
      BY DEF Told, s
    <3>4. \A k \in 1 .. Len(g) :
            /\ k \in 1 .. Len(s)
            /\ g[k] = Rejected => Len(g) = 1 /\ pc = "exit"
            /\ req.cmd \in {CONNECT, BIND} /\ g[k] # Rejected =>
                 IF k <= req.cmd THEN g[k] = Granted ELSE g[k] > 0
      BY <3>1, <3>3
    <3> QED
      BY <1>1, <3>1, <3>2, <3>3, <3>4 DEF Told, serverVars
  <2> QED
    BY <2>1, <2>2 DEF Peer
<1> QED
  BY <1>3, <1>7, <1>8, <1>9, <1>10

LEMMA SendKeeps ==
  ASSUME RInv, NEW p \in Peer, Send(p)
  PROVE  RInv'
<1> USE DEF RInv
<1> DEFINE c == sent[p] + 1
<1>1. /\ UNCHANGED <<serverVars, conf, req, outq, got, state, early>>
      /\ state[p] = "open" /\ (p = "browser" => req # NoRequest) /\ pc # "exit"
      /\ sent'[p] = c /\ c \in 0 .. MaxSent /\ c \in Chunk /\ c > 0
      /\ inq'[p] = Append(inq[p], c)
      /\ \A q \in Peer : q # p => sent'[q] = sent[q] /\ inq'[q] = inq[q]
  <2>1. sent[p] \in 0 .. MaxSent /\ MaxSent \in Nat
    BY Types
  <2> QED
    BY <2>1 DEF Send, TypeOK, Chunk
<1>2. "browser" \in Peer /\ "dest" \in Peer
  BY DEF Peer
<1> HIDE DEF c
<1>3. /\ Append(inq[p], c) \in Seq(Chunk) /\ Len(Append(inq[p], c)) = Len(inq[p]) + 1
      /\ \A k \in 1 .. Len(inq[p]) : Append(inq[p], c)[k] = inq[p][k]
      /\ Append(inq[p], c)[Len(inq[p]) + 1] = c /\ Append(inq[p], c) # <<>>
      /\ Len(inq[p]) \in Nat
  <2> DEFINE i == inq[p]
  <2> HIDE DEF i
  <2>1. i \in Seq(Chunk)
    BY Types DEF i
  <2>2. /\ Append(i, c) \in Seq(Chunk) /\ Len(Append(i, c)) = Len(i) + 1
        /\ \A k \in 1 .. Len(i) : Append(i, c)[k] = i[k]
        /\ Append(i, c)[Len(i) + 1] = c /\ Append(i, c) # <<>> /\ Len(i) \in Nat
    BY <1>1, <2>1, AppendProperties
  <2> QED
    BY <2>2 DEF i
<1>4. TypeOK' /\ Stage'
  <2>1. inq' \in [Peer -> Seq(Chunk)]
    BY <1>3 DEF Send, TypeOK, c
  <2>2. sent' \in [Peer -> 0 .. MaxSent]
    BY <1>1 DEF Send, TypeOK, c
  <2> QED
    BY <1>1, <2>1, <2>2 DEF TypeOK, Stage, Unread, Unreplied, serverVars
<1>5. \A q \in Peer : Stream(q)' = Stream(q) /\ Held(q)' = Held(q)
  BY <1>1 DEF Stream, Held, serverVars
<1>6. Before'
  <2>1. p = "dest" => state["dest"] # "none"
    BY <1>1
  <2>2. p = "browser" /\ Unread => inq'["browser"] = Numbers(-1, sent'["browser"])
    <3> SUFFICES ASSUME p = "browser", Unread
                 PROVE  inq'["browser"] = Numbers(-1, sent'["browser"])
      OBVIOUS
    <3>1. inq["browser"] = Numbers(-1, sent["browser"])
      BY <1>1 DEF Before
    <3>2. sent["browser"] \in 0 .. MaxSent /\ -1 <= sent["browser"]
          /\ sent["browser"] + 1 \in 0 .. MaxSent
      BY <1>1, <1>2, Types DEF c
    <3> DEFINE a == -1
               b == sent["browser"]
    <3>3. Numbers(a, b + 1) = Append(Numbers(a, b), b + 1)
      <4>1. a \in Int /\ a >= -1 /\ b \in 0 .. MaxSent /\ a <= b /\ b + 1 \in 0 .. MaxSent
        BY <3>2
      <4> HIDE DEF a, b
      <4> QED
        BY <4>1, NumbersNext
    <3> QED
      BY <1>1, <3>1, <3>3 DEF c
  <2>3. early' <= sent'["browser"]
    BY <1>1, <1>2, Types, SMTT(30) DEF Before, c
  <2> QED
    BY <1>1, <1>2, <1>5, <2>1, <2>2, <2>3 DEF Before, Unread, Unreplied, serverVars, Peer
<1>7. Positive'
  <2>1. ASSUME \A k \in 1 .. Len(inq[p]) : inq[p][k] > 0
        PROVE  \A k \in 1 .. Len(inq'[p]) : inq'[p][k] > 0
    BY <1>1, <1>3, <2>1
  <2> QED
    BY <1>1, <1>2, <2>1 DEF Positive, Unread, serverVars, Peer
<1>8. Flow'
  <2>1. UNCHANGED <<pc, dst, to, req, early, state>> /\ (Passing' <=> Passing) /\ Answered' = Answered
    BY <1>1 DEF serverVars, Passing, Relaying, Answered, Unreplied, Unread
  <2>2. \A q \in Peer : Other(q) # p => Wire(q)' = Wire(q)
    BY <1>1, <1>5 DEF Wire, Other, Peer
  <2>3. \A q \in Peer : Other(q) = p => Wire(q)' = Append(Wire(q), c)
    <3> SUFFICES ASSUME NEW q \in Peer, Other(q) = p
                 PROVE  Wire(q)' = Append(Wire(q), c)
      OBVIOUS
    <3> DEFINE s == Stream(q) \o Held(q)
               i == inq[p]
    <3>1. s \in Seq(Chunk) /\ i \in Seq(Chunk)
      BY Types, ConcatProperties
    <3>2. Wire(q) = s \o i /\ Wire(q)' = s \o Append(i, c)
      BY <1>1, <1>5 DEF Wire
    <3> HIDE DEF s, i
    <3> QED
      BY <1>1, <3>1, <3>2, SentOn
  <2>4. ASSUME NEW a \in Nat, a <= sent[p]
        PROVE  Numbers(a, sent'[p]) = Append(Numbers(a, sent[p]), c)
    <3> DEFINE b == sent[p]
    <3>1. a \in Int /\ a >= -1 /\ b \in 0 .. MaxSent /\ a <= b /\ b + 1 \in 0 .. MaxSent
      BY <1>1, <2>4, Types DEF c
    <3> HIDE DEF b
    <3>2. Numbers(a, b + 1) = Append(Numbers(a, b), b + 1)
      BY <3>1, NumbersNext
    <3> QED
      BY <1>1, <3>2 DEF b, c
  <2>5. early \in Nat /\ early <= sent["browser"] /\ \A q \in Peer : sent[q] \in Nat
    BY Types DEF Before
  <2>6. ASSUME Passing, state["dest"] \in {"none", "open", "half"}
        PROVE  Wire("dest")' = Numbers(early, sent'["browser"])
    <3>1. Wire("dest") = Numbers(early, sent["browser"])
      BY <2>6 DEF Flow
    <3>2. CASE p = "browser"
      BY <1>2, <2>3, <2>4, <2>5, <3>1, <3>2 DEF Other
    <3>3. CASE p = "dest"
      BY <1>1, <1>2, <2>2, <3>1, <3>3 DEF Other
    <3> QED
      BY <3>2, <3>3 DEF Peer
  <2>7. ASSUME Passing, Listening("browser")
        PROVE  Wire("browser")' = Grants(Answered) \o Numbers(0, sent'["dest"])
    <3>1. Wire("browser") = Grants(Answered) \o Numbers(0, sent["dest"])
      BY <2>7 DEF Flow
    <3>2. CASE p = "dest"
      <4> DEFINE g == Grants(Answered)
                 n == Numbers(0, sent["dest"])
      <4>1. g \in Seq(Chunk) /\ n \in Seq(Chunk)
        <5>1. Answered \in Nat /\ sent["dest"] \in 0 .. MaxSent
          BY <1>2, Types DEF Answered
        <5>2. 0 \in Int /\ 0 >= -1
          OBVIOUS
        <5> QED
          BY <5>1, <5>2, NumbersType, GrantingType
      <4>2. Wire("browser")' = Append(g \o n, c)
        BY <1>2, <2>3, <3>1, <3>2 DEF Other
      <4>3. Numbers(0, sent'["dest"]) = Append(n, c)
        BY <2>4, <2>5, <3>2
      <4> HIDE DEF g, n
      <4>4. g \o Append(n, c) = Append(g \o n, c)
        BY <1>1, <4>1, SentOn
      <4> QED
        BY <4>2, <4>3, <4>4 DEF g
    <3>3. CASE p = "browser"
      BY <1>1, <1>2, <2>2, <3>1, <3>3 DEF Other
    <3> QED
      BY <3>2, <3>3 DEF Peer
  <2> QED
    BY <2>1, <2>6, <2>7 DEF Flow, Listening
<1>9. Told'
  BY <1>1, <1>2, <1>5 DEF Told, Relaying, Listening, serverVars
<1> QED
  BY <1>4, <1>6, <1>7, <1>8, <1>9

-----------------------------------------------------------------------------
(* The steps of the server that move chunks.                               *)

LEMMA NothingNumbered ==
  ASSUME NEW a \in Nat
  PROVE  Numbers(a, a) = <<>> /\ Grants(0) = <<>>
<1>1. 1 .. a - a = {} /\ 1 .. 0 = {}
  OBVIOUS
<1> QED
  BY <1>1 DEF Numbers, Grants

(* What is in transit where nothing was written yet.                       *)
LEMMA WireStart ==
  ASSUME NEW i \in Seq(Chunk)
  PROVE  /\ (<<>> \o <<>>) \o i = i
         /\ <<>> \o i = i
<1>1. <<>> \in Seq(Chunk)
  BY EmptySeq
<1>2. <<>> \o <<>> = <<>>
  BY <1>1, ConcatEmptySeq
<1>3. <<>> \o i = i
  BY ConcatEmptySeq
<1> QED
  BY <1>2, <1>3

LEMMA CancelLeft ==
  ASSUME NEW s \in Seq(Chunk), NEW t \in Seq(Chunk), NEW u \in Seq(Chunk), s \o t = s \o u
  PROVE  t = u
<1>1. /\ Len(s \o t) = Len(s) + Len(t) /\ Len(s \o u) = Len(s) + Len(u)
      /\ Len(s) \in Nat /\ Len(t) \in Nat /\ Len(u) \in Nat
  BY ConcatProperties
<1>2. \A k \in 1 .. Len(t) : t[k] = (s \o t)[Len(s) + k]
  BY <1>1
<1>3. \A k \in 1 .. Len(u) : u[k] = (s \o u)[Len(s) + k]
  BY <1>1
<1>4. Len(t) = Len(u)
  BY <1>1
<1> QED
  BY <1>2, <1>3, <1>4, SeqEqual

LEMMA RequestRead ==
  ASSUME RInv, ReadRequest
  PROVE  RInv'
<1> USE DEF RInv
<1>1. PICK k \in 1 .. BUFFER : Takes("browser", k) /\ early' = k - 1
  BY DEF ReadRequest
<1> DEFINE i == inq["browser"]
<1>2. /\ k \in Nat \ {0} /\ k <= Len(i) /\ early' = k - 1
      /\ inq'["browser"] = SubSeq(i, k + 1, Len(i))
      /\ inq'["dest"] = inq["dest"]
      /\ i \in Seq(Chunk) /\ SubSeq(i, k + 1, Len(i)) \in Seq(Chunk)
      /\ \A p \in Peer : inq'[p] \in Seq(Chunk)
  <2>1. inq \in [Peer -> Seq(Chunk)] /\ i \in Seq(Chunk) /\ "browser" \in Peer /\ "dest" \in Peer
    BY DEF TypeOK, Peer
  <2>2. k \in Nat \ {0} /\ k <= Len(i) /\ Len(i) \in Nat
    BY <1>1, <2>1, SocksAssumption, LenProperties DEF Takes
  <2>3. SubSeq(i, k + 1, Len(i)) \in Seq(Chunk)
    <3>1. k \in 1 .. Len(i)
      BY <2>2
    <3> HIDE DEF i
    <3> QED
      BY <2>1, <3>1, TakenUp
  <2> QED
    BY <1>1, <2>1, <2>2, <2>3 DEF Takes
<1>3. /\ pc = "request" /\ UNCHANGED <<rfd, buf, to, conf, req, outq, sent, got, state>>
      /\ pc' \in {"exit", "connect", "bind", "select"}
      /\ pc' = "connect" => req.cmd = CONNECT
      /\ pc' = "bind" => req.cmd = BIND
      /\ pc' = "select" => req.cmd \notin {CONNECT, BIND}
      /\ pc' # "exit" => req # NoRequest
      /\ dst' \in Uninitialised
      /\ dst' # NoSocket => req.cmd \notin {CONNECT, BIND} /\ req # NoRequest
  <2>1. /\ pc = "request" /\ UNCHANGED <<rfd, buf, to, conf, req, outq, sent, got, state>>
        /\ dst' \in IF req.version = 4 /\ req.cmd \notin {CONNECT, BIND}
                    THEN Uninitialised ELSE {NoSocket}
    BY DEF ReadRequest
  <2>2. CASE req.version # 4
    BY <2>1, <2>2 DEF ReadRequest, NoSocket, Uninitialised
  <2>3. CASE req.version = 4 /\ req.cmd = CONNECT
    BY <2>1, <2>3 DEF ReadRequest, CONNECT, BIND, NoRequest, NoSocket, Uninitialised
  <2>4. CASE req.version = 4 /\ req.cmd = BIND
    BY <2>1, <2>4 DEF ReadRequest, CONNECT, BIND, NoRequest, NoSocket, Uninitialised
  <2>5. CASE req.version = 4 /\ req.cmd \notin {CONNECT, BIND}
    BY <2>1, <2>5 DEF ReadRequest, Enters, NoRequest
  <2> QED
    BY <2>2, <2>3, <2>4, <2>5
<1>4. "browser" \in Peer /\ "dest" \in Peer /\ sent["browser"] \in 0 .. MaxSent /\ MaxSent \in Nat
      /\ sent["browser"] \in Nat
  <2>1. "browser" \in Peer /\ "dest" \in Peer
    BY DEF Peer
  <2> QED
    BY <2>1, Types
<1>5. early' \in Nat /\ early' <= sent["browser"] /\ inq'["browser"] = Numbers(early', sent["browser"])
  <2>1. CASE req = NoRequest
    <3>1. i = <<Request>> /\ sent["browser"] = 0
      BY <1>2, <1>3, <2>1 DEF Before, Unread
    <3>2. Len(i) = 1 /\ k = 1
      BY <1>2, <3>1
    <3>3. SubSeq(i, k + 1, Len(i)) = <<>>
      BY <3>2, SubSeqEmpty
    <3>4. Numbers(0, 0) = <<>>
      BY NothingNumbered
    <3>5. early' = 0
      BY <1>2, <3>2
    <3> QED
      BY <1>2, <3>1, <3>3, <3>4, <3>5
  <2>2. CASE req # NoRequest
    <3> DEFINE a == -1
               b == sent["browser"]
    <3>1. i = Numbers(a, b)
      BY <1>3, <2>2 DEF Before, Unread
    <3>2. a \in Int /\ a >= -1 /\ b \in 0 .. MaxSent /\ a <= b
      BY <1>4
    <3>3. Len(Numbers(a, b)) = b - a
      BY <1>4 DEF Numbers
    <3>4. k \in 1 .. b - a
      BY <1>2, <1>4, <3>1, <3>3
    <3> HIDE DEF a, b
    <3>5. SubSeq(Numbers(a, b), k + 1, b - a) = Numbers(a + k, b)
      BY <3>2, <3>4, NumbersRest
    <3>6. a + k = k - 1 /\ b = sent["browser"]
      BY <1>2 DEF a, b
    <3>7. k - 1 <= sent["browser"]
      BY <1>2, <1>4, <3>4 DEF a, b
    <3> QED
      BY <1>2, <3>1, <3>3, <3>5, <3>6, <3>7
  <2> QED
    BY <2>1, <2>2
<1> HIDE DEF i
<1>6. TypeOK'
  <2>1. inq' \in [Peer -> Seq(Chunk)]
    BY <1>1, <1>2 DEF Takes, TypeOK
  <2>2. early' \in 0 .. MaxSent
    BY <1>4, <1>5
  <2> QED
    BY <1>3, <2>1, <2>2 DEF TypeOK, Uninitialised
<1>7. Stage'
  BY <1>3 DEF Stage, Unread, Unreplied, Uninitialised, NoSocket
<1>8. \A p \in Peer : Stream(p)' = Stream(p) /\ Stream(p) = <<>> /\ Held(p)' = <<>>
  BY <1>3 DEF Stream, Held, Before, Unread, Unreplied, Peer
<1>9. state["dest"] = "none" /\ sent["dest"] = 0 /\ inq["dest"] = <<>>
  BY <1>3 DEF Before, Unread
<1>10. Before'
  BY <1>2, <1>3, <1>4, <1>5, <1>8, <1>9 DEF Before, Unread
<1>11. Positive'
  <2>1. \A n \in 1 .. Len(inq'["browser"]) : inq'["browser"][n] > 0
    <3>1. MaxSent \in Nat /\ sent["browser"] - early' \in Nat
      BY <1>4, <1>5
    <3> DEFINE m == sent["browser"] - early'
               e == early'
    <3>2. inq'["browser"] = [n \in 1 .. m |-> n + e] /\ m \in Nat /\ e \in Nat
      BY <1>5, <3>1 DEF Numbers
    <3> HIDE DEF m, e
    <3> QED
      BY <3>2
  <2> QED
    BY <1>2, <1>3, <2>1 DEF Positive
<1>12. Flow'
  <2> SUFFICES ASSUME Passing' PROVE Flow'
    BY DEF Flow
  <2>1. pc' \in {"connect", "bind"}
    BY <1>3 DEF Passing, Relaying, Uninitialised, NoSocket
  <2>2. Wire("dest")' = inq'["browser"] /\ Wire("browser")' = <<>>
    <3>1. Wire("dest")' = (<<>> \o <<>>) \o inq'["browser"]
      BY <1>4, <1>8 DEF Wire, Other
    <3>2. Wire("browser")' = (<<>> \o <<>>) \o inq'["dest"]
      BY <1>4, <1>8 DEF Wire, Other
    <3>3. inq'["browser"] \in Seq(Chunk) /\ inq'["dest"] \in Seq(Chunk)
      BY <1>2, <1>4
    <3> QED
      BY <1>2, <1>9, <3>1, <3>2, <3>3, WireStart
  <2>3. Answered' = 0
    BY <2>1 DEF Answered, Unreplied
  <2>4. Grants(0) \o Numbers(0, sent["dest"]) = <<>>
    BY <1>9, NothingNumbered, WireStart, EmptySeq
  <2> QED
    BY <1>3, <1>5, <2>2, <2>3, <2>4 DEF Flow
<1>13. Told'
  BY <1>3, <1>4, <1>8 DEF Told, Relaying, Uninitialised, NoSocket
<1> QED
  BY <1>6, <1>7, <1>10, <1>11, <1>12, <1>13

(* A reply that reaches the browser: the next of those that are due, or    *)
(* the refusal.                                                            *)
LEMMA ReplyDelivered ==
  ASSUME RInv, NEW c, Delivers("browser", c),
         UNCHANGED <<buf, to, conf, req, rfd, inq, sent, got, early>>,
         \/ pc = "decide" /\ c = Granted /\ pc' = "select" /\ dst' = "dest"
         \/ pc = "reject" /\ c = Rejected /\ pc' = "exit" /\ dst' = dst
         \/ pc = "bind" /\ c = Granted /\ pc' = "accept" /\ dst' = dst
         \/ pc = "accept" /\ c = Granted /\ pc' = "select" /\ dst' = "dest"
  PROVE  RInv'
<1> USE DEF RInv
<1> DEFINE s == Stream("browser")
           n == IF pc = "accept" THEN 1 ELSE 0
<1>1. /\ state' = state /\ Listening("browser") /\ Listening("browser")'
      /\ outq'["browser"] = Append(outq["browser"], c) /\ outq'["dest"] = outq["dest"]
      /\ outq["browser"] \in Seq(Chunk) /\ got["browser"] \in Seq(Chunk) /\ s \in Seq(Chunk)
      /\ inq["dest"] \in Seq(Chunk) /\ sent["dest"] \in 0 .. MaxSent
      /\ c \in Chunk
      /\ "browser" \in Peer /\ "dest" \in Peer
  <2>1. "browser" \in Peer /\ "dest" \in Peer
    BY DEF Peer
  <2>2. c \in Chunk
    BY SocksAssumption DEF Chunk, Granted, Rejected
  <2> QED
    BY <2>1, <2>2, Types DEF Delivers, TypeOK, Listening
<1>2. Stream("browser")' = Append(s, c) /\ Stream("dest")' = Stream("dest")
  <2> DEFINE g == got["browser"]
             o == outq["browser"]
  <2>1. Stream("browser")' = g \o Append(o, c) /\ s = g \o o
    BY <1>1 DEF Stream
  <2>2. g \in Seq(Chunk) /\ o \in Seq(Chunk)
    BY <1>1
  <2> HIDE DEF g, o, s
  <2>3. g \o Append(o, c) = Append(g \o o, c)
    BY <1>1, <2>2, SentOn
  <2> QED
    BY <1>1, <2>1, <2>3 DEF Stream, s
<1>3. \A q \in Peer : Held(q) = <<>> /\ Held(q)' = <<>>
  BY DEF Held
<1>4. s = Grants(n)
  <2>1. pc # "accept" => s = <<>>
    BY DEF Before, Unreplied
  <2>2. pc = "accept" => Len(s) = 1 /\ s[1] = Granted
    <3> SUFFICES ASSUME pc = "accept" PROVE Len(s) = 1 /\ s[1] = Granted
      OBVIOUS
    <3>1. Len(s) = 1
      BY <1>1 DEF Told
    <3>2. req.cmd = BIND
      BY DEF Stage
    <3> QED
      BY <3>1, <3>2 DEF Told, CONNECT, BIND
  <2>3. /\ Grants(1) \in Seq(Chunk) /\ Len(Grants(1)) = 1 /\ Grants(1)[1] = Granted
        /\ Grants(0) = <<>>
    <3>1. /\ Grants(1) \in Seq(Chunk) /\ Len(Grants(1)) = 1 /\ Grants(1)[1] = Granted
      <4>1. 1 \in Nat
        OBVIOUS
      <4>2. Grants(1) \in Seq(Chunk)
        BY <4>1, GrantingType
      <4> QED
        BY <4>2 DEF Grants
    <3> QED
      BY <3>1, NothingNumbered
  <2> HIDE DEF s
  <2>4. pc = "accept" => s = Grants(1)
    <3> DEFINE u == Grants(1)
    <3> HIDE DEF u
    <3>1. ASSUME Len(s) = 1, s[1] = Granted, Len(u) = 1, u[1] = Granted, u \in Seq(Chunk)
          PROVE  s = u
      BY <1>1, <3>1, SeqEqual
    <3> QED
      BY <2>2, <2>3, <3>1 DEF u
  <2> QED
    BY <2>1, <2>3, <2>4
<1>5. c = Granted => Append(s, c) = Grants(n + 1)
  BY <1>4, GrantsNext
<1>6. pc \in {"decide", "bind", "accept"} => inq["dest"] = Numbers(0, sent["dest"])
  <2> SUFFICES ASSUME pc \in {"decide", "bind", "accept"}
               PROVE  inq["dest"] = Numbers(0, sent["dest"])
    OBVIOUS
  <2> DEFINE i == inq["dest"]
             m == Numbers(0, sent["dest"])
             g == Grants(n)
  <2>1. Wire("browser") = Grants(Answered) \o m
    BY <1>1 DEF Flow, Passing
  <2>2. Answered = n
    BY DEF Answered, Unreplied, Unread
  <2>3. Wire("browser") = (s \o <<>>) \o i
    BY <1>1, <1>3 DEF Wire, Other
  <2>4. s \o <<>> = s
    <3> HIDE DEF s
    <3> QED
      BY <1>1, ConcatEmptySeq
  <2>5. g \in Seq(Chunk) /\ m \in Seq(Chunk) /\ i \in Seq(Chunk)
    <3>1. n \in Nat /\ 0 \in Int /\ 0 >= -1
      OBVIOUS
    <3> QED
      BY <1>1, <3>1, GrantingType, NumbersType
  <2>6. g \o i = g \o m
    BY <1>4, <2>1, <2>2, <2>3, <2>4
  <2> HIDE DEF g, m, i
  <2>7. i = m
    BY <2>5, <2>6, CancelLeft
  <2> QED
    BY <2>7 DEF i, m
<1>7. TypeOK'
  <2>1. outq' \in [Peer -> Seq(Chunk)]
    <3>1. Append(outq["browser"], c) \in Seq(Chunk)
      <4> DEFINE o == outq["browser"]
      <4>1. o \in Seq(Chunk)
        BY <1>1
      <4> HIDE DEF o
      <4>2. Append(o, c) \in Seq(Chunk)
        BY <1>1, <4>1, AppendProperties
      <4> QED
        BY <4>2 DEF o
    <3> QED
      BY <3>1 DEF Delivers, TypeOK
  <2> QED
    BY <1>1, <2>1 DEF TypeOK
<1>8. Stage'
  BY DEF Stage, Unread, Unreplied, CONNECT, BIND, NoSocket, TypeOK
<1>9. Before'
  BY <1>1, <1>2 DEF Before, Unread, Unreplied
<1>10. Positive'
  BY DEF Positive, Unread
<1>11. Flow'
  <2>1. ASSUME Passing', state["dest"] \in {"none", "open", "half"}
        PROVE  Wire("dest")' = Numbers(early, sent["browser"])
    <3>1. Wire("dest")' = Wire("dest")
      BY <1>1, <1>2, <1>3 DEF Wire, Other
    <3>2. Passing
      BY <2>1 DEF Passing, Relaying
    <3> QED
      BY <2>1, <3>1, <3>2 DEF Flow
  <2>2. ASSUME Passing'
        PROVE  Wire("browser")' = Grants(Answered') \o Numbers(0, sent["dest"])
    <3>1. pc \in {"decide", "bind", "accept"} /\ c = Granted
      BY <2>2 DEF Passing, Relaying
    <3>2. Wire("browser")' = (Append(s, c) \o <<>>) \o inq["dest"]
      BY <1>1, <1>2, <1>3 DEF Wire, Other
    <3>3. Answered' = n + 1
      BY <3>1 DEF Answered, Unreplied, Unread, Stage, CONNECT, BIND
    <3>4. Grants(n + 1) \o <<>> = Grants(n + 1)
      <4>1. n + 1 \in Nat
        OBVIOUS
      <4>2. Grants(n + 1) \in Seq(Chunk)
        BY <4>1, GrantingType
      <4> DEFINE g == Grants(n + 1)
      <4> HIDE DEF g
      <4>3. g \in Seq(Chunk) => g \o <<>> = g
        BY ConcatEmptySeq
      <4> QED
        BY <4>2, <4>3 DEF g
    <3> HIDE DEF s, n
    <3> QED
      BY <1>5, <1>6, <3>1, <3>2, <3>3, <3>4
  <2> QED
    BY <1>1, <2>1, <2>2 DEF Flow
<1>12. Told'
  <2>1. CASE pc = "reject"
    <3>1. Stream("browser")' = <<Rejected>>
      <4>1. s = <<>>
        BY <1>4, <2>1, NothingNumbered
      <4>2. Append(<<>>, c) = <<c>>
        OBVIOUS
      <4> HIDE DEF s
      <4> QED
        BY <1>2, <2>1, <4>1, <4>2
    <3>2. Len(<<Rejected>>) = 1
      OBVIOUS
    <3>3. pc' = "exit" /\ req # NoRequest
      BY <2>1 DEF Stage, Unread
    <3> QED
      BY <2>1, <3>1, <3>2, <3>3 DEF Told, Relaying, Granted, Rejected
  <2>2. CASE pc # "reject"
    <3>1. Stream("browser")' = Grants(n + 1) /\ n + 1 \in Nat
      BY <1>2, <1>5, <2>2
    <3>2. /\ Len(Grants(n + 1)) = n + 1
          /\ \A k \in 1 .. n + 1 : Grants(n + 1)[k] = Granted
      BY DEF Grants
    <3>3. Granted # Rejected /\ req # NoRequest
      BY <2>2 DEF Stage, Unread, Granted, Rejected
    <3>4. /\ n + 1 <= req.cmd /\ req.cmd \in Nat
          /\ pc' = "accept" => n + 1 = 1
          /\ pc' = "select" => n + 1 >= req.cmd
      BY <2>2, Types DEF Stage, CONNECT, BIND
    <3> DEFINE m == n + 1
               u == Stream("browser")'
    <3>5. u = Grants(m) /\ m \in Nat
      BY <3>1
    <3> HIDE DEF n, s, u
    <3>6. /\ \A k \in 1 .. Len(u) :
               /\ u[k] = Rejected => Len(u) = 1 /\ pc' = "exit"
               /\ req'.cmd \in {CONNECT, BIND} /\ u[k] # Rejected =>
                    IF k <= req'.cmd THEN u[k] = Granted ELSE u[k] > 0
          /\ Listening("browser")' /\ pc' = "accept" => Len(u) = 1
          /\ Listening("browser")' /\ Relaying' /\ dst' = "dest" => Len(u) >= req'.cmd
      <4>1. Len(u) = m /\ \A k \in 1 .. m : u[k] = Granted
        BY <3>2, <3>5
      <4>2. m <= req.cmd /\ req.cmd \in Nat /\ req' = req
        BY <3>4
      <4>3. \A k \in 1 .. m : k <= req.cmd
        BY <3>5, <4>2
      <4>4. \A k \in 1 .. Len(u) :
               /\ u[k] = Rejected => Len(u) = 1 /\ pc' = "exit"
               /\ req'.cmd \in {CONNECT, BIND} /\ u[k] # Rejected =>
                    IF k <= req'.cmd THEN u[k] = Granted ELSE u[k] > 0
        BY <3>3, <4>1, <4>2, <4>3
      <4>5. pc' \in {"accept", "select"}
        BY <2>2
      <4> HIDE DEF m
      <4>6. pc' = "accept" => m = 1
        BY <3>4 DEF m
      <4>7. pc' = "select" => m >= req.cmd
        BY <3>4 DEF m
      <4> QED
        BY <4>1, <4>2, <4>4, <4>5, <4>6, <4>7 DEF Relaying
    <3> QED
      BY <3>3, <3>6 DEF Told, u
  <2> QED
    BY <2>1, <2>2
<1> QED
  BY <1>7, <1>8, <1>9, <1>10, <1>11, <1>12

(* What one side sent moves from its connection into the buffer.           *)
LEMMA DataRead ==
  ASSUME RInv, NEW p \in Peer, ReadData(p)
  PROVE  RInv'
<1> USE DEF RInv
<1>1. PICK k \in 1 .. BUFFER : Takes(p, k) /\ buf' = SubSeq(inq[p], 1, k)
  BY DEF ReadData
<1>2. /\ "browser" \in Peer /\ "dest" \in Peer
      /\ inq[p] \in Seq(Chunk) /\ Len(inq[p]) \in Nat /\ k \in 1 .. Len(inq[p])
  <2>1. k \in Nat /\ k >= 1 /\ k <= Len(inq[p])
    BY <1>1, SocksAssumption DEF Takes
  <2> QED
    BY <2>1, Types DEF Peer
<1>3. /\ buf' \in Seq(Chunk) /\ Len(buf') = k
      /\ inq'[p] = SubSeq(inq[p], k + 1, Len(inq[p])) /\ inq'[p] \in Seq(Chunk)
      /\ \A q \in Peer : q # p => inq'[q] = inq[q]
      /\ \A s \in Seq(Chunk) : (s \o buf') \o inq'[p] = (s \o <<>>) \o inq[p]
      /\ \A j \in 1 .. Len(buf') : buf'[j] \in {inq[p][l] : l \in 1 .. Len(inq[p])}
      /\ \A j \in 1 .. Len(inq'[p]) : inq'[p][j] \in {inq[p][l] : l \in 1 .. Len(inq[p])}
  <2> DEFINE i == inq[p]
             a == SubSeq(i, 1, k)
             b == SubSeq(i, k + 1, Len(i))
  <2>1. buf' = a /\ inq'[p] = b /\ \A q \in Peer : q # p => inq'[q] = inq[q]
    BY <1>1 DEF Takes, TypeOK
  <2>2. i \in Seq(Chunk) /\ k \in 1 .. Len(i) /\ Len(i) \in Nat
    BY <1>2
  <2> HIDE DEF i
  <2>3. /\ a \in Seq(Chunk) /\ Len(a) = k /\ b \in Seq(Chunk)
        /\ \A s \in Seq(Chunk) : (s \o a) \o b = (s \o <<>>) \o i
    BY <2>2, TakenUp
  <2>4. \A j \in 1 .. Len(a) : a[j] \in {i[l] : l \in 1 .. Len(i)}
    BY <2>2
  <2>5. \A j \in 1 .. Len(b) : b[j] \in {i[l] : l \in 1 .. Len(i)}
    <3> SUFFICES ASSUME NEW j \in 1 .. Len(b)
                 PROVE  b[j] \in {i[l] : l \in 1 .. Len(i)}
      OBVIOUS
    <3>1. Len(b) = Len(i) - k /\ b[j] = i[k + j] /\ k + j \in 1 .. Len(i)
      BY <2>2
    <3> QED
      BY <3>1
  <2> HIDE DEF a, b
  <2> QED
    <3>1. /\ buf' \in Seq(Chunk) /\ Len(buf') = k /\ inq'[p] \in Seq(Chunk)
          /\ \A s \in Seq(Chunk) : (s \o buf') \o inq'[p] = (s \o <<>>) \o i
      BY <2>1, <2>3
    <3>2. /\ \A j \in 1 .. Len(buf') : buf'[j] \in {i[l] : l \in 1 .. Len(i)}
          /\ \A j \in 1 .. Len(inq'[p]) : inq'[p][j] \in {i[l] : l \in 1 .. Len(i)}
      BY <2>1, <2>4, <2>5, Zenon
    <3> QED
      BY <2>1, <3>1, <3>2, Zenon DEF i, b
<1>4. /\ pc = "scan" /\ pc' = "write" /\ p \in rfd /\ rfd' = rfd \ {p}
      /\ to' = IF p = "browser" THEN dst ELSE "browser"
      /\ UNCHANGED <<dst, conf, req, outq, sent, got, state, early>>
  BY DEF ReadData, Serving
<1>5. dst \in {"browser", "dest", "other", "none"} /\ (p = "dest" => dst = "dest")
  BY <1>4 DEF Stage, TypeOK, NoSocket, Uninitialised
<1>6. TypeOK'
  <2>1. inq' \in [Peer -> Seq(Chunk)]
    BY <1>1, <1>3 DEF Takes, TypeOK
  <2>2. buf' # <<>>
    <3>1. Len(<<>>) = 0
      OBVIOUS
    <3> QED
      BY <1>2, <1>3, <3>1
  <2> QED
    BY <1>3, <1>4, <1>5, <2>1, <2>2 DEF TypeOK, Uninitialised, NoSocket
<1>7. Stage'
  BY <1>4, <1>5 DEF Stage, Unread, Unreplied, NoSocket, Peer
<1>8. \A q \in Peer : Stream(q)' = Stream(q) /\ Held(q) = <<>>
  BY <1>4 DEF Stream, Held
<1>9. Before'
  <2>1. state["dest"] = "none" => inq'["dest"] = <<>>
    <3>1. Len(<<>>) = 0
      OBVIOUS
    <3>2. state["dest"] = "none" => p # "dest"
      BY <1>2, <3>1 DEF Before
    <3> QED
      BY <1>2, <1>3, <3>2 DEF Before
  <2> QED
    BY <1>2, <1>4, <1>8, <2>1 DEF Before, Unread, Unreplied
<1>10. Positive'
  <2>1. \A q \in Peer : \A j \in 1 .. Len(inq[q]) : inq[q][j] > 0
    BY <1>4 DEF Positive, Unread, Peer
  <2>2. \A x \in {inq[p][l] : l \in 1 .. Len(inq[p])} : x > 0
    BY <2>1
  <2>3. /\ \A j \in 1 .. Len(buf') : buf'[j] > 0
        /\ \A j \in 1 .. Len(inq'[p]) : inq'[p][j] > 0
    BY <1>3, <2>2
  <2>4. \A q \in Peer : \A j \in 1 .. Len(inq'[q]) : inq'[q][j] > 0
    BY <1>3, <2>1, <2>3
  <2> QED
    BY <1>2, <2>3, <2>4 DEF Positive
<1>11. Flow'
  <2> SUFFICES ASSUME Passing' PROVE Flow'
    BY DEF Flow
  <2>1. dst = "dest" /\ Passing /\ Answered' = Answered
    BY <1>4 DEF Passing, Relaying, Answered, Unreplied, Unread
  <2>2. \A q \in Peer : Wire(q)' = Wire(q)
    <3> SUFFICES ASSUME NEW q \in Peer PROVE Wire(q)' = Wire(q)
      OBVIOUS
    <3>1. Stream(q) \in Seq(Chunk)
      BY Types
    <3>2. CASE Other(q) = p
      <4>1. Held(q)' = buf'
        BY <1>4, <2>1, <3>2 DEF Held, Other, Peer
      <4> QED
        BY <1>3, <1>8, <3>1, <3>2, <4>1 DEF Wire
    <3>3. CASE Other(q) # p
      <4>1. Held(q)' = <<>>
        BY <1>4, <2>1, <3>3 DEF Held, Other, Peer
      <4>2. Other(q) \in Peer
        BY <1>2 DEF Other
      <4> QED
        BY <1>3, <1>8, <3>3, <4>1, <4>2 DEF Wire
    <3> QED
      BY <3>2, <3>3
  <2> QED
    BY <1>2, <1>4, <2>1, <2>2 DEF Flow, Listening
<1>12. Told'
  BY <1>2, <1>4, <1>8 DEF Told, Relaying, Listening
<1> QED
  BY <1>6, <1>7, <1>9, <1>10, <1>11, <1>12

(* The chunk at the head of the buffer reaches a peer.                     *)
LEMMA DataDelivered ==
  ASSUME RInv, pc = "write", to \in Peer, Delivers(to, Head(buf)), Written(Tail(buf)),
         UNCHANGED <<dst, rfd, to, conf, req, inq, sent, got, early>>
  PROVE  RInv'
<1> USE DEF RInv
<1> DEFINE c == Head(buf)
           t == Tail(buf)
<1>1. /\ buf \in Seq(Chunk) /\ buf # <<>> /\ c \in Chunk /\ t \in Seq(Chunk) /\ c > 0
      /\ \A k \in 1 .. Len(t) : t[k] > 0
  <2>1. buf \in Seq(Chunk) /\ buf # <<>>
    BY DEF TypeOK
  <2>2. c \in Chunk /\ t \in Seq(Chunk) /\ Len(buf) >= 1 /\ c = buf[1] /\ Len(t) = Len(buf) - 1
        /\ \A k \in 1 .. Len(t) : t[k] = buf[k + 1]
    BY <2>1, HeadTailProperties
  <2>3. Len(buf) \in Nat /\ \A k \in 1 .. Len(buf) : buf[k] > 0
    BY <2>1 DEF Positive
  <2> HIDE DEF c, t
  <2>4. \A k \in 1 .. Len(t) : k + 1 \in 1 .. Len(buf)
    BY <2>2, <2>3
  <2> QED
    BY <2>1, <2>2, <2>3, <2>4
<1>2. "browser" \in Peer /\ "dest" \in Peer
  BY DEF Peer
<1>3. /\ state' = state /\ Listening(to)
      /\ outq'[to] = Append(outq[to], c)
      /\ \A q \in Peer : q # to => outq'[q] = outq[q]
      /\ buf' = t /\ pc' \in {"write", "select", "scan"} /\ (pc' = "write" <=> t # <<>>)
  BY DEF Delivers, Written, Listening, TypeOK
<1> HIDE DEF c, t
<1>4. /\ \A q \in Peer : q # to => Stream(q)' = Stream(q)
      /\ Stream(to)' = Append(Stream(to), c)
  <2> DEFINE g == got[to]
             o == outq[to]
  <2>1. Stream(to)' = g \o Append(o, c) /\ Stream(to) = g \o o
    BY <1>3 DEF Stream
  <2>2. g \in Seq(Chunk) /\ o \in Seq(Chunk)
    BY Types
  <2> HIDE DEF g, o
  <2>3. g \o Append(o, c) = Append(g \o o, c)
    BY <1>1, <2>2, SentOn
  <2> QED
    BY <1>3, <2>1, <2>3 DEF Stream
<1>5. TypeOK'
  <2>1. outq' \in [Peer -> Seq(Chunk)]
    <3> DEFINE o == outq[to]
    <3>1. o \in Seq(Chunk)
      BY Types
    <3> HIDE DEF o
    <3>2. Append(o, c) \in Seq(Chunk)
      BY <1>1, <3>1, AppendProperties
    <3> QED
      BY <3>2 DEF Delivers, TypeOK, c, o
  <2> QED
    BY <1>1, <1>3, <2>1 DEF TypeOK
<1>6. Stage'
  BY <1>3 DEF Stage, Unread, Unreplied
<1>7. Before'
  BY <1>3 DEF Before, Unread, Unreplied
<1>8. Positive'
  BY <1>1, <1>3 DEF Positive, Unread
<1>9. Flow'
  <2> SUFFICES ASSUME Passing' PROVE Flow'
    BY DEF Flow
  <2>1. dst = "dest" /\ Passing /\ Answered' = Answered
    BY <1>3 DEF Passing, Relaying, Answered, Unreplied, Unread
  <2>2. \A q \in Peer : Wire(q)' = Wire(q)
    <3> SUFFICES ASSUME NEW q \in Peer PROVE Wire(q)' = Wire(q)
      OBVIOUS
    <3>1. CASE q = to
      <4>1. Held(q) = buf /\ Held(q)' = t
        BY <1>3, <3>1 DEF Held
      <4> DEFINE s == Stream(q)
                 i == inq[Other(q)]
      <4>2. s \in Seq(Chunk) /\ i \in Seq(Chunk)
        BY <1>2, Types DEF Other
      <4>3. Wire(q) = (s \o buf) \o i /\ Wire(q)' = (Append(s, c) \o t) \o i
        BY <1>4, <3>1, <4>1 DEF Wire
      <4> HIDE DEF s, i
      <4>4. (Append(s, Head(buf)) \o Tail(buf)) \o i = (s \o buf) \o i
        BY <1>1, <4>2, Moved
      <4> QED
        BY <4>3, <4>4 DEF c, t
    <3>2. CASE q # to
      <4>1. Held(q) = <<>> /\ Held(q)' = <<>>
        BY <3>2 DEF Held
      <4> QED
        BY <1>4, <3>2, <4>1 DEF Wire
    <3> QED
      BY <3>1, <3>2
  <2> QED
    BY <1>2, <1>3, <2>1, <2>2 DEF Flow, Listening
<1>10. Told'
  <2>1. CASE to = "dest"
    BY <1>2, <1>3, <1>4, <2>1 DEF Told, Relaying, Listening
  <2>2. CASE to = "browser"
    <3> DEFINE s == Stream("browser")
               u == Stream("browser")'
    <3>1. s \in Seq(Chunk) /\ u = Append(s, c)
      BY <1>2, <1>4, <2>2, Types
    <3>2. req.cmd \in {CONNECT, BIND} => dst = "dest"
      BY <1>2, <2>2 DEF Stage, TypeOK, NoSocket
    <3>3. /\ \A k \in 1 .. Len(s) :
               /\ s[k] # Rejected
               /\ req.cmd \in {CONNECT, BIND} =>
                    IF k <= req.cmd THEN s[k] = Granted ELSE s[k] > 0
          /\ req.cmd \in {CONNECT, BIND} => Len(s) >= req.cmd
          /\ req # NoRequest
      BY <1>3, <2>2, <3>2 DEF Told, Relaying, Stage, Unread
    <3> HIDE DEF s, u
    <3>4. /\ Len(u) = Len(s) + 1 /\ Len(s) \in Nat
          /\ \A k \in 1 .. Len(s) : u[k] = s[k]
          /\ u[Len(s) + 1] = c
      BY <1>1, <3>1, AppendProperties
    <3>5. req.cmd \in Nat /\ c # Rejected
      BY <1>1, Types DEF Rejected
    <3>6. \A k \in 1 .. Len(u) :
            /\ u[k] # Rejected
            /\ req.cmd \in {CONNECT, BIND} =>
                 IF k <= req.cmd THEN u[k] = Granted ELSE u[k] > 0
      <4> SUFFICES ASSUME NEW k \in 1 .. Len(u)
                   PROVE  /\ u[k] # Rejected
                          /\ req.cmd \in {CONNECT, BIND} =>
                               IF k <= req.cmd THEN u[k] = Granted ELSE u[k] > 0
        OBVIOUS
      <4>1. CASE k <= Len(s)
        <5>1. k \in 1 .. Len(s) /\ u[k] = s[k]
          BY <3>4, <4>1
        <5> QED
          BY <3>3, <5>1
      <4>2. CASE k = Len(s) + 1
        <5>1. u[k] = c
          BY <3>4, <4>2
        <5>2. req.cmd \in {CONNECT, BIND} => ~ k <= req.cmd
          BY <3>3, <3>4, <3>5, <4>2
        <5> QED
          BY <1>1, <3>5, <5>1, <5>2
      <4> QED
        BY <3>4, <4>1, <4>2
    <3>7. /\ req.cmd \in {CONNECT, BIND} => Len(u) >= req.cmd
          /\ pc' # "accept" /\ req' = req
      BY <1>3, <3>3, <3>4, <3>5
    <3>8. Relaying' /\ dst' = "dest" => Relaying /\ dst = "dest" /\ req.cmd \in {CONNECT, BIND}
      BY <1>3 DEF Relaying, Stage
    <3> QED
      BY <3>3, <3>6, <3>7, <3>8 DEF Told, u
  <2> QED
    BY <2>1, <2>2 DEF Peer
<1> QED
  BY <1>5, <1>6, <1>7, <1>8, <1>9, <1>10

LEMMA DataWritten ==
  ASSUME RInv, WriteData
  PROVE  RInv'
<1> USE DEF RInv
<1>1. /\ pc = "write" /\ UNCHANGED <<dst, rfd, to, conf, req, inq, sent, got, early>>
      /\ buf \in Seq(Chunk) /\ buf # <<>>
  BY DEF WriteData, TypeOK
<1>2. CASE to \in Peer /\ Delivers(to, Head(buf)) /\ Written(Tail(buf))
  BY <1>1, <1>2, DataDelivered
<1>3. CASE ~ (to \in Peer /\ Delivers(to, Head(buf)) /\ Written(Tail(buf)))
  <2>1. /\ outq' = outq
        /\ \/ to \in Peer /\ Loses(to) /\ Written(<<>>)
           \/ to \in Peer /\ state' = state /\ pc' = "exit" /\ buf' = buf
           \/ to \in {"none", "closed", "other"} /\ state' = state /\ Written(<<>>)
    BY <1>3 DEF WriteData, Loses, SigPipe, Peer, TypeOK, Uninitialised, NoSocket
  <2>2. "browser" \in Peer /\ "dest" \in Peer /\ Len(<<>>) = 0
    BY DEF Peer
  <2>3. /\ buf' \in {buf, <<>>} /\ pc' \in {"select", "scan", "exit"}
        /\ pc' # "exit" => buf' = <<>> /\ (to \notin Peer \/ (to \in Peer /\ state'[to] = "dead"))
        /\ \A q \in Peer : state'[q] \in {state[q], "dead"} /\ (q # to => state'[q] = state[q])
        /\ state["dest"] = "none" <=> state'["dest"] = "none"
    <3>1. CASE to \in Peer /\ Loses(to) /\ Written(<<>>)
      <4>1. /\ state[to] \in {"fin", "reset"} /\ state'[to] = "dead"
            /\ \A q \in Peer : q # to => state'[q] = state[q]
        BY <3>1 DEF Loses, TypeOK
      <4>2. buf' = <<>> /\ pc' \in {"select", "scan"}
        BY <3>1 DEF Written
      <4> QED
        BY <2>2, <3>1, <4>1, <4>2
    <3>2. CASE to \in Peer /\ state' = state /\ pc' = "exit" /\ buf' = buf
      BY <3>2
    <3>3. CASE to \in {"none", "closed", "other"} /\ state' = state /\ Written(<<>>)
      BY <3>3 DEF Written, Peer
    <3> QED
      BY <2>1, <3>1, <3>2, <3>3
  <2>4. TypeOK' /\ Stage'
    <3>1. state' \in [Peer -> {"none", "open", "half", "fin", "reset", "dead"}]
      BY <2>1 DEF Loses, TypeOK
    <3>2. <<>> \in Seq(Chunk) /\ (pc' = "write" <=> buf' # <<>> /\ pc' # "exit")
      BY <2>3, EmptySeq
    <3> QED
      BY <1>1, <2>1, <2>3, <3>1, <3>2 DEF TypeOK, Stage, Unread, Unreplied
  <2>5. \A q \in Peer : Stream(q)' = Stream(q) /\ Held(q)' = <<>>
    BY <1>1, <2>1, <2>3 DEF Stream, Held
  <2>6. Before'
    BY <1>1, <2>2, <2>3, <2>5 DEF Before, Unread, Unreplied
  <2>7. Positive'
    BY <1>1, <2>2, <2>3 DEF Positive, Unread
  <2>8. Flow'
    <3> SUFFICES ASSUME Passing' PROVE Flow'
      BY DEF Flow
    <3>1. pc' \in {"select", "scan"} /\ dst = "dest" /\ Passing /\ Answered' = Answered
      BY <1>1, <2>3 DEF Passing, Relaying, Answered, Unreplied, Unread
    <3>2. to \in Peer /\ state'[to] = "dead"
      BY <1>1, <2>3, <3>1 DEF Stage, Peer
    <3>3. \A q \in Peer : q # to => Wire(q)' = Wire(q) /\ state'[q] = state[q]
      <4>1. \A q \in Peer : q # to => Held(q) = <<>>
        BY DEF Held
      <4> QED
        BY <1>1, <2>3, <2>5, <4>1 DEF Wire
    <3>4. CASE to = "browser"
      BY <1>1, <2>2, <3>1, <3>2, <3>3, <3>4 DEF Flow, Listening
    <3>5. CASE to = "dest"
      BY <1>1, <2>2, <3>1, <3>2, <3>3, <3>5 DEF Flow, Listening
    <3> QED
      BY <3>2, <3>4, <3>5 DEF Peer
  <2>9. Told'
    <3>1. Listening("browser")' => Listening("browser")
      BY <2>2, <2>3 DEF Listening
    <3> QED
      BY <1>1, <2>2, <2>3, <2>5, <3>1 DEF Told, Relaying
  <2> QED
    BY <2>4, <2>6, <2>7, <2>8, <2>9
<1> QED
  BY <1>2, <1>3

-----------------------------------------------------------------------------
(* Every step keeps what is in transit accounted for.                      *)
LEMMA RelayServer ==
  ASSUME RInv, Server
  PROVE  RInv'
<1>1. CASE Fork \/ ForkFails \/ NoRequestRead \/ Connect \/ NoConf
  BY <1>1, HandshakeCalm
<1>2. CASE ReadRequest
  BY <1>2, RequestRead
<1>3. CASE Decide \/ Reject \/ Bind \/ Accept
  <2>1. CASE UNCHANGED outq
    BY <1>3, <2>1, HandshakeCalm
  <2>2. CASE ~ UNCHANGED outq
    <3>1. \/ Delivers("browser", Granted) \/ Delivers("browser", Rejected)
      BY <1>3, <2>2 DEF Decide, Reject, Bind, Accept, Reply, Loses, SigPipe
    <3>2. ~ Loses("browser") /\ ~ SigPipe("browser")
      BY <2>2 DEF Loses, SigPipe
    <3>3. UNCHANGED <<buf, to, conf, req, rfd, inq, sent, got, early>>
      BY <1>3 DEF Decide, Reject, Bind, Accept
    <3>4. \/ /\ Delivers("browser", Granted)
             /\ \/ pc = "decide" /\ pc' = "select" /\ dst' = "dest"
                \/ pc = "bind" /\ pc' = "accept" /\ dst' = dst
                \/ pc = "accept" /\ pc' = "select" /\ dst' = "dest"
          \/ Delivers("browser", Rejected) /\ pc = "reject" /\ pc' = "exit" /\ dst' = dst
      BY <1>3, <2>2, <3>2 DEF Decide, Reject, Bind, Accept, Reply
    <3> QED
      BY <3>3, <3>4, ReplyDelivered
  <2> QED
    BY <2>1, <2>2
<1>4. CASE Select \/ SelectFails \/ \E p \in Peer : ReadFails(p) \/ ReadEof(p)
  BY <1>4, RelayCalm
<1>5. ASSUME NEW p \in Peer, ReadData(p) PROVE RInv'
  BY <1>5, DataRead
<1>6. CASE WriteData
  BY <1>6, DataWritten
<1> QED
  BY <1>1, <1>2, <1>3, <1>4, <1>5, <1>6 DEF Server

LEMMA RelayPeers ==
  ASSUME RInv, Peers
  PROVE  RInv'
<1>1. ASSUME NEW r \in Requests, SendRequest(r) PROVE RInv'
  BY <1>1, RequestSent
<1>2. CASE DestConnects \/ \E p \in Peer : ShutDown(p)
  BY <1>2, RelayCalm
<1>3. ASSUME NEW p \in Peer, Send(p) \/ Receive(p) \/ ClosePeer(p) PROVE RInv'
  BY <1>3, SendKeeps, ReceiveKeeps, CloseKeeps
<1> QED
  BY <1>1, <1>2, <1>3 DEF Peers

LEMMA RelayStep == RInv /\ [Next]_vars => RInv'
<1> SUFFICES ASSUME RInv, [Next]_vars PROVE RInv'
  OBVIOUS
<1>1. CASE Server
  BY <1>1, RelayServer
<1>2. CASE Peers
  BY <1>2, RelayPeers
<1>3. CASE UNCHANGED vars
  <2>1. TypeOK' /\ Stage'
    BY <1>3 DEF RInv, vars, serverVars, TypeOK, Stage, Unread, Unreplied
  <2>2. Calm
    BY <1>3 DEF RInv, Before, vars, serverVars, Calm, Unread, Unreplied, Passing, Relaying,
                Listening, Answered
  <2> QED
    BY <2>1, <2>2, CalmKeeps
<1> QED
  BY <1>1, <1>2, <1>3 DEF Next

-----------------------------------------------------------------------------
(* Whatever the rules, requests, buffer and sizes, the state of a          *)
(* connection has its types, and the buffer holds data exactly while it is *)
(* being written.                                                          *)
THEOREM SocksTypeCorrect == Spec => []TypeOK
<1>1. RInv => TypeOK
  BY DEF RInv
<1> QED
  BY RelayInit, RelayStep, <1>1, PTL DEF Spec

(* The browser is told before it is served: the first data of a CONNECT    *)
(* follows one reply, that of a BIND two, and a refusal is all it gets.    *)
THEOREM RepliesComeFirst == Spec => []ReplyFirst
<1>1. RInv => ReplyFirst
  <2> DEFINE s == Stream("browser")
  <2> SUFFICES ASSUME RInv, NEW k \in 1 .. Len(s)
               PROVE  /\ s[k] = Rejected => k = 1 /\ Len(s) = 1
                      /\ s[k] > 0 /\ req.cmd \in {CONNECT, BIND} =>
                           Cardinality({j \in 1 .. k - 1 : s[j] = Granted}) = req.cmd
    BY DEF ReplyFirst
  <2>1. s \in Seq(Chunk) /\ Len(s) \in Nat /\ req.cmd \in Nat
    BY Types, LenProperties DEF RInv, Peer
  <2>2. \A j \in 1 .. Len(s) :
          /\ s[j] = Rejected => Len(s) = 1
          /\ req.cmd \in {CONNECT, BIND} /\ s[j] # Rejected =>
               IF j <= req.cmd THEN s[j] = Granted ELSE s[j] > 0
    BY DEF RInv, Told
  <2> HIDE DEF s
  <2>3. ASSUME s[k] > 0, req.cmd \in {CONNECT, BIND}
        PROVE  Cardinality({j \in 1 .. k - 1 : s[j] = Granted}) = req.cmd
    <3>1. k > req.cmd /\ k - 1 \in Nat
      BY <2>1, <2>2, <2>3 DEF Granted, Rejected
    <3>2. \A j \in 1 .. k - 1 : j \in 1 .. Len(s) /\ s[j] # Rejected
      <4> SUFFICES ASSUME NEW j \in 1 .. k - 1
                   PROVE  j \in 1 .. Len(s) /\ s[j] # Rejected
        OBVIOUS
      <4>1. k \in Int /\ k <= Len(s) /\ j \in Int /\ 1 <= j /\ j <= k - 1
        BY <2>1
      <4>2. j \in 1 .. Len(s) /\ Len(s) # 1
        <5> DEFINE n == Len(s)
        <5>1. n \in Nat /\ k <= n
          BY <2>1, <4>1
        <5> HIDE DEF n
        <5>2. j \in 1 .. n /\ n # 1
          BY <4>1, <5>1
        <5> QED
          BY <5>2 DEF n
      <4> QED
        BY <2>2, <4>2
    <3>3. \A j \in 1 .. k - 1 : s[j] = Granted <=> j <= req.cmd
      BY <2>2, <2>3, <3>2 DEF Granted
    <3>4. {j \in 1 .. k - 1 : s[j] = Granted} = 1 .. req.cmd
      BY <2>1, <3>1, <3>3
    <3>5. Cardinality(1 .. req.cmd) = req.cmd
      <4> DEFINE n == req.cmd
      <4>1. 1 \in Int /\ n \in Int /\ ~ 1 > n /\ n - 1 + 1 = n
        BY <2>1, <2>3 DEF CONNECT, BIND
      <4> HIDE DEF n
      <4>2. Cardinality(1 .. n) = n
        BY <4>1, FS_Interval
      <4> QED
        BY <4>2 DEF n
    <3> QED
      BY <3>4, <3>5
  <2> QED
    BY <2>1, <2>2, <2>3
<1> QED
  BY RelayInit, RelayStep, <1>1, PTL DEF Spec

(* While the relay runs, it neither loses, repeats nor reorders, whatever  *)
(* the buffer and the capacity of the connections, and wherever a read or  *)
(* a write cuts the stream.                                                *)
THEOREM RelayLosesNothing == Spec => []NothingLost
<1>1. RInv => NothingLost
  <2> SUFFICES ASSUME RInv, dst = "dest", Relaying, NEW p \in Peer, Listening(p)
               PROVE  (Stream(p) \o Held(p)) \o inq[Other(p)] =
                        Replies(p) \o Numbers(IF Other(p) = "browser" THEN early ELSE 0,
                                              sent[Other(p)])
    BY DEF NothingLost, Listening, Held, Numbers
  <2>1. Flow /\ Passing
    BY DEF RInv, Passing
  <2>2. CASE p = "dest"
    <3>1. Wire("dest") = Numbers(early, sent["browser"]) /\ Other("dest") = "browser"
      BY <2>1, <2>2 DEF Flow, Listening, Other
    <3>2. Replies("dest") = <<>>
      BY DEF Replies
    <3>3. Numbers(early, sent["browser"]) \in Seq(Chunk)
      <4> DEFINE a == early
                 b == sent["browser"]
      <4>1. a \in Int /\ a >= -1 /\ b \in 0 .. MaxSent
        BY Types DEF RInv, Peer
      <4> HIDE DEF a, b
      <4>2. Numbers(a, b) \in Seq(Chunk)
        BY <4>1, NumbersType
      <4> QED
        BY <4>2 DEF a, b
    <3>4. <<>> \o Numbers(early, sent["browser"]) = Numbers(early, sent["browser"])
      BY <3>3, WireStart
    <3> QED
      BY <2>2, <3>1, <3>2, <3>4 DEF Wire
  <2>3. CASE p = "browser"
    <3>1. Wire("browser") = Grants(Answered) \o Numbers(0, sent["dest"]) /\ Other("browser") = "dest"
      BY <2>1, <2>3 DEF Flow, Other
    <3>2. Answered = req.cmd
      BY DEF Answered, Unreplied, Unread, Relaying
    <3>3. Replies("browser") = Grants(req.cmd)
      BY DEF Replies, Grants
    <3> QED
      BY <2>3, <3>1, <3>2, <3>3 DEF Wire
  <2> QED
    BY <2>2, <2>3 DEF Peer
<1> QED
  BY RelayInit, RelayStep, <1>1, PTL DEF Spec

=============================================================================
