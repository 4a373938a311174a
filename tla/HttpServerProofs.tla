--------------------------- MODULE HttpServerProofs ---------------------------
(* Under whose environment a CGI program runs, and that they run one at a  *)
(* time, for any browsers and requests.                                    *)
EXTENDS HttpServer, FiniteSetTheorems, TLAPS

Env == [line : Memory, host : Memory]

(* The environment that b left, or e is what one parsed after b left.      *)
LeftFor(b, e) ==
  \/ e = [line |-> line[b], host |-> host[b]] /\ passed[b] = {}
  \/ \E c \in passed[b] : e = [line |-> line[c], host |-> host[c]]

(* A request is parsed once; those parsed after it are parsed by now.      *)
Parsed ==
  \A b \in Browser :
    /\ sess[b] \in {"none", "read"} => passed[b] = {}
    /\ \A c \in passed[b] : sess[c] \in {"send", "over"}
    /\ (sess[b] = "send" \/ child[b] # "none") /\ request[b] = "whole" =>
         line[b] = b /\ host[b] = b

(* The environment waits for the programs that have not been started yet.  *)
Environment ==
  \A b \in Browser :
    /\ sess[b] = "send" => LeftFor(b, env)
    /\ child[b] # "none" => sess[b] = "over" /\ LeftFor(b, childEnv[b])

(* The server goes on, or dies, only when no child is left.                *)
Children ==
  /\ srv # "wait" => \A b \in Browser : child[b] \in {"none", "reaped"}
  /\ \A b, c \in Browser : child[b] = "run" /\ child[c] = "run" => b = c

IInv == TypeOK /\ Parsed /\ Environment /\ Children

-----------------------------------------------------------------------------
LEMMA InitInv == Init => IInv
<1> SUFFICES ASSUME Init PROVE IInv
  OBVIOUS
<1>1. TypeOK
  BY HttpAssumption DEF Init, TypeOK, NoEnv, Memory
<1> QED
  BY <1>1 DEF Init, IInv, Parsed, Environment, Children

(* The browsers only change how they stand to the server.                  *)
LEMMA BrowsersKeep ==
  ASSUME IInv, NEW b \in Browser, Connects(b) \/ Asks(b) \/ Leaves(b) \/ Resets(b)
  PROVE  IInv'
<1> USE DEF IInv
<1>1. PICK to \in {"here", "asked", "left", "gone"} :
        peer' = [peer EXCEPT ![b] = to]
  BY DEF Connects, Asks, Leaves, Resets, Moves
<1>2. srv # "dead" /\ UNCHANGED <<request, srv, sess, parsed, cgi>>
  BY DEF Connects, Asks, Leaves, Resets, Moves
<1>3. TypeOK'
  BY <1>1, <1>2 DEF TypeOK, parsed, cgi
<1> QED
  BY <1>2, <1>3 DEF Parsed, Environment, LeftFor, Children, parsed, cgi

LEMMA AcceptKeeps ==
  ASSUME IInv, NEW b \in Browser, do_accept(b)
  PROVE  IInv'
<1> USE DEF IInv
<1>1. UNCHANGED <<net, parsed, cgi>> /\ srv = "up" /\ sess[b] = "none" /\ peer[b] # "away"
  BY DEF do_accept
<1>2. CASE peer[b] = "gone"
  BY <1>1, <1>2 DEF do_accept, Dies, TypeOK, Parsed, Environment, LeftFor, Children, net, parsed, cgi
<1>3. CASE peer[b] # "gone"
  <2>1. sess' = [sess EXCEPT ![b] = "read"] /\ UNCHANGED srv
    BY <1>3 DEF do_accept
  <2>2. TypeOK' /\ Children'
    BY <1>1, <2>1 DEF TypeOK, Children, net, parsed, cgi
  <2>3. Parsed'
    BY <1>1, <2>1 DEF Parsed, TypeOK, net, parsed, cgi
  <2>4. Environment'
    BY <1>1, <2>1 DEF Environment, LeftFor, TypeOK, net, parsed, cgi
  <2> QED
    BY <2>2, <2>3, <2>4
<1> QED
  BY <1>2, <1>3

LEMMA ReadFailsKeeps ==
  ASSUME IInv, NEW b \in Browser, ReadFails(b)
  PROVE  IInv'
<1> USE DEF IInv
<1>1. /\ sess[b] = "read" /\ sess' = [sess EXCEPT ![b] = "over"]
      /\ UNCHANGED <<net, srv, parsed, cgi>>
  BY DEF ReadFails, Over
<1>2. srv = "up"
  BY DEF ReadFails
<1>3. TypeOK' /\ Children'
  BY <1>1, <1>2 DEF TypeOK, Children, net, parsed, cgi
<1>4. Parsed'
  BY <1>1 DEF Parsed, TypeOK, net, parsed, cgi
<1>5. Environment'
  BY <1>1 DEF Environment, LeftFor, TypeOK, net, parsed, cgi
<1> QED
  BY <1>3, <1>4, <1>5

(* Pointers lead to the strings of a request, or to whatever was there.    *)
LEMMA ParseType ==
  ASSUME TypeOK, NEW b \in Browser, parse_http_header(b)
  PROVE  \E l, h \in Memory :
           /\ line' = [line EXCEPT ![b] = l] /\ host' = [host EXCEPT ![b] = h]
           /\ request[b] = "whole" => l = b /\ h = b
<1>1. Unset(line) \subseteq Memory /\ Unset(host) \subseteq Memory
  BY DEF Unset, TypeOK, Memory
<1>2. b \in Memory /\ 0 \in Memory
  BY DEF Memory
<1>3. PICK l \in Memory : line' = [line EXCEPT ![b] = l] /\ (request[b] = "whole" => l = b)
  <2>1. CASE request[b] = "line"
    BY <1>1, <2>1 DEF parse_http_header
  <2>2. CASE request[b] = "bare"
    BY <1>2, <2>2 DEF parse_http_header
  <2>3. CASE request[b] \notin {"line", "bare"}
    BY <1>2, <2>3 DEF parse_http_header
  <2> QED
    BY <2>1, <2>2, <2>3
<1>4. PICK h \in Memory : host' = [host EXCEPT ![b] = h] /\ (request[b] = "whole" => h = b)
  BY <1>1, <1>2 DEF parse_http_header
<1> QED
  BY <1>3, <1>4

LEMMA RequestKeeps ==
  ASSUME IInv, NEW b \in Browser, get_http_data(b)
  PROVE  IInv'
<1> USE DEF IInv
<1>1. srv = "up" /\ sess[b] = "read" /\ UNCHANGED <<net, cgi>>
  BY DEF get_http_data
<1>2. CASE Unready(b) /\ Dies /\ UNCHANGED <<sess, parsed>>
  BY <1>1, <1>2 DEF Dies, TypeOK, Parsed, Environment, LeftFor, Children,
                    Unready, net, parsed, cgi
<1>3. CASE /\ parse_http_header(b) /\ set_env_var(b)
           /\ passed' = [c \in Browser |-> IF sess[c] = "send" THEN passed[c] \cup {b}
                                           ELSE passed[c]]
           /\ sess' = [sess EXCEPT ![b] = "send"] /\ UNCHANGED srv
  <2>1. PICK l \in Memory, h \in Memory :
           /\ line' = [line EXCEPT ![b] = l] /\ host' = [host EXCEPT ![b] = h]
           /\ request[b] = "whole" => l = b /\ h = b
    BY <1>3, ParseType
  <2>2. env' = [line |-> l, host |-> h] /\ line'[b] = l /\ host'[b] = h
    BY <1>3, <2>1 DEF set_env_var, TypeOK
  <2>3. TypeOK'
    BY <1>1, <1>3, <2>1, <2>2 DEF TypeOK, net, cgi
  <2>4. Children'
    BY <1>1, <1>3 DEF Children, net, cgi
  <2>5. Parsed'
    BY <1>1, <1>3, <2>1 DEF Parsed, Environment, TypeOK, net, cgi
  <2>6. ASSUME NEW c \in Browser, sess'[c] = "send"
        PROVE  LeftFor(c, env)'
    <3>1. CASE c = b
      BY <1>1, <1>3, <2>2, <3>1 DEF LeftFor, Parsed
    <3>2. CASE c # b
      <4>1. b \in passed'[c]
        BY <1>3, <2>6, <3>2 DEF TypeOK
      <4> QED
        BY <2>2, <4>1 DEF LeftFor
    <3> QED
      BY <3>1, <3>2
  <2>7. ASSUME NEW c \in Browser, child'[c] # "none"
        PROVE  sess'[c] = "over" /\ LeftFor(c, childEnv[c])'
    <3>1. child[c] # "none" /\ sess[c] = "over" /\ LeftFor(c, childEnv[c])
      BY <1>1, <2>7 DEF Environment, cgi
    <3>2. c # b /\ passed'[c] = passed[c] /\ \A d \in passed[c] : d # b /\ d \in Browser
      BY <1>1, <1>3, <3>1 DEF Parsed, TypeOK
    <3>3. \A d \in passed[c] \cup {c} : line'[d] = line[d] /\ host'[d] = host[d]
      BY <2>1, <3>2 DEF TypeOK
    <3>4. childEnv' = childEnv /\ sess'[c] = sess[c]
      BY <1>1, <1>3, <3>2 DEF cgi, TypeOK
    <3> QED
      BY <3>1, <3>2, <3>3, <3>4 DEF LeftFor
  <2> QED
    BY <2>3, <2>4, <2>5, <2>6, <2>7 DEF Environment
<1> QED
  BY <1>2, <1>3 DEF get_http_data

(* The program is started with what the environment holds by then.         *)
LEMMA ServiceKeeps ==
  ASSUME IInv, NEW b \in Browser, do_service(b)
  PROVE  IInv'
<1> USE DEF IInv
<1>1. srv = "up" /\ sess[b] = "send" /\ UNCHANGED <<net, parsed, pending>>
  BY DEF do_service
<1>2. CASE Over(b) /\ UNCHANGED srv /\ UNCHANGED <<child, childEnv>>
  <2>1. sess' = [sess EXCEPT ![b] = "over"] /\ UNCHANGED <<srv, child, childEnv>>
    BY <1>2 DEF Over
  <2>2. TypeOK' /\ Children'
    BY <1>1, <2>1 DEF TypeOK, Children, net, parsed
  <2>3. Parsed'
    BY <1>1, <2>1 DEF Parsed, TypeOK, net, parsed
  <2>4. Environment'
    BY <1>1, <2>1 DEF Environment, LeftFor, TypeOK, net, parsed
  <2> QED
    BY <2>2, <2>3, <2>4
<1>3. CASE /\ Over(b) /\ child' = [child EXCEPT ![b] = "run"]
           /\ childEnv' = [childEnv EXCEPT ![b] = env]
           /\ srv' = "wait"
  <2>1. sess' = [sess EXCEPT ![b] = "over"]
    BY <1>3 DEF Over
  <2>2. TypeOK'
    BY <1>1, <1>3, <2>1 DEF TypeOK, net, parsed
  <2>3. Children'
    BY <1>1, <1>3 DEF Children, TypeOK
  <2>4. Parsed'
    BY <1>1, <1>3, <2>1 DEF Parsed, TypeOK, net, parsed
  <2>5. Environment'
    BY <1>1, <1>3, <2>1 DEF Environment, LeftFor, TypeOK, net, parsed
  <2> QED
    BY <2>2, <2>3, <2>4, <2>5
<1>4. CASE Dies /\ UNCHANGED <<sess, child, childEnv>>
  BY <1>1, <1>4 DEF Dies, TypeOK, Parsed, Environment, LeftFor, Children,
                    net, parsed
<1> QED
  BY <1>2, <1>3, <1>4 DEF do_service

(* A child ends and is reaped, by wait or by the handler of its signal.    *)
LEMMA ReapKeeps ==
  ASSUME IInv, WaitReturns \/ sigchld_handler \/ \E b \in Browser : CgiEnds(b)
  PROVE  IInv'
<1> USE DEF IInv
<1>1. CASE WaitReturns
  BY <1>1 DEF WaitReturns, TypeOK, Parsed, Environment, LeftFor, Children,
              net, parsed
<1>2. CASE sigchld_handler
  <2>1. /\ child' = [b \in Browser |-> IF child[b] = "zombie" THEN "reaped" ELSE child[b]]
        /\ pending' = FALSE
        /\ UNCHANGED <<net, srv, sess, parsed, childEnv>>
    BY <1>2 DEF sigchld_handler
  <2>2. TypeOK' /\ Children'
    BY <2>1 DEF TypeOK, Children, Unready, net, parsed
  <2>3. Parsed' /\ Environment'
    BY <2>1 DEF Parsed, Environment, LeftFor, TypeOK, net, parsed
  <2> QED
    BY <2>2, <2>3
<1>3. ASSUME NEW b \in Browser, CgiEnds(b)
      PROVE  IInv'
  BY <1>3 DEF CgiEnds, TypeOK, Parsed, Environment, LeftFor, Children,
              net, parsed
<1> QED
  BY <1>1, <1>2, <1>3

LEMMA NextKeeps == IInv /\ [Next]_vars => IInv'
<1> SUFFICES ASSUME IInv, [Next]_vars PROVE IInv'
  OBVIOUS
<1>1. CASE UNCHANGED vars
  <2>1. TypeOK' /\ Children'
    BY <1>1 DEF IInv, TypeOK, Children, Unready, vars, net, parsed, cgi
  <2>2. Parsed' /\ Environment'
    BY <1>1 DEF IInv, Parsed, Environment, LeftFor, vars, net, parsed, cgi
  <2> QED
    BY <2>1, <2>2 DEF IInv
<1>2. CASE Next
  BY <1>2, BrowsersKeep, AcceptKeeps, ReadFailsKeeps, RequestKeeps, ServiceKeeps, ReapKeeps
     DEF Next, Handler
<1> QED
  BY <1>1, <1>2

-----------------------------------------------------------------------------
(* The inductive invariant holds for any browsers and any requests.        *)
THEOREM HttpInvariance == Spec => []IInv
  BY InitInv, NextKeeps, PTL DEF Spec

(* Every variable keeps its type; a pointer never leads to more than the   *)
(* strings of some request or to bytes that are none.                      *)
THEOREM HttpTypeCorrect == Spec => []TypeOK
  BY HttpInvariance, PTL DEF IInv

(* A program runs under its own request's environment, or that of one      *)
(* whose request was parsed before the program was forked.                 *)
THEOREM EnvAlwaysExplained == Spec => []EnvExplained
<1>1. IInv => EnvExplained
  BY DEF IInv, Parsed, Environment, LeftFor, EnvExplained, Started
<1> QED
  BY <1>1, HttpInvariance, PTL

(* Programs run one at a time and the server goes on without a zombie.     *)
THEOREM AlwaysOneByOne == Spec => []OneByOne
<1>1. ASSUME IInv PROVE OneByOne
  <2> DEFINE running == {b \in Browser : child[b] = "run"}
  <2>1. Cardinality(running) <= 1
    <3>1. CASE running = {}
      BY <3>1, FS_EmptySet
    <3>2. ASSUME NEW b \in running
          PROVE  Cardinality(running) <= 1
      <4>1. running = {b}
        BY <1>1, <3>2 DEF IInv, Children
      <4> QED
        BY <4>1, FS_Singleton
    <3> QED
      BY <3>1, <3>2
  <2> QED
    BY <1>1, <2>1 DEF IInv, Children, OneByOne
<1> QED
  BY <1>1, HttpInvariance, PTL
===============================================================================
