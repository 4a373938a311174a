----------------------------- MODULE HttpServer -----------------------------
(***************************************************************************)
(* http_server of np_project3: one thread runs the handlers of all         *)
(* connections.  A request's headers go into the environment of the server *)
(* process, and the CGI program forked some handlers later inherits them;  *)
(* the server waits for the program to end before it runs another handler. *)
(***************************************************************************)
EXTENDS Integers, FiniteSets

CONSTANTS
  Browser,     \* the connections, numbered from 1
  Requests     \* what the first read of each may get: [Browser -> Kinds]

(* A whole request for a program; one for "/"; one whose Host line has not *)
(* arrived, and one of which only the first line has; one without a second *)
(* word; and one whose name is "?" or whose Host is only blanks.           *)
Kinds == {"whole", "root", "nohost", "line", "bare", "null"}

ASSUME HttpAssumption ==
  /\ Browser \subseteq Nat \ {0} /\ IsFiniteSet(Browser)
  /\ Requests \subseteq [Browser -> Kinds]

Memory == Browser \cup {0}      \* whose strings; 0: nobody's, or any bytes

VARIABLES
  request,     \* what each browser sends
  peer,        \* "away", "here" (connected), "asked", "left" (closed) or "gone" (reset)
  srv,         \* "up", "wait" (in wait()) or "dead"
  sess,        \* a session: "none", "read", "send" (a handler is due) or "over"
  line, host,  \* whose request line and Host line its pointers lead to
  env,         \* whose request line and Host line the environment holds
  child,       \* its CGI program: "none", "run", "zombie" or "reaped"
  childEnv,    \* the environment the program was started with
  pending,     \* a SIGCHLD has not been handled yet
  passed       \* who was parsed since this session was, and before its fork

net == <<request, peer>>
parsed == <<line, host, env, passed>>
cgi == <<child, childEnv, pending>>
vars == <<net, srv, sess, parsed, cgi>>

NoEnv == [line |-> 0, host |-> 0]

Init ==
  /\ request \in Requests
  /\ peer = [b \in Browser |-> "away"] /\ srv = "up"
  /\ sess = [b \in Browser |-> "none"]
  /\ line = [b \in Browser |-> 0] /\ host = [b \in Browser |-> 0]
  /\ env = NoEnv /\ childEnv = [b \in Browser |-> NoEnv]
  /\ child = [b \in Browser |-> "none"] /\ pending = FALSE
  /\ passed = [b \in Browser |-> {}]

-----------------------------------------------------------------------------
(* The browsers: they connect, ask, and may reset the connection.          *)

Moves(b, from, to) ==
  /\ peer[b] = from /\ srv # "dead"
  /\ peer' = [peer EXCEPT ![b] = to]
  /\ UNCHANGED <<request, srv, sess, parsed, cgi>>

Connects(b) == Moves(b, "away", "here")
Asks(b)     == Moves(b, "here", "asked")
Leaves(b)   == Moves(b, "here", "left")
Resets(b)   == sess[b] # "over" /\ (Moves(b, "here", "gone") \/ Moves(b, "asked", "gone"))

-----------------------------------------------------------------------------
(* The handlers.                                                           *)

Over(b) == sess' = [sess EXCEPT ![b] = "over"]
Dies == srv' = "dead"

(* Fault: the next accept is not asked for.                                *)
accept_once(b) ==
  /\ srv = "up" /\ sess[b] = "none" /\ peer[b] # "away"
  /\ \A c \in Browser : sess[c] = "none"
  /\ IF peer[b] = "gone"
     THEN Dies /\ UNCHANGED sess
     ELSE sess' = [sess EXCEPT ![b] = "read"] /\ UNCHANGED srv
  /\ UNCHANGED <<net, parsed, cgi>>

(* start_service asks for the peer's address, which throws if the peer is  *)
(* gone; nothing catches it.                                               *)
do_accept(b) ==
  /\ srv = "up" /\ sess[b] = "none" /\ peer[b] # "away"
  /\ IF peer[b] = "gone"
     THEN Dies /\ UNCHANGED sess
     ELSE sess' = [sess EXCEPT ![b] = "read"] /\ UNCHANGED srv
  /\ UNCHANGED <<net, parsed, cgi>>

(* What a pointer that was never set leads to: any bytes, or a string of a *)
(* session that is over and whose memory this one has.                     *)
Unset(pointer) == {0} \cup {pointer[c] : c \in {d \in Browser : sess[d] = "over"}}

(* The last line that has arrived is dropped, and a pointer that no line   *)
(* sets keeps what the memory held.  Without a second word the name is cut *)
(* from whatever query_string leads to, and is no request line's.          *)
parse_http_header(b) ==
  /\ request[b] # "null"
  /\ \E l \in (CASE request[b] = "line" -> Unset(line) [] request[b] = "bare" -> {0}
               [] OTHER -> {b}) :
       line' = [line EXCEPT ![b] = l]
  /\ \E h \in (IF request[b] \in {"line", "nohost"} THEN Unset(host) ELSE {b}) :
       host' = [host EXCEPT ![b] = h]

(* Fault: what is set already stays.                                       *)
set_env_once(b) ==
  env' = IF env = NoEnv THEN [line |-> line'[b], host |-> host'[b]] ELSE env

set_env_var(b) == env' = [line |-> line'[b], host |-> host'[b]]

(* A pointer that is null, or was never set, is read.                      *)
Unready(b) == request[b] \in {"line", "nohost", "bare", "null"}

ReadFails(b) ==
  /\ srv = "up" /\ sess[b] = "read" /\ peer[b] \in {"left", "gone"}
  /\ Over(b)
  /\ UNCHANGED <<net, srv, parsed, cgi>>

get_http_data(b) ==
  /\ srv = "up" /\ sess[b] = "read" /\ peer[b] = "asked"
  /\ \/ /\ parse_http_header(b) /\ set_env_var(b)
        /\ passed' = [c \in Browser |-> IF sess[c] = "send" THEN passed[c] \cup {b}
                                        ELSE passed[c]]
        /\ sess' = [sess EXCEPT ![b] = "send"] /\ UNCHANGED srv
     \/ Unready(b) /\ Dies /\ UNCHANGED <<sess, parsed>>
  /\ UNCHANGED <<net, cgi>>

(* The status has been sent.  Without a name after "/" the path is built   *)
(* from a null pointer, as it may be from what is no request line; without *)
(* a process the server exits.                                             *)
do_service(b) ==
  /\ srv = "up" /\ sess[b] = "send"
  /\ \/ peer[b] = "gone" /\ Over(b) /\ UNCHANGED <<srv, child, childEnv>>
     \/ /\ line[b] # 0 => request[line[b]] # "root"
        /\ Over(b)
        /\ child' = [child EXCEPT ![b] = "run"]
        /\ childEnv' = [childEnv EXCEPT ![b] = env]
        /\ srv' = "wait"
     \/ Dies /\ UNCHANGED <<sess, child, childEnv>>
  /\ UNCHANGED <<net, parsed, pending>>

(* Fault: the server does not wait (WNOHANG).                              *)
WaitNoHang ==
  /\ srv = "wait"
  /\ child' = [b \in Browser |-> IF child[b] = "zombie" THEN "reaped" ELSE child[b]]
  /\ srv' = "up"
  /\ UNCHANGED <<net, sess, parsed, childEnv, pending>>

(* wait: the child is dead, or the signal's handler has taken it already.  *)
WaitReturns ==
  /\ srv = "wait" /\ \A b \in Browser : child[b] # "run"
  /\ child' = [b \in Browser |-> IF child[b] = "zombie" THEN "reaped" ELSE child[b]]
  /\ srv' = "up"
  /\ UNCHANGED <<net, sess, parsed, childEnv, pending>>

sigchld_handler ==
  /\ pending /\ srv # "dead"
  /\ pending' = FALSE
  /\ child' = [b \in Browser |-> IF child[b] = "zombie" THEN "reaped" ELSE child[b]]
  /\ UNCHANGED <<net, srv, sess, parsed, childEnv>>

(* A program that runs to its end; nothing makes it.                       *)
CgiEnds(b) ==
  /\ child[b] = "run"
  /\ child' = [child EXCEPT ![b] = "zombie"] /\ pending' = TRUE
  /\ UNCHANGED <<net, srv, sess, parsed, childEnv>>

-----------------------------------------------------------------------------
Handler(b) == do_accept(b) \/ ReadFails(b) \/ get_http_data(b) \/ do_service(b)

Next ==
  \/ WaitReturns \/ sigchld_handler
  \/ \E b \in Browser : Connects(b) \/ Asks(b) \/ Leaves(b) \/ Resets(b)
                       \/ Handler(b) \/ CgiEnds(b)

Fairness ==
  /\ WF_vars(WaitReturns) /\ WF_vars(sigchld_handler)
  /\ \A b \in Browser : WF_vars(Handler(b))

Spec == Init /\ [][Next]_vars /\ Fairness

-----------------------------------------------------------------------------
TypeOK ==
  /\ request \in Requests
  /\ peer \in [Browser -> {"away", "here", "asked", "left", "gone"}]
  /\ srv \in {"up", "wait", "dead"}
  /\ sess \in [Browser -> {"none", "read", "send", "over"}]
  /\ line \in [Browser -> Memory] /\ host \in [Browser -> Memory]
  /\ env \in [line : Memory, host : Memory]
  /\ child \in [Browser -> {"none", "run", "zombie", "reaped"}]
  /\ childEnv \in [Browser -> [line : Memory, host : Memory]]
  /\ pending \in BOOLEAN
  /\ passed \in [Browser -> SUBSET Browser]

(* A program gets the environment of its own request unless another        *)
(* request was parsed between its request and its fork; then it gets one   *)
(* of those, and runs under a query that is not its own.                   *)
Started(b) == child[b] # "none"
EnvExplained ==
  \A b \in Browser : Started(b) /\ request[b] = "whole" =>
    /\ line[b] = b
    /\ \/ childEnv[b] = [line |-> b, host |-> b] /\ passed[b] = {}
       \/ \E c \in passed[b] : childEnv[b] = [line |-> line[c], host |-> host[c]]

(* One program at a time, and no zombie is left when the server goes on,   *)
(* whichever of wait and the signal's handler gets the child.              *)
OneByOne ==
  /\ Cardinality({b \in Browser : child[b] = "run"}) <= 1
  /\ srv = "up" => \A b \in Browser : child[b] \in {"none", "reaped"}

(* Whoever asks and stays is answered by a program, unless the server dies *)
(* or a program that does not end keeps it in wait for ever.               *)
Answered ==
  \/ \A b \in Browser :
       (peer[b] = "asked") ~> (Started(b) \/ peer[b] = "gone" \/ srv = "dead")
  \/ <>[](srv = "wait" /\ \E b \in Browser : child[b] = "run")
==============================================================================
