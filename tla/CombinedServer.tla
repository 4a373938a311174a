--------------------------- MODULE CombinedServer ---------------------------
(***************************************************************************)
(* main.cpp of np_project3: HTTP server, panel and console in one process  *)
(* with one thread.  A console request fills a global table of servers and *)
(* runs a second event loop inside the handler of the first, until its     *)
(* sessions have ended.  A session is seen here from the HTTP server: it   *)
(* shows output on the page until its connection ends; what it reads and   *)
(* sends is the subject of Console.                                        *)
(***************************************************************************)
EXTENDS Integers, Sequences, FiniteSets

CONSTANTS
  Browser,      \* the connections, numbered from 1
  SERVER_SIZE,  \* sessions the form has room for
  Requests      \* what each browser asks for (see RequestShape)

Slot == 1 .. SERVER_SIZE

(* A slot of the form: filled in, with a host but no port, or empty.       *)
Fill == {"full", "host", "empty"}

(* panel.cgi, console.cgi with a form, another name; only a first line;    *)
(* one without a second word; and a name of "?" or a Host of blanks.       *)
Malformed == {"line", "bare", "null"}
RequestShape == [cgi : {"panel", "console", "other"} \cup Malformed, form : [Slot -> Fill]]

ASSUME CombinedAssumption ==
  /\ Browser \subseteq Nat \ {0} /\ IsFiniteSet(Browser)
  /\ SERVER_SIZE \in Nat
  /\ Requests \subseteq [Browser -> RequestShape]

VARIABLES
  request,    \* what each browser sends
  peer,       \* "away", "here" (connected), "asked" or "gone"
  srv,        \* "up", "run" (in the inner loop) or "dead"
  sess,       \* a session: "none", "read", "send" (a handler is due) or "over"
  line,       \* whose request line its pointers lead to (0: nobody's)
  cut,        \* the browsers whose query parse_query has cut up
  enable,     \* server[i]: the slots that are enabled,
  host, port, \* whose host, and whose port and file, it names (0: nobody's)
  index,      \* and its column
  cur,        \* the browser the inner loop runs for
  client,     \* a server session: "off", "resolve", "connect", "read", "ended"
  stopped,    \* io_service_for_client has run out of work
  page,       \* the columns of each browser's page: slot, host and port
  shown,      \* what has been shown there: <<column, slot>>
  answer      \* what each browser has got: "none", "panel" or "console"

net == <<request, peer>>
strings == <<line, cut>>
table == <<enable, host, port, index>>
inner == <<cur, client, stopped>>
pages == <<page, shown, answer>>
vars == <<net, srv, sess, strings, table, inner, pages>>

Init ==
  /\ request \in Requests
  /\ peer = [b \in Browser |-> "away"] /\ srv = "up"
  /\ sess = [b \in Browser |-> "none"]
  /\ line = [b \in Browser |-> 0] /\ cut = {}
  /\ enable = {} /\ host = [i \in Slot |-> 0] /\ port = [i \in Slot |-> 0]
  /\ index = [i \in Slot |-> 0]
  /\ cur = 0 /\ client = [i \in Slot |-> "off"] /\ stopped = FALSE
  /\ page = [b \in Browser |-> <<>>] /\ shown = [b \in Browser |-> {}]
  /\ answer = [b \in Browser |-> "none"]

-----------------------------------------------------------------------------
Moves(b, from, to) ==
  /\ peer[b] = from /\ srv # "dead"
  /\ peer' = [peer EXCEPT ![b] = to]
  /\ UNCHANGED <<request, srv, sess, strings, table, inner, pages>>

Connects(b) == Moves(b, "away", "here")
Asks(b)     == Moves(b, "here", "asked")
Leaves(b)   == sess[b] # "over" /\ (Moves(b, "here", "gone") \/ Moves(b, "asked", "gone"))

-----------------------------------------------------------------------------
(* The handlers of the outer loop.                                         *)

Over(b) == sess' = [sess EXCEPT ![b] = "over"]

(* Fault: the next accept is not asked for.                                *)
accept_once(b) ==
  /\ srv = "up" /\ sess[b] = "none" /\ peer[b] # "away"
  /\ \A c \in Browser : sess[c] = "none"
  /\ sess' = [sess EXCEPT ![b] = "read"]
  /\ UNCHANGED <<net, srv, strings, table, inner, pages>>

(* start_service asks nothing of the connection here.                      *)
do_accept(b) ==
  /\ srv = "up" /\ sess[b] = "none" /\ peer[b] # "away"
  /\ sess' = [sess EXCEPT ![b] = "read"]
  /\ UNCHANGED <<net, srv, strings, table, inner, pages>>

(* A pointer that no line sets keeps what the memory held: any bytes, or   *)
(* the strings of a session that is over and whose memory this one has.    *)
(* Without a second word the name is cut from what query_string leads to.  *)
parse_http_header(b) ==
  \E c \in (CASE request[b].cgi = "line" -> {0} \cup {line[d] : d \in {e \in Browser : sess[e] = "over"}}
            [] request[b].cgi = "bare" -> {0}
            [] request[b].cgi = "null" -> {}
            [] OTHER -> {b}) :
    line' = [line EXCEPT ![b] = c]

(* The process ends where a null or unset pointer is read.                 *)
get_http_data(b) ==
  /\ srv = "up" /\ sess[b] = "read" /\ peer[b] \in {"asked", "gone"}
  /\ \/ peer[b] = "gone" /\ Over(b) /\ UNCHANGED <<srv, line>>
     \/ peer[b] = "asked" /\ parse_http_header(b) /\ sess' = [sess EXCEPT ![b] = "send"]
        /\ UNCHANGED srv
     \/ peer[b] = "asked" /\ request[b].cgi \in {"bare", "null"} /\ srv' = "dead"
        /\ UNCHANGED <<sess, line>>
  /\ UNCHANGED <<net, cut, table, inner, pages>>

(* What the name says that a session's pointer leads to.                   *)
cgi_name(b) == IF line[b] = 0 THEN "other" ELSE request[line[b]].cgi

(* The status has been sent: panel.cgi gets the form, another name nothing.*)
send_cgi_web(b) ==
  /\ srv = "up" /\ sess[b] = "send" /\ cgi_name(b) # "console"
  /\ \/ answer' = [answer EXCEPT ![b] = IF cgi_name(b) = "panel" THEN "panel" ELSE @]
        /\ Over(b) /\ UNCHANGED srv
     \/ request[b].cgi = "line" /\ line[b] = 0 /\ srv' = "dead" /\ UNCHANGED <<sess, answer>>
  /\ UNCHANGED <<net, strings, table, inner, page, shown>>

SendFails(b) ==
  /\ srv = "up" /\ sess[b] = "send" /\ peer[b] = "gone"
  /\ Over(b)
  /\ UNCHANGED <<net, srv, strings, table, inner, pages>>

(* strtok_s puts a null behind the first item of the query it is given: if *)
(* the same string is parsed again, only the first host is left of it.     *)
query(c) ==
  IF c \notin cut THEN request[c].form
  ELSE [i \in Slot |-> IF i = 1 /\ request[c].form[1] # "empty" THEN "host" ELSE "empty"]

(* sscanf stores the items it finds; a slot that was enabled stays so.     *)
parse_query(b) ==
  LET c == line[b]
      form == query(c) IN
  /\ enable' = enable \cup {i \in Slot : form[i] = "full"}
  /\ host' = [i \in Slot |-> IF form[i] # "empty" THEN c ELSE host[i]]
  /\ port' = [i \in Slot |-> IF form[i] = "full" THEN c ELSE port[i]]
  /\ cut' = cut \cup {c}

(* The columns of the page, in the order of the form.                      *)
Ascending(s) == \A j, k \in DOMAIN s : j < k => s[j] < s[k]
print_html_web(b) ==
  LET columns == CHOOSE s \in [1 .. Cardinality(enable') -> enable'] : Ascending(s)
  IN page' = [page EXCEPT ![b] = [k \in DOMAIN columns |->
        [slot |-> columns[k], host |-> host'[columns[k]], port |-> port'[columns[k]]]]]

(* Fault: the columns are numbered by the slots.                           *)
column_by_slot(i) == i

(* The position of a slot among those that are enabled.                    *)
column(i) == Cardinality({j \in enable' : j <= i})

(* A loop that has run out of work once is never reset: run() returns at   *)
(* once, and the sessions go as they have come.  Without sessions it runs  *)
(* out of work there and then.                                             *)
do_service(b) ==
  /\ srv = "up" /\ sess[b] = "send" /\ cgi_name(b) = "console"
  /\ parse_query(b) /\ print_html_web(b)
  /\ index' = [i \in Slot |-> IF i \in enable' THEN column(i) ELSE index[i]]
  /\ answer' = [answer EXCEPT ![b] = "console"]
  /\ IF stopped \/ enable' = {}
     THEN Over(b) /\ stopped' = TRUE /\ UNCHANGED <<srv, cur, client>>
     ELSE /\ srv' = "run" /\ cur' = b
          /\ client' = [i \in Slot |-> IF i \in enable' THEN "resolve" ELSE "off"]
          /\ UNCHANGED <<sess, stopped>>
  /\ UNCHANGED <<net, line, shown>>

-----------------------------------------------------------------------------
(* The handlers of the inner loop, while the outer one waits.              *)

Turns(i, from, to) ==
  /\ srv = "run" /\ client[i] = from
  /\ client' = [client EXCEPT ![i] = to]
  /\ UNCHANGED <<net, srv, sess, strings, table, cur, stopped, page, answer>>

do_resolve(i) == (Turns(i, "resolve", "connect") \/ Turns(i, "resolve", "ended"))
                 /\ UNCHANGED shown
do_connect(i) == (Turns(i, "connect", "read") \/ Turns(i, "connect", "ended"))
                 /\ UNCHANGED shown

(* A chunk is shown in the session's column; at the end of the connection, *)
(* or an error, the session ends.                                          *)
output_shell(i) == shown' = [shown EXCEPT ![cur] = @ \cup {<<index[i], i>>}]
do_read(i) == Turns(i, "read", "read") /\ output_shell(i)
ReadEnds(i) == Turns(i, "read", "ended") /\ UNCHANGED shown

(* run() returns: no session is left, and the loop is stopped.             *)
RunReturns ==
  /\ srv = "run" /\ \A i \in Slot : client[i] \in {"off", "ended"}
  /\ srv' = "up" /\ Over(cur) /\ cur' = 0
  /\ client' = [i \in Slot |-> "off"] /\ stopped' = TRUE
  /\ UNCHANGED <<net, strings, table, pages>>

-----------------------------------------------------------------------------
Outer(b) == do_accept(b) \/ get_http_data(b) \/ send_cgi_web(b) \/ SendFails(b)
            \/ do_service(b)
Inner(i) == do_resolve(i) \/ do_connect(i)

Next ==
  \/ RunReturns
  \/ \E b \in Browser : Connects(b) \/ Asks(b) \/ Leaves(b) \/ Outer(b)
  \/ \E i \in Slot : Inner(i) \/ do_read(i) \/ ReadEnds(i)

(* Names are resolved and connections made or refused; nothing makes a     *)
(* connection end.                                                         *)
Fairness ==
  /\ WF_vars(RunReturns)
  /\ \A b \in Browser : WF_vars(Outer(b))
  /\ \A i \in Slot : WF_vars(Inner(i))

Spec == Init /\ [][Next]_vars /\ Fairness

-----------------------------------------------------------------------------
Column == [slot : Slot, host : Browser, port : Browser]

TypeOK ==
  /\ request \in Requests
  /\ peer \in [Browser -> {"away", "here", "asked", "gone"}]
  /\ srv \in {"up", "run", "dead"}
  /\ sess \in [Browser -> {"none", "read", "send", "over"}]
  /\ line \in [Browser -> Browser \cup {0}] /\ cut \in SUBSET Browser
  /\ enable \in SUBSET Slot
  /\ host \in [Slot -> Browser \cup {0}] /\ port \in [Slot -> Browser \cup {0}]
  /\ index \in [Slot -> 0 .. SERVER_SIZE]
  /\ cur \in Browser \cup {0}
  /\ client \in [Slot -> {"off", "resolve", "connect", "read", "ended"}]
  /\ stopped \in BOOLEAN
  /\ page \in [Browser -> Seq(Column)]
  /\ shown \in [Browser -> SUBSET ((0 .. SERVER_SIZE) \X Slot)]
  /\ answer \in [Browser -> {"none", "panel", "console"}]

Full(b) == {i \in Slot : request[b].form[i] = "full"}
Slots(b) == {page[b][k].slot : k \in DOMAIN page[b]}

(* Although the table of servers outlives its form and the page, the       *)
(* parser and the sessions number the columns each for themselves: a form  *)
(* gets a column for each slot it fills in, with its own server in the     *)
(* heading; and what is shown in a column, whoever's page it is on, comes  *)
(* from the slot in its heading (parse_query, print_html_web, do_service). *)
PageExplained ==
  \A b \in Browser :
    /\ answer[b] = "console" /\ line[b] = b =>
         /\ Full(b) \subseteq Slots(b)
         /\ \A c \in DOMAIN page[b] :
              page[b][c].slot \in Full(b) => page[b][c].host = b /\ page[b][c].port = b
    /\ \A s \in shown[b] : s[1] \in DOMAIN page[b] /\ page[b][s[1]].slot = s[2]

(* Who asks for the panel or a console and stays gets it, unless the       *)
(* server dies or a session that never ends keeps everyone else waiting.   *)
Answered ==
  \/ \A b \in Browser :
       (peer[b] = "asked" /\ request[b].cgi \in {"panel", "console"})
         ~> (answer[b] = request[b].cgi \/ peer[b] = "gone" \/ srv = "dead")
  \/ <>[](\E i \in Slot : client[i] = "read")
==============================================================================
