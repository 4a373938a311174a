-------------------------- MODULE MCCombinedServer --------------------------
(* Small instances of CombinedServer: what three browsers ask for.         *)
EXTENDS CombinedServer

Req(cgi, form) == [cgi |-> cgi, form |-> form]
Blank == [i \in Slot |-> "empty"]
Console(form) == Req("console", form)

(* Three console requests whose forms overlap; one among others; and one   *)
(* whose memory a malformed request gets, before another form.             *)
Asked ==
  {<<Console(<<"full", "empty">>), Console(f), Console(g)>> :
     f \in {<<"empty", "full">>, <<"host", "full">>, Blank}, g \in {<<"full", "host">>}}
  \cup {<<Console(<<"empty", "full">>), Req(k, Blank), Req("panel", Blank)>> :
          k \in {"other"} \cup Malformed}
  \cup {<<Console(<<"full", "empty">>), Req("line", Blank), Console(<<"host", "full">>)>>}
==============================================================================
