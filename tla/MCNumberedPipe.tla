---------------------------- MODULE MCNumberedPipe ----------------------------
(* Small instances of NumberedPipe: the lines of each run.                 *)
EXTENDS NumberedPipe

Seg(term, n, prog) == [term |-> term, n |-> n, prog |-> prog]
Closing == Seg("end", 0, "quits")

Later(prog, k) == <<Seg("number", k, prog), Closing>>              \* ls |k
Single(prog) == <<Seg("end", 0, prog)>>                            \* cat
Piped(a, b) == <<Seg("pipe", 0, a), Seg("end", 0, b)>>             \* ls | cat
PipedLater(a, b, k) ==                                             \* ls | cat |k
  <<Seg("pipe", 0, a), Seg("number", k, b), Closing>>
Filed(prog) == <<Seg("file", 0, prog), Closing>>                   \* ls > f

(* Lines that pipe one and two lines ahead, to one target too, pipelines   *)
(* among them, readers of such pipes and a file.                           *)
RingLines == {Later("source", 1), PipedLater("source", "filter", 2),
              Single("filter"), Filed("filter")}

(* Writers that fill a pipe before its line comes, and readers that quit.  *)
WaitLines == {Later("source", 2), Single("filter"), Piped("source", "quits")}
=============================================================================
