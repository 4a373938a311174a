----------------------------- MODULE MCSingleProc -----------------------------
(* Small instances of SingleProc: the lines the clients of each run type.  *)
EXTENDS SingleProc

CONSTANTS ann, nobody, empty, bin, opt

Seg(term) == [from |-> FALSE, to |-> FALSE, term |-> term, n |-> 0]
NumberSeg(k) == [Seg("number") EXCEPT !.n = k]

L(from, to, segs) == [from |-> from, to |-> to, seg |-> segs]

Send(u) == L(None, u, <<[Seg("end") EXCEPT !.to = TRUE]>>)      \* ls >u
Relay(u, v) ==                                                  \* cat <u >v
  L(u, v, <<[Seg("end") EXCEPT !.from = TRUE, !.to = TRUE]>>)
RecvPiped(u) ==                                                 \* cat <u | cat
  L(u, None, <<[Seg("pipe") EXCEPT !.from = TRUE], Seg("end")>>)
RecvFiled(u) ==                                                 \* cat <u > f
  L(u, None, <<[Seg("file") EXCEPT !.from = TRUE], Seg("end")>>)
Later(k) == L(None, None, <<NumberSeg(k), Seg("end")>>)         \* ls |k
PipedLater(k) ==                                                \* ls | cat |k
  L(None, None, <<Seg("pipe"), NumberSeg(k), Seg("end")>>)

(* User pipes between two clients.                                         *)
UserLines == {Send(1), Send(2), Relay(1, 2), RecvPiped(1)}

(* Numbered pipes of two clients, next to user pipes in both directions    *)
(* and a file.                                                             *)
NumberLines == {PipedLater(2), Later(1), Send(1), Send(2), RecvFiled(1)}
=============================================================================
