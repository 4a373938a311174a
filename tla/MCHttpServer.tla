---------------------------- MODULE MCHttpServer ----------------------------
(* Small instances of HttpServer: what three browsers ask for.             *)
EXTENDS HttpServer

(* Whole requests beside one of another kind: the browsers are alike.      *)
Asked == {[b \in Browser |-> IF b = 1 THEN k ELSE "whole"] : k \in Kinds}
==============================================================================
