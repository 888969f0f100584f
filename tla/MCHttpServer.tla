---------------------------- MODULE MCHttpServer ----------------------------
(* HttpServer on small instances.                                          *)
EXTENDS HttpServer

\* Everything is restricted, or nothing is.
OpenOrClosed ==
  { [password |-> TRUE, nocommands |-> TRUE, www |-> FALSE],
    [password |-> FALSE, nocommands |-> FALSE, www |-> TRUE] }
=============================================================================
