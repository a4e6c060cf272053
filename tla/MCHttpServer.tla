---------------------------- MODULE MCHttpServer -----------------------------
(* One client that may send three requests of any of eight kinds.  Clients *)
(* meet only in the program that ends under all of them.                   *)
EXTENDS HttpServer

CONSTANT c1

Ask(method, target, keep) ==
  [method |-> method, target |-> target, keep |-> keep]

MCClient == {c1}
MCAsks ==
  [c \in MCClient |->
     {Ask("GET", "file", TRUE), Ask("GET", "file", FALSE),
      Ask("GET", "missing", TRUE), Ask("GET", "unopened", TRUE),
      Ask("GET", "illegal", TRUE), Ask("HEAD", "file", TRUE),
      Ask("POST", "file", TRUE), Ask("garbage", "file", TRUE)}]
MCMost == [c \in MCClient |-> 3]
=============================================================================
