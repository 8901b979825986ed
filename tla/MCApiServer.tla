---------------------------- MODULE MCApiServer ----------------------------
(***************************************************************************)
(* Requests on both sides of each check: bodies of one byte less than the  *)
(* limit, at it and over it, in one chunk or in several, with and without  *)
(* a declared length, and requests that are refused before their body.     *)
(***************************************************************************)
EXTENDS ApiServer

Post(declared, chunks, key) ==
  [local |-> TRUE, route |-> "bootstrap", method |-> "POST", json |-> TRUE,
   declared |-> declared, chunks |-> chunks, key |-> key]

MCShapes ==
  LET good == Post(3, <<3>>, "k1") IN
  {good, Post(0, <<1, 2>>, "k2"), Post(0, <<2, 2>>, "k1"), Post(0, <<3, 2>>, "k1"),
   Post(5, <<5>>, "k1"), Post(1, <<1>>, NoKey),
   [good EXCEPT !.local = FALSE], [good EXCEPT !.route = "other"],
   [good EXCEPT !.method = "GET"], [good EXCEPT !.json = FALSE],
   [good EXCEPT !.route = "status", !.method = "GET", !.chunks = <<>>]}
=============================================================================
