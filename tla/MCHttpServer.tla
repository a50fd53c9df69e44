---------------------------- MODULE MCHttpServer ----------------------------
EXTENDS HttpServer, TLC

CONSTANTS a, b

Message(client, method, keepAlive, body, type, members) ==
  [client |-> client, method |-> method, keepAlive |-> keepAlive, body |-> body,
   type |-> type, members |-> members]

(* Requests of two clients: with all arguments, with some or none, kept    *)
(* alive or not, messages that fail at every stage of the parse, and one   *)
(* that aborts the process.                                                *)
MCMessages ==
  {Message(1, "post", TRUE, "strings", "queryQuestion", {"question"}),
   Message(2, "post", FALSE, "strings", "queryAnswer", {"answerIds"}),
   Message(2, "post", TRUE, "strings", "insertAnswer", {"questionId", "answer", "userId"}),
   Message(1, "post", TRUE, "strings", "insertAnswer", {"questionId", "userId"}),
   Message(2, "post", FALSE, "strings", "queryQuestion", {}),
   Message(2, "post", TRUE, "strings", "unknown", {"question"}),
   Message(1, "post", TRUE, "invalid", "unknown", {}),
   Message(1, "get", TRUE, "strings", "queryQuestion", {"question"}),
   Message(1, "get", FALSE, "invalid", "unknown", {}),
   Message(1, "post", TRUE, "noObject", "unknown", {}),
   Message(2, "other", TRUE, "strings", "queryAnswer", {"answerIds"}),
   Message(2, "malformed", TRUE, "strings", "queryQuestion", {"question"})}

Symmetry == Permutations(Threads)
=============================================================================
