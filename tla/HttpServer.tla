----------------------------- MODULE HttpServer -----------------------------
(***************************************************************************)
(* HttpServer::onMessageCallBack: a message is parsed, carried out and     *)
(* answered on the io thread of its connection.  All io threads parse into *)
(* the one HttpRequest and answer from the one HttpResponse the server     *)
(* owns, without a lock.                                                   *)
(*                                                                         *)
(* A step reads or writes the shared objects once: the fields that one     *)
(* format function sets, or one test.  What the server does to its tables  *)
(* is in QuestionStore; here a response says which arguments it was made   *)
(* from.  An assertion of rapidjson that fails ends the process.           *)
(***************************************************************************)
EXTENDS Naturals, Sequences, FiniteSets

CONSTANTS
  Threads,          \* io threads
  Messages,         \* what clients send, see MessageType
  MaxMessages       \* bound: messages received

(* Names a JSON object may have, and the argument every typeId asks for.   *)
Members == {"question", "answerIds", "commentIds", "userId", "questionId", "answer",
            "answerId", "comment", "username", "password", "nickname", "fansIds"}

Types == {"queryQuestion", "queryAnswer", "queryComment", "queryUser", "insertQuestion",
          "insertAnswer", "insertComment", "insertUser", "checkUser", "loginUser",
          "searchUser", "queryFans", "queryNoAdoptedQuestion"}

Required == [type \in Types |->
  CASE type = "queryQuestion" -> {"question"}
    [] type = "queryAnswer" -> {"answerIds"}
    [] type = "queryComment" -> {"commentIds"}
    [] type = "queryUser" -> {"userId"}
    [] type = "insertQuestion" -> {"question", "userId"}
    [] type = "insertAnswer" -> {"questionId", "answer", "userId"}
    [] type = "insertComment" -> {"answerId", "comment", "userId"}
    [] type \in {"insertUser", "loginUser"} -> {"username", "password"}
    [] type = "checkUser" -> {"username"}
    [] type = "searchUser" -> {"nickname"}
    [] type = "queryFans" -> {"fansIds"}
    [] type = "queryNoAdoptedQuestion" -> {}]

(* The request line is of a method, or is not one; the body is an object   *)
(* of strings with a typeId, another JSON value than an object, or neither.*)
MessageType ==
  [client : Nat, method : {"get", "post", "other", "malformed"}, keepAlive : BOOLEAN,
   body : {"strings", "noObject", "invalid"}, type : Types \cup {"unknown"},
   members : SUBSET Members]

ASSUME HttpAssumption ==
  /\ Messages \subseteq MessageType /\ Messages # {}
  /\ MaxMessages \in Nat

VARIABLES
  request,          \* HttpRequest::Impl
  code,             \* HttpResponse::Impl::code_
  running,          \* the process has not aborted
  pc,               \* where every io thread is in onMessageCallBack
  message,          \* header: the message every thread handles
  arguments,        \* argumentsMap
  sent,             \* history: responses sent for that message
  shut,             \* history: shutdownWrite was called after it
  alone,            \* history: threads whose message no other one overlapped
  received          \* counts against MaxMessages

vars == <<request, code, running, pc, message, arguments, sent, shut, alone, received>>

NoArguments == [client |-> 0, names |-> {}]

Cleared ==
  [method |-> "none", type |-> "unknown", arguments |-> NoArguments,
   keepAlive |-> FALSE, valid |-> TRUE]

Goto(t, from, to) ==
  /\ pc[t] = from
  /\ pc' = [pc EXCEPT ![t] = to]

-----------------------------------------------------------------------------
(* parseHeader.                                                            *)

Busy == {t \in Threads : pc[t] # "idle"}

(* handleRead passes on what is in the buffer.                             *)
OnMessage(t) ==
  /\ received < MaxMessages
  /\ received' = received + 1
  /\ Goto(t, "idle", "clear")
  /\ \E m \in Messages : message' = [message EXCEPT ![t] = m]
  /\ sent' = [sent EXCEPT ![t] = << >>]
  /\ shut' = [shut EXCEPT ![t] = FALSE]
  /\ alone' = IF Busy = {} THEN alone \cup {t} ELSE alone \ (Busy \cup {t})
  /\ UNCHANGED <<request, code, arguments>>

(* Fault: arguments_ is not cleared.                                       *)
AfterClear_KeepsArguments(old) == [Cleared EXCEPT !.arguments = old.arguments]

(* Fault: connection_ is not cleared.                                      *)
AfterClear_KeepsConnection(old) == [Cleared EXCEPT !.keepAlive = old.keepAlive]

AfterClear(old) == Cleared

Clear(t) ==
  /\ Goto(t, "clear", "method")
  /\ request' = AfterClear(request)
  /\ UNCHANGED <<code, message, arguments, sent, shut, alone, received>>

Format(t, from, to, new) ==
  /\ Goto(t, from, to)
  /\ request' = new
  /\ UNCHANGED <<code, message, arguments, sent, shut, alone, received>>

(* Every format function is followed by a test of requestValid_, which     *)
(* ends the parse.  After the last one it ends anyway.                     *)
TestValid(t) ==
  /\ \/ Goto(t, "testMethod", IF request.valid THEN "connection" ELSE "dispatch")
     \/ Goto(t, "testConnection", IF request.valid THEN "argument" ELSE "dispatch")
  /\ UNCHANGED <<request, code, message, arguments, sent, shut, alone, received>>

(* formatMethod and formatVersion: PUT and DELETE are methods, too.        *)
FormatMethod(t) ==
  LET m == message[t].method IN
  Format(t, "method", "testMethod",
         IF m = "malformed" THEN [request EXCEPT !.valid = FALSE]
         ELSE [request EXCEPT !.method = m])

FormatConnection(t) ==
  Format(t, "connection", "testConnection",
         IF message[t].keepAlive THEN [request EXCEPT !.keepAlive = TRUE] ELSE request)

(* The type is set in any case, the arguments only if none is missing.     *)
FormatArgument(t) ==
  LET m == message[t] IN
  /\ m.body # "noObject"
  /\ Format(t, "argument", "dispatch",
       IF m.body = "invalid" THEN [request EXCEPT !.valid = FALSE]
       ELSE IF m.type \in Types /\ Required[m.type] \subseteq m.members
       THEN [request EXCEPT !.type = m.type,
                            !.arguments = [client |-> m.client, names |-> Required[m.type]]]
       ELSE [request EXCEPT !.type = m.type])

(* HasMember asserts that the document is an object; if it is not, no      *)
(* thread goes on.                                                         *)
AssertionFails(t) ==
  /\ pc[t] = "argument"
  /\ message[t].body = "noObject"
  /\ running' = FALSE
  /\ UNCHANGED <<request, code, pc, message, arguments, sent, shut, alone, received>>

-----------------------------------------------------------------------------
(* The rest of onMessageCallBack.                                          *)

IsGetMethod == request.method = "get" /\ request.valid
IsPostMethod == request.method = "post" /\ request.valid

Dispatch(t) ==
  /\ Goto(t, "dispatch",
          IF IsGetMethod THEN "get" ELSE IF IsPostMethod THEN "post" ELSE "error")
  /\ UNCHANGED <<request, code, message, arguments, sent, shut, alone, received>>

(* handlePostMethod starts with a copy of the arguments ...                *)
GetArguments(t) ==
  /\ Goto(t, "post", "type")
  /\ arguments' = [arguments EXCEPT ![t] = request.arguments]
  /\ UNCHANGED <<request, code, message, sent, shut, alone, received>>

(* One of isQueryQuestion, isQueryAnswer and so on holds.                  *)
IsKnownType == request.type \in Types

(* ... and goes by the type.                                               *)
TestType(t) ==
  /\ Goto(t, "type", IF IsKnownType THEN "carryOut" ELSE "typeError")
  /\ UNCHANGED <<request, code, message, arguments, sent, shut, alone, received>>

(* setCode, in all handlers.                                               *)
SetCode(t) ==
  \/ /\ Goto(t, "carryOut", "respond")
     /\ code' = 200
     /\ UNCHANGED <<request, message, arguments, sent, shut, alone, received>>
  \/ /\ Goto(t, "get", "respond")
     /\ code' = 200
     /\ arguments' = [arguments EXCEPT ![t] = NoArguments]
     /\ UNCHANGED <<request, message, sent, shut, alone, received>>
  \/ /\ Goto(t, "error", "errorRespond") \/ Goto(t, "typeError", "typeErrorRespond")
     /\ code' = 404
     /\ arguments' = [arguments EXCEPT ![t] = NoArguments]
     /\ UNCHANGED <<request, message, sent, shut, alone, received>>

(* Fault: handlePostMethod goes on after handleErrorMethod.                *)
AfterResponse_NoReturn(from) == IF from = "typeErrorRespond" THEN "respond" ELSE "close"

AfterResponse(from) == "close"

(* generateResponse and send.                                              *)
Respond(t) ==
  /\ \E from \in {"respond", "errorRespond", "typeErrorRespond"} :
       Goto(t, from, AfterResponse(from))
  /\ sent' = [sent EXCEPT ![t] = Append(@, [code |-> code, arguments |-> arguments[t]])]
  /\ UNCHANGED <<request, code, message, arguments, shut, alone, received>>

(* The connection stays open only for a valid request that asks for it.    *)
Close(t) ==
  /\ Goto(t, "close", "idle")
  /\ shut' = [shut EXCEPT ![t] = ~request.keepAlive \/ ~request.valid]
  /\ UNCHANGED <<request, code, message, arguments, sent, alone, received>>

Init ==
  /\ request = Cleared
  /\ code = 200
  /\ running = TRUE
  /\ pc = [t \in Threads |-> "idle"]
  /\ message \in [Threads -> {CHOOSE m \in Messages : TRUE}]
  /\ arguments = [t \in Threads |-> NoArguments]
  /\ sent = [t \in Threads |-> << >>]
  /\ shut = [t \in Threads |-> FALSE]
  /\ alone = {}
  /\ received = 0

Next ==
  /\ running
  /\ \E t \in Threads :
       \/ /\ \/ OnMessage(t) \/ Clear(t)
             \/ FormatMethod(t) \/ FormatConnection(t) \/ FormatArgument(t) \/ TestValid(t)
             \/ Dispatch(t) \/ GetArguments(t) \/ TestType(t)
             \/ SetCode(t) \/ Respond(t) \/ Close(t)
          /\ UNCHANGED running
       \/ AssertionFails(t)

Spec == Init /\ [][Next]_vars

-----------------------------------------------------------------------------
(* What a message calls for, by itself.                                    *)

Valid(m) == m.method # "malformed" /\ m.body = "strings"
Served(m) == Valid(m) /\ (m.method = "get" \/ (m.method = "post" /\ m.type \in Types))

Expected(m) ==
  [code |-> IF Served(m) THEN 200 ELSE 404,
   arguments |->
     IF Served(m) /\ m.method = "post" /\ Required[m.type] \subseteq m.members
     THEN [client |-> m.client, names |-> Required[m.type]] ELSE NoArguments]

Done(t) == pc[t] = "idle" /\ received > 0 /\ sent[t] # << >>

(* The type invariant.                                                     *)
TypeOK ==
  /\ request \in [method : {"none", "get", "post", "other"}, type : Types \cup {"unknown"},
                  arguments : [client : Nat, names : SUBSET Members],
                  keepAlive : BOOLEAN, valid : BOOLEAN]
  /\ code \in {200, 404}
  /\ running \in BOOLEAN
  /\ message \in [Threads -> Messages]
  /\ \A t \in Threads : Len(sent[t]) <= 1
  /\ arguments \in [Threads -> [client : Nat, names : SUBSET Members]]
  /\ shut \in [Threads -> BOOLEAN]
  /\ alone \subseteq Threads
  /\ received \in 0..MaxMessages

(* A message is answered once, also when other threads change the request  *)
(* in the middle, and never after an assertion failed for it.              *)
AnsweredOnce ==
  \A t \in Threads :
    Len(sent[t]) = IF pc[t] = "close" \/ Done(t) THEN 1 ELSE 0

(* A response is the one its own message calls for.                        *)
AnsweredAsAsked ==
  \A t \in Threads : \A i \in DOMAIN sent[t] : sent[t][i] = Expected(message[t])

(* A message that no other one overlapped is answered from its own         *)
(* arguments only, whatever the messages before it, and the threads that   *)
(* parsed them at the same time, left in the shared request.               *)
AnsweredAsAskedAlone ==
  \A t \in alone : \A i \in DOMAIN sent[t] : sent[t][i] = Expected(message[t])

(* The write side is shut after such a message exactly if it is not valid  *)
(* or does not ask to be kept alive.                                       *)
ShutAsAskedAlone ==
  \A t \in alone :
    Done(t) => shut[t] = (~Valid(message[t]) \/ ~message[t].keepAlive)

=============================================================================
