-------------------------- MODULE HttpServerProofs --------------------------
(***************************************************************************)
(* Proofs about HttpServer, for any io threads, messages and bound: every  *)
(* message is answered once, and one that no other overlapped is answered  *)
(* and closed as it asks for, whatever the messages before it left behind; *)
(* both unless an assertion of rapidjson ends the process before.          *)
(***************************************************************************)
EXTENDS HttpServer, SequenceTheorems, TLAPS

Arguments == [client : Nat, names : SUBSET Members]
Responses == [code : {200, 404}, arguments : Arguments]
Parsing == {"clear", "method", "testMethod", "connection", "testConnection", "argument"}
Responding == {"respond", "errorRespond", "typeErrorRespond"}
Parsed == {"dispatch", "get", "post", "type", "carryOut", "error", "typeError", "close"}
             \cup Responding

(* Where the threads are, and how often they answered.                     *)
CountInv ==
  /\ pc \in [Threads -> {"idle"} \cup Parsing \cup Parsed]
  /\ sent \in [Threads -> Seq(Responses)]
  /\ \A t \in Threads :
       /\ pc[t] # "idle" \/ sent[t] # << >> => received > 0
       /\ pc[t] = "close" => Len(sent[t]) = 1
       /\ pc[t] \notin {"idle", "close"} => sent[t] = << >>

(* A message no other one overlapped has the shared objects to itself.     *)
AloneInv ==
  \A t \in alone : pc[t] # "idle" => \A u \in Threads \ {t} : pc[u] = "idle"

ArgumentsOf(m) ==
  IF m.type \in Types /\ Required[m.type] \subseteq m.members
  THEN [client |-> m.client, names |-> Required[m.type]] ELSE NoArguments

(* What parseHeader leaves of a message.                                   *)
ParsedAs(m) ==
  /\ request.valid = Valid(m)
  /\ Valid(m) => /\ request.method = m.method /\ request.keepAlive = m.keepAlive
                 /\ request.type = m.type /\ request.arguments = ArgumentsOf(m)

(* What it makes of the request line and of the headers.                   *)
Begun(method, keepAlive) ==
  [method |-> method, type |-> "unknown", arguments |-> NoArguments,
   keepAlive |-> keepAlive, valid |-> TRUE]

(* How far the shared objects are with the message of a thread.            *)
ParseInv(t) ==
  LET m == message[t] IN
  /\ pc[t] = "method" => request = Cleared
  /\ pc[t] = "testMethod" =>
       IF m.method = "malformed" THEN ~request.valid ELSE request = Begun(m.method, FALSE)
  /\ pc[t] = "connection" =>
       m.method # "malformed" /\ request = Begun(m.method, FALSE)
  /\ pc[t] \in {"testConnection", "argument"} =>
       /\ m.method # "malformed"
       /\ request = Begun(m.method, m.keepAlive)
  /\ pc[t] \in Parsed => ParsedAs(m)

HandleInv(t) ==
  LET m == message[t] IN
  /\ pc[t] = "get" => Valid(m) /\ m.method = "get"
  /\ pc[t] \in {"post", "type", "carryOut"} => Valid(m) /\ m.method = "post"
  /\ pc[t] \in {"type", "carryOut"} => arguments[t] = ArgumentsOf(m)
  /\ pc[t] = "carryOut" => m.type \in Types
  /\ pc[t] \in {"error", "typeError"} => ~Served(m)
  /\ pc[t] \in Responding =>
       code = Expected(m).code /\ arguments[t] = Expected(m).arguments

AnswerInv(t) ==
  LET m == message[t] IN
  /\ \A i \in DOMAIN sent[t] : sent[t][i] = Expected(m)
  /\ pc[t] = "idle" /\ sent[t] # << >> => shut[t] = (~Valid(m) \/ ~m.keepAlive)

AsAskedInv == \A t \in alone : ParseInv(t) /\ HandleInv(t) /\ AnswerInv(t)

IInv == TypeOK /\ CountInv /\ AloneInv /\ AsAskedInv

(* A step of one thread.                                                   *)
Step(t) ==
  \/ OnMessage(t) \/ Clear(t)
  \/ FormatMethod(t) \/ FormatConnection(t) \/ FormatArgument(t) \/ TestValid(t)
  \/ Dispatch(t) \/ GetArguments(t) \/ TestType(t)
  \/ SetCode(t) \/ Respond(t) \/ Close(t)

USE HttpAssumption DEF HttpAssumption

-----------------------------------------------------------------------------
LEMMA RequiredType == \A type \in Types : Required[type] \subseteq Members
BY DEF Types, Required, Members

LEMMA OneOrNone ==
  ASSUME NEW S, NEW s \in Seq(S), Len(s) <= 1
  PROVE  (s # << >> /\ Len(s) = 1) \/ (s = << >> /\ Len(s) = 0)
<1>1. Len(s) \in Nat
  BY LenProperties
<1>2. Len(s) = 0 \/ Len(s) = 1
  <2>1. \A n \in Nat : n <= 1 => n = 0 \/ n = 1
    OBVIOUS
  <2> QED
    BY <1>1, <2>1
<1>3. s = << >> <=> Len(s) = 0
  BY EmptySeq
<1> QED
  BY <1>2, <1>3

LEMMA InitInv == Init => IInv
<1> SUFFICES ASSUME Init PROVE IInv
  OBVIOUS
<1>1. TypeOK
  <2>1. (CHOOSE m \in Messages : TRUE) \in Messages
    OBVIOUS
  <2>2. message \in [Threads -> Messages]
    BY <2>1 DEF Init
  <2>3. Cleared \in [method : {"none", "get", "post", "other"}, type : Types \cup {"unknown"},
                  arguments : [client : Nat, names : SUBSET Members],
                  keepAlive : BOOLEAN, valid : BOOLEAN]
    BY DEF Cleared, NoArguments
  <2>4. NoArguments \in [client : Nat, names : SUBSET Members]
    BY DEF NoArguments
  <2> QED
    BY <2>2, <2>3, <2>4 DEF Init, TypeOK
<1>2. CountInv
  BY DEF Init, CountInv, Parsing, Parsed
<1>3. AloneInv /\ AsAskedInv
  BY DEF Init, AloneInv, AsAskedInv
<1> QED
  BY <1>1, <1>2, <1>3 DEF IInv

-----------------------------------------------------------------------------
(* Steps go on from one place of onMessageCallBack to another, and only    *)
(* Respond answers.                                                        *)
LEMMA CountStep ==
  ASSUME TypeOK, CountInv, NEW t \in Threads, Step(t)
  PROVE  CountInv'
<1> USE DEF CountInv, Parsing, Parsed, Responding, Goto
<1>1. CASE OnMessage(t)
  <2>1. received' > 0
    BY <1>1 DEF OnMessage, TypeOK
  <2>2. pc' = [pc EXCEPT ![t] = "clear"] /\ sent' = [sent EXCEPT ![t] = << >>]
    BY <1>1 DEF OnMessage
  <2> QED
    BY <2>1, <2>2
<1>2. CASE Respond(t)
  <2>1. code \in {200, 404} /\ arguments[t] \in Arguments
    BY DEF TypeOK, Arguments
  <2>2. [code |-> code, arguments |-> arguments[t]] \in Responses
    BY <2>1 DEF Responses
  <2>3. pc' = [pc EXCEPT ![t] = "close"] /\ pc[t] \notin {"idle", "close"}
    BY <1>2 DEF Respond, AfterResponse
  <2>4. sent' = [sent EXCEPT ![t] = <<[code |-> code, arguments |-> arguments[t]]>>]
    <3>1. sent[t] = << >>
      BY <2>3
    <3>2. Append(sent[t], [code |-> code, arguments |-> arguments[t]])
            = <<[code |-> code, arguments |-> arguments[t]]>>
      BY <2>2, <3>1
    <3> QED
      BY <1>2, <3>2 DEF Respond
  <2>5. received' = received
    BY <1>2 DEF Respond
  <2> QED
    BY <2>2, <2>3, <2>4, <2>5
<1>3. CASE Clear(t) \/ FormatMethod(t) \/ FormatConnection(t) \/ FormatArgument(t)
  BY <1>3 DEF Clear, FormatMethod, FormatConnection, FormatArgument, Format
<1>4. CASE TestValid(t) \/ Dispatch(t) \/ GetArguments(t) \/ TestType(t)
  BY <1>4 DEF TestValid, Dispatch, GetArguments, TestType
<1>5. CASE SetCode(t)
  <2>1. PICK to \in Responding : pc' = [pc EXCEPT ![t] = to]
    BY <1>5 DEF SetCode
  <2>2. pc[t] \notin {"idle", "close"} /\ sent' = sent /\ received' = received
    BY <1>5 DEF SetCode
  <2> QED
    BY <2>1, <2>2
<1>6. CASE Close(t)
  BY <1>6 DEF Close
<1> QED
  BY <1>1, <1>2, <1>3, <1>4, <1>5, <1>6 DEF Step

Requests ==
  [method : {"none", "get", "post", "other"}, type : Types \cup {"unknown"},
   arguments : Arguments, keepAlive : BOOLEAN, valid : BOOLEAN]

(* What the format functions write is a request.                           *)
LEMMA RequestStep ==
  ASSUME request \in Requests, message \in [Threads -> Messages],
         NEW t \in Threads, Step(t)
  PROVE  request' \in Requests
<1> DEFINE m == message[t]
<1>1. m \in MessageType
  OBVIOUS
<1>2. m.method \in {"get", "post", "other", "malformed"} /\ m.type \in Types \cup {"unknown"}
      /\ m.client \in Nat /\ m.keepAlive \in BOOLEAN
  BY <1>1 DEF MessageType
<1>3. CASE Clear(t)
  BY <1>3 DEF Clear, AfterClear, Cleared, NoArguments, Requests, Arguments
<1>4. CASE FormatMethod(t)
  BY <1>2, <1>4 DEF FormatMethod, Format, Requests
<1>5. CASE FormatConnection(t)
  BY <1>5 DEF FormatConnection, Format, Requests
<1>6. CASE FormatArgument(t)
  <2>1. CASE m.type \in Types /\ Required[m.type] \subseteq m.members
    <3>1. [client |-> m.client, names |-> Required[m.type]] \in Arguments
      BY <1>2, <2>1, RequiredType DEF Arguments
    <3> QED
      BY <1>2, <1>6, <2>1, <3>1 DEF FormatArgument, Format, Requests
  <2>2. CASE ~(m.type \in Types /\ Required[m.type] \subseteq m.members)
    BY <1>2, <1>6, <2>2 DEF FormatArgument, Format, Requests
  <2> QED
    BY <2>1, <2>2
<1>7. CASE UNCHANGED request
  BY <1>7
<1> QED
  BY <1>3, <1>4, <1>5, <1>6, <1>7
  DEF Step, OnMessage, TestValid, Dispatch, GetArguments, TestType, SetCode, Respond, Close

(* What a step does to the variables of its thread and of the others.      *)
LEMMA Frame ==
  ASSUME TypeOK, CountInv, NEW t \in Threads, Step(t)
  PROVE  /\ \A u \in Threads \ {t} :
              /\ pc'[u] = pc[u] /\ message'[u] = message[u]
              /\ arguments'[u] = arguments[u]
              /\ sent'[u] = sent[u] /\ shut'[u] = shut[u]
         /\ pc'[t] = "idle" => pc[t] = "close" /\ sent'[t] = sent[t]
         /\ message' \in [Threads -> Messages]
         /\ arguments' \in [Threads -> Arguments]
         /\ shut' \in [Threads -> BOOLEAN]
<1> USE DEF Goto
<1>1. /\ message \in [Threads -> Messages] /\ shut \in [Threads -> BOOLEAN]
      /\ arguments \in [Threads -> Arguments] /\ sent \in [Threads -> Seq(Responses)]
      /\ request.arguments \in Arguments /\ NoArguments \in Arguments
      /\ pc \in [Threads -> {"idle"} \cup Parsing \cup Parsed]
  BY DEF TypeOK, CountInv, Arguments, NoArguments
<1>2. CASE OnMessage(t)
  BY <1>1, <1>2 DEF OnMessage
<1>3. CASE Clear(t)
  BY <1>1, <1>3 DEF Clear
<1>4. CASE FormatMethod(t) \/ FormatConnection(t) \/ FormatArgument(t)
  BY <1>1, <1>4 DEF FormatMethod, FormatConnection, FormatArgument, Format
<1>5. CASE TestValid(t) \/ Dispatch(t) \/ TestType(t)
  BY <1>1, <1>5 DEF TestValid, Dispatch, TestType
<1>6. CASE GetArguments(t)
  BY <1>1, <1>6 DEF GetArguments
<1>7. CASE SetCode(t)
  <2>1. PICK to \in Responding : pc' = [pc EXCEPT ![t] = to]
    BY <1>7 DEF SetCode, Responding
  <2>2. /\ message' = message /\ sent' = sent /\ shut' = shut
        /\ arguments' \in {arguments, [arguments EXCEPT ![t] = NoArguments]}
    BY <1>7 DEF SetCode
  <2> QED
    BY <1>1, <2>1, <2>2 DEF Responding
<1>8. CASE Respond(t)
  <2>1. pc' = [pc EXCEPT ![t] = "close"]
    BY <1>8 DEF Respond, AfterResponse
  <2>2. \A u \in Threads \ {t} : sent'[u] = sent[u]
    BY <1>1, <1>8 DEF Respond
  <2>3. UNCHANGED <<message, arguments, shut>>
    BY <1>8 DEF Respond
  <2> QED
    BY <1>1, <2>1, <2>2, <2>3
<1>9. CASE Close(t)
  BY <1>1, <1>9 DEF Close
<1> QED
  BY <1>2, <1>3, <1>4, <1>5, <1>6, <1>7, <1>8, <1>9 DEF Step

LEMMA TypeStep ==
  ASSUME TypeOK, CountInv, NEW t \in Threads, Step(t), running' = running
  PROVE  TypeOK'
<1>1. CountInv'
  BY CountStep
<1>2. request' \in Requests
  BY RequestStep DEF TypeOK, Requests, Arguments
<1>3. code' \in {200, 404}
  BY DEF TypeOK, Step, OnMessage, Clear, FormatMethod, FormatConnection, FormatArgument,
         Format, TestValid, Dispatch, GetArguments, TestType, SetCode, Respond, Close
<1>4. \A u \in Threads : Len(sent'[u]) <= 1
  <2> TAKE u \in Threads
  <2>1. CASE pc'[u] = "idle"
    <3>1. sent'[u] = sent[u]
      BY <2>1, Frame
    <3>2. Len(sent[u]) <= 1
      BY DEF TypeOK
    <3> QED
      BY <3>1, <3>2
  <2>2. CASE pc'[u] = "close"
    <3>1. Len(sent'[u]) = 1
      BY <1>1, <2>2 DEF CountInv
    <3> QED
      BY <3>1
  <2>3. CASE pc'[u] \notin {"idle", "close"}
    <3>1. sent'[u] = << >>
      BY <1>1, <2>3 DEF CountInv
    <3> QED
      BY <3>1
  <2> QED
    BY <2>1, <2>2, <2>3
<1>5. /\ message' \in [Threads -> Messages] /\ arguments' \in [Threads -> Arguments]
      /\ shut' \in [Threads -> BOOLEAN]
  BY Frame
<1>8. running' \in BOOLEAN
  BY DEF TypeOK
<1>6. alone' \subseteq Threads
  BY DEF TypeOK, Step, OnMessage, Clear, FormatMethod, FormatConnection, FormatArgument,
         Format, TestValid, Dispatch, GetArguments, TestType, SetCode, Respond, Close
<1>7. received' \in 0..MaxMessages
  BY DEF TypeOK, Step, OnMessage, Clear, FormatMethod, FormatConnection, FormatArgument,
         Format, TestValid, Dispatch, GetArguments, TestType, SetCode, Respond, Close
<1> QED
  BY <1>2, <1>3, <1>4, <1>5, <1>6, <1>7, <1>8 DEF TypeOK, Requests, Arguments

-----------------------------------------------------------------------------
(* While a message no other one overlaps is handled, the other threads are *)
(* idle.                                                                   *)
LEMMA OthersIdle ==
  ASSUME TypeOK, CountInv, AloneInv, NEW t \in Threads, Step(t)
  PROVE  /\ t \in alone' => \A u \in Threads \ {t} : pc[u] = "idle"
         /\ \A u \in alone' \ {t} : u \in alone /\ pc[u] = "idle"
<1>1. CASE OnMessage(t)
  BY <1>1 DEF OnMessage, Busy, TypeOK
<1>2. CASE ~OnMessage(t)
  <2>1. alone' = alone /\ pc[t] # "idle"
    BY <1>2 DEF Step, Clear, FormatMethod, FormatConnection, FormatArgument, Format,
                TestValid, Dispatch, GetArguments, TestType, SetCode, Respond, Close, Goto
  <2> QED
    BY <2>1 DEF AloneInv, TypeOK
<1> QED
  BY <1>1, <1>2

LEMMA AloneStep ==
  ASSUME TypeOK, CountInv, AloneInv, NEW t \in Threads, Step(t)
  PROVE  AloneInv'
<1> SUFFICES ASSUME NEW u \in alone', pc'[u] # "idle", NEW v \in Threads \ {u}
             PROVE  pc'[v] = "idle"
  BY DEF AloneInv
<1>1. CASE u = t
  BY <1>1, Frame, OthersIdle
<1>2. CASE u # t
  <2>1. u \in alone /\ pc[u] = "idle" /\ u \in Threads
    BY <1>2, OthersIdle DEF TypeOK
  <2>2. pc'[u] = "idle"
    BY <1>2, <2>1, Frame
  <2> QED
    BY <2>2
<1> QED
  BY <1>1, <1>2

-----------------------------------------------------------------------------
(* The thread that takes the step, if no message overlapped its own: the   *)
(* parse, ...                                                              *)
LEMMA ParseStep ==
  ASSUME TypeOK, CountInv, AsAskedInv, NEW t \in Threads, Step(t), t \in alone'
  PROVE  ParseInv(t)'
<1> DEFINE m == message[t]
<1>1. m \in MessageType
  BY DEF TypeOK
<1>2. /\ m.method \in {"get", "post", "other", "malformed"} /\ m.type \in Types \cup {"unknown"}
      /\ m.keepAlive \in BOOLEAN /\ m.body \in {"strings", "noObject", "invalid"}
  BY <1>1 DEF MessageType
<1>3. /\ pc \in [Threads -> {"idle"} \cup Parsing \cup Parsed]
      /\ request.valid \in BOOLEAN
  BY DEF CountInv, TypeOK
<1>4. CASE OnMessage(t)
  BY <1>3, <1>4 DEF OnMessage, Goto, ParseInv, Parsed, Responding
<1>5. CASE ~OnMessage(t)
  <2>1. alone' = alone /\ message' = message
    BY <1>5 DEF Step, Clear, FormatMethod, FormatConnection, FormatArgument, Format,
                TestValid, Dispatch, GetArguments, TestType, SetCode, Respond, Close
  <2>2. ParseInv(t)
    BY <2>1 DEF AsAskedInv
  <2>3. CASE Clear(t)
    BY <1>3, <2>3 DEF Clear, AfterClear, Goto, ParseInv, Parsed, Responding
  <2>4. CASE FormatMethod(t)
    <3>1. request = Cleared
      BY <2>2, <2>4 DEF FormatMethod, Format, Goto, ParseInv
    <3>4. pc' = [pc EXCEPT ![t] = "testMethod"]
      BY <2>4 DEF FormatMethod, Format, Goto
    <3>2. CASE m.method = "malformed"
      <4>1. ~request'.valid
        BY <2>4, <3>1, <3>2 DEF FormatMethod, Format, Cleared
      <4> QED
        BY <1>3, <2>1, <3>2, <3>4, <4>1 DEF ParseInv, Parsed, Responding
    <3>3. CASE m.method # "malformed"
      <4>1. request' = Begun(m.method, FALSE)
        BY <2>4, <3>1, <3>3 DEF FormatMethod, Format, Cleared, Begun
      <4> QED
        BY <1>3, <2>1, <3>3, <3>4, <4>1 DEF ParseInv, Parsed, Responding
    <3> QED
      BY <3>2, <3>3
  <2>5. CASE FormatConnection(t)
    <3>1. m.method # "malformed" /\ request = Begun(m.method, FALSE)
      BY <2>2, <2>5 DEF FormatConnection, Format, Goto, ParseInv
    <3>2. request' = Begun(m.method, m.keepAlive)
      <4>1. CASE m.keepAlive
        BY <1>2, <2>5, <3>1, <4>1 DEF FormatConnection, Format, Begun
      <4>2. CASE ~m.keepAlive
        <5>1. request' = request /\ m.keepAlive = FALSE
          BY <1>2, <2>5, <4>2 DEF FormatConnection, Format
        <5> QED
          BY <3>1, <5>1
      <4> QED
        BY <4>1, <4>2
    <3>3. pc' = [pc EXCEPT ![t] = "testConnection"]
      BY <2>5 DEF FormatConnection, Format, Goto
    <3> QED
      BY <1>3, <2>1, <3>1, <3>2, <3>3 DEF ParseInv, Parsed, Responding
  <2>6. CASE FormatArgument(t)
    <3>1. /\ m.method # "malformed"
          /\ request = Begun(m.method, m.keepAlive)
      BY <2>2, <2>6 DEF FormatArgument, Format, Goto, ParseInv
    <3>2. pc' = [pc EXCEPT ![t] = "dispatch"]
      BY <2>6 DEF FormatArgument, Format, Goto
    <3>3. ParsedAs(m)'
      BY <1>2, <2>1, <2>6, <3>1
      DEF FormatArgument, Format, ParsedAs, Valid, ArgumentsOf, Begun
    <3> QED
      BY <1>3, <2>1, <3>2, <3>3 DEF ParseInv
  <2>8. CASE TestValid(t)
    <3>1. request' = request
      BY <2>8 DEF TestValid
    <3>2. CASE pc[t] = "testMethod"
      <4>1. pc' = [pc EXCEPT ![t] = IF request.valid THEN "connection" ELSE "dispatch"]
        BY <2>8, <3>2 DEF TestValid, Goto
      <4>2. IF m.method = "malformed" THEN ~request.valid ELSE request = Begun(m.method, FALSE)
        BY <2>2, <3>2 DEF ParseInv
      <4>3. CASE m.method = "malformed"
        <5>1. pc'[t] = "dispatch" /\ ParsedAs(m)'
          BY <1>3, <2>1, <3>1, <4>1, <4>2, <4>3 DEF ParsedAs, Valid
        <5> QED
          BY <2>1, <5>1 DEF ParseInv
      <4>4. CASE m.method # "malformed"
        <5>1. pc'[t] = "connection" /\ request' = Begun(m.method, FALSE)
          BY <1>3, <3>1, <4>1, <4>2, <4>4 DEF Begun
        <5> QED
          BY <2>1, <4>4, <5>1 DEF ParseInv, Parsed, Responding
      <4> QED
        BY <4>3, <4>4
    <3>3. CASE pc[t] = "testConnection"
      <4>1. pc' = [pc EXCEPT ![t] = IF request.valid THEN "argument" ELSE "dispatch"]
        BY <2>8, <3>3 DEF TestValid, Goto
      <4>2. m.method # "malformed" /\ request = Begun(m.method, m.keepAlive)
        BY <2>2, <3>3 DEF ParseInv
      <4>3. pc'[t] = "argument"
        BY <1>3, <4>1, <4>2 DEF Begun
      <4> QED
        BY <2>1, <3>1, <4>2, <4>3 DEF ParseInv, Parsed, Responding
    <3> QED
      BY <2>8, <3>2, <3>3 DEF TestValid, Goto
  <2>7. CASE Dispatch(t) \/ GetArguments(t) \/ TestType(t) \/ SetCode(t) \/ Respond(t) \/ Close(t)
    <3>1. request' = request /\ pc[t] \in Parsed
      BY <2>7 DEF Dispatch, GetArguments, TestType, SetCode, Respond, Close, Goto, Parsed,
                  Responding
    <3>2. pc'[t] \in {"idle"} \cup Parsed
      BY <1>3, <2>7 DEF Dispatch, GetArguments, TestType, SetCode, Respond, AfterResponse,
                        Close, Goto, Parsed, Responding
    <3>3. ParsedAs(m)'
      BY <2>1, <2>2, <3>1 DEF ParseInv, ParsedAs
    <3> QED
      BY <2>1, <3>2, <3>3 DEF ParseInv, Parsed, Responding
  <2> QED
    BY <1>5, <2>3, <2>4, <2>5, <2>6, <2>7, <2>8 DEF Step
<1> QED
  BY <1>4, <1>5

(* ... the handler, ...                                                    *)
LEMMA HandleStep ==
  ASSUME TypeOK, CountInv, AsAskedInv, NEW t \in Threads, Step(t), t \in alone'
  PROVE  HandleInv(t)'
<1> DEFINE m == message[t]
<1>1. /\ pc \in [Threads -> {"idle"} \cup Parsing \cup Parsed]
      /\ arguments \in [Threads -> Arguments]
  BY DEF CountInv, TypeOK, Arguments
<1>2. CASE OnMessage(t)
  BY <1>1, <1>2 DEF OnMessage, Goto, HandleInv, Responding
<1>3. CASE ~OnMessage(t)
  <2>1. alone' = alone /\ message' = message
    BY <1>3 DEF Step, Clear, FormatMethod, FormatConnection, FormatArgument, Format,
                TestValid, Dispatch, GetArguments, TestType, SetCode, Respond, Close
  <2>2. ParseInv(t) /\ HandleInv(t)
    BY <2>1 DEF AsAskedInv
  <2>3. CASE \/ Clear(t) \/ TestValid(t)
             \/ FormatMethod(t) \/ FormatConnection(t) \/ FormatArgument(t)
    <3>1. pc'[t] \in {"method", "testMethod", "connection", "testConnection", "argument",
                      "dispatch"}
      BY <1>1, <2>3
      DEF Clear, TestValid, FormatMethod, FormatConnection, FormatArgument, Format, Goto
    <3> QED
      BY <3>1 DEF HandleInv, Responding
  <2>4. CASE Dispatch(t)
    <3>1. /\ pc' = [pc EXCEPT ![t] = IF IsGetMethod THEN "get"
                                     ELSE IF IsPostMethod THEN "post" ELSE "error"]
          /\ ParsedAs(m)
      BY <2>2, <2>4 DEF Dispatch, Goto, ParseInv, Parsed
    <3> QED
      BY <1>1, <2>1, <3>1
      DEF HandleInv, ParsedAs, IsGetMethod, IsPostMethod, Served, Responding
  <2>5. CASE GetArguments(t)
    <3>1. /\ pc' = [pc EXCEPT ![t] = "type"] /\ ParsedAs(m)
          /\ Valid(m) /\ m.method = "post"
          /\ arguments' = [arguments EXCEPT ![t] = request.arguments]
      BY <2>2, <2>5 DEF GetArguments, Goto, ParseInv, HandleInv, Parsed
    <3> QED
      BY <1>1, <2>1, <3>1 DEF HandleInv, ParsedAs, Responding
  <2>6. CASE TestType(t)
    <3>1. /\ pc' = [pc EXCEPT ![t] = IF IsKnownType THEN "carryOut" ELSE "typeError"]
          /\ ParsedAs(m) /\ Valid(m) /\ m.method = "post" /\ arguments[t] = ArgumentsOf(m)
          /\ arguments' = arguments
      BY <2>2, <2>6 DEF TestType, Goto, ParseInv, HandleInv, Parsed
    <3> QED
      BY <1>1, <2>1, <3>1 DEF HandleInv, ParsedAs, IsKnownType, Served, Responding
  <2>7. CASE SetCode(t)
    <3>1. CASE pc[t] = "carryOut"
      <4>1. /\ pc' = [pc EXCEPT ![t] = "respond"] /\ code' = 200 /\ arguments' = arguments
            /\ Served(m) /\ m.method = "post" /\ m.type \in Types
            /\ arguments[t] = ArgumentsOf(m)
        BY <2>2, <2>7, <3>1 DEF SetCode, Goto, HandleInv, Served
      <4> QED
        BY <1>1, <2>1, <4>1 DEF HandleInv, Expected, ArgumentsOf, Responding
    <3>2. CASE pc[t] = "get"
      <4>1. /\ pc' = [pc EXCEPT ![t] = "respond"] /\ code' = 200
            /\ arguments' = [arguments EXCEPT ![t] = NoArguments]
            /\ Served(m) /\ m.method = "get"
        BY <2>2, <2>7, <3>2 DEF SetCode, Goto, HandleInv, Served
      <4> QED
        BY <1>1, <2>1, <4>1 DEF HandleInv, Expected, Responding
    <3>3. CASE pc[t] \in {"error", "typeError"}
      <4>1. PICK to \in {"errorRespond", "typeErrorRespond"} : pc' = [pc EXCEPT ![t] = to]
        BY <2>7, <3>3 DEF SetCode, Goto
      <4>2. /\ code' = 404 /\ ~Served(m)
            /\ arguments' = [arguments EXCEPT ![t] = NoArguments]
        BY <2>2, <2>7, <3>3 DEF SetCode, Goto, HandleInv
      <4> QED
        BY <1>1, <2>1, <4>1, <4>2 DEF HandleInv, Expected, Responding
    <3> QED
      BY <2>7, <3>1, <3>2, <3>3 DEF SetCode, Goto
  <2>8. CASE Respond(t) \/ Close(t)
    <3>1. pc'[t] \in {"close", "idle"}
      BY <1>1, <2>8 DEF Respond, Close, AfterResponse, Goto
    <3> QED
      BY <3>1 DEF HandleInv, Responding
  <2> QED
    BY <1>3, <2>3, <2>4, <2>5, <2>6, <2>7, <2>8 DEF Step
<1> QED
  BY <1>2, <1>3

(* ... and the answer.                                                     *)
LEMMA AnswerStep ==
  ASSUME TypeOK, CountInv, AsAskedInv, NEW t \in Threads, Step(t), t \in alone'
  PROVE  AnswerInv(t)'
<1> DEFINE m == message[t]
<1>1. /\ pc \in [Threads -> {"idle"} \cup Parsing \cup Parsed]
      /\ sent \in [Threads -> Seq(Responses)] /\ shut \in [Threads -> BOOLEAN]
  BY DEF CountInv, TypeOK
<1>2. CASE OnMessage(t)
  BY <1>1, <1>2 DEF OnMessage, Goto, AnswerInv
<1>3. CASE ~OnMessage(t)
  <2>1. alone' = alone /\ message' = message
    BY <1>3 DEF Step, Clear, FormatMethod, FormatConnection, FormatArgument, Format,
                TestValid, Dispatch, GetArguments, TestType, SetCode, Respond, Close
  <2>2. ParseInv(t) /\ HandleInv(t) /\ AnswerInv(t)
    BY <2>1 DEF AsAskedInv
  <2>3. CASE Respond(t)
    <3>1. /\ pc[t] \in Responding /\ pc'[t] = "close"
          /\ sent' = [sent EXCEPT ![t] = Append(@, [code |-> code, arguments |-> arguments[t]])]
      BY <1>1, <2>3 DEF Respond, AfterResponse, Goto, Responding
    <3>2. [code |-> code, arguments |-> arguments[t]] = Expected(m)
      BY <2>2, <3>1 DEF HandleInv, Expected
    <3>3. sent[t] = << >>
      BY <3>1 DEF CountInv, Responding
    <3>4. sent'[t] = <<Expected(m)>>
      BY <1>1, <3>1, <3>2, <3>3
    <3>5. \A i \in DOMAIN sent'[t] : sent'[t][i] = Expected(m)
      BY <3>4
    <3> QED
      BY <2>1, <3>1, <3>5 DEF AnswerInv
  <2>4. CASE Close(t)
    <3>1. /\ sent' = sent
          /\ shut' = [shut EXCEPT ![t] = ~request.keepAlive \/ ~request.valid]
      BY <2>4 DEF Close
    <3>2. ParsedAs(m)
      BY <2>2, <2>4 DEF Close, Goto, ParseInv, Parsed
    <3>3. (~request.keepAlive \/ ~request.valid) = (~Valid(m) \/ ~m.keepAlive)
      <4>1. CASE Valid(m)
        BY <3>2, <4>1 DEF ParsedAs
      <4>2. CASE ~Valid(m)
        BY <3>2, <4>2 DEF ParsedAs
      <4> QED
        BY <4>1, <4>2
    <3> QED
      BY <1>1, <2>1, <2>2, <3>1, <3>3 DEF AnswerInv
  <2>5. CASE ~Respond(t) /\ ~Close(t)
    <3>1. sent' = sent /\ pc'[t] # "idle"
      BY <1>1, <1>3, <2>5
      DEF Step, Clear, FormatMethod, FormatConnection, FormatArgument, Format,
          TestValid, Dispatch, GetArguments, TestType, SetCode, Goto
    <3> QED
      BY <2>1, <2>2, <3>1 DEF AnswerInv
  <2> QED
    BY <2>3, <2>4, <2>5
<1> QED
  BY <1>2, <1>3

LEMMA AsAskedStep ==
  ASSUME TypeOK, CountInv, AloneInv, AsAskedInv, NEW t \in Threads, Step(t), running' = running
  PROVE  AsAskedInv'
<1> SUFFICES ASSUME NEW u \in alone' PROVE (ParseInv(u) /\ HandleInv(u) /\ AnswerInv(u))'
  BY DEF AsAskedInv
<1>1. CASE u = t
  BY <1>1, ParseStep, HandleStep, AnswerStep
<1>2. CASE u # t
  <2>1. u \in Threads \ {t} /\ u \in alone /\ pc[u] = "idle"
    BY <1>2, TypeStep, OthersIdle DEF TypeOK
  <2>2. /\ pc'[u] = "idle" /\ message'[u] = message[u]
        /\ sent'[u] = sent[u] /\ shut'[u] = shut[u]
    BY <2>1, Frame
  <2>3. AnswerInv(u)
    BY <2>1 DEF AsAskedInv
  <2> QED
    BY <2>1, <2>2, <2>3 DEF ParseInv, HandleInv, AnswerInv, Parsed, Responding
<1> QED
  BY <1>1, <1>2

LEMMA NextInv == IInv /\ [Next]_vars => IInv'
<1> SUFFICES ASSUME IInv, [Next]_vars PROVE IInv'
  OBVIOUS
<1> USE DEF IInv
<1>1. ASSUME NEW t \in Threads, Step(t), running' = running PROVE IInv'
  BY <1>1, TypeStep, CountStep, AloneStep, AsAskedStep
<1>2. CASE /\ running' = running \/ running' = FALSE
           /\ UNCHANGED <<request, code, pc, message, arguments, sent, shut, alone, received>>
  <2>1. TypeOK'
    <3>1. running' \in BOOLEAN
      BY <1>2 DEF TypeOK
    <3> QED
      BY <1>2, <3>1 DEF TypeOK
  <2>2. CountInv' /\ AloneInv'
    BY <1>2 DEF CountInv, AloneInv
  <2>3. AsAskedInv'
    BY <1>2, ZenonT(40) DEF AsAskedInv, ParseInv, HandleInv, AnswerInv, ParsedAs
  <2> QED
    BY <2>1, <2>2, <2>3
<1>3. ASSUME NEW t \in Threads, AssertionFails(t) PROVE IInv'
  BY <1>2, <1>3 DEF AssertionFails
<1>4. CASE UNCHANGED vars
  BY <1>2, <1>4 DEF vars
<1> QED
  BY <1>1, <1>3, <1>4 DEF Next, Step

-----------------------------------------------------------------------------
(* The shared objects, the arguments and the histories have their types.   *)
THEOREM TypeCorrect == Spec => []TypeOK
<1>1. IInv => TypeOK
  BY DEF IInv
<1> QED
  BY <1>1, InitInv, NextInv, PTL DEF Spec

(* A message is answered once, whatever the other threads do to the        *)
(* request and the response the server has only one of; the one for which  *)
(* an assertion ends the process is not answered.                          *)
THEOREM AnsweredOnceHolds == Spec => []AnsweredOnce
<1>1. IInv => AnsweredOnce
  <2> SUFFICES ASSUME IInv, NEW t \in Threads
               PROVE  Len(sent[t]) = IF pc[t] = "close" \/ Done(t) THEN 1 ELSE 0
    BY DEF AnsweredOnce
  <2>1. sent[t] \in Seq(Responses) /\ Len(sent[t]) <= 1
    BY DEF IInv, TypeOK, CountInv
  <2>2. \/ sent[t] # << >> /\ Len(sent[t]) = 1
        \/ sent[t] = << >> /\ Len(sent[t]) = 0
    BY <2>1, OneOrNone
  <2>3. /\ sent[t] # << >> => received > 0 /\ (pc[t] = "idle" \/ pc[t] = "close")
        /\ pc[t] = "close" => sent[t] # << >>
    <3>1. /\ pc[t] # "idle" \/ sent[t] # << >> => received > 0
          /\ pc[t] = "close" => Len(sent[t]) = 1
          /\ pc[t] \notin {"idle", "close"} => sent[t] = << >>
      BY DEF IInv, CountInv
    <3> QED
      BY <2>2, <3>1
  <2> QED
    BY <2>2, <2>3 DEF Done
<1> QED
  BY <1>1, InitInv, NextInv, PTL DEF Spec

(* A message no other one overlapped is answered from its own arguments,   *)
(* whatever the requests before it left in the shared objects.             *)
THEOREM AnsweredAsAskedAloneHolds == Spec => []AnsweredAsAskedAlone
<1>1. IInv => AnsweredAsAskedAlone
  BY DEF IInv, AsAskedInv, AnswerInv, AnsweredAsAskedAlone
<1> QED
  BY <1>1, InitInv, NextInv, PTL DEF Spec

(* The write side is shut after such a message exactly if it is not valid  *)
(* or does not ask to be kept alive.                                       *)
THEOREM ShutAsAskedAloneHolds == Spec => []ShutAsAskedAlone
<1>1. IInv => ShutAsAskedAlone
  BY DEF IInv, AsAskedInv, AnswerInv, ShutAsAskedAlone, Done
<1> QED
  BY <1>1, InitInv, NextInv, PTL DEF Spec

=============================================================================
