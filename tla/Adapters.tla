------------------------------ MODULE Adapters ------------------------------
(***************************************************************************)
(* The MCP, A2A and gRPC adapters: Ingest turns a wire message into an     *)
(* envelope, Emit an envelope into a wire message, and each refuses what   *)
(* it cannot map.                                                          *)
(*                                                                         *)
(* Data is abstracted to what the adapters tell apart.  Ids are numbers,   *)
(* PeerId one that a peer chose, Blank the empty string.  A payload is its *)
(* JSON shape; a text is whether it has one of the words that ask for      *)
(* data.  An error code is a number in halves (the integer c stands for    *)
(* c / 2, so that the odd ones are fractions), as a JSON number or, if it  *)
(* is whole, in digits, or it is Word, any other value.  Bytes that do not *)
(* decode into the protocol's message type are refused and are no wire     *)
(* message here.                                                           *)
(***************************************************************************)
EXTENDS Protocol, Integers

CONSTANTS
    Blank,      \* the empty string where a value is expected
    Refused,    \* an error return
    Panic,      \* a write to a nil map
    Word,       \* an error code that is no number: null, text, an object
    PeerCodes   \* the numbers that peers use for error codes, in halves

PeerId == 0

Protocols == {"mcp", "a2a", "grpc"}

Shapes == {"object", "scalar", "null"}

\* Names of actions: with a slash, with a data word, or with neither.
ActionNames == {"service/method", "list", "run"}

\* Contents: free text, or a JSON object with a "message" text inside, another
\* one without, and the empty one.
Contents == {"", "text", "query", "{message text}", "{message query}", "{other}", "{}"}

NoMeta == [tag |-> Absent, action |-> Absent, args |-> Absent, result |-> Absent,
           requestId |-> Absent, code |-> Absent, message |-> Absent,
           taskId |-> Absent, streamId |-> Absent, update |-> Absent]

\* An envelope an adapter builds: Tag stays empty, _tag is set.
Envelope(meta, content) == [tag |-> <<>>, meta |-> meta, content |-> content]

Validated(env) == IF Validate(env) THEN env ELSE Refused

Given(v) == v \notin {Absent, Blank}

\* An id that is an empty string does not set the key.
IdOrAbsent(id) == IF Given(id) THEN id ELSE Absent

Or(v, default) == IF v = Absent THEN default ELSE v

\* requestIDForEmit: _request_id, else the envelope's own id.
RequestIdForEmit(env) == Or(env.meta.requestId, env.id)

\* metadata.adapter.source_id, which every Ingest sets and no Emit reads.
SourceId(w) == IdOrAbsent(w.id)

\* Codes that MCP and gRPC decode: their field is an int.
WholeCodes == {c \in PeerCodes : c % 2 = 0}

\* parseErrorCode refuses every other code.
IsNumber(code) == code \notin {Absent, Word}

\* Mutant: a fraction is rounded up.
ParseErrorCodeUp(code) == IF code % 2 = 0 THEN code ELSE code + 1

\* parseErrorCode: int(float64) drops the fraction.
ParseErrorCode(code) ==
    IF code % 2 = 0 THEN code ELSE IF code > 0 THEN code - 1 ELSE code + 1

-----------------------------------------------------------------------------
(* MCP: JSON-RPC with id, method, params (name, arguments), result, error. *)

McpWire ==
    [proto : {"mcp"}, version : {"2.0", "other"}, id : {Absent, Blank, PeerId},
     method : {Absent, "tools/call", "notify"},
     action : ActionNames \cup {Absent}, args : Shapes \cup {Absent},
     result : Shapes \cup {Absent}, code : WholeCodes \cup {Absent},
     message : {Blank, "text"}]

\* A result of null decodes to nil, as a missing one does.
HasResult(w) == w.result \notin {Absent, "null"}

McpValid(w) ==
    /\ w.version = "2.0"
    /\ w.method # Absent \/ HasResult(w) \/ w.code # Absent

\* Mutant: the id is recorded for calls only.
McpResponseMetaUnlinked(w, tag) == [NoMeta EXCEPT !.tag = tag]

McpResponseMeta(w, tag) ==
    [NoMeta EXCEPT !.tag = tag, !.requestId = IdOrAbsent(w.id)]

McpIngest(w) ==
    IF ~McpValid(w) THEN Refused
    ELSE IF w.code # Absent THEN
        IF w.id = Absent THEN Refused
        ELSE Envelope([McpResponseMeta(w, ResponseError) EXCEPT
                         !.code = w.code, !.message = w.message], "")
    ELSE IF HasResult(w) THEN
        IF w.id = Absent THEN Refused
        ELSE Envelope([McpResponseMeta(w, ResponseSuccess) EXCEPT
                         !.result = w.result], "")
    ELSE IF w.id = Absent THEN
        Envelope([NoMeta EXCEPT !.tag = ContextProvide], "text")
    ELSE IF w.method = "tools/call" /\ w.action # Absent THEN
        Envelope([NoMeta EXCEPT !.tag = RequestAction, !.action = w.action,
                                !.args = Or(w.args, "object")], "")
    ELSE Refused

McpMessage(env) ==
    [proto |-> "mcp", version |-> "2.0", id |-> RequestIdForEmit(env),
     method |-> Absent, action |-> Absent, args |-> Absent, result |-> Absent,
     code |-> Absent, message |-> Blank]

McpEmit(env) ==
    LET tag == EffectiveTag(env)
    IN  IF tag = RequestAction /\ Given(env.meta.action) THEN
            [McpMessage(env) EXCEPT !.method = "tools/call", !.action = env.meta.action,
                                    !.args = Or(env.meta.args, "object")]
        ELSE IF tag = ResponseSuccess /\ env.meta.result # Absent THEN
            [McpMessage(env) EXCEPT !.result = env.meta.result]
        ELSE IF tag = ResponseError /\ IsNumber(env.meta.code)
                                    /\ Given(env.meta.message) THEN
            [McpMessage(env) EXCEPT !.code = ParseErrorCode(env.meta.code),
                                    !.message = env.meta.message]
        ELSE Refused

-----------------------------------------------------------------------------
(* A2A: method, id and params (message, taskId, status, result).  text is  *)
(* the text of a message or the name on a card, Absent for none.           *)

A2aMethods == {"message/send", "agent/card", "task/create", "task/update", "other"}

A2aStatuses == {Absent, "completed", "failed", "in_progress", "other"}

A2aWire ==
    [proto : {"a2a"}, id : {Absent, PeerId}, method : A2aMethods,
     text : {Absent, "text", "query"}, taskId : {Absent, PeerId},
     status : A2aStatuses, result : Shapes \cup {Absent},
     code : PeerCodes \cup {Absent, Word}, message : {Absent, Blank, "text"}]

\* Code and message are members of the result object of a failed task.
A2aWellFormed(w) ==
    w.code # Absent \/ w.message # Absent => w.status = "failed" /\ w.result = "object"

\* Mutant: the payload stays in the content too.
A2aRestOfTaskAll(w) == "{other}"

\* What is left of a task's payload once its keys are moved to the metadata.
A2aRestOfTask(w) == "{}"

\* ingestTaskCreate.
A2aTask(w) ==
    [NoMeta EXCEPT !.tag = RequestAction, !.action = "run",
                   !.taskId = w.taskId, !.result = w.result]

\* ingestTaskUpdate: a failure always gets a code and a message.
A2aOutcome(w) ==
    CASE w.status = "completed"   -> [NoMeta EXCEPT !.tag = ResponseSuccess]
      [] w.status = "in_progress" -> [NoMeta EXCEPT !.tag = ProgressUpdate]
      [] w.status = "failed"      -> [NoMeta EXCEPT !.tag = ResponseError,
                                        !.code = Or(w.code, Word),
                                        !.message = Or(w.message, "default")]

\* ingestMessageSend: the words of the text decide between action and data.
A2aRequestTag(w) == IF w.text = "query" THEN RequestData ELSE RequestAction

A2aIngest(w) ==
    CASE w.method = "message/send" ->
           IF w.text = Absent THEN Refused
           ELSE Envelope([NoMeta EXCEPT !.tag = A2aRequestTag(w)],
                         IF w.text = "query" THEN "{message query}" ELSE "{message text}")
      [] w.method = "agent/card" ->
           IF w.text = Absent THEN Refused
           ELSE Envelope([NoMeta EXCEPT !.tag = ContextProvide], "{other}")
      [] w.method = "task/create" ->
           IF w.taskId = Absent THEN Refused
           ELSE Envelope(A2aTask(w), A2aRestOfTask(w))
      [] w.method = "task/update" ->
           IF w.taskId = Absent \/ w.status \in {Absent, "other"} THEN Refused
           ELSE Envelope([A2aOutcome(w) EXCEPT !.taskId = w.taskId, !.result = w.result],
                         A2aRestOfTask(w))
      [] w.method = "other" -> Refused

\* outboundMessageText: _message, the message in the content, the action's
\* name, the content as it is, or at last the tag, "request.data" among them.
OutboundText(env) ==
    IF Given(env.meta.message) THEN "text"
    ELSE IF env.content \in {"{message text}", "{message query}"} THEN
        IF env.content = "{message query}" THEN "query" ELSE "text"
    ELSE IF Given(env.meta.action) THEN
        IF env.meta.action = "list" THEN "query" ELSE "text"
    ELSE IF env.content # "" THEN
        IF env.content = "query" THEN "query" ELSE "text"
    ELSE IF EffectiveTag(env) = RequestData THEN "query" ELSE "text"

\* Mutant: no task id, no taskId.
TaskIdForEmitStrict(env) == env.meta.taskId

\* taskIDForEmit: _task_id, else _request_id, else the envelope's own id.
TaskIdForEmit(env) ==
    IF Given(env.meta.taskId) THEN env.meta.taskId
    ELSE IF Given(env.meta.requestId) THEN env.meta.requestId
    ELSE env.id

A2aMessage(env, method, status) ==
    [proto |-> "a2a", id |-> RequestIdForEmit(env), method |-> method,
     text |-> OutboundText(env),
     taskId |-> IF method = "message/send" THEN env.meta.taskId ELSE TaskIdForEmit(env),
     status |-> status, result |-> Absent, code |-> Absent, message |-> Absent]

A2aEmit(env) ==
    LET tag == EffectiveTag(env)
    IN  IF ParseTagFamily(tag) = "request" /\ Len(tag) > 1 THEN
            A2aMessage(env, "message/send", Absent)
        ELSE IF tag = ResponseSuccess THEN
            [A2aMessage(env, "task/update", "completed") EXCEPT !.result = env.meta.result]
        ELSE IF tag = ResponseError THEN
            [A2aMessage(env, "task/update", "failed") EXCEPT
               !.code = env.meta.code,
               !.message = IF Given(env.meta.message) THEN env.meta.message ELSE Absent,
               !.result = IF env.meta.code # Absent \/ Given(env.meta.message)
                          THEN "object" ELSE Absent]
        ELSE IF ParseTagFamily(tag) = "progress" /\ Len(tag) > 1 THEN
            [A2aMessage(env, "task/update", "in_progress") EXCEPT !.result =
               IF env.meta.result # Absent THEN env.meta.result
               ELSE IF env.content \in {"{message text}", "{message query}", "{other}"}
               THEN "object" ELSE Absent]
        ELSE Refused

-----------------------------------------------------------------------------
(* gRPC: unary calls and answers, and frames of a stream.  "half" is a     *)
(* service without a method or the reverse; no code is the code 0.         *)

GrpcTypes == {"unary", "stream", "other"}

GrpcActions == {"service/method", "half", Absent}

GrpcStatuses == {Absent, "OK", "ERROR", "other"}

GrpcWire ==
    [proto : {"grpc"}, type : GrpcTypes, action : GrpcActions, status : GrpcStatuses,
     id : {Absent, PeerId}, streamId : {Absent, PeerId},
     code : WholeCodes \cup {0}, message : {Blank, "text"}, body : {"object", Absent}]

GrpcValid(w) ==
    \/ w.type = "stream" /\ w.streamId # Absent
    \/ /\ w.type = "unary"
       /\ w.action # "half" /\ w.status # "other"
       /\ w.action # Absent \/ w.status # Absent

GrpcIngest(w) ==
    IF ~GrpcValid(w) THEN Refused
    ELSE IF w.type = "stream" THEN
        Envelope([NoMeta EXCEPT !.tag = ProgressUpdate, !.update = "object",
                    !.requestId = IdOrAbsent(w.id), !.streamId = w.streamId], "")
    ELSE IF w.status = Absent THEN
        Envelope([NoMeta EXCEPT !.tag = RequestAction, !.action = w.action,
                    !.args = "object"], "")
    ELSE IF w.status = "OK" THEN
        Envelope([NoMeta EXCEPT !.tag = ResponseSuccess, !.result = "object",
                    !.requestId = IdOrAbsent(w.id)], "")
    ELSE
        Envelope([NoMeta EXCEPT !.tag = ResponseError, !.code = w.code,
                    !.message = w.message, !.requestId = IdOrAbsent(w.id)], "")

\* normalizeBody: an object, or null, which becomes an empty one.
IsBody(shape) == shape \in {"object", "null"}

GrpcMessage(env, type) ==
    [proto |-> "grpc", type |-> type, action |-> Absent, status |-> Absent,
     id |-> IF Given(env.meta.requestId) THEN env.meta.requestId ELSE env.id,
     streamId |-> Absent, code |-> 0, message |-> Blank, body |-> "object"]

GrpcEmit(env) ==
    LET tag == EffectiveTag(env)
    IN  IF tag = RequestAction /\ env.meta.action = "service/method"
                               /\ IsBody(Or(env.meta.args, "object")) THEN
            [GrpcMessage(env, "unary") EXCEPT !.action = env.meta.action]
        ELSE IF tag = ResponseSuccess /\ IsBody(env.meta.result) THEN
            [GrpcMessage(env, "unary") EXCEPT !.status = "OK"]
        ELSE IF tag = ResponseError /\ IsNumber(env.meta.code)
                                    /\ Given(env.meta.message) THEN
            [GrpcMessage(env, "unary") EXCEPT !.status = "ERROR",
               !.code = ParseErrorCode(env.meta.code), !.message = env.meta.message]
        ELSE IF ParseTagFamily(tag) = "progress" THEN
            IF env.meta.update = Absent
               /\ env.content \in {"{message text}", "{message query}", "{other}"}
            THEN Panic
            ELSE IF env.meta.update # Absent /\ ~IsBody(env.meta.update) THEN Refused
            ELSE [GrpcMessage(env, "stream") EXCEPT
                    !.streamId = IF Given(env.meta.streamId) THEN env.meta.streamId
                                 ELSE env.id]
        ELSE Refused

-----------------------------------------------------------------------------

Emit(proto, env) ==
    CASE proto = "mcp"  -> McpEmit(env)
      [] proto = "a2a"  -> A2aEmit(env)
      [] proto = "grpc" -> GrpcEmit(env)

\* Every envelope is validated before it leaves an adapter.
Ingest(w) ==
    LET env == CASE w.proto = "mcp"  -> McpIngest(w)
                 [] w.proto = "a2a"  -> A2aIngest(w)
                 [] w.proto = "grpc" -> GrpcIngest(w)
    IN  IF env = Refused THEN Refused ELSE Validated(env)

\* What a peer may put on the wire.
Wires == McpWire \cup {w \in A2aWire : A2aWellFormed(w)} \cup GrpcWire

-----------------------------------------------------------------------------
(* The types of what the adapters read and write.                          *)

Ids == Nat \cup {Absent, Blank}

Codes == Int \cup {Absent, Word}

Meta ==
    [tag : Seq(STRING) \cup {Absent}, action : ActionNames \cup {Absent},
     args : Shapes \cup {Absent}, result : Shapes \cup {Absent}, requestId : Ids,
     code : Codes, message : {Absent, Blank, "text", "default"},
     taskId : Nat \cup {Absent}, streamId : Nat \cup {Absent}, update : Shapes \cup {Absent}]

EnvelopeRow == [tag : {<<>>}, meta : Meta, content : Contents]

McpRow ==
    [proto : {"mcp"}, version : {"2.0", "other"}, id : Ids,
     method : {Absent, "tools/call", "notify"},
     action : ActionNames \cup {Absent}, args : Shapes \cup {Absent},
     result : Shapes \cup {Absent}, code : Codes \ {Word},
     message : {Blank, "text", "default"}]

A2aRow ==
    [proto : {"a2a"}, id : Ids, method : A2aMethods,
     text : {Absent, "text", "query"}, taskId : Nat \cup {Absent},
     status : A2aStatuses, result : Shapes \cup {Absent}, code : Codes,
     message : {Absent, Blank, "text", "default"}]

GrpcRow ==
    [proto : {"grpc"}, type : GrpcTypes, action : GrpcActions, status : GrpcStatuses,
     id : Ids, streamId : Nat \cup {Absent},
     code : Int, message : {Blank, "text", "default"}, body : {"object", Absent}]

\* The texts of the model.
Literals ==
    ActionNames \cup Shapes \cup Contents \cup
    {"tools/call", "notify", "default", "completed", "failed", "in_progress",
     "OK", "ERROR", "half", "other"}

\* The special values are none of these.
ASSUME AdaptersAssumption ==
    /\ Absent # Blank /\ Absent # Word /\ Refused # Panic
    /\ {Absent, Blank, Word} \cap Int = {} /\ {Absent, Blank} \cap Literals = {}
    /\ PeerCodes \subseteq Int
    /\ Refused \notin EnvelopeRow
    /\ {Refused, Panic} \cap McpRow = {}
    /\ {Refused, Panic} \cap A2aRow = {}
    /\ {Refused, Panic} \cap GrpcRow = {}
=============================================================================
