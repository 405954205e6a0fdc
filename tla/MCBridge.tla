------------------------------ MODULE MCBridge ------------------------------
(* Model checking instance of Bridge.                                      *)
EXTENDS Bridge

MCTokens == {"request", "response", "progress", "context-provide", "no-response",
             "data", "action", "success", "error", "update", "stage", "custom"}

\* Known tags, families alone, an unknown tag and a malformed one.
MCSendTags == {RequestData, RequestAction, ResponseSuccess, ResponseError,
               ProgressUpdate, <<"progress", "stage">>, <<"progress">>, <<"request">>,
               <<"custom">>, <<"Bad">>, <<>>}

\* A whole code and a fraction below zero.
MCPeerCodes == {-3, 4}

\* No metadata, a stray _tag, and the keys that each kind of message may carry.
MCSendMetas ==
    {NoMeta, [NoMeta EXCEPT !.tag = ContextProvide],
     [NoMeta EXCEPT !.action = "list", !.args = "scalar"],
     [NoMeta EXCEPT !.requestId = PeerId, !.result = "null"],
     [NoMeta EXCEPT !.action = "service/method", !.requestId = Blank],
     [NoMeta EXCEPT !.code = Word, !.message = Blank],
     [NoMeta EXCEPT !.code = 3, !.message = "text", !.taskId = PeerId],
     [NoMeta EXCEPT !.update = "scalar"]}
=============================================================================
