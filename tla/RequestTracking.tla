--------------------------- MODULE RequestTracking ---------------------------
(***************************************************************************)
(* Request IDs, src/request_tracking: which ID a call gets, and how the    *)
(* log handler puts it into the records.  policy_verification/             *)
(* interceptor.go has its own copy of the first part, for chains without a *)
(* tracking interceptor.                                                   *)
(*                                                                         *)
(* IDs are sequences, the empty one stands for "".  md gives the first     *)
(* value that the metadata hold under a key, or NoID.                      *)
(***************************************************************************)
EXTENDS Sequences

DefaultKey == "x-request-id"
NoID == <<>>

(* fresh is what generateRequestID would return: 128 random bits, so an ID *)
(* that no other call has.                                                 *)
extractOrGenerateRequestID(md, metadataKey, fresh) ==
    IF md[metadataKey] # NoID THEN md[metadataKey] ELSE fresh

(* Slip: an ID that is already in the context is replaced. *)
requestIDOverwrites(id, md, metadataKey, fresh) ==
    extractOrGenerateRequestID(md, metadataKey, fresh)

(* The interceptors keep an ID that is already in the context. *)
requestID(id, md, metadataKey, fresh) ==
    IF id # NoID THEN id ELSE extractOrGenerateRequestID(md, metadataKey, fresh)

-----------------------------------------------------------------------------
(* The log handler.  A slog.Handler is a stack of requestIDHandlers, given *)
(* by their attribute keys, on a handler with its open groups.             *)

BaseHandler == [keys |-> <<>>, groups |-> <<>>]

NewRequestIDHandler(next, attributeKey) == [next EXCEPT !.keys = <<attributeKey>> \o @]

WithAttrs(handler) == handler

(* Slip: the outermost handler wraps what its next returns twice. *)
WithGroupTwice(handler, name) ==
    [keys |-> IF handler.keys = <<>> THEN <<>> ELSE <<Head(handler.keys)>> \o handler.keys,
     groups |-> Append(handler.groups, name)]

(* Every requestIDHandler of the stack wraps what next.WithGroup returns. *)
WithGroup(handler, name) == [handler EXCEPT !.groups = Append(@, name)]

(* Handle: the attributes that the handlers add to the record one after    *)
(* the other, the outermost first, each qualified by the open groups.      *)
Handle(handler, id) ==
    IF id = NoID THEN <<>>
    ELSE [i \in DOMAIN handler.keys |->
             [path |-> Append(handler.groups, handler.keys[i]), value |-> id]]
=============================================================================
