--------------------------- MODULE MCPolicyOption ---------------------------
(***************************************************************************)
(* Model checking of PolicyOption.                                         *)
(***************************************************************************)
EXTENDS PolicyOption, TLC

Policy(resource, action, mappings) ==
    [resource |-> resource, action |-> action, field_mappings |-> mappings]
Mapping(placeholder, field) == [placeholder |-> placeholder, request_field |-> field]

(* The unary service has a template and a method without the option; the   *)
(* streaming service a static resource and, unsupported, a template.       *)
Template ==
    Policy(<<"p", "/", "<", "i", ">">>, "read", <<Mapping(<<"i">>, "f"), Mapping(<<"o">>, "g")>>)
MCRegistry ==
    (<<"Posts">> :> (<<"Get">> :> Template @@ <<"Ping">> :> nil)) @@
    (<<"Feed">> :> (<<"Watch">> :> Policy(<<"feed">>, "read", <<>>)
                    @@ <<"Sync">> :> Template))

FullMethod(service, method) == <<"/", service, "/", method>>
UnaryNames == {FullMethod("Posts", "Get"), FullMethod("Posts", "Ping")}
StreamNames == {FullMethod("Feed", "Watch"), FullMethod("Feed", "Sync")}
OddNames == {FullMethod("Posts", "Gone"), <<"Posts", "/", "Get">>}
MCNames == UnaryNames \cup StreamNames \cup OddNames

(* A stream whose declared policy has no action. *)
NoActionRegistry == <<"Feed">> :> (<<"Watch">> :> Policy(<<"feed">>, "", <<>>))
NoActionNames == {FullMethod("Feed", "Watch")}

Text(t) == [kind |-> "string", repeated |-> FALSE, value |-> <<t>>]
MCRequests ==
    {[proto |-> TRUE, fields |-> "f" :> Text("a")],
     [proto |-> TRUE, fields |-> "f" :> Text("b")],
     [proto |-> TRUE, fields |-> "h" :> Text("a")]}

Symmetry == Permutations(Calls)
=============================================================================
