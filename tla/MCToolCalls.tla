----------------------------- MODULE MCToolCalls -----------------------------
(* Requests and policies for model checking ToolCalls.                      *)
EXTENDS ToolCalls

Request(tool, provider, noNet, deps, client, allowed) ==
    [tool |-> tool, provider |-> provider, noNet |-> noNet, compact |-> FALSE, deps |-> deps,
     client |-> client, allowed |-> allowed]
Compact(request) == [request EXCEPT !.compact = TRUE]

CONSTANTS c1, c2

AnyRequest ==
    {Request("execute", p, FALSE, "none", "plain", TRUE) : p \in {"strict", "native-strict"}}
    \cup {Request("stream", "local", FALSE, deps, "plain", TRUE) : deps \in {"none", "listed"}}
    \cup {Compact(Request("execute", "piston", FALSE, "none", "plain", TRUE)),
          Request("execute", "piston", TRUE, "none", "plain", TRUE),
          Request("execute", "piston", FALSE, "listed", "plain", TRUE),
          Request("execute", "local", FALSE, "block", "plain", TRUE),
          Compact(Request("worker", "local", FALSE, "none", "plain", TRUE)),
          Request("session", "local", FALSE, "listed", "plain", FALSE),
          Request("session", "strict", FALSE, "none", "plain", TRUE),
          Request("stream", "piston", FALSE, "none", "plain", TRUE),
          Request("stream", "unknown", FALSE, "malformed", "plain", TRUE),
          Request("install", "local", FALSE, "malformed", "plain", TRUE),
          Request("install", "local", FALSE, "none", "answered", TRUE),
          Request("install", "local", FALSE, "none", "mrtr", TRUE),
          Request("install", "local", FALSE, "none", "plain", FALSE)}

\* The requests that wait, in a thread or on the loop.
Waiting ==
    {Request("execute", "local", FALSE, "none", "plain", TRUE),
     Request("install", "local", FALSE, "none", "form", TRUE)}

MCRequests == [c \in Calls |-> IF c = c1 THEN AnyRequest ELSE Waiting]

Policy(deny, grant, strict) == [off |-> FALSE, deny |-> deny, grant |-> grant, strict |-> strict]
MCPolicies == {[off |-> TRUE, deny |-> FALSE, grant |-> FALSE, strict |-> FALSE],
               Policy(TRUE, FALSE, FALSE), Policy(TRUE, FALSE, TRUE), Policy(FALSE, TRUE, FALSE)}
\* A weaker executor, with an identity of its own or with that of the first one.
MCBuilds == [id : {0, 1}, kernel : {FALSE}]
MCHosts == {[native |-> TRUE, kernel |-> TRUE, writable |-> TRUE],
            [native |-> FALSE, kernel |-> FALSE, writable |-> FALSE]}
=============================================================================
