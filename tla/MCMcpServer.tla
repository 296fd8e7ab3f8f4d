----------------------------- MODULE MCMcpServer -----------------------------
\* Two requests of every kind the handlers tell apart.
EXTENDS McpServer

Post(method, name) ==
  [path |-> "/mcp", verb |-> "POST", body |-> "json", method |-> method, name |-> name]

MCRequest ==
  {Post(m, "none") : m \in {"resources/list", "resources/get", "tools/list", "tools/call",
                            "manifest/get", "ping"}}
  \cup {Post("resources/get", n) : n \in {"logs", "unknown"}}
  \cup {Post("tools/call", n) : n \in {"query_logs", "unknown"}}
  \cup {[Post("tools/list", "none") EXCEPT !.path = "/"],
        [Post("tools/list", "none") EXCEPT !.verb = "GET"],
        [Post("tools/list", "none") EXCEPT !.body = "garbage"]}
=============================================================================
