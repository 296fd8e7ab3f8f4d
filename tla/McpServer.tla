------------------------------ MODULE McpServer ------------------------------
(***************************************************************************)
(* The MCP server (mcp-server/cmd/mcp/main.go, internal/server,            *)
(* internal/registry): a main goroutine fills the registry, starts the     *)
(* listener in a goroutine of its own, waits for a signal and shuts the    *)
(* listener down; each request runs in a goroutine.  The maps of the       *)
(* registry have no lock: what keeps readers and the writer apart is the   *)
(* order of the statements of serve.  net/http and os/signal are modelled  *)
(* as serve uses them.  A payload is the name it belongs to.               *)
(***************************************************************************)
EXTENDS Naturals, Sequences

CONSTANTS
  Client,     \* request goroutines
  Request     \* [path, verb, body, method, name]: what clients send

VARIABLES
  at,             \* the statement serve has reached, an index into Serve
  resources, resourceData, tools, toolInfo,   \* the registry: names in each map
  listener,       \* off | starting | listening | closed
  caught,         \* a signal is in the channel
  closing,        \* Shutdown was called
  ended,          \* no, or what ended the process
  state, req, answer   \* per client

registry == <<resources, resourceData, tools, toolInfo>>
serverVars == <<at, registry, listener, caught, closing, ended>>
clientVars == <<state, req, answer>>
vars == <<serverVars, clientVars>>

StaticResources == {"logs", "metrics", "traces", "topology", "knowledge"}
StaticTools == {"query_logs", "summarize_alerts"}

\* A mutant of Serve: the listener is started before the registry is filled.
ServeListensFirst ==
  <<"manifest", "listen", "resources", "tools", "notify", "wait", "shutdown">>

\* The statements of serve, in order.
Serve == <<"manifest", "resources", "tools", "listen", "notify", "wait", "shutdown">>

Running(s) == ended = "no" /\ Serve[at] = s
NextStatement == at' = at + 1

NoRequest == [path |-> "", verb |-> "", body |-> "", method |-> "", name |-> ""]
NoAnswer == [code |-> 0, result |-> {}]

Init ==
  /\ at = 1
  /\ resources = {} /\ resourceData = {} /\ tools = {} /\ toolInfo = {}
  /\ listener = "off" /\ caught = FALSE /\ closing = FALSE /\ ended = "no"
  /\ state = [c \in Client |-> "idle"]
  /\ req = [c \in Client |-> NoRequest]
  /\ answer = [c \in Client |-> NoAnswer]

----------------------------------------------------------------------------
\* The main goroutine

\* The process ends, with main's return or in os.Exit: every request in flight is lost.
Ends(cause) ==
  /\ ended' = cause
  /\ state' = [c \in Client |-> IF state[c] \in {"reading", "ready", "replying"}
                                THEN "lost" ELSE state[c]]

LoadManifest ==
  /\ Running("manifest") /\ NextStatement
  /\ UNCHANGED <<registry, listener, caught, closing, ended, clientVars>>

ManifestFails ==
  /\ Running("manifest") /\ Ends("manifest")
  /\ UNCHANGED <<at, registry, listener, caught, closing, req, answer>>

RegisterResource ==
  /\ Running("resources")
  /\ \E name \in StaticResources \ resources :
       /\ resources' = resources \cup {name}
       /\ resourceData' = resourceData \cup {name}
  /\ UNCHANGED <<at, tools, toolInfo, listener, caught, closing, ended, clientVars>>

\* StaticTools is a map: its order is any.
RegisterTool ==
  /\ Running("tools")
  /\ \E name \in StaticTools \ tools :
       /\ toolInfo' = toolInfo \cup {name}
       /\ tools' = tools \cup {name}
  /\ UNCHANGED <<at, resources, resourceData, listener, caught, closing, ended, clientVars>>

LoopEnds ==
  /\ \/ Running("resources") /\ resources = StaticResources
     \/ Running("tools") /\ tools = StaticTools
  /\ NextStatement
  /\ UNCHANGED <<registry, listener, caught, closing, ended, clientVars>>

StartListener ==
  /\ Running("listen")
  /\ listener' = "starting" /\ NextStatement
  /\ UNCHANGED <<registry, caught, closing, ended, clientVars>>

Notify ==
  /\ Running("notify") /\ NextStatement
  /\ UNCHANGED <<registry, listener, caught, closing, ended, clientVars>>

\* The receive returns, and Shutdown closes the listener.
Wake ==
  /\ Running("wait") /\ caught
  /\ caught' = FALSE /\ closing' = TRUE
  /\ listener' = IF listener = "listening" THEN "closed" ELSE listener
  /\ NextStatement
  /\ UNCHANGED <<registry, ended, clientVars>>

InFlight == {c \in Client : state[c] \in {"reading", "ready", "replying"}}

\* A mutant of Drained: Close in place of Shutdown.
ClosedAtOnce == TRUE

\* Shutdown returns when no connection is active.
Drained == InFlight = {}

MainReturns ==
  /\ Running("shutdown") /\ Drained
  /\ Ends("graceful")
  /\ UNCHANGED <<at, registry, listener, caught, closing, req, answer>>

\* A mutant of Deadline: context.Background() is given to Shutdown.
NoDeadline == FALSE

\* The context of Shutdown: it ends after five seconds.
Deadline == Running("shutdown")

DeadlinePasses ==
  /\ Deadline
  /\ Ends("deadline")
  /\ UNCHANGED <<at, registry, listener, caught, closing, req, answer>>

\* A signal kills the process until signal.Notify was called; then it goes to the channel,
\* where there is room for one.
Signal ==
  /\ ended = "no"
  /\ IF \E i \in 1..(at - 1) : Serve[i] = "notify"
     THEN caught' = TRUE /\ UNCHANGED <<ended, state>>
     ELSE Ends("signal") /\ UNCHANGED caught
  /\ UNCHANGED <<at, registry, listener, closing, req, answer>>

----------------------------------------------------------------------------
\* The goroutine of the listener

Listen ==
  /\ ended = "no" /\ listener = "starting"
  /\ listener' = IF closing THEN "closed" ELSE "listening"
  /\ UNCHANGED <<at, registry, caught, closing, ended, clientVars>>

\* ListenAndServe returns an error other than ErrServerClosed: log.Fatalf.
ListenerFails ==
  /\ ended = "no" /\ listener \in {"starting", "listening"} /\ ~closing
  /\ Ends("listener")
  /\ UNCHANGED <<at, registry, listener, caught, closing, req, answer>>

----------------------------------------------------------------------------
\* The goroutine of a request

Goto(c, s) == state' = [state EXCEPT ![c] = s]
Answer(c, code, result) ==
  /\ answer' = [answer EXCEPT ![c] = [code |-> code, result |-> result]]
  /\ Goto(c, "replying")

Connect(c, r) ==
  /\ ended = "no" /\ listener = "listening" /\ state[c] = "idle"
  /\ req' = [req EXCEPT ![c] = r]
  /\ Goto(c, "reading")
  /\ UNCHANGED <<serverVars, answer>>

\* ServeHTTP up to the dispatch: other paths and verbs, bodies that do not arrive in time
\* or are no request.
Route(c) ==
  /\ ended = "no" /\ state[c] = "reading"
  /\ \/ req[c].path # "/mcp" /\ Answer(c, 404, {})
     \/ req[c].path = "/mcp" /\ req[c].verb # "POST" /\ Answer(c, 405, {})
     \/ /\ req[c].path = "/mcp" /\ req[c].verb = "POST"
        /\ \/ req[c].body = "json" /\ Goto(c, "ready") /\ UNCHANGED answer
           \/ req[c].body = "garbage" /\ Answer(c, 400, {})
  /\ UNCHANGED <<serverVars, req>>

\* The body is cut off, or stops for longer than the read timeout.
BodyFails(c) ==
  /\ ended = "no" /\ state[c] = "reading"
  /\ req[c].path = "/mcp" /\ req[c].verb = "POST"
  /\ Answer(c, 400, {})
  /\ UNCHANGED <<serverVars, req>>

\* handleResourceGet, handleToolsCall: parameters, then the look-up of the name.
Named(c, known) ==
  \/ req[c].name = "none" /\ Answer(c, 32602, {})
  \/ req[c].name # "none" /\ req[c].name \in known /\ Answer(c, 200, {req[c].name})
  \/ req[c].name # "none" /\ req[c].name \notin known /\ Answer(c, 32000, {})

Methods == {"resources/list", "resources/get", "tools/list", "tools/call", "manifest/get"}

HandleRequest(c) ==
  /\ ended = "no" /\ state[c] = "ready"
  /\ \/ req[c].method = "resources/list" /\ Answer(c, 200, resources)
     \/ req[c].method = "resources/get" /\ Named(c, resourceData)
     \/ req[c].method = "tools/list" /\ Answer(c, 200, toolInfo)
     \/ req[c].method = "tools/call" /\ Named(c, tools)
     \/ req[c].method = "manifest/get" /\ Answer(c, 200, resources \cup toolInfo)
     \/ req[c].method \notin Methods /\ Answer(c, 32601, {})
  /\ UNCHANGED <<serverVars, req>>

\* The answer is written; a client that is gone does not get it, which changes nothing here.
Reply(c) ==
  /\ ended = "no" /\ state[c] = "replying"
  /\ Goto(c, "answered")
  /\ UNCHANGED <<serverVars, req, answer>>

----------------------------------------------------------------------------
Main ==
  \/ LoadManifest \/ RegisterResource \/ RegisterTool \/ LoopEnds
  \/ StartListener \/ Notify \/ Wake \/ MainReturns

Next ==
  \/ Main \/ ManifestFails \/ DeadlinePasses \/ Signal
  \/ Listen \/ ListenerFails
  \/ \E c \in Client :
       \/ \E r \in Request : Connect(c, r)
       \/ Route(c) \/ BodyFails(c) \/ HandleRequest(c) \/ Reply(c)

Spec == Init /\ [][Next]_vars

\* The goroutines run, and the timer of the deadline fires.  Nobody has to send a body or a
\* signal: the read timeout is a flag, and 0 turns it off.
FairSpec ==
  /\ Spec
  /\ WF_vars(Main) /\ WF_vars(DeadlinePasses) /\ WF_vars(Listen)
  /\ \A c \in Client : WF_vars(HandleRequest(c)) /\ WF_vars(Reply(c))

----------------------------------------------------------------------------
\* Properties

\* An answer `a' to the request `r' agrees with the whole registry: lists are complete, and
\* what is looked up is found exactly when it is registered.
FromWholeRegistry(r, a) ==
  /\ r.method = "resources/list" => a.result = StaticResources
  /\ r.method = "tools/list" => a.result = StaticTools
  /\ r.method = "manifest/get" => a.result = StaticResources \cup StaticTools
  /\ r.method = "resources/get" => (a.code = 200 <=> r.name \in StaticResources)
  /\ r.method = "tools/call" => (a.code = 200 <=> r.name \in StaticTools)

\* Whenever and by whomever it is asked, the server answers from the whole registry: a list
\* names everything there is, and what a list names can be had.  The maps have no lock
\* (registry.go:12-17), so this rests on the listener starting after the last registration
\* (main.go:54-78).
AnswersFromWholeRegistry ==
  \A c \in Client : state[c] \in {"replying", "answered"} /\ answer[c].code \in {200, 32000} =>
    FromWholeRegistry(req[c], answer[c])

\* A request that was read is answered, across a shutdown too; what can come between is the
\* deadline of the shutdown, an error of the listener, or a signal that comes before
\* signal.Notify was called (main.go:75-91).
ReadRequestsAnswered ==
  \A c \in Client :
    state[c] = "ready" ~> state[c] = "answered" \/ ended \in {"deadline", "listener", "signal"}

\* A signal that was caught ends the server, whatever the clients that are connected do or
\* leave undone (main.go:86-91).
SignalEndsServer == caught ~> ended # "no"
=============================================================================
