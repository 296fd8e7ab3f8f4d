--------------------------- MODULE McpServerProofs ---------------------------
(***************************************************************************)
(* The MCP server answers from the whole registry, for any number of       *)
(* clients and all their requests: the statements of serve fill the maps   *)
(* before they start the listener, nothing writes to the maps after that,  *)
(* and nobody reads them before.                                           *)
(***************************************************************************)
EXTENDS McpServer, TLAPS

States == {"idle", "reading", "ready", "replying", "answered", "lost"}

Types ==
  /\ at \in 1..7
  /\ listener \in {"off", "starting", "listening", "closed"}
  /\ state \in [Client -> States]
  /\ DOMAIN req = Client
  /\ DOMAIN answer = Client

\* Both maps of a kind hold the same names, all of them once their loop is over.
RegistryFilled ==
  /\ resourceData = resources /\ resources \subseteq StaticResources
  /\ toolInfo = tools /\ tools \subseteq StaticTools
  /\ at > 2 => resources = StaticResources
  /\ at > 3 => tools = StaticTools

\* The listener is started after that, and requests come through it.
ListensLast ==
  /\ listener # "off" => at > 4
  /\ \A c \in Client : state[c] # "idle" => listener # "off"

Inv == Types /\ RegistryFilled /\ ListensLast /\ AnswersFromWholeRegistry

\* The invariant holds of the initial state.
LEMMA InitInv == Init => Inv
BY DEF Init, Inv, Types, States, RegistryFilled, ListensLast, AnswersFromWholeRegistry

\* What a request of a method is answered, given the whole registry.
LEMMA HandledInv ==
  ASSUME Inv, NEW c \in Client, HandleRequest(c)
  PROVE  Inv'
<1>1. at > 4 /\ resources = StaticResources /\ tools = StaticTools
  BY DEF Inv, RegistryFilled, ListensLast, Types, HandleRequest
<1>2. UNCHANGED <<at, resources, resourceData, tools, toolInfo, listener, req>>
  BY DEF HandleRequest, serverVars, registry
<1>3. /\ DOMAIN answer' = Client
      /\ state' = [state EXCEPT ![c] = "replying"]
      /\ \A d \in Client \ {c} : answer'[d] = answer[d]
  BY DEF HandleRequest, Answer, Goto, Named, Inv, Types
<1>4. answer'[c].code \in {200, 32000} => FromWholeRegistry(req[c], answer'[c])
  <2> USE DEF Answer, Inv, Types, RegistryFilled, FromWholeRegistry
  <2>1. CASE req[c].method = "resources/list" /\ Answer(c, 200, resources)
    BY <1>1, <2>1
  <2>2. CASE req[c].method = "resources/get" /\ Named(c, resourceData)
    BY <1>1, <2>2 DEF Named, StaticResources
  <2>3. CASE req[c].method = "tools/list" /\ Answer(c, 200, toolInfo)
    BY <1>1, <2>3
  <2>4. CASE req[c].method = "tools/call" /\ Named(c, tools)
    BY <1>1, <2>4 DEF Named, StaticTools
  <2>5. CASE req[c].method = "manifest/get" /\ Answer(c, 200, resources \cup toolInfo)
    BY <1>1, <2>5
  <2>6. CASE req[c].method \notin Methods /\ Answer(c, 32601, {})
    BY <2>6 DEF Methods
  <2> QED BY <2>1, <2>2, <2>3, <2>4, <2>5, <2>6 DEF HandleRequest
<1>5. Types' /\ RegistryFilled' /\ ListensLast'
  BY <1>2, <1>3, HandleRequest(c) DEF HandleRequest, Inv, Types, States, RegistryFilled, ListensLast
<1>6. AnswersFromWholeRegistry'
  <2> SUFFICES ASSUME NEW d \in Client, state'[d] \in {"replying", "answered"},
                      answer'[d].code \in {200, 32000}
               PROVE  FromWholeRegistry(req'[d], answer'[d])
    BY DEF AnswersFromWholeRegistry
  <2>1. CASE d = c
    BY <2>1, <1>2, <1>4
  <2>2. CASE d # c
    BY <2>2, <1>2, <1>3 DEF Inv, Types, AnswersFromWholeRegistry
  <2> QED BY <2>1, <2>2
<1> QED BY <1>5, <1>6 DEF Inv

\* Every step keeps the invariant.
LEMMA NextInv == Inv /\ [Next]_vars => Inv'
<1> SUFFICES ASSUME Inv, [Next]_vars PROVE Inv'
  OBVIOUS
<1> USE DEF Inv, Types, States, RegistryFilled, ListensLast
<1>1. CASE LoadManifest
  BY <1>1 DEF LoadManifest, Running, Serve, NextStatement, registry, clientVars, AnswersFromWholeRegistry
<1>2. CASE RegisterResource
  BY <1>2 DEF RegisterResource, Running, Serve, clientVars, AnswersFromWholeRegistry
<1>3. CASE RegisterTool
  BY <1>3 DEF RegisterTool, Running, Serve, clientVars, AnswersFromWholeRegistry
<1>4. CASE LoopEnds
  BY <1>4 DEF LoopEnds, Running, Serve, NextStatement, registry, clientVars, AnswersFromWholeRegistry
<1>5. CASE StartListener
  BY <1>5 DEF StartListener, Running, Serve, NextStatement, registry, clientVars, AnswersFromWholeRegistry
<1>6. CASE Notify
  BY <1>6 DEF Notify, Running, Serve, NextStatement, registry, clientVars, AnswersFromWholeRegistry
<1>7. CASE Wake
  BY <1>7 DEF Wake, Running, Serve, NextStatement, registry, clientVars, AnswersFromWholeRegistry
<1>8. ASSUME NEW cause, Ends(cause),
             UNCHANGED <<at, registry, listener, req, answer>>
      PROVE  Inv'
  <2>1. \A c \in Client : state'[c] \in {state[c], "lost"} /\ (state[c] = "idle" => state'[c] = "idle")
    BY <1>8 DEF Ends
  <2>2. AnswersFromWholeRegistry'
    BY <1>8, <2>1 DEF AnswersFromWholeRegistry
  <2>3. Types' /\ RegistryFilled' /\ ListensLast'
    BY <1>8, <2>1 DEF Ends, registry
  <2> QED BY <2>2, <2>3
<1>9. CASE MainReturns \/ ManifestFails \/ DeadlinePasses \/ ListenerFails
  BY <1>8, <1>9 DEF MainReturns, ManifestFails, DeadlinePasses, ListenerFails
<1>10. CASE Signal
  <2>1. CASE Ends("signal")
    BY <1>8, <1>10, <2>1 DEF Signal
  <2>2. CASE UNCHANGED state
    BY <1>10, <2>2 DEF Signal, registry, AnswersFromWholeRegistry
  <2> QED BY <1>10, <2>1, <2>2 DEF Signal
<1>11. CASE Listen
  BY <1>11 DEF Listen, registry, clientVars, AnswersFromWholeRegistry
<1>12. ASSUME NEW c \in Client, NEW r \in Request, Connect(c, r) PROVE Inv'
  BY <1>12 DEF Connect, Goto, serverVars, registry, AnswersFromWholeRegistry
<1>13. ASSUME NEW c \in Client, Route(c) PROVE Inv'
  BY <1>13 DEF Route, Goto, Answer, serverVars, registry, AnswersFromWholeRegistry
<1>14. ASSUME NEW c \in Client, BodyFails(c) PROVE Inv'
  BY <1>14 DEF BodyFails, Goto, Answer, serverVars, registry, AnswersFromWholeRegistry
<1>15. ASSUME NEW c \in Client, HandleRequest(c) PROVE Inv'
  BY <1>15, HandledInv
<1>16. ASSUME NEW c \in Client, Reply(c) PROVE Inv'
  BY <1>16 DEF Reply, Goto, serverVars, registry, AnswersFromWholeRegistry
<1>17. CASE UNCHANGED vars
  BY <1>17 DEF vars, serverVars, clientVars, registry, AnswersFromWholeRegistry
<1> QED
  BY <1>1, <1>2, <1>3, <1>4, <1>5, <1>6, <1>7, <1>9, <1>10, <1>11, <1>12, <1>13, <1>14, <1>15,
     <1>16, <1>17 DEF Next, Main

\* Whenever and by whomever the server is asked, it answers from the whole registry.
THEOREM WholeRegistry == Spec => []AnswersFromWholeRegistry
<1>1. Inv => AnswersFromWholeRegistry
  BY DEF Inv
<1> QED BY InitInv, NextInv, <1>1, PTL DEF Spec
=============================================================================
