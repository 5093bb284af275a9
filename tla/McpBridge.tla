----------------------------- MODULE McpBridge ------------------------------
(***************************************************************************)
(* The MCP servers of a Run (src/mcp-client.ts) and their stored           *)
(* authorization (src/mcp-oauth.ts): the servers are connected one after   *)
(* the other, a server that refuses is authorized in the browser, with a   *)
(* loopback callback, and what was opened is closed when one fails or the  *)
(* Run ends.  Updates of the stored record go through a queue.             *)
(*                                                                         *)
(* The SDK decides what is stored and when; the command that revokes an    *)
(* authorization runs before the Run connects or after it ended.           *)
(***************************************************************************)
EXTENDS Naturals, Sequences, FiniteSets

CONSTANTS Configs,         \* the selected servers, in order
          OAuthServer,     \* the one that is authorized
          RemoteTools, ReadOnlyTools, MaxTools,
          MaxUpdates, MaxCallbacks, MaxSaveFailures   \* bounds

Servers == {Configs[i] : i \in DOMAIN Configs}

\* normalizeIds keeps each selected server once.
ASSUME BridgeAssumption ==
    /\ Configs \in Seq(Servers) /\ OAuthServer \in Servers
    /\ \A i, j \in DOMAIN Configs : Configs[i] = Configs[j] => i = j
    /\ ReadOnlyTools \subseteq RemoteTools
    /\ {MaxTools, MaxUpdates, MaxCallbacks, MaxSaveFailures} \subseteq Nat

VARIABLES
    bridge,        \* "idle", "connecting", "undoing", "ready", "closing", "failed", "closed"
    nth, link,     \* the server that is being connected, and how far it is
    transports,    \* open transports: a server, and which of its two
    listening,     \* the callback's server is up
    connected,     \* what closeConnected has to close
    tools,
    callback, requests,
    used,          \* the code that was exchanged
    record,        \* the stored fields, by the number of the update that set them, or 0
    queue, loaded, \* #mutation: the updates that wait, and what they have loaded
    issued, awaited,
    lost,          \* the updates that could not be saved
    reported,      \* what those that were reported as done make of the record
    revoking, revoked

linkVars == <<bridge, nth, link, transports, listening, connected, tools>>
callbackVars == <<callback, requests, used>>
recordVars == <<record, queue, loaded, issued, lost, reported>>
revokeVars == <<revoking, revoked>>
bridgeVars == <<linkVars, callbackVars, recordVars, awaited, revokeVars>>

Fields == {"tokens", "client", "verifier", "discovery"}
Empty == [f \in Fields |-> 0]
Earlier == MaxUpdates + 2        \* set in an earlier Run
Registered == [Empty EXCEPT !.client = Earlier, !.discovery = Earlier]
NotLoaded == [f \in Fields |-> MaxUpdates + 1]
NoCallback == [settled |-> FALSE, ours |-> FALSE, code |-> 0]
Hints == {"refresh", "access"}

Current == Configs[nth]

BridgeInit ==
    /\ bridge = "idle" /\ nth = 1 /\ link = "make" /\ transports = {} /\ listening = FALSE
    /\ connected = <<>> /\ tools = <<>> /\ callback = NoCallback /\ requests = 0 /\ used = 0
    /\ record \in {Empty, Registered} /\ queue = <<>> /\ loaded = [u \in 1 .. MaxUpdates |-> NotLoaded] /\ issued = 0 /\ awaited = 0
    /\ reported = record /\ lost = {} /\ revoking = "no" /\ revoked = {}
---------------------------------------------------------------------------
(* #update: the stored record is loaded, changed and saved, one update at a *)
(* time.                                                                    *)

Queued(field, drop) ==
    /\ issued < MaxUpdates /\ issued' = issued + 1
    /\ queue' = Append(queue, [id |-> issued', field |-> field, drop |-> drop])

Applied(r, u) == [r EXCEPT ![u.field] = IF u.drop THEN 0 ELSE u.id]

\* MUTANT: an update does not wait for those before it.
AnyUpdate(k) == TRUE

FirstUpdate(k) == k = 1

Load(k) ==
    /\ FirstUpdate(k) /\ loaded[queue[k].id] = NotLoaded
    /\ loaded' = [loaded EXCEPT ![queue[k].id] = record]
    /\ UNCHANGED <<linkVars, callbackVars, record, queue, issued, lost, reported, awaited, revokeVars>>

\* A failed save is reported to whoever asked for the update; the next one goes on.
Save(k) ==
    LET u == queue[k] IN
    /\ loaded[u.id] # NotLoaded
    /\ queue' = SubSeq(queue, 1, k - 1) \o SubSeq(queue, k + 1, Len(queue))
    /\ \/ /\ record' = Applied(loaded[u.id], u)
          /\ reported' = Applied(reported, u) /\ UNCHANGED lost
       \/ /\ Cardinality(lost) < MaxSaveFailures /\ lost' = lost \union {u.id}
          /\ UNCHANGED <<record, reported>>
    /\ loaded' = [loaded EXCEPT ![u.id] = NotLoaded]
    /\ UNCHANGED <<linkVars, callbackVars, issued, awaited, revokeVars>>

\* The SDK stores what it learns and drops what the server refused, in the
\* requests of a connection and of later calls, which may overlap.
SdkUpdates ==
    /\ listening
    /\ \/ bridge = "connecting" /\ Current = OAuthServer /\ link \in {"connect", "reconnect"}
       \/ bridge = "ready"
    /\ \E f \in Fields, drop \in BOOLEAN : (drop => f = "tokens") /\ Queued(f, drop)
    /\ UNCHANGED <<linkVars, callbackVars, record, loaded, lost, reported, awaited, revokeVars>>

\* invalidateCredentials("all") deletes the record and waits for no update in
\* progress; bound: there is none.
InvalidateAll ==
    /\ listening /\ queue = <<>> /\ record # Empty
    /\ record' = Empty /\ reported' = Empty
    /\ UNCHANGED <<linkVars, callbackVars, queue, loaded, issued, lost, awaited, revokeVars>>
---------------------------------------------------------------------------
(* connectMcpServers.                                                      *)

Begin ==
    /\ bridge = "idle" /\ bridge' = "connecting"
    /\ UNCHANGED <<nth, link, transports, listening, connected, tools, callbackVars, recordVars, awaited, revokeVars>>

MakeTransport ==
    /\ bridge = "connecting" /\ link = "make"
    /\ \/ /\ link' = "connect" /\ transports' = transports \union {<<Current, 1>>}
          /\ IF Current = OAuthServer THEN listening' = TRUE /\ callback' = NoCallback
             ELSE UNCHANGED <<listening, callback>>
          /\ UNCHANGED bridge
       \/ bridge' = "undoing" /\ UNCHANGED <<link, transports, listening, callback>>
    /\ UNCHANGED <<nth, connected, tools, requests, used, recordVars, awaited, revokeVars>>

Connecting(step) == bridge = "connecting" /\ link = step
Attempt == IF link = "reconnect" THEN 2 ELSE 1

Connects ==
    /\ Connecting("connect") \/ Connecting("reconnect")
    /\ Current = OAuthServer => record.tokens # 0
    /\ connected' = Append(connected, <<Current, Attempt>>) /\ link' = "list"
    /\ UNCHANGED <<bridge, nth, transports, listening, tools, callbackVars, recordVars, awaited, revokeVars>>

\* The transport and the provider of this server are closed; then the catch
\* block closes those before it.
Fails ==
    /\ bridge' = "undoing" /\ transports' = transports \ {<<Current, Attempt>>}
    /\ listening' = (listening /\ Current # OAuthServer)
    /\ UNCHANGED <<nth, link, connected, tools>>

ConnectFails ==
    /\ Connecting("connect") \/ Connecting("reconnect")
    /\ Fails /\ UNCHANGED <<callbackVars, recordVars, awaited, revokeVars>>

\* UnauthorizedError, after the SDK stored its verifier and the user was sent to
\* the browser.
Unauthorized ==
    /\ Connecting("connect") /\ Current = OAuthServer /\ queue = <<>> /\ record.verifier # 0
    /\ link' = "await"
    /\ UNCHANGED <<bridge, nth, transports, listening, connected, tools, callbackVars, recordVars, awaited, revokeVars>>

\* The loopback callback takes the first request, whoever sent it.
CallbackReceived ==
    /\ listening /\ requests < MaxCallbacks /\ requests' = requests + 1
    /\ IF callback.settled THEN UNCHANGED callback
       ELSE \E ours \in BOOLEAN, code \in {0, requests'} :
                callback' = [settled |-> TRUE, ours |-> ours, code |-> code]
    /\ UNCHANGED <<linkVars, used, recordVars, awaited, revokeVars>>

\* waitForCode: the code of the expected state.
CodeReceived ==
    /\ Connecting("await") /\ callback.settled
    /\ IF callback.ours /\ callback.code # 0
       THEN /\ used' = callback.code /\ link' = "exchange"
            /\ UNCHANGED <<bridge, nth, transports, listening, connected, tools>>
       ELSE Fails /\ UNCHANGED used
    /\ UNCHANGED <<callback, requests, recordVars, awaited, revokeVars>>

CallbackTimesOut ==
    /\ Connecting("await") /\ ~callback.settled /\ Fails
    /\ UNCHANGED <<callbackVars, recordVars, awaited, revokeVars>>

\* finishAuth: the code and the stored verifier are exchanged for tokens.
Exchange ==
    /\ Connecting("exchange")
    /\ \/ /\ record.verifier # 0 /\ Queued("tokens", FALSE) /\ awaited' = issued'
          /\ link' = "storing"
          /\ UNCHANGED <<bridge, nth, transports, listening, connected, tools>>
       \/ Fails /\ UNCHANGED <<queue, issued, awaited>>
    /\ UNCHANGED <<callbackVars, record, loaded, lost, reported, revokeVars>>

Waits(id) == \E k \in DOMAIN queue : queue[k].id = id
Done(id) == ~Waits(id) /\ id \notin lost

Authorized ==
    /\ Connecting("storing") /\ ~Waits(awaited)
    /\ IF Done(awaited)
       THEN /\ transports' = (transports \ {<<Current, 1>>}) \union {<<Current, 2>>} /\ link' = "reconnect"
            /\ UNCHANGED <<bridge, nth, listening, connected, tools>>
       ELSE Fails
    /\ UNCHANGED <<callbackVars, recordVars, awaited, revokeVars>>

\* createToolDefinition, under the exposed name.
Tool(remote) ==
    [server |-> Current, remote |-> remote, risk |-> IF remote \in ReadOnlyTools THEN "read" ELSE "execute"]

\* A page of listTools; a server may name a tool twice, or too many.
ListTools ==
    /\ Connecting("list")
    /\ \E page \in UNION {[1 .. n -> RemoteTools] : n \in 0 .. 2}, last \in BOOLEAN :
         LET all == tools \o [i \in DOMAIN page |-> Tool(page[i])]
             collide == \E i, j \in DOMAIN all : i # j /\ all[i] = all[j]
         IN  /\ last \/ page # <<>>
             /\ IF collide \/ Len(all) > MaxTools
                THEN bridge' = "undoing" /\ UNCHANGED <<nth, link, tools>>
                ELSE /\ tools' = all
                     /\ IF ~last THEN UNCHANGED <<bridge, nth, link>>
                        ELSE IF nth = Len(Configs) THEN bridge' = "ready" /\ UNCHANGED <<nth, link>>
                        ELSE nth' = nth + 1 /\ link' = "make" /\ UNCHANGED bridge
    /\ UNCHANGED <<transports, listening, connected, callbackVars, recordVars, awaited, revokeVars>>

ListFails ==
    /\ Connecting("list") /\ bridge' = "undoing"
    /\ UNCHANGED <<nth, link, transports, listening, connected, tools, callbackVars, recordVars, awaited, revokeVars>>

RunEnds ==
    /\ bridge = "ready" /\ bridge' = "closing"
    /\ UNCHANGED <<nth, link, transports, listening, connected, tools, callbackVars, recordVars, awaited, revokeVars>>

\* closeConnected, from the last one.
CloseLast ==
    /\ bridge \in {"undoing", "closing"}
    /\ IF connected = <<>>
       THEN /\ bridge' = IF bridge = "undoing" THEN "failed" ELSE "closed"
            /\ UNCHANGED <<transports, listening, connected>>
       ELSE LET last == connected[Len(connected)] IN
            /\ transports' = transports \ {last}
            /\ listening' = (listening /\ last[1] # OAuthServer)
            /\ connected' = SubSeq(connected, 1, Len(connected) - 1) /\ UNCHANGED bridge
    /\ UNCHANGED <<nth, link, tools, callbackVars, recordVars, awaited, revokeVars>>
---------------------------------------------------------------------------
(* revoke, by the command of src/mcp-oauth-cli.ts; bound: no Run that uses  *)
(* the authorization is under way, and no record that is being updated.     *)

RevokeStarts ==
    /\ revoking = "no" /\ bridge \in {"failed", "closed"} /\ queue = <<>>
    /\ revoking' = IF record.tokens = 0 THEN "done"
                   ELSE IF record.discovery = 0 \/ record.client = 0 THEN "failed" ELSE "refresh"
    /\ UNCHANGED <<linkVars, callbackVars, recordVars, awaited, revoked>>

\* The refresh token, then the access token, then the stored tokens.
Revokes ==
    /\ revoking \in Hints
    /\ \/ /\ revoked' = revoked \union {revoking}
          /\ IF revoking = "refresh" THEN revoking' = "access" /\ UNCHANGED <<queue, issued, awaited>>
             ELSE Queued("tokens", TRUE) /\ awaited' = issued' /\ revoking' = "storing"
       \/ revoking' = "failed" /\ UNCHANGED <<revoked, queue, issued, awaited>>
    /\ UNCHANGED <<linkVars, callbackVars, record, loaded, lost, reported>>

RevokeEnds ==
    /\ revoking = "storing" /\ ~Waits(awaited)
    /\ revoking' = IF Done(awaited) THEN "done" ELSE "failed"
    /\ UNCHANGED <<linkVars, callbackVars, recordVars, awaited, revoked>>

BridgeNext ==
    \/ Begin \/ MakeTransport \/ Connects \/ ConnectFails \/ Unauthorized
    \/ CallbackReceived \/ CodeReceived \/ CallbackTimesOut \/ Exchange \/ Authorized
    \/ ListTools \/ ListFails \/ RunEnds \/ CloseLast
    \/ SdkUpdates \/ InvalidateAll \/ (\E k \in DOMAIN queue : Load(k) \/ Save(k))
    \/ RevokeStarts \/ Revokes \/ RevokeEnds

BridgeSpec == BridgeInit /\ [][BridgeNext]_bridgeVars
---------------------------------------------------------------------------
\* Connections that failed or ended leave nothing open, those that are ready are all
\* there, in order, and their tools have one name each; the code that is exchanged
\* came with this provider's state in the first request of the callback; the record is
\* what the updates that were reported as done make of it, whatever overlapped; and after a
\* revocation both tokens are revoked and none is stored.
BridgeIsSound ==
    /\ bridge \in {"idle", "failed", "closed"} => transports = {} /\ ~listening
    /\ bridge = "ready" =>
         /\ [i \in DOMAIN connected |-> connected[i][1]] = Configs
         /\ transports = {connected[i] : i \in DOMAIN connected}
         /\ \A i, j \in DOMAIN tools : i # j => <<tools[i].server, tools[i].remote>> # <<tools[j].server, tools[j].remote>>
         /\ Len(tools) <= MaxTools
    /\ used # 0 => callback.ours /\ used = callback.code
    /\ record = reported
    /\ revoking \in {"storing", "done"} /\ revoked # {} => revoked = Hints
    /\ revoking = "done" => record.tokens = 0
=============================================================================
