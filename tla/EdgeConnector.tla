------------------------------ MODULE EdgeConnector ------------------------------
(***************************************************************************)
(* EdgeConnector: the process beside the gateway that dials the edge, takes *)
(* requests from the connection and sends each as an HTTP request to the   *)
(* gateway on the same machine.  Messages of the edge arrive as steps; what *)
(* is sent back is not needed here (EdgeSession receives it).              *)
(***************************************************************************)
EXTENDS Naturals, FiniteSets

CONSTANTS
    Requests,      \* requests that the edge relays, each with its own id
    MaxConcurrent, \* maxConcurrentRequests
    MaxGen         \* bound: connections in one behaviour

ASSUME ConnectorBounds == MaxConcurrent \in Nat \ {0} /\ MaxGen \in Nat

VARIABLES
    conn,            \* waiting, connecting, open, closing, or ended with run()
    protocolReady,   \* connectionState.protocolReady
    quitting,        \* stopped
    generation,      \* generation
    activeRequests,  \* activeRequests
    taken,           \* the connection that brought each request, 0 before
    http             \* the HTTP request made for it: none, sent, aborted, over

connectorVars == <<conn, protocolReady, quitting, generation, activeRequests, taken, http>>

ConnectorInit ==
    /\ conn = "waiting" /\ protocolReady = FALSE /\ quitting = FALSE
    /\ generation = 0
    /\ activeRequests = {}
    /\ taken = [r \in Requests |-> 0]
    /\ http = [r \in Requests |-> "none"]

-----------------------------------------------------------------------------
\* connectOnce
Dial ==
    /\ conn = "waiting" /\ ~quitting /\ generation < MaxGen
    /\ conn' = "connecting"
    /\ generation' = generation + 1
    /\ UNCHANGED <<protocolReady, quitting, activeRequests, taken, http>>

Opened ==
    /\ conn = "connecting"
    /\ conn' = "open"
    /\ UNCHANGED <<protocolReady, quitting, generation, activeRequests, taken, http>>

\* Mutant: the table is emptied and nothing is aborted.
AbortAllSilently == UNCHANGED http /\ activeRequests' = {}

\* abortAllRequests
AbortAll ==
    /\ http' = [r \in Requests |->
                  IF r \in activeRequests /\ http[r] = "sent" THEN "aborted" ELSE http[r]]
    /\ activeRequests' = {}

\* The 'close' event: lost, refused, ended by the heartbeat, or closed by either side.
Closed ==
    /\ conn \in {"connecting", "open", "closing"}
    /\ AbortAll
    /\ conn' = IF quitting THEN "ended" ELSE "waiting"
    /\ protocolReady' = FALSE
    /\ UNCHANGED <<quitting, generation, taken>>

\* stop: run() ends at once while it waits to dial again
Stop ==
    /\ ~quitting
    /\ quitting' = TRUE
    /\ AbortAll
    /\ conn' = CASE conn = "waiting" -> "ended"
                 [] conn \in {"connecting", "open"} -> "closing"
                 [] OTHER -> conn
    /\ UNCHANGED <<protocolReady, generation, taken>>

-----------------------------------------------------------------------------
\* Messages arrive until the connection is closed, also while it is closing.
Hears == conn \in {"open", "closing"}

CloseSocket == conn' = "closing"

\* The first edge-hello; another one, the id of a request in the table, or a message that
\* is binary, too large or not of the protocol, closes the connection.
Hello ==
    /\ Hears /\ ~protocolReady
    /\ protocolReady' = TRUE
    /\ UNCHANGED <<conn, quitting, generation, activeRequests, taken, http>>

BadMessage ==
    /\ conn = "open"
    /\ CloseSocket
    /\ UNCHANGED <<protocolReady, quitting, generation, activeRequests, taken, http>>

\* http-request: refused before the hello (the connection is closed), at the limit (503),
\* and when its size or route is not allowed; otherwise forwarded.
Early(r) ==
    /\ Hears /\ taken[r] = 0 /\ ~protocolReady
    /\ taken' = [taken EXCEPT ![r] = generation]
    /\ http' = [http EXCEPT ![r] = "over"]
    /\ CloseSocket
    /\ UNCHANGED <<protocolReady, quitting, generation, activeRequests>>

Refuse(r) ==
    /\ Hears /\ taken[r] = 0 /\ protocolReady
    /\ taken' = [taken EXCEPT ![r] = generation]
    /\ http' = [http EXCEPT ![r] = "over"]
    /\ UNCHANGED <<conn, protocolReady, quitting, generation, activeRequests>>

Forward(r) ==
    /\ Hears /\ taken[r] = 0 /\ protocolReady
    /\ Cardinality(activeRequests) < MaxConcurrent
    /\ taken' = [taken EXCEPT ![r] = generation]
    /\ activeRequests' = activeRequests \cup {r}
    /\ http' = [http EXCEPT ![r] = "sent"]
    /\ UNCHANGED <<conn, protocolReady, quitting, generation>>

\* http-cancel: the request stays in the table until its fetch has settled.
Cancel(r) ==
    /\ Hears /\ protocolReady
    /\ r \in activeRequests /\ http[r] = "sent"
    /\ http' = [http EXCEPT ![r] = "aborted"]
    /\ UNCHANGED <<conn, protocolReady, quitting, generation, activeRequests, taken>>

\* The fetch settles: with the gateway's answer, which goes out if the socket is still
\* open; or because it was aborted or failed.  The finally block removes the request.
Settle(r, answered) ==
    /\ r \in activeRequests
    /\ http[r] = "aborted" \/ answered
    /\ activeRequests' = activeRequests \ {r}
    /\ http' = [http EXCEPT ![r] = IF @ = "sent" THEN "over" ELSE @]
    /\ UNCHANGED <<conn, protocolReady, quitting, generation, taken>>

ConnectionStep == Dial \/ Opened \/ Closed \/ Stop \/ Hello \/ BadMessage

MessageStep(r) == Early(r) \/ Refuse(r) \/ Forward(r) \/ Cancel(r)
=============================================================================
