------------------------------ MODULE HttpPool ------------------------------
(***************************************************************************)
(* HttpConnectionPool (http/http_connection.cc): requests that take a      *)
(* connection from the pool or make one, send, receive with a timeout and  *)
(* give the connection back. An answer may come when nobody waits for it   *)
(* any more. m_createTime is never set, so no connection is found too old. *)
(***************************************************************************)
EXTENDS Integers, FiniteSets, SequencesExt

CONSTANTS Requests,   \* the calls of doRequest()
          HttpConns,  \* the HttpConnection objects, used again when deleted
          MaxRequest  \* m_maxRequest

VARIABLES idle,   \* m_conns
          conn,   \* the connections
          req,    \* the requests
          total   \* m_total

httpVars == <<idle, conn, req, total>>

\* open is m_isConnected, uses is m_request; the server has asked to answer,
\* input is on its way or unread, and peer says that it is still there.
NoConn == [made |-> FALSE, open |-> FALSE, uses |-> 0, asked |-> <<>>, input |-> <<>>,
           peer |-> FALSE]

HttpInit ==
    /\ idle = <<>> /\ total = 0
    /\ conn = [c \in HttpConns |-> NoConn]
    /\ req = [r \in Requests |-> [pc |-> "new", conn |-> "none", got |-> "none"]]

Goes(r, place, c, got) == req' = [req EXCEPT ![r] = [pc |-> place, conn |-> c, got |-> got]]

-----------------------------------------------------------------------------
\* getConnection() under the lock: connections that were closed are deleted
\* on the way to the first that is open.
GetConnection(r) ==
    /\ req[r].pc = "new"
    /\ LET k == SelectInSeq(idle, LAMBDA c : conn[c].open)
           gone == IF k = 0 THEN idle ELSE SubSeq(idle, 1, k - 1)
       IN /\ idle' = IF k = 0 THEN <<>> ELSE SubSeq(idle, k + 1, Len(idle))
          /\ conn' = [c \in HttpConns |-> IF Contains(gone, c) THEN NoConn ELSE conn[c]]
          /\ total' = total - Len(gone)
          /\ IF k = 0 THEN Goes(r, "connect", "none", "none") ELSE Goes(r, "send", idle[k], "none")

\* getConnection() without one: the address, the socket or connect() may fail.
ConnectNew(r) ==
    /\ req[r].pc = "connect"
    /\ \/ \E c \in HttpConns :
            /\ ~conn[c].made
            /\ conn' = [conn EXCEPT ![c] = [NoConn EXCEPT !.made = TRUE, !.open = TRUE, !.peer = TRUE]]
            /\ Goes(r, "send", c, "none") /\ total' = total + 1
       \/ Goes(r, "done", "none", "error") /\ UNCHANGED <<conn, total>>
    /\ UNCHANGED idle

\* sendRequest(): what is written to a peer that is gone is lost, or the
\* write fails; the connection is not closed then.
SendRequest(r) ==
    LET c == req[r].conn IN
    /\ req[r].pc = "send"
    /\ \/ /\ Goes(r, "recv", c, "none")
          /\ conn' = [conn EXCEPT ![c].asked = IF conn[c].peer THEN Append(@, r) ELSE @]
       \/ ~conn[c].peer /\ Goes(r, "release", c, "error") /\ UNCHANGED conn
    /\ UNCHANGED <<idle, total>>

\* Mutant: a request that timed out leaves its connection open.
RecvFailsOpen(r) ==
    /\ req[r].pc = "recv"
    /\ Goes(r, "release", req[r].conn, "error")
    /\ UNCHANGED <<idle, conn, total>>

\* recvResponse() closes the connection and answers null after a timeout, an
\* error, the end of the stream, and on what is not the start of a response.
RecvFails(r) ==
    LET c == req[r].conn IN
    /\ req[r].pc = "recv"
    /\ Goes(r, "release", c, "error")
    /\ conn' = [conn EXCEPT ![c].open = FALSE]
    /\ UNCHANGED <<idle, total>>

\* recvResponse() takes the first response there is.
RecvResponse(r) ==
    LET c == req[r].conn IN
    /\ req[r].pc = "recv"
    /\ conn[c].input # <<>> /\ Head(conn[c].input) # "body"
    /\ Goes(r, "release", c, Head(conn[c].input))
    /\ conn' = [conn EXCEPT ![c].input = Tail(@)]
    /\ UNCHANGED <<idle, total>>

\* ReleasePtr(): back to the pool, or deleted when closed or used up.
ReleasePtr(r) ==
    LET c == req[r].conn IN
    /\ req[r].pc = "release"
    /\ Goes(r, "done", "none", req[r].got)
    /\ IF ~conn[c].open \/ conn[c].uses + 1 >= MaxRequest
       THEN conn' = [conn EXCEPT ![c] = NoConn] /\ total' = total - 1 /\ UNCHANGED idle
       ELSE conn' = [conn EXCEPT ![c].uses = @ + 1] /\ idle' = Append(idle, c) /\ UNCHANGED total

\* The server answers the oldest request, at any time. A body without a length
\* is no part of what recvResponse() takes; some of it may be left in the socket.
Serve(c) ==
    /\ conn[c].asked # <<>>
    /\ \E rest \in {<<>>, <<"body">>} :
         conn' = [conn EXCEPT ![c].asked = Tail(@),
                              ![c].input = @ \o <<Head(conn[c].asked)>> \o rest]
    /\ UNCHANGED <<idle, req, total>>

Hangup(c) ==
    /\ conn[c].peer
    /\ conn' = [conn EXCEPT ![c].peer = FALSE, ![c].asked = <<>>]
    /\ UNCHANGED <<idle, req, total>>

HttpNext ==
    \/ \E r \in Requests : \/ GetConnection(r) \/ ConnectNew(r) \/ SendRequest(r)
                           \/ RecvFails(r) \/ RecvResponse(r) \/ ReleasePtr(r)
    \/ \E c \in HttpConns : Serve(c) \/ Hangup(c)

-----------------------------------------------------------------------------
\* A request gets its own response or an error, though an answer may arrive
\* after the timeout and a body may be left in the socket when the connection
\* goes back to the pool; and m_total is the number of connections there are.
OwnResponse ==
    /\ \A r \in Requests : req[r].got \in {"none", "error", r}
    /\ total = Cardinality({c \in HttpConns : conn[c].made})
=============================================================================
