----------------------------- MODULE ApiServer -----------------------------
(***************************************************************************)
(* The API server: the accept loop of api/api_server.c, the handler that    *)
(* the pool's workers run, and the routing of api/request_router.c.  The    *)
(* thread pool is the abstract JobPool, which ThreadPool implements; the    *)
(* engine is one step, which QueryEngine details.  A client is whoever is   *)
(* at the other end of a descriptor; descriptors are reused.                *)
(*                                                                          *)
(* A request is sent in pieces, and what matters of it is how many of them  *)
(* have arrived: 1 a part of the request line, 2 the line with its CRLF,    *)
(* 3 the headers with the blank line, 4 the body up to the middle of the    *)
(* SQL string, 5 the whole body.                                            *)
(***************************************************************************)
EXTENDS Integers, Sequences, FiniteSets, FiniteSetsExt

CONSTANTS Fds,       \* the descriptors accept can return
          NoFd,      \* the accept thread has none
          Requests,  \* the requests that clients send
          Capacity,  \* queue_capacity
          N          \* worker_count

Routes   == {"/health", "/HEALTH", "/query", "other"}
Statuses == {200, 400, 404, 405, 500, 503}
NoStatus == 0

\* cuts: the numbers of pieces after which the network cuts the request;
\* length: the number of pieces that Content-Length announces (3: none, zero,
\* or so large that expected_total wraps; 6: more than is sent);
\* has_sql: the whole body is JSON with a string field sql.
RequestType == [path : Routes, method : {"GET", "POST"}, cuts : SUBSET (1 .. 5),
                length : 3 .. 6, has_sql : BOOLEAN]
ASSUME RequestsAssumption ==
  Requests \subseteq RequestType /\ \A r \in Requests : r.cuts # {}
ASSUME NoFdAssumption == NoFd \notin Fds
\* api_server_run refuses other values.
ASSUME NAssumption == N \in Nat \ {0}
ASSUME CapacityAssumption == Capacity \in Nat \ {0}

VARIABLES
  apc,       \* where the accept thread is in api_server_run
  afd,       \* its local client_fd
  conn,      \* per descriptor: the connection
  pending, running, closed,   \* the thread pool, see JobPool
  alive      \* the process has not been killed by SIGPIPE

poolVars == <<pending, running, closed>>
vars == <<apc, afd, conn, pending, running, closed, alive>>

\* The latest submission is that of the accept thread's client_fd.
Pool == INSTANCE JobPool WITH Jobs <- Fds, MaxRunning <- N,
                              outcome <- <<afd, apc # "refuse">>

AcceptPc == {"accept", "peek", "submit", "serve", "refuse", "joining", "returned"}

\* at: where the connection's handler is ("idle": no handler yet);
\* ran: how often the engine executed its statement.
Connection == [req : Requests, sent : 0 .. 5, read : 0 .. 5,
               peer : {"sending", "shut", "gone"},
               at : {"idle", "reading", "routing", "executing", "sending"},
               ran : 0 .. 1, status : Statuses \cup {NoStatus}]
Closed == [at |-> "closed"]

TypeOK == /\ apc \in AcceptPc
          /\ afd \in Fds \cup {NoFd}
          /\ conn \in [Fds -> Connection \cup {Closed}]
          /\ pending \in Seq(Fds) /\ Len(pending) <= Capacity
          /\ running \subseteq Fds /\ Cardinality(running) <= N
          /\ closed \in BOOLEAN
          /\ alive \in BOOLEAN

Init == /\ apc = "accept" /\ afd = NoFd
        /\ conn = [fd \in Fds |-> Closed]
        /\ pending = <<>> /\ running = {} /\ closed = FALSE
        /\ alive = TRUE

Open == {fd \in Fds : conn[fd] # Closed}

\* The descriptor the accept thread still answers for.
Accepted == IF apc \in {"peek", "submit", "serve", "refuse"} THEN {afd} ELSE {}

-----------------------------------------------------------------------------
(* The clients *)

Unsent(c) == {k \in c.req.cuts : k > c.sent}

\* The next part of the request reaches the server's socket (one that arrives
\* after the handler stopped reading makes no difference).
SendPart(fd) ==
  /\ fd \in Open /\ conn[fd].at \in {"idle", "reading"}
  /\ conn[fd].peer = "sending" /\ Unsent(conn[fd]) # {}
  /\ conn' = [conn EXCEPT ![fd].sent = Min(Unsent(conn[fd]))]
  /\ UNCHANGED <<apc, afd, poolVars, alive>>

\* The client sends no more and waits for the answer, or is gone altogether.
Leave(fd) ==
  /\ fd \in Open
  /\ conn[fd].peer = "sending"
  /\ \E peer \in {"shut", "gone"} : conn' = [conn EXCEPT ![fd].peer = peer]
  /\ UNCHANGED <<apc, afd, poolVars, alive>>

ClientStep(fd) == SendPart(fd) \/ Leave(fd)

\* recv has something to return: unread bytes, the end of the stream.
Readable(fd) == conn[fd].sent > conn[fd].read \/ conn[fd].peer # "sending"

-----------------------------------------------------------------------------
(* The accept loop: api_server_run *)

\* accept returns a descriptor that is not in use.
Accept(fd) ==
  /\ alive /\ apc = "accept" /\ fd \notin Open
  /\ \E r \in Requests :
       conn' = [conn EXCEPT ![fd] =
                  [req |-> r, sent |-> 0, read |-> 0, peer |-> "sending",
                   at |-> "idle", ran |-> 0, status |-> NoStatus]]
  /\ afd' = fd
  /\ apc' = "peek"
  /\ UNCHANGED <<poolVars, alive>>

\* accept fails: the listening socket is closed and the pool shut down.
AcceptFails ==
  /\ alive /\ apc = "accept"
  /\ apc' = "joining"
  /\ UNCHANGED <<afd, conn, alive>>
  /\ Pool!Close

\* Deviation: api_server_run returns before the workers are joined.
JoinPoolAtOnce ==
  /\ alive /\ apc = "joining"
  /\ apc' = "returned"
  /\ UNCHANGED <<afd, conn, poolVars, alive>>

\* thread_pool_shutdown returns once the queue is drained and the handlers
\* have returned; main then destroys the engine.
JoinPool ==
  /\ alive /\ apc = "joining"
  /\ pending = <<>> /\ running = {}
  /\ apc' = "returned"
  /\ UNCHANGED <<afd, conn, poolVars, alive>>

\* Deviation: there is no fast path.
NotOnFastPath(c) == FALSE

\* api_server_is_health_fast_path_request, on the bytes that MSG_PEEK sees:
\* the whole request line, the method in any case, the path as spelled.
IsHealthFastPath(c) ==
  c.sent >= 2 /\ c.req.method = "GET" /\ c.req.path = "/health"

\* The accept thread waits in recv(MSG_PEEK) for the connection's first bytes;
\* from a client that is gone it may get an error instead.
Peek ==
  /\ alive /\ apc = "peek" /\ Readable(afd)
  /\ \/ /\ IsHealthFastPath(conn[afd])
        /\ apc' = "serve"
        /\ conn' = [conn EXCEPT ![afd].at = "reading"]
     \/ /\ ~IsHealthFastPath(conn[afd]) \/ conn[afd].peer = "gone"
        /\ apc' = "submit" /\ conn' = conn
  /\ UNCHANGED <<afd, poolVars, alive>>

\* Deviation: a status that no client of the server knows.
RefusedAs429(fd) ==
  [conn EXCEPT ![fd].status = 429, ![fd].at = "sending"]

Refused(fd) == [conn EXCEPT ![fd].status = 503, ![fd].at = "sending"]

\* Deviation: the accept thread also answers what it has handed to the pool.
SubmitAndAnswer ==
  /\ alive /\ apc = "submit"
  /\ apc' = "serve" /\ conn' = Refused(afd)
  /\ UNCHANGED <<afd, alive>>
  /\ Pool!Submit(afd)

\* thread_pool_submit; a refusal is answered with 503 by the accept thread.
Submit ==
  /\ alive /\ apc = "submit"
  /\ \/ apc' = "accept" /\ conn' = conn
     \/ apc' = "refuse" /\ conn' = Refused(afd)
  /\ UNCHANGED <<afd, alive>>
  /\ Pool!Submit(afd)

\* A worker takes the oldest job and enters api_server_worker_handle_client.
StartWorker ==
  /\ alive /\ pending # <<>>
  /\ conn' = [conn EXCEPT ![Head(pending)].at = "reading"]
  /\ UNCHANGED <<apc, afd, alive>>
  /\ Pool!Start

-----------------------------------------------------------------------------
(* api_server_handle_client, in a worker or in the accept thread *)

Handled(fd) == alive /\ fd \in Open

Answer(fd, status) ==
  /\ conn' = [conn EXCEPT ![fd].status = status, ![fd].at = "sending"]
  /\ UNCHANGED <<apc, afd, poolVars, alive>>

HeaderComplete(c) == c.read >= 3

\* header_complete && length >= expected_total
RequestComplete(c) == c.read >= 3 /\ c.read >= c.req.length

\* One recv of api_server_read_http_request that returns bytes: everything
\* that has arrived (recv's chunk limit shows as pieces that arrive later).
Receive(fd) ==
  LET c == [conn[fd] EXCEPT !.read = conn[fd].sent] IN
  /\ Handled(fd) /\ conn[fd].at = "reading" /\ c.read > conn[fd].read
  /\ conn' = [conn EXCEPT ![fd] =
                IF RequestComplete(c) THEN [c EXCEPT !.at = "routing"] ELSE c]
  /\ UNCHANGED <<apc, afd, poolVars, alive>>

\* Deviation: at the end of the stream the handler goes on reading until the
\* headers are complete.
ReceiveEndGoesOn(fd) ==
  /\ Handled(fd) /\ conn[fd].at = "reading"
  /\ conn[fd].peer # "sending"
  /\ conn[fd].read = conn[fd].sent /\ HeaderComplete(conn[fd])
  /\ conn' = [conn EXCEPT ![fd].at = "routing"]
  /\ UNCHANGED <<apc, afd, poolVars, alive>>

\* recv returns 0 (or, from a client that is gone, an error): what was read is
\* the request if its headers are complete.
ReceiveEnd(fd) ==
  /\ Handled(fd) /\ conn[fd].at = "reading"
  /\ conn[fd].peer # "sending"
  /\ \/ /\ conn[fd].read = conn[fd].sent /\ HeaderComplete(conn[fd])
        /\ conn' = [conn EXCEPT ![fd].at = "routing"]
        /\ UNCHANGED <<apc, afd, poolVars, alive>>
     \/ /\ conn[fd].read = conn[fd].sent /\ ~HeaderComplete(conn[fd])
        /\ Answer(fd, 400)
     \/ conn[fd].peer = "gone" /\ Answer(fd, 400)

\* Deviation: what has arrived of the SQL string is taken for all of it.
ExtractsSqlUnclosed(c) == c.req.has_sql /\ c.read >= 4

\* extract_sql_from_json finds the field and the end of its string.
ExtractsSql(c) == c.req.has_sql /\ c.read = 5

\* route_request, for everything but a statement.
Route(fd) ==
  LET r == conn[fd].req IN
  /\ Handled(fd) /\ conn[fd].at = "routing"
  /\ \/ r.path \in {"/health", "/HEALTH"}
          /\ Answer(fd, IF r.method = "GET" THEN 200 ELSE 405)
     \/ r.path = "/query" /\ r.method # "POST" /\ Answer(fd, 405)
     \/ r.path = "/query" /\ r.method = "POST" /\ ~ExtractsSql(conn[fd])
          /\ Answer(fd, 400)
     \/ r.path = "other" /\ Answer(fd, 404)

\* handle_query_request calls execute_query_with_lock ...
CallEngine(fd) ==
  /\ Handled(fd) /\ conn[fd].at = "routing"
  /\ conn[fd].req.path = "/query" /\ conn[fd].req.method = "POST"
  /\ ExtractsSql(conn[fd])
  /\ conn' = [conn EXCEPT ![fd].at = "executing", ![fd].ran = @ + 1]
  /\ UNCHANGED <<apc, afd, poolVars, alive>>

\* ... which returns with a result or with an error.
EngineReturns(fd) ==
  /\ Handled(fd) /\ conn[fd].at = "executing"
  /\ \E status \in {200, 400} : Answer(fd, status)

\* What arrives passes API_SERVER_MAX_REQUEST_SIZE or there is no memory for
\* it; there may be none for the answer either, and then nothing is sent.
ReadFails(fd) ==
  /\ Handled(fd) /\ conn[fd].at = "reading" /\ Readable(fd)
  /\ \E status \in {NoStatus, 400} : Answer(fd, status)

\* The request line does not parse (400), or there is no memory for the
\* response (500) or for the error response itself.
RouteFails(fd) ==
  /\ Handled(fd)
  /\ \/ conn[fd].at = "routing" /\ Answer(fd, 400)
     \/ /\ conn[fd].at \in {"routing", "executing"}
        /\ \E status \in {NoStatus, 500} : Answer(fd, status)

\* api_server_send_all, whose result nobody looks at, then close: by the
\* worker, whose job this ends, or by the accept thread.
SendAndClose(fd) ==
  /\ Handled(fd) /\ conn[fd].at = "sending"
  /\ conn' = [conn EXCEPT ![fd] = Closed]
  /\ \/ fd \in running /\ UNCHANGED <<apc, afd>> /\ Pool!Finish(fd)
     \/ fd \in Accepted /\ apc' = "accept" /\ UNCHANGED <<afd, poolVars>>
  /\ alive' = alive

\* send to a client that is gone may raise SIGPIPE, which nobody handles.
Sigpipe(fd) ==
  /\ Handled(fd) /\ conn[fd].at = "sending"
  /\ conn[fd].peer = "gone" /\ conn[fd].status # NoStatus
  /\ alive' = FALSE
  /\ UNCHANGED <<apc, afd, conn, poolVars>>

\* The steps of handle_client that need nobody but the client.
HandlerStep(fd) == \/ Receive(fd) \/ ReceiveEnd(fd) \/ Route(fd)
                   \/ CallEngine(fd) \/ SendAndClose(fd)

AcceptThread == \/ Peek \/ Submit \/ JoinPool
                \/ \E fd \in Accepted : HandlerStep(fd)

Next == \/ \E fd \in Fds : \/ ClientStep(fd) \/ Accept(fd)
                           \/ HandlerStep(fd) \/ EngineReturns(fd)
                           \/ ReadFails(fd) \/ RouteFails(fd) \/ Sigpipe(fd)
        \/ Peek \/ Submit \/ JoinPool \/ AcceptFails
        \/ StartWorker

Spec == Init /\ [][Next]_vars

\* The accept thread runs when it can.  Nothing is assumed of the workers.
FairSpec == Spec /\ WF_vars(AcceptThread)

\* The workers run when they can and the engine returns (EveryCallReturns).
WorkersRun == /\ WF_vars(StartWorker)
              /\ \A fd \in Fds : /\ WF_vars(fd \in running /\ HandlerStep(fd))
                                 /\ WF_vars(EngineReturns(fd))

\* A client keeps sending until its request is out, and then leaves.
ClientsGoOn == \A fd \in Fds : WF_vars(ClientStep(fd))

-----------------------------------------------------------------------------
\* Every open descriptor has exactly one thread or queue slot that answers it
\* and closes it, and nobody keeps a descriptor that is closed and may already
\* stand for another client: accept thread, queue and workers hand it over.
OneOwnerPerDescriptor ==
  /\ \A k, l \in 1 .. Len(pending) : pending[k] = pending[l] => k = l
  /\ \A fd \in Fds :
       LET queued == {k \in 1 .. Len(pending) : pending[k] = fd}
           owners == Cardinality(queued) + Cardinality(running \cap {fd})
                       + Cardinality(Accepted \cap {fd})
       IN  owners = IF fd \in Open THEN 1 ELSE 0

\* What the client is told is what happened: 404, 405 and 503 mean that the
\* engine has not been called, a query answered 200 has been executed once, and
\* only after all of its SQL text arrived, however it was cut into pieces and
\* whatever Content-Length said.
AnswerMatchesEffect ==
  \A fd \in Open :
    LET c == conn[fd] IN
    /\ c.status \in {404, 405, 503} => c.ran = 0
    /\ c.status = 200 /\ c.req.path = "/query" => c.ran = 1
    /\ c.ran = 1 => c.read = 5

\* api_server_run returns, and main destroys the engine, only when no handler
\* can call the engine any more.
EngineOutlivesHandlers ==
  apc = "returned" => \A fd \in Fds : fd \in Open => conn[fd].at = "idle"

\* A GET /health whose request line the accept thread sees at once is answered
\* although every worker is stuck and the queue is full, unless its client goes
\* away or the process has died of SIGPIPE.
HealthNeedsNoWorker ==
  ClientsGoOn =>
    \A fd \in Fds :
      (/\ apc = "peek" /\ afd = fd
       /\ conn[fd].req.path = "/health" /\ conn[fd].req.method = "GET"
       /\ conn[fd].sent >= 2)
        ~> \/ fd \in Accepted /\ conn[fd].at = "sending" /\ conn[fd].status # 503
           \/ fd \in Open /\ conn[fd].peer = "gone"
           \/ ~alive

\* Every accepted connection is answered and closed, also when accept fails
\* meanwhile, as long as the clients go on and none of them makes the process
\* die of SIGPIPE.
EveryConnectionEnds ==
  ClientsGoOn /\ WorkersRun =>
    \A fd \in Fds : (fd \in Open) ~> (fd \notin Open \/ ~alive)
=============================================================================
