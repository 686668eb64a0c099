---------------------------- MODULE RenderServer ----------------------------
(***************************************************************************)
(* The render server (render-server/src): one thread accepts connections,  *)
(* a bounded channel hands them to the workers, each of which reads one    *)
(* request, renders it and answers.  Ctrl-C, or the end of the parent      *)
(* process, ends the server (lifetime_guard.rs): it stops accepting and    *)
(* joins its workers.                                                      *)
(***************************************************************************)
EXTENDS Naturals, Sequences, FiniteSets, SequencesExt

CONSTANTS
  Pool,      \* worker threads
  Clients,   \* connections, one request each
  RequestsSent \* requests a client may send

\* What of a request the server tells apart: how its head arrives, the length it states,
\* whether its body is complete, and the rest of it; and of its client, whether it takes
\* the answer in the end, by reading it or by going away.
RequestTypes ==
  [head: {"whole", "large", "empty", "cut", "malformed"}, length: {"fits", "large", "none", "invalid"},
   body: BOOLEAN, method: {"POST", "GET"}, path: {"/render", "/play", "/play-mml", "/stop", "/health", "/"},
   type: {"text", "midi", "other"}, utf8: BOOLEAN, takes: BOOLEAN]

ASSUME ServerAssumption ==
  /\ IsFiniteSet(Pool) /\ IsFiniteSet(Clients)
  /\ RequestsSent \subseteq RequestTypes

VARIABLES
  listener,   \* what the accepting thread does
  spawned,    \* workers started so far
  queue,      \* the channel of connections
  receiver,   \* the workers' end of the channel is there
  workerAt,   \* what each worker does
  serves,     \* connection a worker has: at most one
  joined,     \* workers joined so far
  stopping,   \* the shutdown flag
  request,    \* what each client sends, when it has connected
  client,     \* how far its connection is
  status      \* status it was answered with

renderServerVars == <<listener, spawned, queue, receiver, workerAt, serves, joined, stopping, request, client, status>>

NoStatus == 0

ServerInit ==
  /\ listener = "spawning" /\ spawned = {} /\ queue = <<>> /\ receiver = TRUE
  /\ workerAt = [w \in Pool |-> "none"] /\ serves = [w \in Pool |-> <<>>]
  /\ joined = {}
  /\ stopping = FALSE
  /\ request \in [Clients -> RequestsSent]
  /\ client = [c \in Clients |-> "new"]
  /\ status = [c \in Clients |-> NoStatus]

(***************************************************************************)
(* One request                                                             *)
(***************************************************************************)
\* read_request: the status of the first thing that is wrong, NoStatus if it is read.
ReadStatus(r) ==
  IF r.head = "large" THEN 431
  ELSE IF r.head \in {"empty", "cut", "malformed"} THEN 400
  ELSE IF r.length = "none" THEN 411
  ELSE IF r.length = "invalid" THEN 400
  ELSE IF r.length = "large" THEN 413
  ELSE IF ~r.body THEN 400
  ELSE NoStatus

\* handle_connection: as above, NoStatus if the request is to be rendered.
RefusalStatus(r) ==
  IF ReadStatus(r) # NoStatus THEN ReadStatus(r)
  ELSE IF r.method # "POST" THEN 405
  ELSE IF r.path # "/render" THEN 404
  ELSE IF r.type # "text" THEN 415
  ELSE IF ~r.utf8 THEN 400
  ELSE NoStatus

(***************************************************************************)
(* The accepting thread                                                    *)
(***************************************************************************)
\* spawn_render_workers: make_render may fail, and then the server never listens.
Spawn(ok) ==
  /\ listener = "spawning" /\ spawned # Pool
  /\ IF ok
     THEN \E w \in Pool \ spawned: /\ spawned' = spawned \cup {w}
                                   /\ workerAt' = [workerAt EXCEPT ![w] = "waits"]
                                   /\ UNCHANGED listener
     ELSE listener' = "failed" /\ UNCHANGED <<spawned, workerAt>>
  /\ UNCHANGED <<queue, receiver, serves, joined, stopping, request, client, status>>

Listen ==
  /\ listener = "spawning" /\ spawned = Pool
  /\ listener' = "listens"
  /\ UNCHANGED <<spawned, queue, receiver, workerAt, serves, joined, stopping, request, client, status>>

HasFreePlace == Len(queue) < Cardinality(Pool)

\* enqueue_connection, whichever way it is entered: queued, held while the channel is
\* full, and dropped by a shutdown meanwhile.  Without workers the server fails.
Offered(c) ==
  IF ~receiver THEN listener' = "joins" /\ client' = [client EXCEPT ![c] = "dropped"] /\ UNCHANGED queue
  ELSE IF HasFreePlace
  THEN queue' = Append(queue, c) /\ listener' = "listens" /\ client' = [client EXCEPT ![c] = "queued"]
  ELSE IF stopping
  THEN listener' = "listens" /\ client' = [client EXCEPT ![c] = "dropped"] /\ UNCHANGED queue
  ELSE listener' = "holds" /\ client' = [client EXCEPT ![c] = "held"] /\ UNCHANGED queue

Accept(c) ==
  /\ listener = "listens" /\ ~stopping /\ client[c] = "connected"
  /\ Offered(c)
  /\ UNCHANGED <<spawned, receiver, workerAt, serves, joined, stopping, request, status>>

Retry(c) ==
  /\ listener = "holds" /\ client[c] = "held"
  /\ (HasFreePlace \/ stopping \/ ~receiver)
  /\ Offered(c)
  /\ UNCHANGED <<spawned, receiver, workerAt, serves, joined, stopping, request, status>>

\* accept fails with something else than that nobody is there.
AcceptFails ==
  /\ listener = "listens" /\ ~stopping
  /\ listener' = "joins"
  /\ UNCHANGED <<spawned, queue, receiver, workerAt, serves, joined, stopping, request, client, status>>

\* accept_connections ends: the sender is dropped.
StopsListening ==
  /\ listener = "listens" /\ stopping
  /\ listener' = "joins"
  /\ UNCHANGED <<spawned, queue, receiver, workerAt, serves, joined, stopping, request, client, status>>

Ended(w) == workerAt[w] \in {"ended", "panicked"}

\* Seeded fault: the server is done once it has stopped listening.
JoinsNobody(w) == TRUE
Joins(w) == Ended(w)

\* join_render_workers, in the order they were started; the first that panicked ends it.
Join(w) ==
  /\ listener = "joins" /\ w \notin joined /\ Joins(w)
  /\ joined' = joined \cup {w}
  /\ listener' = IF workerAt[w] = "panicked" THEN "failed"
                 ELSE IF joined' = Pool THEN "done" ELSE "joins"
  /\ UNCHANGED <<spawned, queue, receiver, workerAt, serves, stopping, request, client, status>>

Running == listener \notin {"failed", "done"}

(***************************************************************************)
(* The workers                                                             *)
(***************************************************************************)
SenderGone == listener \notin {"spawning", "listens", "holds"}

\* recv, by one worker at a time.
Take(w) ==
  /\ workerAt[w] = "waits" /\ queue # <<>>
  /\ queue' = Tail(queue)
  /\ serves' = [serves EXCEPT ![w] = <<Head(queue)>>]
  /\ workerAt' = [workerAt EXCEPT ![w] = "reads"]
  /\ client' = [client EXCEPT ![Head(queue)] = "served"]
  /\ UNCHANGED <<listener, spawned, receiver, joined, stopping, request, status>>

MayEnd(w) == SenderGone /\ queue = <<>>

End(w) ==
  /\ workerAt[w] = "waits" /\ MayEnd(w)
  /\ workerAt' = [workerAt EXCEPT ![w] = "ended"]
  /\ UNCHANGED <<listener, spawned, queue, receiver, serves, joined, stopping, request, client, status>>

\* The connection is answered, if its client is still there, and closed.  A text has room
\* in the buffers of the connection, read or not.
Answered(w, code) ==
  /\ client' = [client EXCEPT ![serves[w][1]] = "answered"]
  /\ status' = [status EXCEPT ![serves[w][1]] = code]
  /\ serves' = [serves EXCEPT ![w] = <<>>]
  /\ workerAt' = [workerAt EXCEPT ![w] = "waits"]

\* A client that sends no more is given up after REQUEST_READ_TIMEOUT.
Read(w) ==
  /\ workerAt[w] = "reads"
  /\ LET code == RefusalStatus(request[serves[w][1]])
     IN IF code # NoStatus THEN Answered(w, code)
        ELSE workerAt' = [workerAt EXCEPT ![w] = "renders"] /\ UNCHANGED <<serves, client, status>>
  /\ UNCHANGED <<listener, spawned, queue, receiver, joined, stopping, request>>

Wavs == {"none", "short", "long"}

\* The patch's plugin is not there or the rendering fails, or there is a WAV: a short one
\* has room in the buffers too, a long one is sent as the client reads it.
Rendered(w, wav) ==
  /\ workerAt[w] = "renders"
  /\ IF wav = "long" THEN workerAt' = [workerAt EXCEPT ![w] = "writes"] /\ UNCHANGED <<serves, client, status>>
     ELSE Answered(w, IF wav = "none" THEN 500 ELSE 200)
  /\ UNCHANGED <<listener, spawned, queue, receiver, joined, stopping, request>>

\* write_all returns when the client has read or has gone.  Only reading a request has a
\* timeout: a client that does neither keeps the worker.
Writes(w) ==
  /\ workerAt[w] = "writes" /\ request[serves[w][1]].takes
  /\ Answered(w, 200)
  /\ UNCHANGED <<listener, spawned, queue, receiver, joined, stopping, request>>

\* Seeded fault: the accepting thread has kept a hold of the receiving end.
ChannelStays(w) == FALSE

\* The workers share the receiving end, and nobody else has it.
TakesChannelAlong(w) == listener # "spawning" /\ \A v \in Pool \ {w}: Ended(v)

\* A panic ends the worker and closes its connection; the last one takes the channel
\* with it.
RenderPanics(w) ==
  /\ workerAt[w] = "renders"
  /\ workerAt' = [workerAt EXCEPT ![w] = "panicked"]
  /\ serves' = [serves EXCEPT ![w] = <<>>]
  /\ LET last == TakesChannelAlong(w)
     IN /\ receiver' = ~last
        /\ queue' = IF last THEN <<>> ELSE queue
        /\ client' = [c \in Clients |-> IF c = serves[w][1] \/ (last /\ c \in Range(queue)) THEN "dropped" ELSE client[c]]
  /\ UNCHANGED <<listener, spawned, joined, stopping, request, status>>

(***************************************************************************)
(* Outside                                                                 *)
(***************************************************************************)
Connect(c) ==
  /\ client[c] = "new" /\ listener \in {"listens", "holds"}
  /\ client' = [client EXCEPT ![c] = "connected"]
  /\ UNCHANGED <<listener, spawned, queue, receiver, workerAt, serves, joined, stopping, request, status>>

\* install_shutdown_handler, monitor_until_closed
Interrupt ==
  /\ ~stopping /\ stopping' = TRUE
  /\ UNCHANGED <<listener, spawned, queue, receiver, workerAt, serves, joined, request, client, status>>

AcceptorStep ==
  \/ \E ok \in BOOLEAN: Spawn(ok)
  \/ Listen \/ StopsListening
  \/ \E c \in Clients: Accept(c) \/ Retry(c)
  \/ \E w \in Pool: Join(w)

WorkerStep(w) ==
  Take(w) \/ End(w) \/ Read(w) \/ (\E wav \in Wavs: Rendered(w, wav)) \/ Writes(w) \/ RenderPanics(w)

\* The process is there until main returns; failed or done, it is gone with its threads.
ServerNext ==
  /\ Running
  /\ \/ AcceptorStep
     \/ \E w \in Pool: WorkerStep(w)
     \/ \E c \in Clients: Connect(c)
     \/ Interrupt \/ AcceptFails

\* Threads are scheduled, reads time out, a rendering ends, and so does the writing to a
\* client that takes its answer; to one that does not, it need not.
ServerFairness ==
  /\ WF_renderServerVars(Running /\ AcceptorStep)
  /\ \A w \in Pool: WF_renderServerVars(Running /\ WorkerStep(w))

ServerSpec == ServerInit /\ [][ServerNext]_renderServerVars /\ ServerFairness

(***************************************************************************)
(* Properties                                                              *)
(***************************************************************************)
InHand == {c \in Clients: client[c] \in {"queued", "served", "held"}}

\* A server that ends well has answered every connection it ever queued; only one that was
\* offered to a full channel during the shutdown is closed without an answer.
ShutdownDrains ==
  listener = "done" =>
    /\ InHand = {}
    /\ (\A w \in Pool: workerAt[w] # "panicked") => Cardinality({c \in Clients: client[c] = "dropped"}) <= 1

\* A worker that writes to a client that never takes its answer.
Stuck(w) == workerAt[w] = "writes" /\ ~request[serves[w][1]].takes

\* No connection that was taken from the listener is left alone: it is answered or closed,
\* also when workers panic, clients are silent or the server is interrupted.  A client that
\* never takes its WAV holds its own connection and worker, and the connections behind it
\* only while no other worker is left (http.rs:91-111, 139-181, response.rs:64).
ConnectionsEnd ==
  \A c \in Clients:
    client[c] \in {"queued", "held", "served"} ~>
      \/ client[c] \in {"answered", "dropped"} \/ ~Running
      \/ \E w \in Pool:
           /\ Stuck(w)
           /\ serves[w][1] = c \/ \A v \in Pool: Stuck(v) \/ Ended(v)
=============================================================================
