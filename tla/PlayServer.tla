----------------------------- MODULE PlayServer -----------------------------
(***************************************************************************)
(* The HTTP side of the realtime play server (realtime-play-server/src,    *)
(* http.rs and http/).  Its accepting thread, channel and workers are the  *)
(* render server's, action by action; the requests are others, and the     *)
(* thread that serves the shared memory (module FastIpc) is started after  *)
(* the workers and joined after them.                                      *)
(***************************************************************************)
EXTENDS RenderServer

VARIABLE ipc  \* the thread that serves the shared memory

playServerVars == <<renderServerVars, ipc>>

PlayInit == ServerInit /\ ipc = "none"

(***************************************************************************)
(* One request                                                             *)
(***************************************************************************)
Closed == 1 \* no status: the connection is closed without an answer

\* read_request: no stated length is a length of nothing here, and whoever connects and
\* sends nothing is not answered.
PlayReadStatus(r) ==
  IF r.head = "large" THEN 431
  ELSE IF r.head = "empty" THEN Closed
  ELSE IF r.head \in {"cut", "malformed"} THEN 400
  ELSE IF r.length = "invalid" THEN 400
  ELSE IF r.length = "large" THEN 413
  ELSE IF r.length = "fits" /\ ~r.body THEN 400
  ELSE NoStatus

\* handle_play_request
SmfStatus(r) ==
  IF r.length = "none" THEN 411
  ELSE IF r.type # "midi" THEN 415
  ELSE NoStatus

\* handle_play_mml_request
MmlStatus(r) ==
  IF r.length = "none" THEN 411
  ELSE IF r.type # "text" THEN 415
  ELSE IF ~r.utf8 THEN 400
  ELSE NoStatus

\* handle_connection: NoStatus if the player is called.
PlayStatus(r) ==
  IF PlayReadStatus(r) # NoStatus THEN PlayReadStatus(r)
  ELSE IF r.method = "GET" /\ r.path = "/health" THEN 200
  ELSE IF r.method = "POST" /\ r.path = "/play" THEN SmfStatus(r)
  ELSE IF r.method = "POST" /\ r.path = "/play-mml" THEN MmlStatus(r)
  ELSE IF r.method = "POST" /\ r.path = "/stop" THEN NoStatus
  ELSE IF r.path \in {"/health", "/play", "/play-mml", "/stop"} THEN 405
  ELSE 404

\* What the player's success is answered with.
DoneStatus(r) == IF r.path = "/stop" THEN 204 ELSE 202

(***************************************************************************)
(* The accepting thread                                                    *)
(***************************************************************************)
SpawnsWorker(ok) == Spawn(ok) /\ UNCHANGED ipc

\* The shared memory may be taken, and then the server never listens.
SpawnsIpc(ok) ==
  /\ IF ok THEN Listen /\ ipc' = "runs"
     ELSE /\ listener = "spawning" /\ spawned = Pool /\ listener' = "failed"
          /\ UNCHANGED <<ipc, spawned, queue, receiver, workerAt, serves, joined, stopping, request, client, status>>

Accepts(c) == Accept(c) /\ UNCHANGED ipc

Enqueues(c) == Retry(c) /\ UNCHANGED ipc

EndsAccepting(well) == (IF well THEN StopsListening ELSE AcceptFails) /\ UNCHANGED ipc

\* join_play_workers
JoinsWorker(w) ==
  /\ listener = "joins" /\ w \notin joined /\ Joins(w)
  /\ joined' = joined \cup {w}
  /\ listener' = IF workerAt[w] = "panicked" THEN "failed"
                 ELSE IF joined' = Pool THEN "joins ipc" ELSE "joins"
  /\ UNCHANGED <<ipc, spawned, queue, receiver, workerAt, serves, stopping, request, client, status>>

\* Only the shutdown ends the thread that serves the shared memory.
JoinsIpc ==
  /\ listener = "joins ipc" /\ ipc = "ended"
  /\ listener' = "done"
  /\ UNCHANGED <<ipc, spawned, queue, receiver, workerAt, serves, joined, stopping, request, client, status>>

EndsIpc ==
  /\ ipc = "runs" /\ stopping /\ ipc' = "ended"
  /\ UNCHANGED renderServerVars

(***************************************************************************)
(* The workers                                                             *)
(***************************************************************************)
WorkerGoes(w) == (Take(w) \/ End(w)) /\ UNCHANGED ipc

ReadsRequest(w) ==
  /\ workerAt[w] = "reads"
  /\ LET code == PlayStatus(request[serves[w][1]])
     IN IF code = NoStatus
        THEN workerAt' = [workerAt EXCEPT ![w] = "renders"] /\ UNCHANGED <<serves, client, status>>
        ELSE Answered(w, code)
  /\ UNCHANGED <<ipc, listener, spawned, queue, receiver, joined, stopping, request>>

\* The player takes the order, or refuses it; that it may wait is its own matter.
CallsPlayer(w, ok) ==
  /\ workerAt[w] = "renders"
  /\ Answered(w, IF ok THEN DoneStatus(request[serves[w][1]]) ELSE 500)
  /\ UNCHANGED <<ipc, listener, spawned, queue, receiver, joined, stopping, request>>

CallPanics(w) == RenderPanics(w) /\ UNCHANGED ipc

(***************************************************************************)
(* The server                                                              *)
(***************************************************************************)
PlayAcceptorStep ==
  \/ \E ok \in BOOLEAN: SpawnsWorker(ok) \/ SpawnsIpc(ok)
  \/ EndsAccepting(TRUE)
  \/ \E c \in Clients: Accepts(c) \/ Enqueues(c)
  \/ (\E w \in Pool: JoinsWorker(w)) \/ JoinsIpc

PlayWorkerStep(w) ==
  WorkerGoes(w) \/ ReadsRequest(w) \/ (\E ok \in BOOLEAN: CallsPlayer(w, ok)) \/ CallPanics(w)

PlayNext ==
  /\ Running
  /\ \/ PlayAcceptorStep
     \/ \E w \in Pool: PlayWorkerStep(w)
     \/ EndsIpc \/ EndsAccepting(FALSE)
     \/ (Interrupt \/ \E c \in Clients: Connect(c)) /\ UNCHANGED ipc

\* Threads are scheduled, reads time out and the player answers.
PlayFairness ==
  /\ WF_playServerVars(Running /\ PlayAcceptorStep)
  /\ \A w \in Pool: WF_playServerVars(Running /\ PlayWorkerStep(w))
  /\ WF_playServerVars(Running /\ EndsIpc)

PlaySpec == PlayInit /\ [][PlayNext]_playServerVars /\ PlayFairness
=============================================================================
