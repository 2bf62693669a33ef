------------------------------ MODULE Pipeline ------------------------------
(***************************************************************************)
(* A POST request with an Idempotency-Key on its way through Recovery,     *)
(* Idempotency, Auth and Timeout to its handler.  Timeout runs the handler *)
(* in a goroutine of its own, so two threads share the response writer     *)
(* `rw`: the main one, which answers 504 when the time is up, and the      *)
(* worker, which goes on regardless.  What rw has recorded when the main   *)
(* thread returns to Idempotency is what is cached.  What the client gets  *)
(* is sent only then, and the server's WriteTimeout has started before the *)
(* timer of Timeout: a 504 comes too late for its own connection.          *)
(***************************************************************************)
EXTENDS Naturals

CONSTANTS
    Call,       \* the requests
    KeyOf       \* the path and Idempotency-Key of each

VARIABLES
    durable,    \* the store is Redis, not the map in memory
    cache,      \* key |-> stored response, or NoResponse
    stage,      \* where the main thread of a request is
    worker,     \* where its handler goroutine is
    rw,         \* what the idempotencyResponseWriter has recorded
    overdue,    \* requests whose connection takes no answer any more
    reported,   \* history: requests whose handler has answered with success
    expired,    \* history: requests the timer has cut off
    forgotten   \* history: requests whose lookup or record was lost

pipevars == <<durable, cache, stage, worker, rw, overdue, reported, expired, forgotten>>

Keys == {KeyOf[c] : c \in Call}

NoResponse == [status |-> 0, body |-> {}]

\* Seeded fault: the lower bound is exclusive.
SuccessBut200(status) == status > 200 /\ status < 300

Success(status) == status >= 200 /\ status < 300

\* Stages of the main thread at which a request is being served.
Serving == {"auth", "wait", "late", "store"}

PipeInit ==
    /\ durable \in BOOLEAN
    /\ cache = [k \in Keys |-> NoResponse]
    /\ stage = [c \in Call |-> "new"]
    /\ worker = [c \in Call |-> "none"]
    /\ rw = [c \in Call |-> [status |-> 200, body |-> {}]]
    /\ overdue = {}
    /\ reported = {}
    /\ expired = {}
    /\ forgotten = {}

-----------------------------------------------------------------------------
(* The main thread. *)

Goto(c, s) == stage' = [stage EXCEPT ![c] = s]

\* Idempotency: a hit is answered from the cache.
Replay(c) ==
    /\ stage[c] = "new"
    /\ cache[KeyOf[c]] # NoResponse
    /\ Goto(c, "replayed")
    /\ UNCHANGED <<durable, cache, worker, rw, overdue, reported, expired, forgotten>>

\* A miss; an error of Redis counts as one.
Miss(c) ==
    /\ stage[c] = "new"
    /\ \/ cache[KeyOf[c]] = NoResponse /\ UNCHANGED forgotten
       \/ durable /\ forgotten' = forgotten \cup {c}
    /\ Goto(c, "auth")
    /\ UNCHANGED <<durable, cache, worker, rw, overdue, reported, expired>>

\* Auth answers 401 to a token that is missing, invalid or has expired.
Refuse401(c) ==
    /\ stage[c] = "auth"
    /\ rw' = [rw EXCEPT ![c] = [status |-> 401, body |-> {"refusal"}]]
    /\ Goto(c, "store")
    /\ UNCHANGED <<durable, cache, worker, overdue, reported, expired, forgotten>>

\* The token is good: Timeout starts the handler.
StartHandler(c) ==
    /\ stage[c] = "auth"
    /\ worker' = [worker EXCEPT ![c] = "run"]
    /\ Goto(c, "wait")
    /\ UNCHANGED <<durable, cache, rw, overdue, reported, expired, forgotten>>

\* select: the handler is done.
HandlerDone(c) ==
    /\ stage[c] = "wait"
    /\ worker[c] = "closed"
    /\ Goto(c, "store")
    /\ UNCHANGED <<durable, cache, worker, rw, overdue, reported, expired, forgotten>>

\* 30 seconds after the header was read the write deadline of the connection
\* passes, or the client has gone before.
Overdue(c) ==
    /\ stage[c] \in Serving
    /\ c \notin overdue
    /\ overdue' = overdue \cup {c}
    /\ UNCHANGED <<durable, cache, stage, worker, rw, reported, expired, forgotten>>

\* Seeded fault: the 504 is written past the recording writer.
TimeUpUnrecorded(c) ==
    /\ stage[c] = "wait" /\ c \in overdue
    /\ Goto(c, "late")
    /\ expired' = expired \cup {c}
    /\ UNCHANGED <<durable, cache, worker, rw, overdue, reported, forgotten>>

\* Seeded fault: Timeout waits for a handler that has begun to answer.
TimeUpUnlessBegun(c) ==
    /\ stage[c] = "wait" /\ c \in overdue
    /\ worker[c] # "head"
    /\ rw' = [rw EXCEPT ![c].status = 504]
    /\ Goto(c, "late")
    /\ expired' = expired \cup {c}
    /\ UNCHANGED <<durable, cache, worker, overdue, reported, forgotten>>

\* select: the context has ended, even if the handler is done by now: the
\* client has gone, or it is 30 seconds since Timeout set its timer, which it
\* did after the write deadline was set.  WriteHeader of writeJSON.
TimeUp(c) ==
    /\ stage[c] = "wait" /\ c \in overdue
    /\ rw' = [rw EXCEPT ![c].status = 504]
    /\ Goto(c, "late")
    /\ expired' = expired \cup {c}
    /\ UNCHANGED <<durable, cache, worker, overdue, reported, forgotten>>

\* Both threads append to rw.body and nothing orders the two: either may start
\* from a body without the other's fragment, which is then lost.
Appended(c, fragment) == {rw[c].body \cup {fragment}, {fragment}}

\* Write of writeJSON.
WriteTimeout(c) ==
    /\ stage[c] = "late"
    /\ \E b \in Appended(c, "timeout") :
            rw' = [rw EXCEPT ![c].body = b]
    /\ Goto(c, "store")
    /\ UNCHANGED <<durable, cache, worker, overdue, reported, expired, forgotten>>

\* The main thread has sent its answer, or found the connection gone.
Ended == {"done", "lost"}

\* Idempotency again: a 2xx is cached, unless Redis fails.  Then the server
\* sends what has been written, if the connection still takes it.
Store(c) ==
    /\ stage[c] = "store"
    /\ Goto(c, IF c \in overdue THEN "lost" ELSE "done")
    /\ \/ /\ Success(rw[c].status)
          /\ cache' = [cache EXCEPT ![KeyOf[c]] = rw[c]]
          /\ UNCHANGED forgotten
       \/ /\ Success(rw[c].status) /\ durable
          /\ forgotten' = forgotten \cup {c}
          /\ UNCHANGED cache
       \/ ~Success(rw[c].status) /\ UNCHANGED <<cache, forgotten>>
    /\ UNCHANGED <<durable, worker, rw, overdue, reported, expired>>

\* Redis drops a response 24 hours after it was stored; the map never does.
Expire(k) ==
    /\ durable
    /\ cache[k] # NoResponse
    /\ cache' = [cache EXCEPT ![k] = NoResponse]
    /\ forgotten' = forgotten \cup {c \in Call : KeyOf[c] = k /\ stage[c] \in Ended}
    /\ UNCHANGED <<durable, stage, worker, rw, overdue, reported, expired>>

MainStep(c) ==
    \/ Replay(c) \/ Miss(c) \/ Refuse401(c) \/ StartHandler(c) \/ HandlerDone(c)
    \/ TimeUp(c) \/ WriteTimeout(c) \/ Store(c)

-----------------------------------------------------------------------------
(* The worker. *)

WorkerTo(c, s) == worker' = [worker EXCEPT ![c] = s]

\* What is written once the main thread has left is read by nobody.
Observed(c) == stage[c] \in {"wait", "late", "store"}

\* A success says that the handler reported one, not that it has done its
\* work: the transfer and the registration answer so when their Commit fails,
\* the webhooks and the chat when an error was swallowed.
WriteHead(c) ==
    /\ worker[c] = "run"
    /\ Observed(c)
    /\ \/ /\ rw' = [rw EXCEPT ![c].status = 200]
          /\ reported' = reported \cup {c}
       \/ /\ rw' = [rw EXCEPT ![c].status = 500]
          /\ UNCHANGED reported
    /\ WorkerTo(c, "head")
    /\ UNCHANGED <<durable, cache, stage, overdue, expired, forgotten>>

WriteBody(c) ==
    /\ worker[c] = "head"
    /\ Observed(c)
    /\ \E b \in Appended(c, "result") :
            rw' = [rw EXCEPT ![c].body = b]
    /\ WorkerTo(c, "closed")
    /\ UNCHANGED <<durable, cache, stage, overdue, reported, expired, forgotten>>

\* A panic in the goroutine is not below Recovery's deferred function: the
\* process ends with all its requests, and is started again by its host.
Panic(c) ==
    /\ worker[c] = "run"
    /\ stage' = [q \in Call |-> IF stage[q] \in Serving THEN "cut" ELSE stage[q]]
    /\ worker' = [q \in Call |-> IF worker[q] \in {"run", "head"} THEN "dead" ELSE worker[q]]
    /\ IF durable
       THEN UNCHANGED <<cache, forgotten>>
       ELSE /\ cache' = [k \in Keys |-> NoResponse]
            /\ forgotten' = forgotten \cup {q \in Call : stage[q] \in Ended}
    /\ UNCHANGED <<durable, rw, overdue, reported, expired>>

WorkerStep(c) == WriteHead(c) \/ WriteBody(c) \/ Panic(c)

PipeNext ==
    \/ \E c \in Call : MainStep(c) \/ Overdue(c) \/ WorkerStep(c)
    \/ \E k \in Keys : Expire(k)

\* Time passes, the timer fires and the main thread goes on; handlers owe us
\* nothing.
PipeFairness ==
    \A c \in Call : WF_pipevars(Overdue(c)) /\ WF_pipevars(stage[c] # "new" /\ MainStep(c))

PipeSpec == PipeInit /\ [][PipeNext]_pipevars /\ PipeFairness

-----------------------------------------------------------------------------

Stages == {"new", "replayed", "cut"} \cup Serving \cup Ended
Responses == [status : {0, 200, 401, 500, 504}, body : SUBSET {"result", "refusal", "timeout"}]

\* Types of the pipeline.
PipeTypeOK ==
    /\ durable \in BOOLEAN
    /\ cache \in [Keys -> Responses]
    /\ stage \in [Call -> Stages]
    /\ worker \in [Call -> {"none", "run", "head", "closed", "dead"}]
    /\ rw \in [Call -> Responses]
    /\ overdue \subseteq Call
    /\ reported \subseteq Call
    /\ expired \subseteq Call
    /\ forgotten \subseteq Call

\* Idempotency and Timeout, middleware/idempotency.go:55, security.go:46.  What
\* a retry is told, a handler of its key has said: no cached response is the
\* writer's initial 200 or the 504 of the timer, whichever thread wrote last.
\* And it is that answer and nothing else, unless the request ran out of time:
\* then the 504 text may be in it, under the status of the handler that finished
\* while the 504 was being written.  Whether what the handler said is true is
\* another matter: a success whose Commit failed is replayed like any other.
CachedWasReported ==
    \A k \in Keys :
        cache[k] # NoResponse =>
            \E c \in reported :
                /\ KeyOf[c] = k
                /\ c \in expired \/ cache[k].body = {"result"}

\* A request whose handler answered with success in time, whether or not the
\* answer reached the client.
Answered(c) == stage[c] \in Ended /\ rw[c].status = 200 /\ c \notin expired

\* Idempotency, middleware/idempotency.go:44.  Once a request was answered with
\* success in time, no later one with its key reaches the handler, unless the
\* store failed one of the two, was lost with the process, or has dropped the
\* answer after its 24 hours.
AnsweredIsNotRepeated ==
    [][\A c, q \in Call :
        /\ KeyOf[c] = KeyOf[q]
        /\ Answered(q) /\ q \notin forgotten
        /\ stage[c] = "new" /\ stage'[c] = "auth"
        => c \in forgotten']_pipevars

\* Timeout, middleware/security.go:46.  A handler that hangs does not keep its
\* request open: every request that is being served ends, in an answer, with a
\* connection that is closed without one, or with the process, which Recovery
\* does not keep alive.
ServedEnds ==
    \A c \in Call : stage[c] \in Serving ~> stage[c] \in Ended \cup {"cut"}

=============================================================================
