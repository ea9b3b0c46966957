---------------------------- MODULE PushEnqueuer ----------------------------
(***************************************************************************)
(* One API request: EnqueueWithPush (api/api.go) enqueues a command for    *)
(* the requested enrollments and pushes to them.  PushService.Push         *)
(* (push/service/service.go) splits the pushes by topic and runs one       *)
(* goroutine per topic; each hands its pushes to the workers of a provider *)
(* (push/nanopush/provider.go).  All channels are unbuffered: a send and   *)
(* its receive are one step.                                               *)
(***************************************************************************)
EXTENDS Naturals, Sequences, FiniteSets

CONSTANTS
    Ids,         \* enrollments, each with a push token of its own
    Topics,
    Workers,     \* worker goroutines of a provider
    Requests,    \* the sequences of enrollments that are asked for
    None         \* no topic; the key of an error that names no enrollment

ASSUME PushEnqueuerAssumption ==
    /\ Workers \in Nat \ {0}
    /\ Requests \subseteq Seq(Ids)
    /\ None \notin Ids \cup Topics

VARIABLES
    request,      \* the requested enrollments
    command,      \* is there a command to enqueue?
    noPush,       \* is pushing disabled?
    topic,        \* the topic in an enrollment's push info, None without one
    unqueued,     \* enrollments for which enqueueing failed
    enqueueErrs,  \* the keys of the errors enqueueing returned
    highErr,      \* did enqueueing or pushing as a whole fail?
    pc,           \* where the request's own goroutine stands
    asked,        \* topics whose provider was asked for
    running,      \* topics with a goroutine
    fed,          \* how far in the request the topic's feeder has got
    jobsClosed, resultsClosed,
    worker,       \* worker w of the topic: its state and its job
    ret,          \* responses the topic's collector received
    pushed,       \* how often the i-th push of the request was sent to APNs
    responses     \* the responses of the request

providerVars == <<fed, jobsClosed, resultsClosed, worker, ret, pushed>>
enqueueVars  == <<request, command, noPush, topic, unqueued, enqueueErrs>>
vars == <<enqueueVars, highErr, pc, asked, running, providerVars, responses>>

Response == {"none", "ok", "error"}

Worker ==
    [at : {"off", "wait", "push", "send", "done"}, job : Nat, response : Response]

Elements(s) == {s[i] : i \in DOMAIN s}

(* The pushes of a topic, by their places in the request, and of these the *)
(* ones its feeder has still to hand out, in the order of the request.     *)
Jobs(t) == {i \in DOMAIN request : topic[request[i]] = t}

Left(t) == {i \in Jobs(t) : i > fed[t]}

TypeOK ==
    /\ request \in Requests /\ topic \in [Ids -> Topics \cup {None}]
    /\ command \in BOOLEAN /\ noPush \in BOOLEAN /\ highErr \in BOOLEAN
    /\ unqueued \subseteq Ids /\ enqueueErrs \subseteq Ids \cup {None}
    /\ pc \in {"enqueue", "retrieve", "topics", "collect", "done"}
    /\ running \subseteq asked /\ asked \subseteq Topics
    /\ fed \in [Topics -> Nat]
    /\ jobsClosed \subseteq Topics /\ resultsClosed \subseteq Topics
    /\ worker \in [Topics -> [1 .. Workers -> Worker]]
    /\ ret \in [Topics -> [Ids -> Response]]
    /\ pushed \in [DOMAIN request -> Nat]
    /\ responses \in [Ids -> Response \cup {"notFound"}]

State(at, job, response) == [at |-> at, job |-> job, response |-> response]

Off == State("off", 0, "none")

Wait == State("wait", 0, "none")

Init ==
    /\ request \in Requests
    /\ command \in BOOLEAN /\ noPush \in BOOLEAN /\ (command \/ ~ noPush)
    /\ topic \in [Ids -> Topics \cup {None}]
    /\ unqueued = {} /\ enqueueErrs = {} /\ highErr = FALSE
    /\ pc = "enqueue"
    /\ asked = {} /\ running = {}
    /\ fed = [t \in Topics |-> 0]
    /\ jobsClosed = {} /\ resultsClosed = {}
    /\ worker = [t \in Topics |-> [w \in 1 .. Workers |-> Off]]
    /\ ret = [t \in Topics |-> [id \in Ids |-> "none"]]
    /\ pushed = [i \in DOMAIN request |-> 0]
    /\ responses = [id \in Ids |-> "none"]

-----------------------------------------------------------------------------
(* The request's own goroutine *)

(* Enqueueing fails as a whole, or for some enrollments; the key-value     *)
(* backends report all of the latter under the command's UUID.             *)
doEnqueue ==
    /\ pc = "enqueue"
    /\ \/ ~ command /\ UNCHANGED <<unqueued, enqueueErrs, highErr>>
       \/ /\ command
          /\ unqueued' \in SUBSET Elements(request)
          /\ enqueueErrs' \in {unqueued', {None}}
          /\ (unqueued' = {}) <=> (enqueueErrs' = {})
          /\ UNCHANGED highErr
       \/ /\ command
          /\ unqueued' = Elements(request) /\ highErr' = TRUE
          /\ UNCHANGED enqueueErrs
    /\ pc' = IF noPush \/ highErr' THEN "done" ELSE "retrieve"
    /\ UNCHANGED <<request, command, noPush, topic, asked, running,
                   providerVars, responses>>

(* RetrievePushInfo, and an error for every enrollment without push info *)
RetrievePushInfo ==
    /\ pc = "retrieve"
    /\ \/ /\ responses' = [id \in Ids |-> IF id \in Elements(request) /\ topic[id] = None
                                          THEN "notFound" ELSE "none"]
          /\ pc' = "topics"
          /\ UNCHANGED highErr
       \/ highErr' = TRUE /\ pc' = "done" /\ UNCHANGED responses
    /\ UNCHANGED <<enqueueVars, asked, running, providerVars>>

RequestTopics == {topic[id] : id \in Elements(request)} \ {None}

(* pushMulti: getProvider gives no provider, or one to push with.  It      *)
(* starts no more workers than it has pushes; a single push (pushSerial)   *)
(* is taken as a pool of one worker.                                       *)
NoProvider(t) ==
    /\ highErr' = TRUE
    /\ UNCHANGED <<running, worker>>

StartPush(t) ==
    /\ running' = running \cup {t}
    /\ worker' = [worker EXCEPT ![t] = [w \in 1 .. Workers |->
                     IF w <= Cardinality(Jobs(t)) THEN Wait ELSE Off]]
    /\ UNCHANGED highErr

GetProvider(t) ==
    /\ pc = "topics" /\ t \in RequestTopics \ asked
    /\ asked' = asked \cup {t}
    /\ NoProvider(t) \/ StartPush(t)
    /\ UNCHANGED <<enqueueVars, pc, fed, jobsClosed, resultsClosed, ret,
                   pushed, responses>>

Started ==
    /\ pc = "topics" /\ RequestTopics \subseteq asked
    /\ pc' = "collect"
    /\ UNCHANGED <<enqueueVars, highErr, asked, running, providerVars, responses>>

(* A topic's responses are merged into the request's. *)
Feedback(t) ==
    /\ pc = "collect" /\ t \in running /\ t \in resultsClosed
    /\ running' = running \ {t}
    /\ responses' = [id \in Ids |-> IF ret[t][id] = "none" THEN responses[id]
                                                           ELSE ret[t][id]]
    /\ UNCHANGED <<enqueueVars, highErr, pc, asked, providerVars>>

Return ==
    /\ pc = "collect" /\ running = {}
    /\ pc' = "done"
    /\ UNCHANGED <<enqueueVars, highErr, asked, running, providerVars, responses>>

-----------------------------------------------------------------------------
(* A provider: feeder, workers, closer and collector of one topic *)

Becomes(t, w, rec) == worker' = [worker EXCEPT ![t][w] = rec]

requestVars == <<enqueueVars, highErr, pc, asked, running, responses>>

(* The feeder hands the next push to a waiting worker. *)
Feed(t, w) ==
    /\ t \in running /\ worker[t][w].at = "wait"
    /\ \E i \in Left(t) :
          /\ \A j \in Left(t) : i <= j
          /\ fed' = [fed EXCEPT ![t] = i]
          /\ Becomes(t, w, State("push", i, "none"))
    /\ UNCHANGED <<requestVars, jobsClosed, resultsClosed, ret, pushed>>

JobsNotClosed(t) == UNCHANGED jobsClosed     \* a mutant

JobsClosed(t) == jobsClosed' = jobsClosed \cup {t}

CloseJobs(t) ==
    /\ t \in running \ jobsClosed
    /\ Left(t) = {}
    /\ JobsClosed(t)
    /\ UNCHANGED <<requestVars, fed, resultsClosed, worker, ret, pushed>>

(* A worker pushes: APNs answers or the call fails. *)
do(t, w) ==
    /\ worker[t][w].at = "push"
    /\ pushed' = [pushed EXCEPT ![worker[t][w].job] = @ + 1]
    /\ \E r \in {"ok", "error"} :
          Becomes(t, w, State("send", worker[t][w].job, r))
    /\ UNCHANGED <<requestVars, fed, jobsClosed, resultsClosed, ret>>

(* The collector takes a worker's response. *)
Collect(t, w) ==
    /\ t \notin resultsClosed /\ worker[t][w].at = "send"
    /\ ret' = [ret EXCEPT ![t][request[worker[t][w].job]] = worker[t][w].response]
    /\ Becomes(t, w, Wait)
    /\ UNCHANGED <<requestVars, fed, jobsClosed, resultsClosed, pushed>>

Done(t, w) ==
    /\ t \in jobsClosed /\ worker[t][w].at = "wait"
    /\ Becomes(t, w, State("done", 0, "none"))
    /\ UNCHANGED <<requestVars, fed, jobsClosed, resultsClosed, ret, pushed>>

FeedingDone(t) == t \in jobsClosed     \* a mutant

WorkersDone(t) == \A w \in 1 .. Workers : worker[t][w].at \in {"off", "done"}

CloseResults(t) ==
    /\ t \in running \ resultsClosed
    /\ WorkersDone(t)
    /\ resultsClosed' = resultsClosed \cup {t}
    /\ UNCHANGED <<requestVars, fed, jobsClosed, worker, ret, pushed>>

Provider(t) ==
    \/ CloseJobs(t) \/ CloseResults(t)
    \/ \E w \in 1 .. Workers : Feed(t, w) \/ do(t, w) \/ Collect(t, w) \/ Done(t, w)

Push ==
    \/ doEnqueue \/ RetrievePushInfo \/ Started \/ Return
    \/ \E t \in Topics : GetProvider(t) \/ Feedback(t)

Next == Push \/ \E t \in Topics : Provider(t)

Spec == Init /\ [][Next]_vars

(* The scheduler runs every goroutine, and APNs answers every push. *)
FairSpec == Spec /\ WF_vars(Push) /\ \A t \in Topics : WF_vars(Provider(t))

-----------------------------------------------------------------------------
(* code *)

PushErrs == {id \in Ids : responses[id] \in {"error", "notFound"}}

PushFailures == PushErrs     \* a mutant

Failures == PushErrs \cup enqueueErrs

code ==
    IF highErr THEN 500
    ELSE IF Failures = {} THEN 200
    ELSE IF Cardinality(Failures) < Len(request) THEN 207
    ELSE 500

-----------------------------------------------------------------------------
(* "PushProvider ... maps the string value of the push token to a Response": *)
(* when Push returns, every push of an enrollment with a provider was sent *)
(* exactly once and the enrollment has a response, and the others are      *)
(* reported missing.                                                       *)
Answered ==
    pc = "done" /\ ~ noPush /\ ~ highErr =>
        \A i \in DOMAIN request :
            LET id == request[i] IN
            IF topic[id] = None
            THEN responses[id] = "notFound" /\ pushed[i] = 0
            ELSE responses[id] \in {"ok", "error"} /\ pushed[i] = 1

(* Closing results is safe: nothing is left to feed and no worker is left  *)
(* to send on the closed channel, which panics, or to wait for a collector *)
(* that is gone.                                                           *)
PoolInv ==
    /\ TypeOK
    /\ \A t \in Topics :
          /\ t \in jobsClosed => Left(t) = {}
          /\ \A w \in 1 .. Workers : worker[t][w].at = "done" => t \in jobsClosed
    /\ \A t \in resultsClosed :
          /\ t \in jobsClosed
          /\ \A w \in 1 .. Workers : worker[t][w].at \in {"off", "done"}

(* "A 200 value indicates no errors", "a 207 value indicates some          *)
(* successes and some failures": what was not enqueued or pushed shows in  *)
(* the code, for a request that names no enrollment twice and a backend    *)
(* that reports errors by enrollment.                                      *)
Failed ==
    unqueued \cup {id \in Elements(request) : ~ noPush /\ responses[id] # "ok"}

CodeTells ==
    pc = "done" =>
        /\ code = 200 => Failed = {}
        /\ code = 207 => Failed # {}
        /\ code = 207 /\ None \notin enqueueErrs /\ Len(request) = Cardinality(Elements(request))
              => Failed # Elements(request)

(* Every request is answered. *)
Returns == <>(pc = "done")

-----------------------------------------------------------------------------
(* Why they hold.  The request's goroutine has asked for every topic when  *)
(* it collects, and collected from every provider when it returns.         *)
RequestInv ==
    /\ asked \subseteq RequestTopics
    /\ pc \in {"enqueue", "retrieve"} \/ noPush =>
          asked = {} /\ \A id \in Ids : responses[id] = "none"
    /\ pc = "collect" \/ (pc = "done" /\ ~ noPush /\ ~ highErr) => asked = RequestTopics
    /\ pc = "done" => running = {}
    /\ noPush => pc \in {"enqueue", "done"}
    /\ pc = "enqueue" => unqueued = {} /\ enqueueErrs = {} /\ ~ highErr
    /\ ~ highErr => /\ unqueued \subseteq Elements(request)
                    /\ enqueueErrs \in {unqueued, {None}}
                    /\ unqueued = {} <=> enqueueErrs = {}

(* A response is of a requested enrollment: without push info, or of a     *)
(* topic that was collected.                                               *)
ResponsesInv ==
    /\ \A id \in Ids : responses[id] # "none" => id \in Elements(request)
    /\ pc \in {"topics", "collect"} \/ (pc = "done" /\ ~ noPush /\ ~ highErr) =>
          \A id \in Elements(request) : topic[id] = None => responses[id] = "notFound"
    /\ \A t \in asked \ running : ~ highErr =>
          /\ t \in resultsClosed
          /\ \A i \in Jobs(t) : responses[request[i]] \in {"ok", "error"}
    /\ \A i \in DOMAIN request : topic[request[i]] = None => pushed[i] = 0

Busy(t, w) == worker[t][w].at \in {"push", "send"}

(* A push is to be handed out, with one worker, or answered.               *)
TopicInv(t) ==
    /\ t \notin asked => /\ fed[t] = 0 /\ t \notin jobsClosed
                         /\ \A w \in 1 .. Workers : worker[t][w] = Off
    /\ t \in running => worker[t][1].at # "off"
    /\ \A i \in Left(t) : pushed[i] = 0
    /\ \A i \in Jobs(t) \ Left(t) :
          \/ \E w \in 1 .. Workers : Busy(t, w) /\ worker[t][w].job = i
          \/ pushed[i] = 1 /\ ret[t][request[i]] \in {"ok", "error"}
    /\ \A w \in 1 .. Workers : Busy(t, w) =>
          /\ worker[t][w].job \in Jobs(t) \ Left(t)
          /\ \A v \in (1 .. Workers) \ {w} : Busy(t, v) => worker[t][v].job # worker[t][w].job
          /\ IF worker[t][w].at = "push" THEN pushed[worker[t][w].job] = 0
             ELSE pushed[worker[t][w].job] = 1 /\ worker[t][w].response # "none"
    /\ \A id \in Ids : ret[t][id] # "none" => \E i \in Jobs(t) : request[i] = id

PushInv ==
    /\ PoolInv /\ RequestInv /\ ResponsesInv
    /\ \A t \in Topics : TopicInv(t)

=============================================================================
