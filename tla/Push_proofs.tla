----------------------------- MODULE Push_proofs -----------------------------
(* Theorems about pushing: PushEnqueuer, for any number of topics, workers  *)
(* and enrollments and requests of any length, and PushCerts on the SQL     *)
(* backends, for any number of concurrent pushes and uploads.               *)
EXTENDS PushEnqueuer, PushCerts, FiniteSetTheorems, WellFoundedInduction, TLAPS

-----------------------------------------------------------------------------
(* PushEnqueuer: every push is handed out once and answered. *)

LEMMA JobsFacts ==
    ASSUME TypeOK, NEW t \in Topics
    PROVE  /\ Jobs(t) \subseteq DOMAIN request /\ DOMAIN request \subseteq Nat \ {0}
           /\ \A i \in DOMAIN request : request[i] \in Ids
           /\ Left(t) \subseteq Jobs(t)
           /\ \A s \in Topics \ {t} : Jobs(t) \cap Jobs(s) = {}
<1>1. request \in Seq(Ids)
  BY PushEnqueuerAssumption DEF TypeOK
<1>2. DOMAIN request = 1 .. Len(request) /\ Len(request) \in Nat
  BY <1>1
<1> QED BY <1>1, <1>2 DEF Jobs, Left

LEMMA JobsExist ==
    ASSUME TypeOK, NEW t \in RequestTopics
    PROVE  Cardinality(Jobs(t)) \in Nat /\ Cardinality(Jobs(t)) >= 1
<1>1. PICK i \in DOMAIN request : topic[request[i]] = t
  BY DEF RequestTopics, Elements
<1>2. request \in Seq(Ids)
  BY PushEnqueuerAssumption DEF TypeOK
<1>3. IsFiniteSet(1 .. Len(request))
  BY <1>2, FS_Interval
<1>4. IsFiniteSet(Jobs(t))
  BY <1>2, <1>3, FS_Subset DEF Jobs
<1>5. Cardinality(Jobs(t)) \in Nat /\ Cardinality(Jobs(t)) # 0
  BY <1>1, <1>4, FS_CardinalityType, FS_EmptySet DEF Jobs
<1> QED BY <1>5

LEMMA PushInvInit == Init => PushInv
<1> SUFFICES ASSUME Init PROVE PushInv
  OBVIOUS
<1> USE PushEnqueuerAssumption DEF Init, Off, State, Worker, Response
<1>1. TypeOK
  BY DEF TypeOK
<1>2. \A t \in Topics : Jobs(t) \ Left(t) = {}
  BY <1>1, JobsFacts DEF Left
<1>3. PoolInv
  BY <1>1 DEF PoolInv
<1>4. RequestInv
  BY DEF RequestInv
<1>5. ResponsesInv
  BY <1>1 DEF ResponsesInv
<1>6. ASSUME NEW t \in Topics PROVE TopicInv(t)
  <2>1. \A i \in Left(t) : pushed[i] = 0
    BY <1>1, JobsFacts
  <2>2. \A w \in 1 .. Workers : worker[t][w] = Off
    OBVIOUS
  <2> QED BY <1>2, <2>1, <2>2 DEF TopicInv, Busy
<1> QED BY <1>3, <1>4, <1>5, <1>6 DEF PushInv

(* What a step does not change of a topic *)
LEMMA SameTopic ==
    ASSUME NEW t \in Topics, TopicInv(t), TypeOK, UNCHANGED <<request, topic>>,
           fed'[t] = fed[t], ret'[t] = ret[t], worker'[t] = worker[t],
           \A i \in Jobs(t) : pushed'[i] = pushed[i],
           asked \subseteq asked', t \in jobsClosed' => t \in jobsClosed \/ t \in asked,
           t \in running' => t \in running
    PROVE  TopicInv(t)'
<1>1. Jobs(t)' = Jobs(t) /\ Left(t)' = Left(t) /\ Left(t) \subseteq Jobs(t)
  BY DEF Jobs, Left
<1>2. \A w \in 1 .. Workers : Busy(t, w)' <=> Busy(t, w)
  BY DEF Busy
<1>3. (t \notin asked => /\ fed[t] = 0 /\ t \notin jobsClosed
                         /\ \A w \in 1 .. Workers : worker[t][w] = Off)'
  BY DEF TopicInv, Off
<1>4. (\A i \in Left(t) : pushed[i] = 0)'
  BY <1>1 DEF TopicInv
<1>5. (\A i \in Jobs(t) \ Left(t) :
          \/ \E w \in 1 .. Workers : Busy(t, w) /\ worker[t][w].job = i
          \/ pushed[i] = 1 /\ ret[t][request[i]] \in {"ok", "error"})'
  BY <1>1, <1>2 DEF TopicInv
<1>6. (\A w \in 1 .. Workers : Busy(t, w) =>
          /\ worker[t][w].job \in Jobs(t) \ Left(t)
          /\ \A v \in (1 .. Workers) \ {w} : Busy(t, v) => worker[t][v].job # worker[t][w].job
          /\ IF worker[t][w].at = "push" THEN pushed[worker[t][w].job] = 0
             ELSE pushed[worker[t][w].job] = 1 /\ worker[t][w].response # "none")'
  BY <1>1, <1>2 DEF TopicInv
<1>7. (\A id \in Ids : ret[t][id] # "none" => \E i \in Jobs(t) : request[i] = id)'
  BY <1>1 DEF TopicInv
<1> QED BY <1>3, <1>4, <1>5, <1>6, <1>7 DEF TopicInv

(* A step of the request's goroutine that starts no provider *)
LEMMA RequestStep ==
    ASSUME PushInv, UNCHANGED <<request, topic, providerVars>>, asked \subseteq asked',
           running' \subseteq running, TypeOK', RequestInv', ResponsesInv'
    PROVE  PushInv'
<1> USE DEF PushInv, PoolInv, providerVars
<1>1. PoolInv'
  BY DEF Jobs, Left
<1>2. ASSUME NEW t \in Topics PROVE TopicInv(t)'
  BY SameTopic
<1> QED BY <1>1, <1>2

LEMMA doEnqueueInv == ASSUME PushInv, doEnqueue PROVE PushInv'
<1> USE PushEnqueuerAssumption DEF PushInv, PoolInv, doEnqueue, providerVars
<1>1. Elements(request) \subseteq Ids
  BY DEF TypeOK, Elements
<1>2. TypeOK'
  BY <1>1 DEF TypeOK
<1>3. RequestInv'
  BY DEF RequestInv, RequestTopics, Elements, TypeOK
<1>4. ResponsesInv'
  BY DEF ResponsesInv, RequestInv, Elements, Jobs, TypeOK
<1> QED BY <1>2, <1>3, <1>4, RequestStep

LEMMA RetrievePushInfoInv == ASSUME PushInv, RetrievePushInfo PROVE PushInv'
<1> USE PushEnqueuerAssumption DEF PushInv, PoolInv, RetrievePushInfo, providerVars, enqueueVars
<1>1. Elements(request) \subseteq Ids
  BY DEF TypeOK, Elements
<1>2. TypeOK'
  BY DEF TypeOK, Response
<1>3. RequestInv'
  BY DEF RequestInv, RequestTopics, Elements, TypeOK
<1>4. ResponsesInv'
  BY <1>1 DEF ResponsesInv, RequestInv, Elements, Jobs, TypeOK
<1> QED BY <1>2, <1>3, <1>4, RequestStep

LEMMA StartedInv == ASSUME PushInv, Started PROVE PushInv'
<1> USE DEF PushInv, PoolInv, Started, providerVars, enqueueVars
<1>1. TypeOK'
  BY DEF TypeOK
<1>2. RequestInv'
  BY DEF RequestInv, RequestTopics, Elements
<1>3. ResponsesInv'
  BY DEF ResponsesInv, Elements, Jobs
<1> QED BY <1>1, <1>2, <1>3, RequestStep

LEMMA ReturnInv == ASSUME PushInv, Return PROVE PushInv'
<1> USE DEF PushInv, PoolInv, Return, providerVars, enqueueVars
<1>1. TypeOK'
  BY DEF TypeOK
<1>2. RequestInv'
  BY DEF RequestInv, RequestTopics, Elements
<1>3. ResponsesInv'
  BY DEF ResponsesInv, Elements, Jobs
<1> QED BY <1>1, <1>2, <1>3, RequestStep

(* A provider whose results are closed has answered every push. *)
LEMMA ResultsComplete ==
    ASSUME PushInv, NEW t \in resultsClosed, NEW i \in Jobs(t)
    PROVE  pushed[i] = 1 /\ ret[t][request[i]] \in {"ok", "error"}
<1>1. t \in Topics /\ t \in jobsClosed /\ Left(t) = {}
  BY DEF PushInv, PoolInv, TypeOK
<1>2. \A w \in 1 .. Workers : ~ Busy(t, w)
  BY DEF PushInv, PoolInv, Busy
<1> QED BY <1>1, <1>2 DEF PushInv, TopicInv

LEMMA FeedbackInv ==
    ASSUME PushInv, NEW t \in Topics, Feedback(t) PROVE PushInv'
<1> USE DEF PushInv, PoolInv, Feedback, providerVars, enqueueVars
<1>1. TypeOK'
  BY DEF TypeOK, Response
<1>2. \A id \in Ids : ret[t][id] # "none" => id \in Elements(request) /\ topic[id] = t
  BY DEF TopicInv, Elements, Jobs
<1>3. RequestInv'
  <2>1. ~ noPush /\ pc' = "collect"
    BY DEF RequestInv
  <2>2. (pc \in {"enqueue", "retrieve"} \/ noPush =>
            asked = {} /\ \A id \in Ids : responses[id] = "none")'
    BY <2>1
  <2> QED BY <2>1, <2>2 DEF RequestInv, RequestTopics, Elements
<1>4. ResponsesInv'
  <2>1. (\A id \in Ids : responses[id] # "none" => id \in Elements(request))'
    BY <1>2 DEF ResponsesInv, TypeOK, Elements
  <2>2. (\A id \in Elements(request) : topic[id] = None => responses[id] = "notFound")'
    <3>1. Elements(request) \subseteq Ids
      BY PushEnqueuerAssumption DEF TypeOK, Elements
    <3> QED BY <1>2, <3>1, PushEnqueuerAssumption DEF ResponsesInv, TypeOK, Elements
  <2>5. \A s \in asked \ running' : ~ highErr => s \in resultsClosed
    BY DEF ResponsesInv
  <2>3. ASSUME NEW s \in asked \ running', ~ highErr, NEW i \in Jobs(s)
        PROVE  responses'[request[i]] \in {"ok", "error"}
    <3>1. s \in Topics /\ request[i] \in Ids /\ topic[request[i]] = s
      BY <2>3, JobsFacts DEF TypeOK, Jobs
    <3>2. CASE s = t
      BY <3>1, <3>2, ResultsComplete
    <3>3. CASE s # t
      BY <3>1, <3>3, <1>2, <2>3 DEF ResponsesInv
    <3> QED BY <3>2, <3>3
  <2>4. (\A i \in DOMAIN request : topic[request[i]] = None => pushed[i] = 0)'
    BY DEF ResponsesInv
  <2> QED BY <2>1, <2>2, <2>3, <2>4, <2>5 DEF ResponsesInv, Jobs
<1> QED BY <1>1, <1>3, <1>4, RequestStep

LEMMA GetProviderInv ==
    ASSUME PushInv, NEW t \in Topics, GetProvider(t) PROVE PushInv'
<1> USE DEF PushInv, PoolInv, GetProvider, providerVars, enqueueVars
<1>1. CASE NoProvider(t)
  <2> USE <1>1 DEF NoProvider
  <2>1. TypeOK'
    BY DEF TypeOK
  <2>2. RequestInv'
    BY DEF RequestInv, RequestTopics, Elements
  <2>3. ResponsesInv'
    BY DEF ResponsesInv, Elements, Jobs
  <2> QED BY <2>1, <2>2, <2>3, RequestStep
<1>2. CASE StartPush(t)
  <2> USE <1>2 DEF StartPush
  <2>1. worker'[t] = [w \in 1 .. Workers |->
            IF w <= Cardinality(Jobs(t)) THEN Wait ELSE Off]
    BY DEF TypeOK
  <2>2. \A w \in 1 .. Workers : worker'[t][w].at \in {"off", "wait"}
    <3>1. Wait.at = "wait" /\ Off.at = "off"
      BY DEF Wait, Off, State
    <3>2. \A w \in 1 .. Workers : worker'[t][w] \in {Off, Wait}
      BY <2>1
    <3> QED BY <3>1, <3>2
  <2>3. \A s \in Topics \ {t} : worker'[s] = worker[s]
    BY DEF TypeOK
  <2>4. TypeOK'
    BY DEF TypeOK, Off, State, Wait, Worker, Response
  <2>5. PoolInv'
    <3>1. t \notin jobsClosed
      BY DEF TopicInv
    <3>2. \A w \in 1 .. Workers : worker'[t][w].at # "done"
      BY <2>2
    <3>3. \A s \in Topics : Left(s)' = Left(s)
      BY DEF Left, Jobs
    <3>4. \A s \in Topics : /\ (s \in jobsClosed => Left(s) = {})'
                           /\ (\A w \in 1 .. Workers : worker[s][w].at = "done" => s \in jobsClosed)'
      BY <2>3, <3>2, <3>3
    <3>5. \A s \in resultsClosed : s # t /\ s \in Topics
      BY <3>1 DEF TypeOK
    <3>6. ASSUME NEW s \in resultsClosed
          PROVE  s \in jobsClosed /\ \A w \in 1 .. Workers : worker'[s][w].at \in {"off", "done"}
      <4>1. worker'[s] = worker[s]
        BY <2>3, <3>5
      <4> QED BY <4>1
    <3> QED BY <2>4, <3>4, <3>6
  <2>6. RequestInv'
    BY DEF RequestInv, RequestTopics, Elements
  <2>7. ResponsesInv'
    BY DEF ResponsesInv, Elements, Jobs
  <2>8. TopicInv(t)'
    <3>1. fed[t] = 0 /\ t \notin jobsClosed /\ Jobs(t)' = Jobs(t) /\ Left(t)' = Left(t)
      BY DEF TopicInv, Jobs, Left
    <3>2. Left(t) = Jobs(t)
      BY <3>1, JobsFacts DEF Left
    <3>3. worker'[t][1].at = "wait"
      BY <2>1, JobsExist, PushEnqueuerAssumption DEF Off, State, Wait
    <3>4. \A w \in 1 .. Workers : ~ Busy(t, w)'
      BY <2>2 DEF Busy
    <3>5. (\A i \in Left(t) : pushed[i] = 0)'
      BY <3>1 DEF TopicInv
    <3>6. (\A id \in Ids : ret[t][id] # "none" => \E i \in Jobs(t) : request[i] = id)'
      BY <3>1 DEF TopicInv
    <3> QED BY <3>1, <3>2, <3>3, <3>4, <3>5, <3>6 DEF TopicInv
  <2>9. \A s \in Topics \ {t} : TopicInv(s)'
    BY <2>3, SameTopic
  <2> QED BY <2>5, <2>6, <2>7, <2>8, <2>9
<1> QED BY <1>1, <1>2

(* PoolInv, topic by topic *)
PoolOf(t) ==
    /\ t \in jobsClosed => Left(t) = {}
    /\ \A w \in 1 .. Workers : worker[t][w].at = "done" => t \in jobsClosed
    /\ t \in resultsClosed => /\ t \in jobsClosed
                             /\ \A w \in 1 .. Workers : worker[t][w].at \in {"off", "done"}

LEMMA PoolByTopic == PoolInv <=> TypeOK /\ \A t \in Topics : PoolOf(t)
BY DEF PoolInv, PoolOf, TypeOK

(* A step of the provider of t: the request and the other topics stay. *)
LEMMA ProviderStep ==
    ASSUME PushInv, NEW t \in Topics, UNCHANGED requestVars,
           TypeOK', PoolOf(t)', TopicInv(t)',
           \A s \in Topics \ {t} :
              /\ fed'[s] = fed[s] /\ worker'[s] = worker[s] /\ ret'[s] = ret[s]
              /\ s \in jobsClosed' <=> s \in jobsClosed
              /\ s \in resultsClosed' <=> s \in resultsClosed,
           resultsClosed \subseteq resultsClosed',
           \A i \in DOMAIN request \ Jobs(t) : pushed'[i] = pushed[i]
    PROVE  PushInv'
<1> USE DEF PushInv, requestVars, enqueueVars
<1>1. TypeOK /\ \A s \in Topics : PoolOf(s)
  BY PoolByTopic
<1>2. ASSUME NEW s \in Topics \ {t} PROVE PoolOf(s)' /\ TopicInv(s)'
  <2>1. PoolOf(s)'
    <3>1. Left(s)' = Left(s) /\ worker'[s] = worker[s]
      BY DEF Left, Jobs
    <3> QED BY <1>1, <3>1 DEF PoolOf
  <2>2. \A i \in Jobs(s) : pushed'[i] = pushed[i]
    BY <1>1, JobsFacts
  <2> QED BY <1>1, <2>1, <2>2, SameTopic
<1>3. PoolInv'
  <2>1. (TypeOK /\ \A s \in Topics : PoolOf(s))'
    BY <1>2
  <2> QED BY <2>1 DEF PoolInv, PoolOf, TypeOK
<1>4. RequestInv'
  BY DEF RequestInv, RequestTopics, Elements
<1>5. ResponsesInv'
  <2>1. (\A i \in DOMAIN request : topic[request[i]] = None => pushed[i] = 0)'
    BY PushEnqueuerAssumption DEF ResponsesInv, Jobs
  <2>2. ASSUME NEW s \in asked \ running, ~ highErr
        PROVE  s \in resultsClosed' /\ \A i \in Jobs(s)' : responses'[request'[i]] \in {"ok", "error"}
    <3>1. s \in resultsClosed /\ s \in Topics /\ Jobs(s)' = Jobs(s)
      BY <1>1, <2>2 DEF ResponsesInv, Jobs, TypeOK
    <3>2. s \in resultsClosed'
      BY <3>1
    <3> QED BY <2>2, <3>1, <3>2 DEF ResponsesInv
  <2> QED BY <2>1, <2>2 DEF ResponsesInv, Elements
<1> QED BY <1>2, <1>3, <1>4, <1>5

LEMMA CloseJobsInv == ASSUME PushInv, NEW t \in Topics, CloseJobs(t) PROVE PushInv'
<1> USE DEF PushInv, CloseJobs, JobsClosed, requestVars, enqueueVars
<1>1. TypeOK /\ PoolOf(t)
  BY PoolByTopic
<1>2. TypeOK'
  BY <1>1 DEF TypeOK
<1>3. Left(t)' = Left(t) /\ Jobs(t)' = Jobs(t)
  BY DEF Left, Jobs
<1>4. PoolOf(t)'
  BY <1>1, <1>3 DEF PoolOf
<1>5. TopicInv(t)'
  BY <1>1, SameTopic DEF RequestInv, TypeOK
<1> QED BY <1>2, <1>4, <1>5, ProviderStep

LEMMA CloseResultsInv == ASSUME PushInv, NEW t \in Topics, CloseResults(t) PROVE PushInv'
<1> USE DEF PushInv, CloseResults, requestVars, enqueueVars
<1>1. TypeOK /\ PoolOf(t)
  BY PoolByTopic
<1>2. TypeOK'
  BY <1>1 DEF TypeOK
<1>3. Left(t)' = Left(t) /\ Jobs(t)' = Jobs(t)
  BY DEF Left, Jobs
<1>4. worker[t][1].at = "done" /\ 1 \in 1 .. Workers
  BY PushEnqueuerAssumption DEF TopicInv, WorkersDone
<1>5. PoolOf(t)'
  BY <1>1, <1>3, <1>4 DEF PoolOf, WorkersDone
<1>6. TopicInv(t)'
  BY <1>1, SameTopic
<1> QED BY <1>2, <1>5, <1>6, ProviderStep

(* What becomes of one worker of t *)
LEMMA BecomesFacts ==
    ASSUME TypeOK, NEW t \in Topics, NEW w \in 1 .. Workers, NEW rec, Becomes(t, w, rec)
    PROVE  /\ worker'[t][w] = rec
           /\ \A v \in (1 .. Workers) \ {w} : worker'[t][v] = worker[t][v]
           /\ \A s \in Topics \ {t} : worker'[s] = worker[s]
           /\ rec \in Worker => worker' \in [Topics -> [1 .. Workers -> Worker]]
BY DEF TypeOK, Becomes

LEMMA DoneInv ==
    ASSUME PushInv, NEW t \in Topics, NEW w \in 1 .. Workers, Done(t, w) PROVE PushInv'
<1> USE DEF PushInv
<1> DEFINE rec == State("done", 0, "none")
<1>1. TypeOK /\ PoolOf(t)
  BY PoolByTopic
<1>2. Becomes(t, w, rec) /\ rec = [at |-> "done", job |-> 0, response |-> "none"]
  BY DEF Done, State
<1>0. /\ UNCHANGED <<requestVars, fed, jobsClosed, resultsClosed, ret, pushed>>
      /\ UNCHANGED <<request, topic, asked, running>>
      /\ t \in jobsClosed /\ worker[t][w].at = "wait"
  BY DEF Done, requestVars, enqueueVars
<1> HIDE DEF rec
<1>3. /\ worker'[t][w] = rec
      /\ \A v \in (1 .. Workers) \ {w} : worker'[t][v] = worker[t][v]
      /\ \A s \in Topics \ {t} : worker'[s] = worker[s]
  BY <1>1, <1>2, BecomesFacts
<1>4. TypeOK'
  <2>1. rec \in Worker
    BY <1>2 DEF Worker, Response
  <2>2. worker' \in [Topics -> [1 .. Workers -> Worker]]
    BY <1>1, <1>2, <2>1, BecomesFacts
  <2> QED BY <1>0, <1>1, <2>2 DEF TypeOK, requestVars, enqueueVars
<1>5. Left(t)' = Left(t) /\ Jobs(t)' = Jobs(t)
  BY <1>0 DEF Left, Jobs
<1>6. PoolOf(t)'
  BY <1>0, <1>1, <1>2, <1>3, <1>5 DEF PoolOf
<1>7. \A v \in 1 .. Workers :
          /\ Busy(t, v)' <=> Busy(t, v)
          /\ Busy(t, v) => worker'[t][v] = worker[t][v]
  BY <1>0, <1>2, <1>3 DEF Busy
<1>8. TopicInv(t)'
  <2>1. t \in asked
    BY <1>0 DEF TopicInv
  <2>2. worker'[t][1].at # "off" <=> worker[t][1].at # "off"
    BY <1>0, <1>2, <1>3, PushEnqueuerAssumption
  <2>3. ASSUME NEW i \in Jobs(t) \ Left(t)
        PROVE  \/ \E v \in 1 .. Workers : Busy(t, v)' /\ worker'[t][v].job = i
               \/ pushed'[i] = 1 /\ ret'[t][request[i]] \in {"ok", "error"}
    <3>1. CASE \E v \in 1 .. Workers : Busy(t, v) /\ worker[t][v].job = i
      BY <3>1, <1>7 
    <3>2. CASE pushed[i] = 1 /\ ret[t][request[i]] \in {"ok", "error"}
      BY <3>2, <1>0
    <3> QED BY <3>1, <3>2 DEF TopicInv
  <2>4. ASSUME NEW v \in 1 .. Workers, Busy(t, v)'
        PROVE  /\ worker'[t][v].job \in Jobs(t) \ Left(t)
               /\ \A u \in (1 .. Workers) \ {v} : Busy(t, u)' => worker'[t][u].job # worker'[t][v].job
               /\ IF worker'[t][v].at = "push" THEN pushed'[worker'[t][v].job] = 0
                  ELSE pushed'[worker'[t][v].job] = 1 /\ worker'[t][v].response # "none"
    <3>1. Busy(t, v) /\ worker'[t][v] = worker[t][v]
      BY <2>4, <1>7 
    <3>2. \A u \in 1 .. Workers : Busy(t, u)' => Busy(t, u) /\ worker'[t][u] = worker[t][u]
      BY <1>7 DEF Busy
    <3> QED BY <1>0, <3>1, <3>2 DEF TopicInv
  <2> QED BY <1>0, <1>5, <2>1, <2>2, <2>3, <2>4 DEF TopicInv
<1> QED BY <1>0, <1>3, <1>4, <1>6, <1>8, ProviderStep

LEMMA FeedInv ==
    ASSUME PushInv, NEW t \in Topics, NEW w \in 1 .. Workers, Feed(t, w) PROVE PushInv'
<1> USE DEF PushInv
<1>1. TypeOK /\ PoolOf(t) /\ TopicInv(t)
  BY PoolByTopic
<1>2. PICK i \in Left(t) :
         /\ \A j \in Left(t) : i <= j
         /\ fed' = [fed EXCEPT ![t] = i]
         /\ Becomes(t, w, State("push", i, "none"))
  BY DEF Feed
<1> DEFINE rec == State("push", i, "none")
<1>3. Becomes(t, w, rec) /\ rec.at = "push" /\ rec.job = i
  BY <1>2 DEF State
<1>4. /\ UNCHANGED <<requestVars, jobsClosed, resultsClosed, ret, pushed>>
      /\ UNCHANGED <<request, topic, asked, running>>
      /\ t \in running /\ worker[t][w].at = "wait"
  BY DEF Feed, requestVars, enqueueVars
<1>5. /\ i \in Jobs(t) /\ i \in DOMAIN request /\ i \in Nat
      /\ \A j \in Jobs(t) : j \in Nat
  BY <1>1, JobsFacts
<1>6. rec \in Worker
  BY <1>5 DEF Worker, Response, State
<1> HIDE DEF rec
<1>7. /\ worker'[t][w] = rec
      /\ \A v \in (1 .. Workers) \ {w} : worker'[t][v] = worker[t][v]
      /\ \A s \in Topics \ {t} : worker'[s] = worker[s]
      /\ worker' \in [Topics -> [1 .. Workers -> Worker]]
  BY <1>1, <1>3, <1>6, BecomesFacts
<1>8. TypeOK'
  BY <1>1, <1>2, <1>4, <1>5, <1>7 DEF TypeOK, requestVars, enqueueVars
<1>9. Jobs(t)' = Jobs(t) /\ Left(t)' = Left(t) \ {i}
  <2>1. fed'[t] = i /\ fed[t] \in Nat /\ Jobs(t)' = Jobs(t)
    BY <1>1, <1>2, <1>4 DEF TypeOK, Jobs
  <2> QED BY <1>2, <1>5, <2>1 DEF Left
<1>10. PoolOf(t)'
  BY <1>1, <1>3, <1>4, <1>7, <1>9 DEF PoolOf
<1>11. \A v \in (1 .. Workers) \ {w} : Busy(t, v)' <=> Busy(t, v)
  BY <1>7 DEF Busy
<1>12. Busy(t, w)' /\ ~ Busy(t, w)
  BY <1>3, <1>4, <1>7 DEF Busy
<1>13. TopicInv(t)'
  <2>1. t \in asked
    BY <1>1, <1>4 DEF TopicInv, Off, State
  <2>2. worker'[t][1].at # "off"
    BY <1>1, <1>3, <1>4, <1>7, PushEnqueuerAssumption DEF TopicInv
  <2>3. pushed[i] = 0 /\ \A j \in Left(t) : pushed[j] = 0
    BY <1>1, <1>2 DEF TopicInv
  <2>4. ASSUME NEW j \in Jobs(t) \ (Left(t) \ {i})
        PROVE  \/ \E v \in 1 .. Workers : Busy(t, v)' /\ worker'[t][v].job = j
               \/ pushed'[j] = 1 /\ ret'[t][request[j]] \in {"ok", "error"}
    <3>1. CASE j = i
      BY <1>3, <1>7, <1>12, <3>1
    <3>2. CASE pushed[j] = 1 /\ ret[t][request[j]] \in {"ok", "error"}
      BY <3>2, <1>4
    <3>3. CASE \E v \in 1 .. Workers : Busy(t, v) /\ worker[t][v].job = j
      BY <3>3, <1>7, <1>11, <1>12
    <3> QED BY <1>1, <3>1, <3>2, <3>3 DEF TopicInv
  <2>5. ASSUME NEW v \in 1 .. Workers, Busy(t, v)'
        PROVE  /\ worker'[t][v].job \in Jobs(t) \ (Left(t) \ {i})
               /\ \A u \in (1 .. Workers) \ {v} : Busy(t, u)' => worker'[t][u].job # worker'[t][v].job
               /\ IF worker'[t][v].at = "push" THEN pushed'[worker'[t][v].job] = 0
                  ELSE pushed'[worker'[t][v].job] = 1 /\ worker'[t][v].response # "none"
    <3>1. \A u \in (1 .. Workers) \ {w} :
             Busy(t, u)' => /\ Busy(t, u) /\ worker'[t][u] = worker[t][u]
                            /\ worker[t][u].job \in Jobs(t) \ Left(t)
      BY <1>1, <1>7, <1>11 DEF TopicInv
    <3>2. CASE v = w
      BY <1>2, <1>3, <1>4, <1>5, <1>7, <2>3, <3>1, <3>2
    <3>3. CASE v # w
      <4>1. /\ Busy(t, v) /\ worker'[t][v] = worker[t][v]
            /\ worker[t][v].job \in Jobs(t) \ Left(t) /\ worker[t][v].job # i
        BY <1>2, <2>5, <3>1, <3>3
      <4>2. IF worker[t][v].at = "push" THEN pushed[worker[t][v].job] = 0
            ELSE pushed[worker[t][v].job] = 1 /\ worker[t][v].response # "none"
        BY <1>1, <4>1 DEF TopicInv
      <4>3. \A u \in (1 .. Workers) \ {v} : Busy(t, u)' => worker'[t][u].job # worker'[t][v].job
        BY <1>1, <1>3, <1>7, <3>1, <4>1 DEF TopicInv
      <4> QED BY <1>4, <4>1, <4>2, <4>3
    <3> QED BY <3>2, <3>3
  <2> QED BY <1>1, <1>4, <1>9, <2>1, <2>2, <2>3, <2>4, <2>5 DEF TopicInv
<1>14. \A s \in Topics \ {t} : fed'[s] = fed[s]
  BY <1>1, <1>2 DEF TypeOK
<1> QED BY <1>4, <1>7, <1>8, <1>10, <1>13, <1>14, ProviderStep

(* A busy worker's results can be taken. *)
LEMMA BusyFacts ==
    ASSUME PushInv, NEW t \in Topics, NEW w \in 1 .. Workers, Busy(t, w)
    PROVE  /\ TypeOK /\ PoolOf(t) /\ TopicInv(t)
           /\ t \in asked /\ t \notin resultsClosed
           /\ worker[t][w].job \in Jobs(t) \ Left(t) /\ worker[t][w].job \in DOMAIN request
           /\ worker[t][w].job \in Nat /\ request[worker[t][w].job] \in Ids
           /\ worker[t][w].response \in Response
           /\ \A v \in (1 .. Workers) \ {w} :
                 Busy(t, v) => worker[t][v].job # worker[t][w].job
<1>1. TypeOK /\ PoolOf(t) /\ TopicInv(t)
  BY PoolByTopic DEF PushInv
<1>2. t \in asked /\ t \notin resultsClosed
  BY <1>1 DEF PoolOf, TopicInv, Busy, Off, State
<1>3. worker[t][w].response \in Response
  <2>1. worker \in [Topics -> [1 .. Workers -> Worker]]
    BY <1>1 DEF TypeOK
  <2>2. worker[t][w] \in Worker
    BY <2>1
  <2> QED BY <2>2 DEF Worker
<1> QED BY <1>1, <1>2, <1>3, JobsFacts DEF TopicInv

LEMMA doInv ==
    ASSUME PushInv, NEW t \in Topics, NEW w \in 1 .. Workers, do(t, w) PROVE PushInv'
<1> USE DEF PushInv
<1>1. PICK r \in {"ok", "error"} : Becomes(t, w, State("send", worker[t][w].job, r))
  BY DEF do
<1> DEFINE i == worker[t][w].job
           rec == State("send", worker[t][w].job, r)
<1>2. Becomes(t, w, rec) /\ rec.at = "send" /\ rec.job = i /\ rec.response = r
  BY <1>1 DEF State
<1>3. /\ UNCHANGED <<requestVars, fed, jobsClosed, resultsClosed, ret>>
      /\ UNCHANGED <<request, topic, asked, running>>
      /\ pushed' = [pushed EXCEPT ![i] = @ + 1]
      /\ worker[t][w].at = "push" /\ Busy(t, w)
  BY DEF do, Busy, requestVars, enqueueVars
<1>4. /\ TypeOK /\ PoolOf(t) /\ TopicInv(t)
      /\ t \in asked /\ t \notin resultsClosed
      /\ i \in Jobs(t) \ Left(t) /\ i \in DOMAIN request /\ i \in Nat
      /\ \A v \in (1 .. Workers) \ {w} : Busy(t, v) => worker[t][v].job # i
  BY <1>3, BusyFacts
<1>5. rec \in Worker
  BY <1>4 DEF Worker, Response, State
<1> HIDE DEF rec
<1>6. /\ worker'[t][w] = rec
      /\ \A v \in (1 .. Workers) \ {w} : worker'[t][v] = worker[t][v]
      /\ \A s \in Topics \ {t} : worker'[s] = worker[s]
      /\ worker' \in [Topics -> [1 .. Workers -> Worker]]
  BY <1>2, <1>4, <1>5, BecomesFacts
<1>7. /\ pushed' \in [DOMAIN request -> Nat] /\ pushed'[i] = 1
      /\ \A j \in DOMAIN request \ {i} : pushed'[j] = pushed[j]
  <2>1. pushed[i] = 0 /\ pushed \in [DOMAIN request -> Nat]
    BY <1>3, <1>4 DEF TypeOK, TopicInv
  <2> QED BY <1>3, <1>4, <2>1
<1>8. TypeOK'
  BY <1>3, <1>4, <1>6, <1>7 DEF TypeOK, requestVars, enqueueVars
<1>9. Jobs(t)' = Jobs(t) /\ Left(t)' = Left(t) /\ Jobs(t) \subseteq DOMAIN request
  BY <1>3 DEF Jobs, Left
<1>10. PoolOf(t)'
  BY <1>2, <1>3, <1>4, <1>6, <1>9 DEF PoolOf
<1>11. \A v \in 1 .. Workers : Busy(t, v)' <=> Busy(t, v)
  BY <1>2, <1>3, <1>6 DEF Busy
<1>12. TopicInv(t)'
  <2>1. t \in running' => worker'[t][1].at # "off"
    BY <1>2, <1>3, <1>4, <1>6, PushEnqueuerAssumption DEF TopicInv
  <2>2. \A j \in Left(t) : pushed'[j] = 0
    BY <1>4, <1>7, JobsFacts DEF TopicInv
  <2>3. ASSUME NEW j \in Jobs(t) \ Left(t)
        PROVE  \/ \E v \in 1 .. Workers : Busy(t, v)' /\ worker'[t][v].job = j
               \/ pushed'[j] = 1 /\ ret'[t][request[j]] \in {"ok", "error"}
    <3>1. CASE j = i
      BY <1>2, <1>3, <1>6, <1>11, <3>1
    <3>2. CASE j # i /\ pushed[j] = 1 /\ ret[t][request[j]] \in {"ok", "error"}
      BY <3>2, <1>3, <1>7, <1>9
    <3>3. CASE j # i /\ \E v \in 1 .. Workers : Busy(t, v) /\ worker[t][v].job = j
      BY <3>3, <1>6, <1>11
    <3> QED BY <1>4, <3>1, <3>2, <3>3 DEF TopicInv
  <2>4. ASSUME NEW v \in 1 .. Workers, Busy(t, v)'
        PROVE  /\ worker'[t][v].job \in Jobs(t) \ Left(t)
               /\ \A u \in (1 .. Workers) \ {v} : Busy(t, u)' => worker'[t][u].job # worker'[t][v].job
               /\ IF worker'[t][v].at = "push" THEN pushed'[worker'[t][v].job] = 0
                  ELSE pushed'[worker'[t][v].job] = 1 /\ worker'[t][v].response # "none"
    <3>1. \A u \in 1 .. Workers : worker'[t][u].job = worker[t][u].job
      BY <1>2, <1>6
    <3>2. /\ worker'[t][v].job \in Jobs(t) \ Left(t)
          /\ \A u \in (1 .. Workers) \ {v} : Busy(t, u)' => worker'[t][u].job # worker'[t][v].job
      BY <1>4, <1>11, <2>4, <3>1 DEF TopicInv
    <3>3. CASE v = w
      BY <1>2, <1>6, <1>7, <3>2, <3>3
    <3>4. CASE v # w
      <4>1. worker'[t][v] = worker[t][v] /\ Busy(t, v) /\ worker[t][v].job # i
        BY <1>4, <1>6, <1>11, <2>4, <3>4
      <4>2. pushed'[worker[t][v].job] = pushed[worker[t][v].job]
        BY <1>7, <1>9, <3>2, <4>1
      <4> QED BY <1>4, <3>2, <4>1, <4>2 DEF TopicInv
    <3> QED BY <3>3, <3>4
  <2> QED BY <1>3, <1>4, <1>9, <2>1, <2>2, <2>3, <2>4 DEF TopicInv
<1>13. \A j \in DOMAIN request \ Jobs(t) : pushed'[j] = pushed[j]
  BY <1>4, <1>7
<1> QED BY <1>3, <1>6, <1>8, <1>10, <1>12, <1>13, ProviderStep

LEMMA CollectInv ==
    ASSUME PushInv, NEW t \in Topics, NEW w \in 1 .. Workers, Collect(t, w) PROVE PushInv'
<1> USE DEF PushInv
<1> DEFINE i == worker[t][w].job
           id == request[i]
           response == worker[t][w].response
<1>1. /\ UNCHANGED <<requestVars, fed, jobsClosed, resultsClosed, pushed>>
      /\ UNCHANGED <<request, topic, asked, running>>
      /\ ret' = [ret EXCEPT ![t][id] = response]
      /\ Becomes(t, w, Wait)
      /\ worker[t][w].at = "send" /\ Busy(t, w)
  BY DEF Collect, Busy, requestVars, enqueueVars
<1>2. /\ TypeOK /\ PoolOf(t) /\ TopicInv(t)
      /\ t \in asked /\ t \notin resultsClosed
      /\ i \in Jobs(t) \ Left(t) /\ i \in DOMAIN request /\ id \in Ids
  BY <1>1, BusyFacts
<1>3. Wait.at = "wait" /\ Wait \in Worker
  BY DEF Wait, Worker, Response, State
<1>4. /\ worker'[t][w] = Wait
      /\ \A v \in (1 .. Workers) \ {w} : worker'[t][v] = worker[t][v]
      /\ \A s \in Topics \ {t} : worker'[s] = worker[s]
      /\ worker' \in [Topics -> [1 .. Workers -> Worker]]
  BY <1>1, <1>2, <1>3, BecomesFacts
<1>5. response \in {"ok", "error"} /\ pushed[i] = 1
  <2>1. response \in Response
    BY <1>1, BusyFacts
  <2>2. pushed[i] = 1 /\ response # "none"
    <3> HIDE DEF PushInv
    <3>1. worker[t][w].at # "push"
      BY <1>1
    <3> QED BY <1>1, <1>2, <3>1, Zenon DEF TopicInv
  <2> QED BY <2>1, <2>2 DEF Response
<1> HIDE DEF i, id, response
<1>6. /\ ret' \in [Topics -> [Ids -> Response]]
      /\ ret'[t][id] = response
      /\ \A e \in Ids : e # id => ret'[t][e] = ret[t][e]
      /\ \A s \in Topics \ {t} : ret'[s] = ret[s]
  <2>1. t \in DOMAIN ret /\ id \in DOMAIN ret[t] /\ response \in Response
    BY <1>2, <1>5 DEF TypeOK, Response
  <2> QED BY <1>1, <1>2, <2>1 DEF TypeOK
<1>7. TypeOK'
  BY <1>1, <1>2, <1>4, <1>6 DEF TypeOK, requestVars, enqueueVars
<1>8. /\ Jobs(t)' = Jobs(t) /\ Left(t)' = Left(t)
      /\ \A j \in Jobs(t) : request[j] \in Ids
  BY <1>1, <1>2, JobsFacts DEF Jobs, Left
<1>9. PoolOf(t)'
  BY <1>1, <1>2, <1>3, <1>4, <1>8 DEF PoolOf
<1>10. \A v \in (1 .. Workers) \ {w} : Busy(t, v)' <=> Busy(t, v)
  BY <1>4 DEF Busy
<1>11. ~ Busy(t, w)'
  BY <1>3, <1>4 DEF Busy
<1>12. TopicInv(t)'
  <2>1. t \in running' => worker'[t][1].at # "off"
    BY <1>1, <1>2, <1>3, <1>4, PushEnqueuerAssumption DEF TopicInv
  <2>2. (\A j \in Left(t) : pushed[j] = 0)'
    BY <1>1, <1>2, <1>8 DEF TopicInv
  <2>3. ASSUME NEW j \in Jobs(t) \ Left(t)
        PROVE  \/ \E v \in 1 .. Workers : Busy(t, v)' /\ worker'[t][v].job = j
               \/ pushed'[j] = 1 /\ ret'[t][request[j]] \in {"ok", "error"}
    <3>1. CASE j = i
      BY <1>1, <1>5, <1>6, <3>1 DEF id
    <3>2. CASE pushed[j] = 1 /\ ret[t][request[j]] \in {"ok", "error"}
      <4>1. CASE request[j] = id
        BY <3>2, <4>1, <1>1, <1>5, <1>6
      <4>2. CASE request[j] # id
        BY <3>2, <4>2, <1>1, <1>6, <1>8
      <4> QED BY <4>1, <4>2
    <3>3. CASE j # i /\ \E v \in 1 .. Workers : Busy(t, v) /\ worker[t][v].job = j
      BY <3>3, <1>4, <1>10 DEF i
    <3> QED BY <1>2, <3>1, <3>2, <3>3 DEF TopicInv
  <2>4. ASSUME NEW v \in 1 .. Workers, Busy(t, v)'
        PROVE  /\ worker'[t][v].job \in Jobs(t) \ Left(t)
               /\ \A u \in (1 .. Workers) \ {v} : Busy(t, u)' => worker'[t][u].job # worker'[t][v].job
               /\ IF worker'[t][v].at = "push" THEN pushed'[worker'[t][v].job] = 0
                  ELSE pushed'[worker'[t][v].job] = 1 /\ worker'[t][v].response # "none"
    <3>1. \A u \in 1 .. Workers : Busy(t, u)' => Busy(t, u) /\ worker'[t][u] = worker[t][u]
      BY <1>4, <1>10, <1>11
    <3> QED BY <1>1, <1>2, <2>4, <3>1 DEF TopicInv
  <2>5. (\A e \in Ids : ret[t][e] # "none" => \E j \in Jobs(t) : request[j] = e)'
    BY <1>1, <1>2, <1>6, <1>8 DEF TopicInv, id
  <2> QED BY <1>1, <1>2, <1>8, <2>1, <2>2, <2>3, <2>4, <2>5 DEF TopicInv
<1> QED BY <1>1, <1>4, <1>6, <1>7, <1>9, <1>12, ProviderStep

LEMMA PushInvStep == PushInv /\ [Next]_vars => PushInv'
<1> SUFFICES ASSUME PushInv, [Next]_vars PROVE PushInv'
  OBVIOUS
<1>1. CASE Push
  BY <1>1, doEnqueueInv, RetrievePushInfoInv, StartedInv, ReturnInv, GetProviderInv, FeedbackInv
     DEF Push
<1>2. ASSUME NEW t \in Topics, Provider(t) PROVE PushInv'
  BY <1>2, CloseJobsInv, CloseResultsInv, FeedInv, doInv, CollectInv, DoneInv DEF Provider
<1>3. CASE UNCHANGED vars
  <2>1. UNCHANGED <<request, topic, providerVars, asked, running>>
    BY <1>3 DEF vars, enqueueVars
  <2>2. TypeOK'
    BY <1>3 DEF vars, enqueueVars, providerVars, PushInv, PoolInv, TypeOK
  <2>3. RequestInv'
    BY <1>3 DEF vars, enqueueVars, providerVars, PushInv, RequestInv, RequestTopics, Elements
  <2>4. ResponsesInv'
    BY <1>3 DEF vars, enqueueVars, providerVars, PushInv, ResponsesInv, Elements, Jobs
  <2> QED BY <2>1, <2>2, <2>3, <2>4, RequestStep
<1> QED BY <1>1, <1>2, <1>3 DEF Next

LEMMA PushInvHolds == Spec => []PushInv
BY PushInvInit, PushInvStep, PTL DEF Spec

(* The worker pool of every topic shuts down in order: a topic's results   *)
(* are closed after its jobs, with nothing left to feed and no worker left *)
(* to send (pushConcurrent).                                               *)
THEOREM PoolCorrect == Spec => []PoolInv
<1>1. PushInv => PoolInv
  BY DEF PushInv
<1> QED BY <1>1, PushInvHolds, PTL

LEMMA AnsweredInv == PushInv => Answered
<1> SUFFICES ASSUME PushInv, pc = "done", ~ noPush, ~ highErr, NEW i \in DOMAIN request
             PROVE  IF topic[request[i]] = None
                    THEN responses[request[i]] = "notFound" /\ pushed[i] = 0
                    ELSE responses[request[i]] \in {"ok", "error"} /\ pushed[i] = 1
  BY DEF Answered
<1>1. TypeOK
  BY DEF PushInv, PoolInv
<1>2. request[i] \in Ids
  BY <1>1, PushEnqueuerAssumption DEF TypeOK
<1>3. CASE topic[request[i]] = None
  BY <1>3 DEF PushInv, ResponsesInv, Elements
<1>4. CASE topic[request[i]] # None
  <2> DEFINE t == topic[request[i]]
  <2>1. t \in Topics /\ t \in asked \ running /\ i \in Jobs(t)
    BY <1>1, <1>2, <1>4 DEF PushInv, RequestInv, RequestTopics, Elements, TypeOK, Jobs
  <2>2. responses[request[i]] \in {"ok", "error"} /\ t \in resultsClosed
    BY <2>1 DEF PushInv, ResponsesInv
  <2> QED BY <1>4, <2>1, <2>2, ResultsComplete
<1> QED BY <1>3, <1>4

(* When Push returns every push of an enrollment with a provider was sent  *)
(* to APNs exactly once and answered, and the others are reported missing. *)
THEOREM AnsweredCorrect == Spec => []Answered
BY AnsweredInv, PushInvHolds, PTL

(* What the response code is computed from is what failed, when errors are *)
(* reported by enrollment.                                                 *)
LEMMA FailuresFacts ==
    ASSUME PushInv, pc = "done", ~ highErr
    PROVE  /\ PushErrs = {id \in Elements(request) : ~ noPush /\ responses[id] # "ok"}
           /\ unqueued = {} <=> enqueueErrs = {}
           /\ None \notin enqueueErrs => unqueued = enqueueErrs
<1>1. TypeOK /\ Elements(request) \subseteq Ids
  BY PushEnqueuerAssumption DEF PushInv, PoolInv, TypeOK, Elements
<1>2. ASSUME NEW id \in PushErrs
      PROVE  id \in Elements(request) /\ ~ noPush /\ responses[id] # "ok"
  BY DEF PushErrs, PushInv, RequestInv, ResponsesInv
<1>3. ASSUME NEW id \in Elements(request), ~ noPush, responses[id] # "ok"
      PROVE  id \in PushErrs
  <2>1. PICK i \in DOMAIN request : request[i] = id
    BY DEF Elements
  <2>2. responses[id] \in {"notFound", "ok", "error"}
    BY <1>3, <2>1, AnsweredInv DEF Answered
  <2> QED BY <1>1, <1>3, <2>2 DEF PushErrs
<1> QED BY <1>2, <1>3 DEF PushInv, RequestInv

(* The response code of EnqueueWithPush tells what failed: 200 nothing, 207 *)
(* something, and not everything, for a request that names no enrollment    *)
(* twice and a backend that reports errors by enrollment.                   *)
THEOREM CodeTellsCorrect == Spec => []CodeTells
<1>1. PushInv => CodeTells
  <2> SUFFICES ASSUME PushInv, pc = "done", code \in {200, 207}
               PROVE  /\ code = 200 => Failed = {}
                      /\ code = 207 => Failed # {}
                      /\ code = 207 /\ None \notin enqueueErrs
                            /\ Len(request) = Cardinality(Elements(request))
                            => Failed # Elements(request)
    BY DEF CodeTells
  <2>1. ~ highErr
    BY DEF code
  <2>2. CASE code = 200
    <3>1. Failures = {}
      BY <2>1, <2>2 DEF code
    <3> QED BY <2>1, <2>2, <3>1, FailuresFacts DEF Failures, Failed
  <2>3. CASE code = 207
    <3>1. Failures # {} /\ Cardinality(Failures) < Len(request)
      BY <2>1, <2>3 DEF code
    <3>2. Failed # {}
      BY <2>1, <3>1, FailuresFacts DEF Failures, Failed
    <3>3. None \notin enqueueErrs => Failures = Failed
      BY <2>1, FailuresFacts DEF Failures, Failed
    <3>4. Len(request) \in Nat
      BY PushEnqueuerAssumption DEF PushInv, PoolInv, TypeOK
    <3> QED BY <2>3, <3>1, <3>2, <3>3, <3>4
  <2> QED BY <2>2, <2>3
<1> QED BY <1>1, PushInvHolds, PTL

(* Who can take a step: the request's goroutine, unless it waits for a     *)
(* topic's responses; a feeder or a worker whose partner at the channel is *)
(* there, or whose channel is closed; a worker at APNs; a closer.          *)
RequestMoves ==
    \/ pc \in {"enqueue", "retrieve", "topics"}
    \/ pc = "collect" /\ (running = {} \/ \E t \in running : t \in resultsClosed)

ProviderMoves(t) ==
    \/ t \in running \ jobsClosed /\ Left(t) = {}
    \/ t \in running \ resultsClosed /\ WorkersDone(t)
    \/ \E w \in 1 .. Workers :
          \/ /\ t \in running /\ worker[t][w].at = "wait"
             /\ \E i \in Left(t) : \A j \in Left(t) : i <= j
          \/ worker[t][w].at = "push"
          \/ worker[t][w].at = "send" /\ t \notin resultsClosed
          \/ worker[t][w].at = "wait" /\ t \in jobsClosed

NeverBlocked == pc # "done" => RequestMoves \/ \E t \in Topics : ProviderMoves(t)

(* A set of natural numbers has a least element.                           *)
LEMMA LeastNatural ==
    ASSUME NEW T \in SUBSET Nat, T # {}
    PROVE  \E m \in T : \A n \in T : m <= n
<1>1. PICK R : R = OpToRel(<, Nat) /\ IsWellFoundedOn(R, Nat)
  BY NatLessThanWellFounded, Zenon
<1>2. PICK m \in T : \A n \in T : ~ (<<n, m>> \in R)
  BY <1>1, WFMin
<1>3. \A n \in T : n \in Nat /\ m \in Nat /\ ~ (n < m)
  BY <1>1, <1>2 DEF OpToRel
<1> QED BY <1>3

(* All channels being unbuffered, every goroutine of a request waits for   *)
(* another; yet they never all do: while the request is not answered one   *)
(* of them can go on, whatever the topics, the number of workers and which *)
(* of the providers are missing (pushConcurrent, pushMulti).               *)
THEOREM NeverBlockedCorrect == Spec => []NeverBlocked
<1>1. PushInv => NeverBlocked
  <2> SUFFICES ASSUME PushInv PROVE NeverBlocked
    OBVIOUS
  <2>0. pc \in {"enqueue", "retrieve", "topics", "collect", "done"} /\ running \subseteq Topics
    BY DEF PushInv, PoolInv, TypeOK
  <2> SUFFICES ASSUME pc = "collect", NEW t \in running, t \notin resultsClosed
               PROVE  ProviderMoves(t)
    BY <2>0 DEF NeverBlocked, RequestMoves
  <2>1. /\ TypeOK /\ TopicInv(t) /\ t \in Topics
        /\ \A w \in 1 .. Workers : worker[t][w].at = "done" => t \in jobsClosed
        /\ \A w \in 1 .. Workers : worker[t][w].at \in {"off", "wait", "push", "send", "done"}
    BY DEF PushInv, PoolInv, TypeOK, Worker
  <2>2. CASE t \in jobsClosed
    BY <2>1, <2>2 DEF ProviderMoves, WorkersDone
  <2>3. CASE t \notin jobsClosed /\ Left(t) = {}
    BY <2>3 DEF ProviderMoves
  <2>4. CASE t \notin jobsClosed /\ Left(t) # {}
    <3>1. \E i \in Left(t) : \A j \in Left(t) : i <= j
      <4>1. Left(t) \subseteq Nat
        BY <2>1, JobsFacts
      <4> QED BY <2>4, <4>1, LeastNatural
    <3>2. 1 \in 1 .. Workers /\ worker[t][1].at \in {"wait", "push", "send"}
      BY <2>1, <2>4, PushEnqueuerAssumption DEF TopicInv
    <3> QED BY <3>1, <3>2 DEF ProviderMoves
  <2> QED BY <2>2, <2>3, <2>4
<1> QED BY <1>1, PushInvHolds, PTL

-----------------------------------------------------------------------------
(* PushCerts: the cache of push providers against uploads. *)

LEMMA TokenInvInit == CertsInit => TokenInv
BY PushAssumption DEF CertsInit, TokenInv, CertsTypeOK, Providers, NoneCached

(* The invariant holds across every step: what a thread takes from the     *)
(* cache is checked against the token before it is used, and what it       *)
(* retrieves is current when it is read.                                   *)
LEMMA TokenInvStep ==
    ASSUME Backends = {"sql"}, TokenInv, [CertsNext]_certVars
    PROVE  TokenInv'
<1> USE PushAssumption DEF TokenInv, CertsTypeOK, Providers
<1>1. CASE Store
  BY <1>1 DEF Store, MayStore
<1>2. CASE StoreKeyFile
  BY <1>2 DEF StoreKeyFile
<1>3. ASSUME NEW t \in Threads, Begin(t)
      PROVE  TokenInv'
  BY <1>3 DEF Begin, Go, storeVars
<1>4. ASSUME NEW t \in Threads, Check(t)
      PROVE  TokenInv'
  BY <1>4 DEF Check, Go, storeVars, IsPushCertStale
<1>5. ASSUME NEW t \in Threads, RetrieveRow(t)
      PROVE  TokenInv'
  <2>1. prov' \in [Threads -> Providers]
    BY <1>5 DEF RetrieveRow
  <2>2. /\ prov'[t] = [cert |-> pem, token |-> token]
        /\ \A i \in Threads \ {t} : prov'[i] = prov[i]
    BY <1>5 DEF RetrieveRow
  <2>3. /\ stage' \in [Threads -> {"idle", "check", "pem", "key", "token", "cache", "push"}]
        /\ \A i \in Threads \ {t} : stage'[i] = stage[i]
        /\ stage'[t] \in {"idle", "cache"}
    BY <1>5 DEF RetrieveRow, Go
  <2>4. UNCHANGED <<backend, pem, key, token, provider, began, fails>>
    BY <1>5 DEF RetrieveRow, storeVars
  <2>5. prov'[t].cert = pem /\ prov'[t].token = pem
    BY <2>2
  <2>6. CertsTypeOK'
    BY <2>1, <2>3, <2>4
  <2>7. ASSUME NEW i \in Threads
        PROVE  /\ prov'[i].token = prov'[i].cert /\ prov'[i].cert <= pem
               /\ began[i] <= pem
               /\ stage'[i] \in {"cache", "push"} => prov'[i].cert >= began[i]
               /\ stage'[i] \notin {"key", "token"}
    <3>1. CASE i = t
      BY <3>1, <2>3, <2>5
    <3>2. CASE i # t
      <4>1. prov'[i] = prov[i] /\ stage'[i] = stage[i]
        BY <3>2, <2>2, <2>3
      <4> QED BY <4>1
    <3> QED BY <3>1, <3>2
  <2> QED BY <2>4, <2>6, <2>7
<1>6. ASSUME NEW t \in Threads, ReadPem(t) \/ ReadKey(t) \/ ReadToken(t)
      PROVE  FALSE
  BY <1>6 DEF ReadPem, ReadKey, ReadToken, Go
<1>7. ASSUME NEW t \in Threads, Cache(t)
      PROVE  TokenInv'
  BY <1>7 DEF Cache, Go, storeVars
<1>8. ASSUME NEW t \in Threads, PushWith(t) \/ Fail(t)
      PROVE  TokenInv'
  BY <1>8 DEF PushWith, Fail, Go, storeVars
<1>9. CASE UNCHANGED certVars
  BY <1>9 DEF certVars
<1> QED BY <1>1, <1>2, <1>3, <1>4, <1>5, <1>6, <1>7, <1>8, <1>9
        DEF CertsNext, getProvider

(* Where the certificate and its stale token are read and written          *)
(* together, a cached provider that passes for current is current.         *)
THEOREM StaleNoticedCorrect ==
    ASSUME Backends = {"sql"}
    PROVE  CertsSpec => []StaleNoticed
<1>1. TokenInv /\ [CertsNext]_certVars => TokenInv'
  BY TokenInvStep
<1>2. TokenInv => StaleNoticed
  BY DEF TokenInv, StaleNoticed
<1> QED BY <1>1, <1>2, TokenInvInit, PTL DEF CertsSpec

(* A push never uses a certificate older than the one stored when the push *)
(* began, whatever other pushes put into the cache.                        *)
THEOREM PushesCurrentCorrect ==
    ASSUME Backends = {"sql"}
    PROVE  CertsSpec => []PushesCurrent
<1>1. TokenInv /\ [CertsNext]_certVars => TokenInv'
  BY TokenInvStep
<1>2. TokenInv => PushesCurrent
  BY DEF TokenInv, PushesCurrent
<1> QED BY <1>1, <1>2, TokenInvInit, PTL DEF CertsSpec

=============================================================================
