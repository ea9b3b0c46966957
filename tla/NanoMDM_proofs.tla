--------------------------- MODULE NanoMDM_proofs ---------------------------
(* Theorems about NanoMDM, for every value of its constants. *)
EXTENDS NanoMDM, TLAPS

(* The request a thread handles is a well-formed request. *)
LEMMA RequestType ==
    ASSUME TypeOK, NEW t \in Threads, req[t] # NoRequest
    PROVE  req[t] \in Request
BY DEF TypeOK

LEMMA FirstCallType ==
    ASSUME NEW m \in CheckIns \cup {"CommandResults"}
    PROVE  FirstCall(m) \in Calls
BY DEF CheckIns, FirstCall, Calls

(* Advancing a request, or ending it, keeps the requests well formed. *)
LEMMA ThenType ==
    ASSUME TypeOK, NEW t \in Threads, NEW c \in Calls,
           req[t] # NoRequest, Then(t, c)
    PROVE  req' \in [Threads -> Request \cup {NoRequest}]
<1>1. [req[t] EXCEPT !.call = c] \in Request
  BY RequestType DEF Request
<1> QED BY <1>1 DEF Then, TypeOK

LEMMA ReceiveType ==
    ASSUME TypeOK, NEW t \in Threads, NEW id \in ID,
           NEW m \in CheckIns \cup {"CommandResults"}, NEW s \in Statuses,
           NEW u \in UUIDs \cup {None}, Receive(t, id, m, s, u)
    PROVE  req' \in [Threads -> Request \cup {NoRequest}]
<1>1. [msg |-> m, id |-> id, call |-> FirstCall(m), status |-> s,
       uuid |-> u, next |-> None] \in Request
  BY FirstCallType DEF Request
<1> QED BY <1>1 DEF Receive, TypeOK

LEMMA InitType == Init => TypeOK
BY ConstantsAssumption DEF Init, TypeOK, NoAnswer, Answer, Statuses

LEMMA CheckInType ==
    ASSUME TypeOK, NEW t \in Threads, NEW id \in ID, NEW m \in CheckIns,
           CheckIn(t, id, m)
    PROVE  TypeOK'
<1>1. req' \in [Threads -> Request \cup {NoRequest}]
  BY ReceiveType DEF CheckIn, Statuses
<1>2. belief' \in [ID -> {"out", "leaving", "authed", "updating", "enrolled"}]
  <2>1. BeliefWhenSent(id, m) \in {"out", "leaving", "authed", "updating", "enrolled"}
    BY DEF BeliefWhenSent, TypeOK
  <2> QED BY <2>1 DEF CheckIn, TypeOK
<1>3. escrow' \in [ID -> {"none", "sent", "stored"}]
  BY DEF CheckIn, TypeOK
<1>4. updated' \subseteq ID
  BY DEF CheckIn, TypeOK
<1> QED BY <1>1, <1>2, <1>3, <1>4 DEF CheckIn, TypeOK, enrollVars, queueVars

LEMMA ReportType ==
    ASSUME TypeOK, NEW t \in Threads, NEW id \in ID, NEW s \in Statuses,
           Report(t, id, s)
    PROVE  TypeOK'
<1>1. req' \in [Threads -> Request \cup {NoRequest}]
  <2>1. holding[id].uuid \in UUIDs \cup {None}
    BY DEF TypeOK, Answer
  <2> QED BY <2>1, ReceiveType DEF Report
<1>2. holding' \in [ID -> Answer]
  <2>1. holding[id] \in Answer
    BY DEF TypeOK
  <2>2. [holding[id] EXCEPT !.status = s] \in Answer
    BY <2>1 DEF Answer
  <2> QED BY <2>2 DEF Report, TypeOK
<1> QED BY <1>1, <1>2 DEF Report, TypeOK, enrollVars, queueVars


LEMMA EnrollmentCallType ==
    ASSUME TypeOK, NEW t \in Threads,
           \/ StoreAuthenticate(t) \/ Disable(t) \/ StoreTokenUpdate(t)
           \/ StoreBootstrapToken(t) \/ RetrieveBootstrapToken(t)
    PROVE  TypeOK'
<1>1. req[t] # NoRequest
  BY DEF At, StoreAuthenticate, Disable, StoreTokenUpdate,
         StoreBootstrapToken, RetrieveBootstrapToken
<1>2. req[t].id \in ID
  BY <1>1, RequestType DEF Request
<1>3. req' \in [Threads -> Request \cup {NoRequest}]
  BY <1>1, ThenType DEF Calls, StoreAuthenticate, Disable, StoreTokenUpdate,
         StoreBootstrapToken, RetrieveBootstrapToken
<1>4. CASE StoreAuthenticate(t)
  BY <1>2, <1>3, <1>4 DEF StoreAuthenticate, TypeOK, queueVars, clientVars
<1>5. CASE Disable(t)
  <2>1. tally' \in [ID -> 0 .. MaxTally]
    BY <1>5, ConstantsAssumption DEF Disable, DisabledRows, TypeOK
  <2> QED BY <1>3, <1>5, <2>1 DEF Disable, TypeOK, queueVars, clientVars
<1>6. CASE StoreTokenUpdate(t)
  <2>1. tally' \in [ID -> 0 .. MaxTally]
    BY <1>2, <1>6, ConstantsAssumption DEF StoreTokenUpdate, upsertEnrollment, TypeOK
  <2> QED BY <1>2, <1>3, <1>6, <2>1 DEF StoreTokenUpdate, upsertEnrollment, TypeOK, queueVars, clientVars
<1>7. CASE StoreBootstrapToken(t)
  BY <1>3, <1>7 DEF StoreBootstrapToken, TypeOK, queueVars, clientVars
<1>8. CASE RetrieveBootstrapToken(t)
  BY <1>3, <1>8 DEF RetrieveBootstrapToken, TypeOK, enrollVars, queueVars, clientVars
<1> QED BY <1>4, <1>5, <1>6, <1>7, <1>8

LEMMA ClearQueueType ==
    ASSUME TypeOK, NEW t \in Threads, ClearQueue(t)
    PROVE  TypeOK'
<1>1. req[t] # NoRequest
  BY DEF At, ClearQueue
<1>2. req' \in [Threads -> Request \cup {NoRequest}]
  BY <1>1, ThenType DEF Calls, ClearQueue
<1>3. active' \in [ID -> SUBSET UUIDs] /\ current' \in [ID -> SUBSET UUIDs]
  BY DEF ClearQueue, TypeOK
<1> QED BY <1>2, <1>3 DEF ClearQueue, TypeOK, enrollVars, clientVars

LEMMA StoreCommandReportType ==
    ASSUME TypeOK, AnswersMatch, NEW t \in Threads, StoreCommandReport(t)
    PROVE  TypeOK'
<1> DEFINE id == req[t].id
           u  == req[t].uuid
           s  == req[t].status
<1>1. req[t] # NoRequest
  BY DEF At, StoreCommandReport
<1>2. id \in ID /\ u \in UUIDs \cup {None} /\ s \in Statuses
  BY <1>1, RequestType DEF Request
<1>3. req' \in [Threads -> Request \cup {NoRequest}]
  BY <1>1, ThenType DEF Calls, StoreCommandReport
<1>4. CASE s = "Idle"
  BY <1>3, <1>4 DEF StoreCommandReport, TypeOK, enrollVars, queueVars, clientVars
<1>5. CASE s # "Idle"
  <2>1. u \in UUIDs
    BY <1>1, <1>2, <1>5 DEF AnswersMatch
  <2>2. acked' \in [ID -> SUBSET UUIDs] /\ UNCHANGED <<created, clock>>
    BY <1>2, <1>5, <2>1 DEF StoreCommandReport, TypeOK
  <2>3. CASE upsertResult(id, u, s)
    <3>1. s \in {"NotNow", "Acknowledged"}
      BY <1>2, <1>5 DEF Statuses
    <3>2. [result[id] EXCEPT ![u] = s]
            \in [UUIDs -> {"NULL", "NotNow", "Acknowledged"}]
      BY <1>2, <3>1 DEF TypeOK
    <3>3. result' \in [ID -> [UUIDs -> {"NULL", "NotNow", "Acknowledged"}]]
      BY <2>3, <3>2 DEF upsertResult, TypeOK
    <3> QED BY <1>3, <2>2, <2>3, <3>3
            DEF StoreCommandReport, upsertResult, TypeOK, enrollVars, clientVars
  <2>4. CASE deleteCommand(id, u)
    <3>1. [result[id] EXCEPT ![u] = IF u \in queue[id] THEN "NULL" ELSE @]
            \in [UUIDs -> {"NULL", "NotNow", "Acknowledged"}]
      BY <1>2, <2>1 DEF TypeOK
    <3>2. result' \in [ID -> [UUIDs -> {"NULL", "NotNow", "Acknowledged"}]]
      BY <2>4, <3>1 DEF deleteCommand, TypeOK
    <3>3. queue' \in [ID -> SUBSET UUIDs] /\ active' \in [ID -> SUBSET UUIDs]
      BY <2>4 DEF deleteCommand, TypeOK
    <3>4. current' \in [ID -> SUBSET UUIDs] /\ delivered' \in [ID -> SUBSET UUIDs]
      BY <2>4 DEF deleteCommand, TypeOK
    <3>5. commands' \subseteq UUIDs
      BY <2>4 DEF deleteCommand, TypeOK
    <3> QED BY <1>3, <2>2, <3>2, <3>3, <3>4, <3>5
            DEF StoreCommandReport, TypeOK, enrollVars, clientVars
  <2> QED BY <1>5, <2>3, <2>4 DEF StoreCommandReport
<1> QED BY <1>4, <1>5

LEMMA RetrieveNextCommandType ==
    ASSUME TypeOK, NEW t \in Threads, RetrieveNextCommand(t)
    PROVE  TypeOK'
<1> DEFINE S == Eligible(req[t].id, req[t].status = "NotNow")
<1>1. req[t] \in Request
  BY RequestType DEF At, RetrieveNextCommand
<1>2. req[t].id \in ID
  BY <1>1 DEF Request
<1>3. CASE S = {} /\ req' = [req EXCEPT ![t].call = "respond"] /\ UNCHANGED delivered
  <2>1. [req[t] EXCEPT !.call = "respond"] \in Request
    BY <1>1 DEF Request, Calls
  <2> QED BY <1>3, <2>1
          DEF RetrieveNextCommand, TypeOK, enrollVars, clientVars
<1>4. ASSUME NEW u \in Oldest(S),
             req' = [req EXCEPT ![t].call = "respond", ![t].next = u],
             delivered' = [delivered EXCEPT ![req[t].id] = @ \cup {u}]
      PROVE  TypeOK'
  <2>1. u \in UUIDs
    BY <1>2 DEF Oldest, Eligible, TypeOK
  <2>2. [req[t] EXCEPT !.call = "respond", !.next = u] \in Request
    BY <1>1, <2>1 DEF Request, Calls
  <2>3. req' \in [Threads -> Request \cup {NoRequest}]
    BY <1>4, <2>2 DEF TypeOK
  <2>4. delivered' \in [ID -> SUBSET UUIDs]
    BY <1>2, <1>4, <2>1 DEF TypeOK
  <2> QED BY <2>3, <2>4 DEF RetrieveNextCommand, TypeOK, enrollVars, clientVars
<1> QED BY <1>3, <1>4 DEF RetrieveNextCommand

LEMMA RespondType ==
    ASSUME TypeOK, NEW t \in Threads, Respond(t)
    PROVE  TypeOK'
<1>1. req[t] \in Request
  BY RequestType DEF At, Respond
<1>2. req' \in [Threads -> Request \cup {NoRequest}]
  BY DEF Respond, TypeOK
<1>3. belief' \in [ID -> {"out", "leaving", "authed", "updating", "enrolled"}]
  <2>1. BeliefWhenDone(req[t].id, req[t].msg)
          \in {"out", "leaving", "authed", "updating", "enrolled"}
    BY <1>1 DEF BeliefWhenDone, TypeOK, Request
  <2> QED BY <2>1 DEF Respond, TypeOK
<1>4. escrow' \in [ID -> {"none", "sent", "stored"}]
  BY DEF Respond, TypeOK
<1>5. holding' \in [ID -> Answer]
  <2>1. NoAnswer \in Answer
    BY DEF NoAnswer, Answer, Statuses
  <2>2. [uuid |-> req[t].next, status |-> "undecided"] \in Answer
    BY <1>1 DEF Request, Answer
  <2> QED BY <2>1, <2>2 DEF Respond, TypeOK
<1> QED BY <1>2, <1>3, <1>4, <1>5 DEF Respond, TypeOK, enrollVars, queueVars

LEMMA AbortType ==
    ASSUME TypeOK, NEW t \in Threads, Abort(t)
    PROVE  TypeOK'
<1>1. holding' \in [ID -> Answer]
  <2>1. NoAnswer \in Answer
    BY DEF NoAnswer, Answer, Statuses
  <2> QED BY <2>1 DEF Abort, TypeOK
<1>2. fails' \in 0 .. MaxFail
  BY ConstantsAssumption DEF Abort, TypeOK
<1> QED BY <1>1, <1>2 DEF Abort, TypeOK, enrollVars, queueVars

LEMMA EnqueueCommandType ==
    ASSUME TypeOK, NEW ids \in SUBSET ID, NEW u \in UUIDs,
           EnqueueCommand(ids, u)
    PROVE  TypeOK'
<1>1. /\ queue' \in [ID -> SUBSET UUIDs] /\ active' \in [ID -> SUBSET UUIDs]
      /\ current' \in [ID -> SUBSET UUIDs] /\ acked' \in [ID -> SUBSET UUIDs]
      /\ commands' \subseteq UUIDs
  BY DEF EnqueueCommand, TypeOK
<1>2. clock' \in 0 .. MaxClock /\ created' \in [UUIDs -> 0 .. MaxClock]
  BY ConstantsAssumption DEF EnqueueCommand, TypeOK
<1> QED BY <1>1, <1>2 DEF EnqueueCommand, TypeOK, enrollVars, clientVars

(* Every step keeps Idle the only report without a command: a client holds *)
(* a command exactly when the last response gave it one.                   *)
LEMMA AnswersMatchStep ==
    ASSUME TypeOK, AnswersMatch, [Next]_vars
    PROVE  AnswersMatch'
<1>1. ASSUME NEW t \in Threads, NEW id \in ID, NEW m \in CheckIns,
             CheckIn(t, id, m)
      PROVE  AnswersMatch'
  BY <1>1 DEF AnswersMatch, TypeOK, CheckIn, Receive, NoRequest
<1>2. ASSUME NEW t \in Threads, NEW id \in ID, NEW s \in Statuses,
             Report(t, id, s)
      PROVE  AnswersMatch'
  <2>1. holding[id].uuid = None <=> s = "Idle"
    BY <1>2 DEF AnswersMatch, Report
  <2>2. holding' = [holding EXCEPT ![id].status = s]
    BY <1>2 DEF Report
  <2>3. \A i \in ID : holding'[i].uuid = None <=> holding'[i].status = "Idle"
    BY <2>1, <2>2 DEF AnswersMatch, TypeOK, Answer
  <2>4. \A i \in Threads : req'[i] # NoRequest =>
           (req'[i].uuid = None <=> req'[i].status = "Idle")
    BY <1>2, <2>1 DEF AnswersMatch, TypeOK, Report, Receive
  <2> QED BY <2>3, <2>4 DEF AnswersMatch
<1>3. ASSUME NEW t \in Threads, NEW c \in Calls, At(t, c) \/ req[t] # NoRequest,
             Then(t, c), UNCHANGED holding
      PROVE  AnswersMatch'
  BY <1>3, RequestType DEF AnswersMatch, TypeOK, Then, At, Request, NoRequest
<1>4. ASSUME NEW t \in Threads, StorageCall(t)
      PROVE  AnswersMatch'
  <2>1. CASE RetrieveNextCommand(t)
    <3>1. req[t] # NoRequest
      BY <2>1 DEF At, RetrieveNextCommand
    <3>2. req' \in [Threads -> Request \cup {NoRequest}] /\ UNCHANGED holding
      BY <2>1, RetrieveNextCommandType DEF TypeOK, RetrieveNextCommand, clientVars
    <3>3. req'[t].uuid = req[t].uuid /\ req'[t].status = req[t].status
      BY <2>1, <3>1, RequestType DEF RetrieveNextCommand, TypeOK, Request
    <3>4. \A i \in Threads \ {t} : req'[i] = req[i]
      BY <2>1 DEF RetrieveNextCommand, TypeOK
    <3> QED BY <3>1, <3>2, <3>3, <3>4 DEF AnswersMatch
  <2>2. CASE ~RetrieveNextCommand(t)
    BY <1>3, <1>4, <2>2 DEF StorageCall, StoreAuthenticate, ClearQueue, Disable,
       StoreTokenUpdate, StoreBootstrapToken, RetrieveBootstrapToken,
       StoreCommandReport, At, Calls, clientVars
  <2> QED BY <2>1, <2>2
<1>5. ASSUME NEW t \in Threads, Respond(t)
      PROVE  AnswersMatch'
  <2>1. \A i \in Threads : req'[i] = NoRequest \/ req'[i] = req[i]
    BY <1>5 DEF Respond, TypeOK
  <2>2. \A i \in ID : \/ holding'[i] = holding[i]
                       \/ holding'[i] = NoAnswer
                       \/ /\ req[t].next # None
                          /\ holding'[i] = [uuid |-> req[t].next, status |-> "undecided"]
    BY <1>5 DEF Respond, TypeOK
  <2> QED BY <2>1, <2>2 DEF AnswersMatch, NoAnswer
<1>6. ASSUME NEW t \in Threads, Abort(t)
      PROVE  AnswersMatch'
  <2>1. \A i \in Threads : req'[i] = NoRequest \/ req'[i] = req[i]
    BY <1>6 DEF Abort, TypeOK
  <2>2. \A i \in ID : holding'[i] = holding[i] \/ holding'[i] = NoAnswer
    BY <1>6 DEF Abort, TypeOK
  <2> QED BY <2>1, <2>2 DEF AnswersMatch, NoAnswer
<1>7. ASSUME NEW ids \in SUBSET ID, NEW u \in UUIDs, EnqueueCommand(ids, u)
      PROVE  AnswersMatch'
  BY <1>7 DEF AnswersMatch, EnqueueCommand, clientVars
<1>8. CASE UNCHANGED vars
  BY <1>8 DEF AnswersMatch, vars, clientVars
<1> QED BY <1>1, <1>2, <1>4, <1>5, <1>6, <1>7, <1>8 DEF Next

LEMMA TypeStep ==
    ASSUME TypeOK, AnswersMatch, [Next]_vars
    PROVE  TypeOK'
<1>1. CASE UNCHANGED vars
  BY <1>1 DEF TypeOK, vars, enrollVars, queueVars, clientVars
<1>2. ASSUME NEW t \in Threads, StorageCall(t)
      PROVE  TypeOK'
  BY <1>2, EnrollmentCallType, ClearQueueType, StoreCommandReportType,
     RetrieveNextCommandType DEF StorageCall
<1> QED
  BY <1>1, <1>2, CheckInType, ReportType, RespondType, AbortType,
     EnqueueCommandType DEF Next

(* The types of the tables, of the requests in flight and of what the      *)
(* clients hold, for any number of devices, channels, commands, threads.   *)
THEOREM TypeCorrect == Spec => []TypeOK
<1>1. Init => TypeOK /\ AnswersMatch
  BY InitType DEF Init, AnswersMatch, NoAnswer
<1>2. TypeOK /\ AnswersMatch /\ [Next]_vars => (TypeOK /\ AnswersMatch)'
  BY TypeStep, AnswersMatchStep
<1> QED BY <1>1, <1>2, PTL DEF Spec

-----------------------------------------------------------------------------
(***************************************************************************)
(* The enrollments table.                                                  *)
(***************************************************************************)

LEMMA EnabledIffTallyStep ==
    ASSUME TypeOK, EnabledIffTally, [Next]_vars
    PROVE  EnabledIffTally'
<1>1. ASSUME NEW t \in Threads, StoreAuthenticate(t)
      PROVE  EnabledIffTally'
  BY <1>1 DEF StoreAuthenticate, EnabledIffTally
<1>2. ASSUME NEW t \in Threads, Disable(t)
      PROVE  EnabledIffTally'
  BY <1>2 DEF Disable, DisabledRows, EnabledIffTally, TypeOK
<1>3. ASSUME NEW t \in Threads, StoreTokenUpdate(t)
      PROVE  EnabledIffTally'
  <2>1. req[t].id \in ID
    BY <1>3, RequestType DEF StoreTokenUpdate, At, Request
  <2>2. tally[req[t].id] \in Nat
    BY <2>1, ConstantsAssumption DEF TypeOK
  <2> QED BY <1>3, <2>1, <2>2 DEF StoreTokenUpdate, upsertEnrollment, EnabledIffTally, TypeOK
<1>4. CASE UNCHANGED <<devices, enrolled, enabled, tally>>
  BY <1>4 DEF EnabledIffTally
<1> QED
  BY <1>1, <1>2, <1>3, <1>4 DEF Next, CheckIn, Report, StorageCall, Respond,
     Abort, EnqueueCommand, ClearQueue, StoreBootstrapToken,
     RetrieveBootstrapToken, StoreCommandReport, RetrieveNextCommand,
     vars, enrollVars

(* However the requests of devices and user channels interleave and        *)
(* whichever of them fail half way, the enabled and token_update_tally     *)
(* columns agree, and every enrollment has a device.                       *)
THEOREM TallyCorrect == Spec => []EnabledIffTally
<1>1. Init => EnabledIffTally
  BY DEF Init, EnabledIffTally
<1>2. TypeOK /\ EnabledIffTally /\ [Next]_vars => EnabledIffTally'
  BY EnabledIffTallyStep
<1> QED BY <1>1, <1>2, TypeCorrect, PTL DEF Spec

-----------------------------------------------------------------------------
(***************************************************************************)
(* The command tables.                                                     *)
(***************************************************************************)

LEMMA UpsertIntegrity ==
    ASSUME TypeOK, QueueIntegrity, NEW id \in ID, NEW u, NEW s \in Statuses,
           upsertResult(id, u, s), UNCHANGED enrolled, s # "NULL"
    PROVE  QueueIntegrity'
<1>1. \A e \in ID, v \in UUIDs :
        result'[e][v] = IF e = id /\ v = u THEN s ELSE result[e][v]
  BY DEF upsertResult, TypeOK
<1>2. UNCHANGED <<commands, queue, active, enrolled>> /\ ResultKeysExist(id, u)
  BY DEF upsertResult
<1>3. \A e \in ID, v \in UUIDs : result'[e][v] # "NULL" => ResultKeysExist(e, v)'
  BY <1>1, <1>2 DEF QueueIntegrity, ResultKeysExist
<1>4. ASSUME NEW v \in commands'
      PROVE  \E e \in ID : v \in queue'[e] \/ result'[e][v] # "NULL"
  <2>1. v \in commands /\ v \in UUIDs
    BY <1>2 DEF TypeOK
  <2>2. PICK e \in ID : v \in queue[e] \/ result[e][v] # "NULL"
    BY <2>1 DEF QueueIntegrity
  <2> QED BY <1>1, <1>2, <2>1, <2>2
<1> QED BY <1>2, <1>3, <1>4 DEF QueueIntegrity

LEMMA DeleteIntegrity ==
    ASSUME TypeOK, QueueIntegrity, NEW id \in ID, NEW u \in UUIDs,
           deleteCommand(id, u), UNCHANGED enrolled
    PROVE  QueueIntegrity'
<1>1. \A e \in ID, v \in UUIDs :
        result'[e][v] = IF e = id /\ v = u /\ u \in queue[id]
                        THEN "NULL" ELSE result[e][v]
  BY DEF deleteCommand, TypeOK
<1>2. \A e \in ID : /\ queue'[e] = IF e = id THEN queue[e] \ {u} ELSE queue[e]
                    /\ active'[e] = IF e = id THEN active[e] \ {u} ELSE active[e]
  BY DEF deleteCommand, TypeOK
<1>3. commands' = IF \A e \in ID : u \notin queue'[e] /\ result'[e][u] = "NULL"
                  THEN commands \ {u} ELSE commands
  BY DEF deleteCommand, Unreferenced
<1>4. \A e \in ID : /\ active'[e] \subseteq queue'[e]
                    /\ queue'[e] \subseteq commands'
                    /\ queue'[e] # {} => e \in enrolled'
  BY <1>2, <1>3 DEF QueueIntegrity
<1>5. \A e \in ID, v \in UUIDs : result'[e][v] # "NULL" => ResultKeysExist(e, v)'
  BY <1>1, <1>3 DEF QueueIntegrity, ResultKeysExist
<1>6. ASSUME NEW v \in commands'
      PROVE  \E e \in ID : v \in queue'[e] \/ result'[e][v] # "NULL"
  <2>1. v \in commands /\ v \in UUIDs
    BY <1>3 DEF TypeOK
  <2>2. CASE v = u
    BY <1>3, <2>2
  <2>3. CASE v # u
    <3>1. PICK e \in ID : v \in queue[e] \/ result[e][v] # "NULL"
      BY <2>1 DEF QueueIntegrity
    <3> QED BY <1>1, <1>2, <2>1, <2>3, <3>1
  <2> QED BY <2>2, <2>3
<1> QED BY <1>4, <1>5, <1>6 DEF QueueIntegrity

LEMMA ClearIntegrity ==
    ASSUME TypeOK, QueueIntegrity, NEW t \in Threads, ClearQueue(t)
    PROVE  QueueIntegrity'
<1>1. \A id \in ID : active'[id] \subseteq active[id]
  BY DEF ClearQueue
<1>2. UNCHANGED <<commands, queue, result, enrolled>>
  BY DEF ClearQueue, enrollVars
<1> QED BY <1>1, <1>2 DEF QueueIntegrity, ResultKeysExist

LEMMA EnqueueIntegrity ==
    ASSUME TypeOK, QueueIntegrity, NEW ids \in SUBSET ID, NEW u \in UUIDs,
           EnqueueCommand(ids, u)
    PROVE  QueueIntegrity'
<1>1. \A id \in ID :
        /\ queue'[id] = IF id \in ids THEN queue[id] \cup {u} ELSE queue[id]
        /\ active'[id] = IF id \in ids THEN active[id] \cup {u} ELSE active[id]
  BY DEF EnqueueCommand
<1>2. /\ UNCHANGED <<result, enrolled>> /\ commands' = commands \cup {u}
      /\ ids \subseteq enrolled
  BY DEF EnqueueCommand, EnqueueKeysExist, enrollVars
<1>3. PICK id \in ids : id \in ID
  BY DEF EnqueueCommand
<1>4. ASSUME NEW v \in commands'
      PROVE  \E e \in ID : v \in queue'[e] \/ result'[e][v] # "NULL"
  <2>1. CASE v = u
    BY <1>1, <1>3, <2>1
  <2>2. CASE v # u
    <3>1. v \in commands
      BY <1>2, <2>2
    <3>2. PICK e \in ID : v \in queue[e] \/ result[e][v] # "NULL"
      BY <3>1 DEF QueueIntegrity
    <3> QED BY <1>1, <1>2, <3>2
  <2> QED BY <2>1, <2>2
<1>5. \A e \in ID : /\ active'[e] \subseteq queue'[e]
                    /\ queue'[e] \subseteq commands'
                    /\ queue'[e] # {} => e \in enrolled'
  BY <1>1, <1>2 DEF QueueIntegrity
<1>6. \A e \in ID, v \in UUIDs : result'[e][v] # "NULL" => ResultKeysExist(e, v)'
  BY <1>2 DEF QueueIntegrity, ResultKeysExist
<1> QED BY <1>4, <1>5, <1>6 DEF QueueIntegrity

LEMMA QueueIntegrityStep ==
    ASSUME TypeOK, AnswersMatch, QueueIntegrity, [Next]_vars
    PROVE  QueueIntegrity'
<1>1. ASSUME UNCHANGED <<commands, queue, active, result>>,
             enrolled \subseteq enrolled'
      PROVE  QueueIntegrity'
  BY <1>1 DEF QueueIntegrity, ResultKeysExist
<1>2. ASSUME NEW t \in Threads, StoreCommandReport(t)
      PROVE  QueueIntegrity'
  <2>1. req[t] \in Request
    BY <1>2, RequestType DEF At, StoreCommandReport
  <2>2. req[t].id \in ID /\ req[t].status \in Statuses /\ req[t].status # "NULL"
    BY <2>1 DEF Request, Statuses
  <2>3. req[t].status # "Idle" => req[t].uuid \in UUIDs
    BY <1>2, <2>1 DEF AnswersMatch, Request, At, StoreCommandReport
  <2>4. UNCHANGED enrolled
    BY <1>2 DEF StoreCommandReport, enrollVars
  <2>5. CASE req[t].status = "Idle"
    BY <1>1, <1>2, <2>4, <2>5 DEF StoreCommandReport, queueVars
  <2>6. CASE upsertResult(req[t].id, req[t].uuid, req[t].status)
    BY <2>2, <2>4, <2>6, UpsertIntegrity
  <2>7. CASE req[t].status # "Idle" /\ deleteCommand(req[t].id, req[t].uuid)
    BY <2>2, <2>3, <2>4, <2>7, DeleteIntegrity
  <2> QED BY <1>2, <2>5, <2>6, <2>7 DEF StoreCommandReport
<1>3. ASSUME NEW t \in Threads, StorageCall(t), ~StoreCommandReport(t), ~ClearQueue(t)
      PROVE  QueueIntegrity'
  BY <1>1, <1>3 DEF StorageCall, StoreAuthenticate, Disable, StoreTokenUpdate, upsertEnrollment,
     StoreBootstrapToken, RetrieveBootstrapToken, RetrieveNextCommand,
     queueVars, enrollVars
<1>4. ASSUME NEW ids \in SUBSET ID, NEW u \in UUIDs, EnqueueCommand(ids, u)
      PROVE  QueueIntegrity'
  BY <1>4, EnqueueIntegrity
<1> QED
  BY <1>1, <1>2, <1>3, <1>4, ClearIntegrity DEF Next, CheckIn, Report, Respond,
     Abort, StorageCall, vars, enrollVars, queueVars

(* The three command tables refer to each other as the schema says, and no *)
(* command is left behind, with the delete option or without, and even     *)
(* when one client's requests overlap.                                     *)
THEOREM IntegrityCorrect == Spec => []QueueIntegrity
<1>1. Init => TypeOK /\ AnswersMatch /\ QueueIntegrity
  BY InitType DEF Init, AnswersMatch, NoAnswer, QueueIntegrity
<1>2. TypeOK /\ AnswersMatch /\ QueueIntegrity /\ [Next]_vars
        => (TypeOK /\ AnswersMatch /\ QueueIntegrity)'
  BY TypeStep, AnswersMatchStep, QueueIntegrityStep
<1> QED BY <1>1, <1>2, PTL DEF Spec

-----------------------------------------------------------------------------
(***************************************************************************)
(* What RetrieveNextCommand delivers, when clients send one request at a   *)
(* time.                                                                   *)
(***************************************************************************)

(* A storage call changes only where its own request stands.               *)
LEMMA StorageCallFrame ==
    ASSUME TypeOK, NEW t \in Threads, StorageCall(t)
    PROVE  /\ req[t] \in Request /\ req[t] # NoRequest /\ req'[t] # NoRequest
           /\ req[t].call # "respond"
           /\ req'[t].id = req[t].id /\ req'[t].msg = req[t].msg
           /\ req'[t].uuid = req[t].uuid /\ req'[t].status = req[t].status
           /\ \A i \in Threads \ {t} : req'[i] = req[i]
           /\ UNCHANGED holding
<1>1. req[t] \in Request /\ req[t] # NoRequest /\ req[t].call # "respond"
  BY RequestType DEF At, StorageCall, StoreAuthenticate, ClearQueue, Disable,
     StoreTokenUpdate, StoreBootstrapToken, RetrieveBootstrapToken,
     StoreCommandReport, RetrieveNextCommand
<1>2. UNCHANGED holding
  BY DEF StorageCall, StoreAuthenticate, ClearQueue, Disable,
     StoreTokenUpdate, StoreBootstrapToken, RetrieveBootstrapToken,
     StoreCommandReport, RetrieveNextCommand, clientVars
<1>3. ASSUME NEW c, Then(t, c), c \in Calls
      PROVE  /\ req'[t] # NoRequest
             /\ req'[t].id = req[t].id /\ req'[t].msg = req[t].msg
             /\ req'[t].uuid = req[t].uuid /\ req'[t].status = req[t].status
             /\ \A i \in Threads \ {t} : req'[i] = req[i]
  <2>1. req'[t] = [req[t] EXCEPT !.call = c]
    BY <1>3 DEF Then, TypeOK
  <2>2. req'[t].call = c
    BY <1>1, <2>1 DEF Request
  <2>3. c # "none"
    BY <1>3 DEF Calls
  <2>4. req'[t] # NoRequest
    BY <2>2, <2>3 DEF NoRequest
  <2> QED BY <1>1, <1>3, <2>1, <2>4 DEF Then, TypeOK, Request
<1>4. CASE ~RetrieveNextCommand(t)
  <2>1. \E c \in Calls : Then(t, c)
    BY <1>4 DEF Calls, StorageCall, StoreAuthenticate, ClearQueue, Disable,
       StoreTokenUpdate, StoreBootstrapToken, RetrieveBootstrapToken,
       StoreCommandReport
  <2> QED BY <1>1, <1>2, <1>3, <2>1
<1>5. CASE RetrieveNextCommand(t)
  <2>1. \/ req'[t] = [req[t] EXCEPT !.call = "respond"]
        \/ \E u : req'[t] = [req[t] EXCEPT !.call = "respond", !.next = u]
    BY <1>5 DEF RetrieveNextCommand, TypeOK
  <2>2. req'[t].call = "respond"
    BY <1>1, <2>1 DEF Request
  <2>3. req'[t] # NoRequest
    BY <2>2 DEF NoRequest
  <2>4. \A i \in Threads \ {t} : req'[i] = req[i]
    BY <1>5 DEF RetrieveNextCommand, TypeOK
  <2> QED BY <1>1, <1>2, <2>1, <2>3, <2>4 DEF Request
<1> QED BY <1>4, <1>5

LEMMA OneRequestEachStep ==
    ASSUME TypeOK, ~Overlap, OneRequestEach, [Next]_vars
    PROVE  OneRequestEach'
<1>1. ASSUME \A i \in Threads : req'[i] = NoRequest \/ (req[i] # NoRequest
                                                 /\ req'[i].id = req[i].id)
      PROVE  OneRequestEach'
  BY <1>1 DEF OneRequestEach, InFlight
<1>2. ASSUME NEW t \in Threads, NEW id \in ID, MaySend(id), NEW m, NEW s, NEW u,
             Receive(t, id, m, s, u)
      PROVE  OneRequestEach'
  <2>1. \A i \in Threads \ {t} : req'[i] = req[i]
    BY <1>2 DEF Receive, TypeOK
  <2>2. req'[t].id = id
    BY <1>2 DEF Receive, TypeOK
  <2>3. \A i \in Threads : ~InFlight(i, id)
    BY <1>2 DEF MaySend
  <2> QED BY <2>1, <2>2, <2>3 DEF OneRequestEach, InFlight
<1>3. ASSUME NEW t \in Threads, StorageCall(t)
      PROVE  OneRequestEach'
  BY <1>1, <1>3, StorageCallFrame
<1>4. ASSUME NEW t \in Threads, Respond(t) \/ Abort(t)
      PROVE  OneRequestEach'
  <2>1. \A i \in Threads : req'[i] = NoRequest \/ req'[i] = req[i]
    BY <1>4 DEF Respond, Abort, TypeOK
  <2> QED BY <1>1, <2>1
<1>5. CASE UNCHANGED req
  BY <1>5 DEF OneRequestEach, InFlight
<1> QED BY <1>2, <1>3, <1>4, <1>5 DEF Next, CheckIn, Report, EnqueueCommand, vars

LEMMA ReportsHoldingStep ==
    ASSUME TypeOK, ~Overlap, OneRequestEach, ReportsHolding, [Next]_vars
    PROVE  ReportsHolding'
<1> DEFINE P(i) ==
      /\ \/ req[i].call \in {"StoreCommandReport", "RetrieveNextCommand"}
         \/ req[i].next # None
         => req[i].msg = "CommandResults"
      /\ req[i].call # "respond" => req[i].next = None
      /\ req[i].msg = "CommandResults" =>
           holding[req[i].id] = [uuid |-> req[i].uuid, status |-> req[i].status]
<1>0. ASSUME \A i \in Threads : req'[i] # NoRequest => P(i)'
      PROVE  ReportsHolding'
  BY <1>0 DEF ReportsHolding
<1>1. ASSUME NEW t \in Threads, NEW id \in ID, NEW m \in CheckIns, CheckIn(t, id, m)
      PROVE  ReportsHolding'
  <2>1. UNCHANGED holding /\ \A i \in Threads \ {t} : req'[i] = req[i]
    BY <1>1 DEF CheckIn, Receive, TypeOK
  <2>2. req'[t].call = FirstCall(m) /\ req'[t].msg = m /\ req'[t].next = None
    BY <1>1 DEF CheckIn, Receive, TypeOK
  <2>3. m # "CommandResults"
        /\ FirstCall(m) \notin {"StoreCommandReport", "RetrieveNextCommand"}
    BY DEF CheckIns, FirstCall
  <2>4. P(t)'
    BY <2>2, <2>3
  <2> QED BY <1>0, <2>1, <2>4 DEF ReportsHolding
<1>2. ASSUME NEW t \in Threads, NEW id \in ID, NEW s \in Statuses, Report(t, id, s)
      PROVE  ReportsHolding'
  <2>1. /\ \A i \in Threads \ {t} : req'[i] = req[i]
        /\ \A e \in ID \ {id} : holding'[e] = holding[e]
        /\ holding'[id] = [holding[id] EXCEPT !.status = s]
    BY <1>2 DEF Report, Receive, TypeOK
  <2>2. /\ req'[t].msg = "CommandResults" /\ req'[t].next = None
        /\ req'[t].id = id /\ req'[t].status = s
        /\ req'[t].uuid = holding[id].uuid
    BY <1>2 DEF Report, Receive, TypeOK
  <2>3. holding'[id] = [uuid |-> holding[id].uuid, status |-> s]
    <3>1. holding[id] \in Answer
      BY DEF TypeOK
    <3> QED BY <2>1, <3>1 DEF Answer
  <2>4. P(t)'
    BY <2>2, <2>3
  <2>5. ASSUME NEW i \in Threads \ {t}, req'[i] # NoRequest
        PROVE  P(i)'
    <3>1. req[i].id # id
      BY <1>2, <2>1, <2>5 DEF Report, MaySend, InFlight
    <3>2. req[i].id \in ID
      BY <2>1, <2>5, RequestType DEF Request
    <3> QED BY <2>1, <2>5, <3>1, <3>2 DEF ReportsHolding
  <2> QED BY <1>0, <2>4, <2>5
<1>3. ASSUME NEW t \in Threads, StorageCall(t)
      PROVE  ReportsHolding'
  <2>1. /\ req[t] # NoRequest /\ UNCHANGED holding
        /\ req'[t].id = req[t].id /\ req'[t].msg = req[t].msg
        /\ req'[t].uuid = req[t].uuid /\ req'[t].status = req[t].status
        /\ \A i \in Threads \ {t} : req'[i] = req[i]
        /\ req[t].next = None /\ req[t] \in Request
    BY <1>3, StorageCallFrame DEF ReportsHolding
  <2>2. CASE RetrieveNextCommand(t)
    <3>1. req'[t].call = "respond"
      BY <2>1, <2>2 DEF RetrieveNextCommand, TypeOK, Request
    <3>2. req[t].msg = "CommandResults"
      BY <2>1, <2>2 DEF RetrieveNextCommand, At, ReportsHolding
    <3>3. P(t)'
      BY <2>1, <3>1, <3>2 DEF ReportsHolding
    <3> QED BY <1>0, <2>1, <3>3 DEF ReportsHolding
  <2>3. CASE StoreCommandReport(t)
    <3>1. req'[t].next = None
      BY <2>1, <2>3 DEF StoreCommandReport, Then, TypeOK, Request
    <3>2. req[t].msg = "CommandResults"
      BY <2>1, <2>3 DEF StoreCommandReport, At, ReportsHolding
    <3>3. P(t)'
      BY <2>1, <3>1, <3>2 DEF ReportsHolding
    <3> QED BY <1>0, <2>1, <3>3 DEF ReportsHolding
  <2>4. CASE ~RetrieveNextCommand(t) /\ ~StoreCommandReport(t)
    <3>1. \E c \in {"ClearQueue", "Disable", "respond"} : Then(t, c)
      BY <1>3, <2>4 DEF StorageCall, StoreAuthenticate, ClearQueue, Disable,
         StoreTokenUpdate, StoreBootstrapToken, RetrieveBootstrapToken
    <3>2. /\ req'[t].next = None
          /\ req'[t].call \notin {"StoreCommandReport", "RetrieveNextCommand"}
      BY <2>1, <3>1 DEF Then, TypeOK, Request
    <3>3. P(t)'
      BY <2>1, <3>2 DEF ReportsHolding
    <3> QED BY <1>0, <2>1, <3>3 DEF ReportsHolding
  <2> QED BY <2>2, <2>3, <2>4
<1>4. ASSUME NEW t \in Threads, Respond(t) \/ Abort(t)
      PROVE  ReportsHolding'
  <2>1. /\ req[t] # NoRequest /\ req[t].id \in ID /\ req'[t] = NoRequest
        /\ \A i \in Threads \ {t} : req'[i] = req[i]
    BY <1>4, RequestType DEF Respond, Abort, At, TypeOK, Request
  <2>2. \A e \in ID \ {req[t].id} : holding'[e] = holding[e]
    BY <1>4 DEF Respond, Abort, TypeOK
  <2>3. ASSUME NEW i \in Threads, req'[i] # NoRequest
        PROVE  P(i)'
    <3>1. i # t /\ req'[i] = req[i]
      BY <2>1, <2>3
    <3>2. req[i].id \in ID /\ req[i].id # req[t].id
      BY <2>1, <2>3, <3>1, RequestType DEF Request, OneRequestEach, InFlight
    <3> QED BY <2>2, <2>3, <3>1, <3>2 DEF ReportsHolding
  <2> QED BY <1>0, <2>3
<1>5. CASE UNCHANGED <<req, holding>>
  BY <1>5 DEF ReportsHolding
<1> QED BY <1>1, <1>2, <1>3, <1>4, <1>5
        DEF Next, EnqueueCommand, vars, clientVars

(* What a report does to the queue tables and their history. *)
LEMMA ReportFrame ==
    ASSUME TypeOK, AnswersMatch, NEW t \in Threads, StoreCommandReport(t)
    PROVE  LET id == req[t].id
               u  == req[t].uuid
               s  == req[t].status
           IN  /\ id \in ID /\ s \in Statuses
               /\ s # "Idle" => u \in UUIDs
               /\ s = "Idle" => UNCHANGED queueVars
               /\ s = "NotNow" =>
                    /\ upsertResult(id, u, s)
                    /\ UNCHANGED acked
               /\ s = "Acknowledged" =>
                    /\ deleteCommand(id, u) \/ upsertResult(id, u, s)
                    /\ acked' = [acked EXCEPT ![id] = @ \cup {u}]
<1>1. req[t] \in Request /\ req[t] # NoRequest
  BY RequestType DEF At, StoreCommandReport
<1>2. req[t].id \in ID /\ req[t].status \in Statuses /\ req[t].uuid \in UUIDs \cup {None}
  BY <1>1 DEF Request
<1>3. req[t].status # "Idle" => req[t].uuid \in UUIDs
  BY <1>1, <1>2 DEF AnswersMatch
<1> QED BY <1>2, <1>3 DEF StoreCommandReport

LEMMA UnansweredNotAckedStep ==
    ASSUME TypeOK, AnswersMatch, QueueIntegrity, ~Overlap, DeliveryInv, [Next]_vars
    PROVE  UnansweredNotAcked'
<1> USE DEF DeliveryInv
<1>0. None \notin UUIDs /\ \A id \in ID : acked[id] \subseteq UUIDs
  BY ConstantsAssumption DEF TypeOK
<1>1. ASSUME NEW t \in Threads, NEW id \in ID, NEW m \in CheckIns, CheckIn(t, id, m)
      PROVE  UnansweredNotAcked'
  <2>1. UNCHANGED <<holding, acked, result>>
    BY <1>1 DEF CheckIn, queueVars
  <2>2. \A i \in Threads : req'[i] = req[i] \/ (req'[i].next = None /\ req'[i].id = id)
    BY <1>1 DEF CheckIn, Receive, TypeOK
  <2> QED BY <1>0, <2>1, <2>2 DEF UnansweredNotAcked
<1>2. ASSUME NEW t \in Threads, NEW id \in ID, NEW s \in Statuses, Report(t, id, s)
      PROVE  UnansweredNotAcked'
  <2>1. UNCHANGED <<acked, result>>
    BY <1>2 DEF Report, queueVars
  <2>2. \A i \in Threads : req'[i] = req[i] \/ (req'[i].next = None /\ req'[i].id = id)
    BY <1>2 DEF Report, Receive, TypeOK
  <2>3. \A e \in ID : /\ holding'[e].uuid = holding[e].uuid
                      /\ \/ holding'[e].status = holding[e].status
                         \/ holding[e].status = "undecided"
    <3>1. \A e \in ID \ {id} : holding'[e] = holding[e]
      BY <1>2 DEF Report, TypeOK
    <3>2. holding'[id] = [holding[id] EXCEPT !.status = s] /\ holding[id] \in Answer
      BY <1>2 DEF Report, TypeOK
    <3>3. holding'[id].uuid = holding[id].uuid /\ holding'[id].status = s
      BY <3>2 DEF Answer
    <3> QED BY <1>2, <3>1, <3>3 DEF Report
  <2> QED BY <1>0, <2>1, <2>2, <2>3 DEF UnansweredNotAcked
<1>3. ASSUME NEW t \in Threads, StoreCommandReport(t)
      PROVE  UnansweredNotAcked'
  <2> DEFINE id == req[t].id
             u  == req[t].uuid
             s  == req[t].status
  <2>1. /\ req[t] # NoRequest /\ UNCHANGED holding
        /\ \A i \in Threads \ {t} : req'[i] = req[i]
        /\ req'[t].id = id /\ req[t].next = None
        /\ holding[id] = [uuid |-> u, status |-> s]
    BY <1>3, StorageCallFrame DEF StorageCall, StoreCommandReport, At, ReportsHolding
  <2>2. req'[t].next = None
    BY <1>3, <2>1, StorageCallFrame DEF StorageCall, StoreCommandReport, Then, TypeOK, Request
  <2>3. id \in ID /\ s \in Statuses
    BY <1>3, ReportFrame
  <2>4. CASE s = "Idle"
    <3>1. UNCHANGED <<acked, result>>
      BY <1>3, <2>4, ReportFrame DEF queueVars
    <3> QED BY <1>0, <2>1, <2>2, <2>3, <3>1 DEF UnansweredNotAcked
  <2>5. CASE s = "NotNow"
    <3>1. UNCHANGED acked /\ upsertResult(id, u, s)
      BY <1>3, <2>5, ReportFrame
    <3>2. \A e \in ID, v \in UUIDs : result'[e][v] = "Acknowledged"
                                      => result[e][v] = "Acknowledged"
      BY <2>3, <2>5, <3>1 DEF upsertResult, TypeOK
    <3> QED BY <1>0, <2>1, <2>2, <2>3, <3>1, <3>2 DEF UnansweredNotAcked
  <2>6. CASE s = "Acknowledged"
    <3>1. acked' = [acked EXCEPT ![id] = @ \cup {u}]
      BY <1>3, <2>6, ReportFrame
    <3>2. u \in UUIDs
      BY <1>3, <2>6, ReportFrame
    <3>3. \A e \in ID \ {id} : acked'[e] = acked[e]
      BY <3>1 DEF TypeOK
    <3>4. acked'[id] = acked[id] \cup {u}
      BY <2>3, <3>1 DEF TypeOK
    <3>5. \A e \in ID, v \in UUIDs : result'[e][v] = "Acknowledged"
              => result[e][v] = "Acknowledged" \/ (e = id /\ v = u)
      <4>1. CASE upsertResult(id, u, s)
        BY <2>3, <4>1 DEF upsertResult, TypeOK
      <4>2. CASE deleteCommand(id, u)
        BY <2>3, <4>2 DEF deleteCommand, TypeOK
      <4> QED BY <1>3, <2>6, <4>1, <4>2, ReportFrame
    <3>6. \A e \in ID : holding'[e].status \in {"undecided", "NotNow"}
                       => holding'[e].uuid \notin acked'[e]
      BY <2>1, <2>6, <3>3 DEF UnansweredNotAcked
    <3>7. \A i \in Threads : req'[i] # NoRequest => req'[i].next \notin acked'[req'[i].id]
      <4>1. ASSUME NEW i \in Threads \ {t}, req'[i] # NoRequest
            PROVE  req'[i].next \notin acked'[req'[i].id]
        <5>1. req[i].id \in ID /\ req[i].id # id
          BY <2>1, <2>3, <4>1, RequestType DEF Request, OneRequestEach, InFlight
        <5> QED BY <2>1, <3>3, <4>1, <5>1 DEF UnansweredNotAcked
      <4>2. req'[t].next \notin acked'[req'[t].id]
        BY <1>0, <2>1, <2>2, <2>3, <3>2, <3>4
      <4> QED BY <4>1, <4>2
    <3>8. \A e \in ID, v \in UUIDs : result'[e][v] = "Acknowledged" => v \in acked'[e]
      BY <2>3, <3>3, <3>4, <3>5 DEF UnansweredNotAcked
    <3> QED BY <3>6, <3>7, <3>8 DEF UnansweredNotAcked
  <2> QED BY <2>3, <2>4, <2>5, <2>6 DEF Statuses
<1>4. ASSUME NEW t \in Threads, RetrieveNextCommand(t)
      PROVE  UnansweredNotAcked'
  <2>1. /\ req[t] \in Request /\ req[t] # NoRequest /\ UNCHANGED holding
        /\ \A i \in Threads \ {t} : req'[i] = req[i]
        /\ req'[t].id = req[t].id
    BY <1>4, StorageCallFrame DEF StorageCall
  <2>2. req[t].id \in ID
    BY <2>1 DEF Request
  <2>3. UNCHANGED <<acked, result>>
    BY <1>4 DEF RetrieveNextCommand
  <2>4. req'[t].next \notin acked[req[t].id]
    <3>1. CASE req' = [req EXCEPT ![t].call = "respond"]
      BY <2>1, <3>1 DEF UnansweredNotAcked, TypeOK, Request
    <3>2. CASE \E u \in Oldest(Eligible(req[t].id, req[t].status = "NotNow")) :
                 req' = [req EXCEPT ![t].call = "respond", ![t].next = u]
      <4>1. PICK u \in Oldest(Eligible(req[t].id, req[t].status = "NotNow")) :
                 req' = [req EXCEPT ![t].call = "respond", ![t].next = u]
        BY <3>2
      <4>2. req'[t].next = u
        BY <2>1, <4>1 DEF TypeOK, Request
      <4>3. u \in Deliverable(req[t].id)
        BY <4>1 DEF Oldest, Eligible, Deliverable, Pending
      <4> QED BY <2>2, <4>2, <4>3 DEF NoRedelivery
    <3> QED BY <1>4, <3>1, <3>2 DEF RetrieveNextCommand
  <2> QED BY <2>1, <2>3, <2>4 DEF UnansweredNotAcked
<1>5. ASSUME NEW t \in Threads, StorageCall(t), ~StoreCommandReport(t),
             ~RetrieveNextCommand(t)
      PROVE  UnansweredNotAcked'
  <2>1. UNCHANGED <<acked, result>>
    BY <1>5 DEF StorageCall, StoreAuthenticate, ClearQueue, Disable,
       StoreTokenUpdate, StoreBootstrapToken, RetrieveBootstrapToken, queueVars
  <2>2. /\ req[t] \in Request /\ req[t] # NoRequest /\ UNCHANGED holding
        /\ \A i \in Threads \ {t} : req'[i] = req[i]
        /\ req'[t].id = req[t].id
    BY <1>5, StorageCallFrame
  <2>3. req'[t].next = req[t].next
    <3>1. \E c : Then(t, c)
      BY <1>5 DEF StorageCall, StoreAuthenticate, ClearQueue, Disable,
         StoreTokenUpdate, StoreBootstrapToken, RetrieveBootstrapToken
    <3> QED BY <2>2, <3>1 DEF Then, TypeOK, Request
  <2> QED BY <2>1, <2>2, <2>3 DEF UnansweredNotAcked
<1>6. ASSUME NEW t \in Threads, Respond(t) \/ Abort(t)
      PROVE  UnansweredNotAcked'
  <2>1. UNCHANGED <<acked, result>>
    BY <1>6 DEF Respond, Abort, queueVars
  <2>2. req[t] # NoRequest /\ req[t].id \in ID
    BY <1>6, RequestType DEF Respond, Abort, At, Request
  <2>3. \A i \in Threads : req'[i] = NoRequest \/ req'[i] = req[i]
    BY <1>6 DEF Respond, Abort, TypeOK
  <2>4. \A e \in ID : \/ holding'[e] = holding[e]
                      \/ holding'[e] = NoAnswer
                      \/ /\ e = req[t].id
                         /\ holding'[e] = [uuid |-> req[t].next, status |-> "undecided"]
    BY <1>6, <2>2 DEF Respond, Abort, TypeOK
  <2> QED BY <2>1, <2>2, <2>3, <2>4 DEF UnansweredNotAcked, NoAnswer
<1>7. ASSUME NEW ids \in SUBSET ID, NEW u \in UUIDs, EnqueueCommand(ids, u)
      PROVE  UnansweredNotAcked'
  <2>1. UNCHANGED <<req, holding, result>>
    BY <1>7 DEF EnqueueCommand, clientVars
  <2>2. \A e \in ID : /\ acked'[e] \subseteq acked[e]
                      /\ acked[e] \subseteq acked'[e] \cup {u}
    BY <1>7 DEF EnqueueCommand
  <2>3. \A e \in ID : result[e][u] = "NULL"
    BY <1>7 DEF EnqueueCommand, EnqueueKeysExist, QueueIntegrity, ResultKeysExist
  <2>4. \A i \in Threads : req[i] # NoRequest => req[i].id \in ID
    BY RequestType DEF Request
  <2> QED BY <2>1, <2>2, <2>3, <2>4 DEF UnansweredNotAcked
<1>8. CASE UNCHANGED <<req, holding, acked, result>>
  BY <1>8 DEF UnansweredNotAcked
<1> QED BY <1>1, <1>2, <1>3, <1>4, <1>5, <1>6, <1>7, <1>8
        DEF Next, vars, queueVars, clientVars

(* After the UPDATE of ClearQueue no row of the device's channels can be   *)
(* delivered, on either backend.                                           *)
LEMMA ClearQueueClears ==
    ASSUME TypeOK, QueueIntegrity, NEW t \in Threads, ClearQueue(t),
           NEW id \in Channels(req[t].id)
    PROVE  Deliverable(id)' = {}
<1>1. id \in ID /\ UNCHANGED <<queue, result>>
  BY DEF ClearQueue, Channels
<1>2. CASE id \in enrolled
  <2>1. active'[id] = active[id] \ Cleared(id)
    BY <1>1, <1>2 DEF ClearQueue, ClearedRows, Channels
  <2>2. \A u \in active[id] : Pending(id, u) => u \in Cleared(id)
    BY <1>1 DEF Cleared, ClearedMySQL, ClearedPgSQL, QueueIntegrity
  <2> QED BY <1>1, <2>1, <2>2 DEF Deliverable, Pending
<1>3. CASE id \notin enrolled
  <2>1. active'[id] = active[id]
    BY <1>1, <1>3 DEF ClearQueue, ClearedRows
  <2>2. active[id] = {}
    BY <1>1, <1>3 DEF QueueIntegrity
  <2> QED BY <2>1, <2>2 DEF Deliverable
<1> QED BY <1>2, <1>3

LEMMA DeliverableStep ==
    ASSUME TypeOK, AnswersMatch, QueueIntegrity, ~Overlap, DeliveryInv, [Next]_vars
    PROVE  (NoStaleCommand /\ NoRedelivery)'
<1> DEFINE Good(id) == /\ Deliverable(id) \subseteq current[id]
                       /\ Deliverable(id) \cap acked[id] = {}
<1>0. ASSUME \A id \in ID : Good(id)'
      PROVE  (NoStaleCommand /\ NoRedelivery)'
  BY <1>0 DEF NoStaleCommand, NoRedelivery
<1>1. \A id \in ID : Good(id)
  BY DEF DeliveryInv, NoStaleCommand, NoRedelivery
<1>2. ASSUME UNCHANGED <<active, result, current, acked>>
      PROVE  (NoStaleCommand /\ NoRedelivery)'
  BY <1>0, <1>1, <1>2 DEF Deliverable, Pending
<1>3. ASSUME NEW t \in Threads, ClearQueue(t)
      PROVE  (NoStaleCommand /\ NoRedelivery)'
  <2>1. ASSUME NEW id \in ID, id \notin Channels(req[t].id)
        PROVE  Good(id)'
    <3>1. active'[id] = active[id] /\ current'[id] = current[id]
          /\ UNCHANGED <<result, acked>>
      BY <1>3, <2>1 DEF ClearQueue, ClearedRows, Channels
    <3>2. Deliverable(id)' = Deliverable(id)
      BY <3>1 DEF Deliverable, Pending
    <3> QED BY <1>1, <3>1, <3>2
  <2>2. \A id \in Channels(req[t].id) : Good(id)'
    BY <1>3, ClearQueueClears
  <2> QED BY <1>0, <2>1, <2>2
<1>4. ASSUME NEW t \in Threads, StoreCommandReport(t)
      PROVE  (NoStaleCommand /\ NoRedelivery)'
  <2> DEFINE id == req[t].id
             u  == req[t].uuid
             s  == req[t].status
  <2>1. id \in ID /\ s \in Statuses
    BY <1>4, ReportFrame
  <2>2. holding[id] = [uuid |-> u, status |-> s]
    BY <1>4 DEF DeliveryInv, ReportsHolding, StoreCommandReport, At
  <2>3. CASE s = "Idle"
    BY <1>2, <1>4, <2>3, ReportFrame DEF queueVars
  <2>4. CASE s = "NotNow"
    <3>1. upsertResult(id, u, s) /\ UNCHANGED acked /\ u \in UUIDs
      BY <1>4, <2>4, ReportFrame
    <3>2. u \notin acked[id]
      BY <2>1, <2>2, <2>4 DEF DeliveryInv, UnansweredNotAcked
    <3>3. result[id][u] \in {"NULL", "NotNow"}
      BY <2>1, <3>1, <3>2 DEF DeliveryInv, UnansweredNotAcked, TypeOK
    <3>4. \A e \in ID, v \in UUIDs : ~(e = id /\ v = u) => result'[e][v] = result[e][v]
      BY <2>1, <3>1 DEF upsertResult, TypeOK
    <3>5. ASSUME NEW e \in ID
          PROVE  Deliverable(e)' \subseteq Deliverable(e)
      BY <3>1, <3>3, <3>4 DEF Deliverable, Pending, upsertResult, TypeOK
    <3> QED BY <1>0, <1>1, <3>1, <3>5 DEF upsertResult
  <2>5. CASE s = "Acknowledged"
    <3>1. acked' = [acked EXCEPT ![id] = @ \cup {u}] /\ u \in UUIDs
      BY <1>4, <2>5, ReportFrame
    <3>2. /\ acked'[id] = acked[id] \cup {u}
          /\ \A e \in ID \ {id} : acked'[e] = acked[e]
      BY <2>1, <3>1 DEF TypeOK
    <3>3. CASE upsertResult(id, u, s)
      <4>1. /\ result'[id][u] = "Acknowledged"
            /\ \A e \in ID, v \in UUIDs : ~(e = id /\ v = u) => result'[e][v] = result[e][v]
        BY <2>1, <2>5, <3>1, <3>3 DEF upsertResult, TypeOK
      <4>2. ASSUME NEW e \in ID
            PROVE  /\ Deliverable(e)' \subseteq Deliverable(e)
                   /\ e = id => u \notin Deliverable(e)'
        BY <3>1, <3>3, <4>1 DEF Deliverable, Pending, upsertResult, TypeOK
      <4>3. UNCHANGED current
        BY <3>3 DEF upsertResult
      <4> QED BY <1>0, <1>1, <3>2, <4>2, <4>3
    <3>4. CASE deleteCommand(id, u)
      <4>1. /\ active'[id] = active[id] \ {u} /\ current'[id] = current[id] \ {u}
            /\ \A e \in ID \ {id} : active'[e] = active[e] /\ current'[e] = current[e]
        BY <2>1, <3>4 DEF deleteCommand, TypeOK
      <4>2. \A e \in ID, v \in UUIDs : ~(e = id /\ v = u) => result'[e][v] = result[e][v]
        BY <2>1, <3>1, <3>4 DEF deleteCommand, TypeOK
      <4>3. ASSUME NEW e \in ID
            PROVE  /\ Deliverable(e)' \subseteq Deliverable(e)
                   /\ e = id => u \notin Deliverable(e)'
        BY <4>1, <4>2 DEF Deliverable, Pending, TypeOK
      <4>4. \A e \in ID : Good(e)'
        BY <1>1, <3>2, <4>1, <4>3
      <4> QED BY <1>0, <4>4
    <3> QED BY <1>4, <2>5, <3>3, <3>4, ReportFrame
  <2> QED BY <2>1, <2>3, <2>4, <2>5 DEF Statuses
<1>5. ASSUME NEW ids \in SUBSET ID, NEW u \in UUIDs, EnqueueCommand(ids, u)
      PROVE  (NoStaleCommand /\ NoRedelivery)'
  <2>1. ASSUME NEW id \in ID \ ids
        PROVE  Good(id)'
    BY <1>1, <1>5, <2>1 DEF EnqueueCommand, Deliverable, Pending
  <2>2. ASSUME NEW id \in ids
        PROVE  Good(id)'
    <3>1. /\ active'[id] = active[id] \cup {u} /\ current'[id] = current[id] \cup {u}
          /\ acked'[id] = acked[id] \ {u} /\ UNCHANGED result
      BY <1>5, <2>2 DEF EnqueueCommand
    <3>2. Deliverable(id)' \subseteq Deliverable(id) \cup {u}
      BY <3>1 DEF Deliverable, Pending
    <3> QED BY <1>1, <3>1, <3>2
  <2> QED BY <1>0, <2>1, <2>2
<1>6. CASE UNCHANGED vars
  BY <1>2, <1>6 DEF vars, queueVars
<1> QED BY <1>2, <1>3, <1>4, <1>5, <1>6
        DEF Next, CheckIn, Report, StorageCall, StoreAuthenticate, Disable,
            StoreTokenUpdate, StoreBootstrapToken, RetrieveBootstrapToken,
            RetrieveNextCommand, Respond, Abort, queueVars

LEMMA DeliveryInit == Init => DeliveryInv
BY DEF Init, DeliveryInv, OneRequestEach, InFlight, ReportsHolding,
       UnansweredNotAcked, NoStaleCommand, NoRedelivery, Deliverable, NoAnswer

(* The invariant from which the two delivery properties follow, for        *)
(* clients that send one request at a time.                                *)
THEOREM DeliveryCorrect ==
    ASSUME ~Overlap
    PROVE  Spec => []DeliveryInv
<1> DEFINE IInv == TypeOK /\ AnswersMatch /\ QueueIntegrity /\ DeliveryInv
<1>1. Init => IInv
  BY InitType, DeliveryInit DEF Init, AnswersMatch, NoAnswer, QueueIntegrity
<1>2. IInv /\ [Next]_vars => IInv'
  BY TypeStep, AnswersMatchStep, QueueIntegrityStep, OneRequestEachStep,
     ReportsHoldingStep, UnansweredNotAckedStep, DeliverableStep DEF DeliveryInv
<1> QED BY <1>1, <1>2, PTL DEF Spec

(* A command queued before the device's last ClearQueue is never delivered. *)
THEOREM NoStaleDelivery ==
    ASSUME ~Overlap
    PROVE  Spec => []NoStaleCommand
<1>1. DeliveryInv => NoStaleCommand
  BY DEF DeliveryInv
<1> QED BY <1>1, DeliveryCorrect, PTL

(* An answered command is never delivered again. *)
THEOREM NoSecondDelivery ==
    ASSUME ~Overlap
    PROVE  Spec => []NoRedelivery
<1>1. DeliveryInv => NoRedelivery
  BY DEF DeliveryInv
<1> QED BY <1>1, DeliveryCorrect, PTL

-----------------------------------------------------------------------------
(***************************************************************************)
(* The order of delivery: what has a status, or is held, was delivered     *)
(* before, so that only commands already delivered are passed over.        *)
(***************************************************************************)

HeldDelivered(id) ==
    holding[id].uuid # None /\ (holding[id].status = "Acknowledged" => ~rm)
        => holding[id].uuid \in delivered[id]

NextDelivered(t) ==
    req[t] # NoRequest /\ req[t].next # None => req[t].next \in delivered[req[t].id]

InOrder(id) ==
    /\ \A u \in active[id], v \in delivered[id] : created[u] < created[v] => u \in delivered[id]
    /\ delivered[id] \subseteq queue[id]
    /\ \A u \in queue[id] : result[id][u] # "NULL" => u \in delivered[id]

OrderInv ==
    /\ \A u \in UUIDs : created[u] <= clock
    /\ \A id \in ID : InOrder(id) /\ HeldDelivered(id)
    /\ \A t \in Threads : NextDelivered(t)

(* A step that leaves the queues and what the clients hold alone.          *)
LEMMA UnqueuedOrder ==
    ASSUME OrderInv, UNCHANGED <<queueVars, holding>>,
           \A t \in Threads : NextDelivered(t)'
    PROVE  OrderInv'
BY DEF OrderInv, InOrder, HeldDelivered, queueVars

(* The client sends a message, or answers the command it was given.        *)
LEMMA SendOrder ==
    ASSUME TypeOK, OrderInv, NEW t \in Threads, NEW id \in ID,
           \/ \E m \in CheckIns : CheckIn(t, id, m)
           \/ \E s \in Statuses : Report(t, id, s)
    PROVE  OrderInv'
<1>1. /\ req'[t].next = None /\ \A i \in Threads \ {t} : req'[i] = req[i]
      /\ UNCHANGED queueVars
  BY DEF CheckIn, Report, Receive, TypeOK
<1>2. \A i \in Threads : NextDelivered(i)'
  BY <1>1 DEF OrderInv, NextDelivered, queueVars
<1>3. CASE \E m \in CheckIns : CheckIn(t, id, m)
  BY <1>2, <1>3, UnqueuedOrder DEF CheckIn
<1>4. ASSUME NEW s \in Statuses, Report(t, id, s)
      PROVE  OrderInv'
  <2>1. /\ holding' = [holding EXCEPT ![id].status = s]
        /\ holding[id].status = s \/ holding[id].status = "undecided"
    BY <1>4 DEF Report
  <2>2. ASSUME NEW e \in ID PROVE HeldDelivered(e)'
    <3>1. holding[e] \in Answer
      BY DEF TypeOK
    <3>2. HeldDelivered(e) /\ UNCHANGED delivered
      BY <1>1 DEF OrderInv, queueVars
    <3>3. CASE e = id
      BY <2>1, <3>1, <3>2, <3>3 DEF HeldDelivered, TypeOK, Answer
    <3>4. CASE e # id
      BY <2>1, <3>1, <3>2, <3>4 DEF HeldDelivered, TypeOK
    <3> QED BY <3>3, <3>4
  <2> QED BY <1>1, <1>2, <2>2 DEF OrderInv, InOrder, queueVars
<1> QED BY <1>3, <1>4

(* The calls that touch no queue.                                          *)
LEMMA EnrollmentCallOrder ==
    ASSUME TypeOK, ReportsHolding, OrderInv, NEW t \in Threads,
           \/ StoreAuthenticate(t) \/ Disable(t) \/ StoreTokenUpdate(t)
           \/ StoreBootstrapToken(t) \/ RetrieveBootstrapToken(t)
    PROVE  OrderInv'
<1>1. StorageCall(t)
  BY DEF StorageCall
<1>2. \E c \in Calls : Then(t, c)
  BY DEF Calls, StoreAuthenticate, Disable, StoreTokenUpdate, StoreBootstrapToken,
         RetrieveBootstrapToken
<1>3. req'[t].next = None /\ \A i \in Threads \ {t} : req'[i] = req[i]
  <2>1. /\ req[t] \in Request /\ req[t].next = None
        /\ \A i \in Threads \ {t} : req'[i] = req[i]
    BY <1>1, StorageCallFrame DEF ReportsHolding
  <2> QED BY <1>2, <2>1 DEF Then, TypeOK, Request
<1>4. UNCHANGED <<queueVars, holding>>
  BY DEF StoreAuthenticate, Disable, StoreTokenUpdate, StoreBootstrapToken,
         RetrieveBootstrapToken, clientVars
<1>5. \A i \in Threads : NextDelivered(i)'
  BY <1>3, <1>4 DEF OrderInv, NextDelivered, queueVars
<1> QED BY <1>4, <1>5, UnqueuedOrder

LEMMA ClearQueueOrder ==
    ASSUME TypeOK, ReportsHolding, OrderInv, NEW t \in Threads, ClearQueue(t)
    PROVE  OrderInv'
<1>1. req'[t].next = None /\ \A i \in Threads \ {t} : req'[i] = req[i]
  BY StorageCallFrame DEF StorageCall, ClearQueue, Then, TypeOK, Request, ReportsHolding
<1>2. /\ UNCHANGED <<created, clock, queue, result, delivered, holding>>
      /\ \A id \in ID : active'[id] \subseteq active[id]
  BY DEF ClearQueue, clientVars
<1>3. ASSUME NEW id \in ID PROVE InOrder(id)' /\ HeldDelivered(id)'
  BY <1>2 DEF OrderInv, InOrder, HeldDelivered
<1>4. \A i \in Threads : NextDelivered(i)'
  BY <1>1, <1>2 DEF OrderInv, NextDelivered
<1> QED BY <1>2, <1>3, <1>4 DEF OrderInv

(* A report gives a status to a command that was delivered, or deletes its *)
(* row; the client, whose one request this is, then holds nothing else.    *)
LEMMA ReportOrder ==
    ASSUME TypeOK, AnswersMatch, OneRequestEach, ReportsHolding, OrderInv,
           NEW t \in Threads, StoreCommandReport(t)
    PROVE  OrderInv'
<1>a. PICK id \in ID, u \in UUIDs \cup {None}, s \in Statuses :
        id = req[t].id /\ u = req[t].uuid /\ s = req[t].status
  BY StorageCallFrame DEF StorageCall, Request
<1> USE <1>a
<1>0. /\ req[t] \in Request /\ req[t] # NoRequest
      /\ id \in ID /\ s \in Statuses /\ (s # "Idle" => u \in UUIDs)
      /\ holding[id] = [uuid |-> u, status |-> s]
  BY StorageCallFrame, ReportFrame DEF StorageCall, StoreCommandReport, At, ReportsHolding
<1>1. req'[t].next = None /\ req'[t].id = id /\ \A i \in Threads \ {t} : req'[i] = req[i]
  BY <1>0 DEF StoreCommandReport, Then, TypeOK, Request, ReportsHolding, At
<1>2. UNCHANGED <<created, clock, holding>>
  BY DEF StoreCommandReport, clientVars, queueVars
<1>3. ASSUME NEW i \in Threads \ {t}, req[i] # NoRequest PROVE req[i].id # id
  BY <1>0, <1>3 DEF OneRequestEach, InFlight
<1>4. \/ s = "Idle" /\ UNCHANGED queueVars
      \/ upsertResult(id, u, s) /\ s # "Idle" /\ (s = "Acknowledged" => ~rm)
      \/ deleteCommand(id, u) /\ s = "Acknowledged" /\ rm
  BY DEF StoreCommandReport
<1>5. CASE UNCHANGED queueVars
  BY <1>1, <1>2, <1>5, UnqueuedOrder DEF OrderInv, NextDelivered, queueVars
<1>6. CASE upsertResult(id, u, s) /\ s # "Idle" /\ (s = "Acknowledged" => ~rm)
  <2>1. u \in delivered[id]
    BY <1>0, <1>6, ConstantsAssumption DEF OrderInv, HeldDelivered
  <2>2. /\ UNCHANGED <<queue, active, delivered>>
        /\ result' = [result EXCEPT ![id][u] = s]
    BY <1>6 DEF upsertResult
  <2>3. ASSUME NEW e \in ID PROVE InOrder(e)'
    <3>1. \A v \in UUIDs : result'[e][v] = result[e][v] \/ (e = id /\ v = u)
      BY <1>0, <2>2 DEF TypeOK
    <3>2. queue[e] \subseteq UUIDs
      BY DEF TypeOK
    <3> QED BY <1>2, <2>1, <2>2, <3>1, <3>2 DEF OrderInv, InOrder
  <2> QED BY <1>1, <1>2, <2>2, <2>3 DEF OrderInv, HeldDelivered, NextDelivered
<1>7. CASE deleteCommand(id, u) /\ s = "Acknowledged" /\ rm
  <2>1. /\ queue' = [queue EXCEPT ![id] = @ \ {u}]
        /\ active' = [active EXCEPT ![id] = @ \ {u}]
        /\ delivered' = [delivered EXCEPT ![id] = @ \ {u}]
        /\ result' = [result EXCEPT ![id][u] = IF u \in queue[id] THEN "NULL" ELSE @]
    BY <1>7 DEF deleteCommand
  <2>2. ASSUME NEW e \in ID \ {id} PROVE InOrder(e)' /\ HeldDelivered(e)'
    <3>1. /\ queue'[e] = queue[e] /\ active'[e] = active[e] /\ delivered'[e] = delivered[e]
          /\ result'[e] = result[e]
      BY <1>0, <2>1 DEF TypeOK
    <3> QED BY <1>2, <3>1 DEF OrderInv, InOrder, HeldDelivered
  <2>3. InOrder(id)'
    <3>1. /\ queue'[id] = queue[id] \ {u} /\ active'[id] = active[id] \ {u}
          /\ delivered'[id] = delivered[id] \ {u}
          /\ \A v \in UUIDs \ {u} : result'[id][v] = result[id][v]
      BY <1>0, <2>1 DEF TypeOK
    <3>2. queue[id] \subseteq UUIDs /\ InOrder(id)
      BY <1>0 DEF TypeOK, OrderInv
    <3> QED BY <1>2, <3>1, <3>2 DEF InOrder
  <2>4. HeldDelivered(id)'
    BY <1>0, <1>2, <1>7 DEF HeldDelivered
  <2>5. ASSUME NEW i \in Threads PROVE NextDelivered(i)'
    <3>1. CASE i = t
      BY <1>1, <3>1 DEF NextDelivered
    <3>2. CASE i # t /\ req[i] # NoRequest
      <4>1. req[i].id \in ID /\ req[i].id # id /\ req'[i] = req[i]
        BY <1>1, <1>3, <3>2, RequestType DEF Request
      <4>2. delivered'[req[i].id] = delivered[req[i].id]
        BY <1>0, <2>1, <4>1 DEF TypeOK
      <4> QED BY <4>1, <4>2 DEF OrderInv, NextDelivered
    <3>3. CASE i # t /\ req[i] = NoRequest
      BY <1>1, <3>3 DEF NextDelivered
    <3> QED BY <3>1, <3>2, <3>3
  <2> QED BY <1>2, <2>2, <2>3, <2>4, <2>5 DEF OrderInv
<1> QED BY <1>4, <1>5, <1>6, <1>7

(* What is active and older than the command retrieved has a status.       *)
LEMMA RetrieveOrder ==
    ASSUME TypeOK, QueueIntegrity, ReportsHolding, OrderInv,
           NEW t \in Threads, RetrieveNextCommand(t)
    PROVE  OrderInv'
<1>a. PICK id \in ID : id = req[t].id
  BY StorageCallFrame DEF StorageCall, Request
<1> USE <1>a
<1>0. /\ req[t] \in Request /\ req'[t].id = id
      /\ \A i \in Threads \ {t} : req'[i] = req[i]
  BY StorageCallFrame DEF StorageCall, Request
<1>1. UNCHANGED <<created, clock, queue, active, result, holding>>
  BY DEF RetrieveNextCommand, clientVars
<1>2. CASE UNCHANGED delivered /\ req' = [req EXCEPT ![t].call = "respond"]
  <2>1. req'[t].next = req[t].next /\ req[t] # NoRequest
    BY <1>0, <1>2 DEF RetrieveNextCommand, At, TypeOK, Request
  <2> QED BY <1>0, <1>1, <1>2, <2>1 DEF OrderInv, InOrder, HeldDelivered, NextDelivered
<1>3. ASSUME NEW u \in Oldest(Eligible(id, req[t].status = "NotNow")),
             req' = [req EXCEPT ![t].call = "respond", ![t].next = u],
             delivered' = [delivered EXCEPT ![id] = @ \cup {u}]
      PROVE  OrderInv'
  <2>1. /\ u \in active[id] /\ u \in queue[id] /\ u \in UUIDs
        /\ \A v \in Eligible(id, req[t].status = "NotNow") : created[u] <= created[v]
    BY <1>0, <1>3 DEF Oldest, Eligible, QueueIntegrity, TypeOK
  <2>2. ASSUME NEW e \in ID PROVE delivered[e] \subseteq delivered'[e]
    BY <1>0, <1>3 DEF TypeOK
  <2>3. ASSUME NEW e \in ID \ {id} PROVE InOrder(e)'
    BY <1>0, <1>1, <1>3 DEF OrderInv, InOrder, TypeOK
  <2>4. InOrder(id)'
    <3>1. delivered'[id] = delivered[id] \cup {u} /\ InOrder(id)
      BY <1>0, <1>3 DEF TypeOK, OrderInv
    <3>2. ASSUME NEW v \in active[id], created[v] < created[u] PROVE v \in delivered[id]
      <4>1. v \in queue[id] /\ v \in UUIDs
        BY <1>0, <3>2 DEF QueueIntegrity, TypeOK
      <4>2. created[v] \in Int /\ created[u] \in Int
        BY <2>1, <4>1, ConstantsAssumption DEF TypeOK
      <4>3. result[id][v] # "NULL"
        BY <2>1, <3>2, <4>2 DEF Eligible
      <4> QED BY <3>1, <4>1, <4>3 DEF InOrder
    <3> QED BY <1>1, <2>1, <3>1, <3>2 DEF InOrder
  <2>5. ASSUME NEW i \in Threads PROVE NextDelivered(i)'
    <3>1. CASE i = t
      <4>1. req'[t].next = u /\ u \in delivered'[id]
        BY <1>0, <1>3 DEF TypeOK, Request
      <4> QED BY <1>0, <3>1, <4>1 DEF NextDelivered
    <3>2. CASE i # t /\ req[i] # NoRequest
      BY <1>0, <2>2, <3>2, RequestType DEF OrderInv, NextDelivered, Request
    <3>3. CASE i # t /\ req[i] = NoRequest
      BY <1>0, <3>3 DEF NextDelivered
    <3> QED BY <3>1, <3>2, <3>3
  <2> QED BY <1>1, <2>2, <2>3, <2>4, <2>5 DEF OrderInv, HeldDelivered
<1> QED BY <1>2, <1>3 DEF RetrieveNextCommand

(* The client gets its answer, or none.                                    *)
LEMMA EndOrder ==
    ASSUME TypeOK, OrderInv, NEW t \in Threads, Respond(t) \/ Abort(t)
    PROVE  OrderInv'
<1>a. PICK id \in ID : id = req[t].id
  BY RequestType DEF Respond, Abort, At, Request
<1> USE <1>a
<1>0. req[t] # NoRequest /\ req[t] \in Request
  BY RequestType DEF Respond, Abort, At, Request
<1>1. UNCHANGED queueVars /\ req' = [req EXCEPT ![t] = NoRequest]
  BY DEF Respond, Abort
<1>2. \/ holding' = holding
      \/ holding' = [holding EXCEPT ![id] = NoAnswer]
      \/ /\ req[t].next # None
         /\ holding' = [holding EXCEPT ![id] = [uuid |-> req[t].next, status |-> "undecided"]]
  BY DEF Respond, Abort, TypeOK
<1>3. ASSUME NEW e \in ID PROVE HeldDelivered(e)'
  <2>1. HeldDelivered(e) /\ NextDelivered(t) /\ UNCHANGED delivered
    BY <1>1 DEF OrderInv, queueVars
  <2>2. CASE e = id
    BY <1>0, <1>2, <2>1, <2>2 DEF HeldDelivered, NextDelivered, NoAnswer, TypeOK
  <2>3. CASE e # id
    BY <1>0, <1>2, <2>1, <2>3 DEF HeldDelivered, TypeOK
  <2> QED BY <2>2, <2>3
<1>4. \A i \in Threads : NextDelivered(i)'
  BY <1>1 DEF OrderInv, NextDelivered, TypeOK, queueVars
<1> QED BY <1>1, <1>3, <1>4 DEF OrderInv, InOrder, queueVars

(* A new command is not older than any that was delivered.                 *)
LEMMA EnqueueOrder ==
    ASSUME TypeOK, QueueIntegrity, OrderInv,
           NEW ids \in SUBSET ID, NEW u \in UUIDs, EnqueueCommand(ids, u)
    PROVE  OrderInv'
<1>1. /\ UNCHANGED <<result, delivered, holding, req>>
      /\ clock <= clock' /\ clock' \in Int /\ clock \in Int
      /\ created' = [created EXCEPT ![u] = clock']
  BY ConstantsAssumption DEF EnqueueCommand, clientVars, TypeOK
<1>2. \A v \in UUIDs : created[v] \in Int /\ created[v] <= clock
  BY ConstantsAssumption DEF TypeOK, OrderInv
<1>3. created'[u] = clock' /\ \A v \in UUIDs \ {u} : created'[v] = created[v]
  BY <1>1 DEF TypeOK
<1>4. ASSUME NEW id \in ID PROVE InOrder(id)'
  <2>1. /\ u \notin queue[id] /\ result[id][u] = "NULL" /\ delivered[id] \subseteq queue[id]
        /\ queue[id] \subseteq UUIDs /\ active[id] \subseteq queue[id]
    BY DEF EnqueueCommand, EnqueueKeysExist, QueueIntegrity, ResultKeysExist, OrderInv,
           InOrder, TypeOK
  <2>2. \/ active'[id] = active[id] /\ queue'[id] = queue[id]
        \/ active'[id] = active[id] \cup {u} /\ queue'[id] = queue[id] \cup {u}
    BY DEF EnqueueCommand
  <2>3. ASSUME NEW w \in active'[id], NEW v \in delivered[id], created'[w] < created'[v]
        PROVE  w \in delivered[id]
    <3>1. v # u /\ v \in UUIDs /\ created'[v] <= clock /\ created'[v] \in Int
      BY <1>2, <1>3, <2>1
    <3>2. w # u
      BY <1>1, <1>3, <2>3, <3>1
    <3> QED BY <1>3, <2>1, <2>2, <2>3, <3>1, <3>2 DEF OrderInv, InOrder
  <2> QED BY <1>1, <2>1, <2>2, <2>3 DEF OrderInv, InOrder
<1>5. \A v \in UUIDs : created'[v] <= clock'
  BY <1>1, <1>2, <1>3
<1> QED BY <1>1, <1>4, <1>5 DEF OrderInv, HeldDelivered, NextDelivered

(* RetrieveNextCommand of both SQL backends never lets a command overtake  *)
(* an older one that is still active, whatever was postponed, answered     *)
(* again, cleared or deleted in between.                                   *)
THEOREM FirstDeliveryCorrect ==
    ASSUME ~Overlap
    PROVE  Spec => []FirstDeliveryInOrder
<1> DEFINE IInv == TypeOK /\ AnswersMatch /\ QueueIntegrity /\ OrderInv
<1>1. Init => IInv
  BY InitType DEF Init, AnswersMatch, QueueIntegrity, OrderInv, InOrder, HeldDelivered,
                  NextDelivered, NoAnswer
<1>2. DeliveryInv /\ IInv /\ [Next]_vars => IInv'
  <2> SUFFICES ASSUME TypeOK, AnswersMatch, QueueIntegrity, OneRequestEach, ReportsHolding,
                      OrderInv, [Next]_vars
               PROVE  OrderInv'
    BY TypeStep, AnswersMatchStep, QueueIntegrityStep DEF DeliveryInv
  <2>1. CASE UNCHANGED vars
    BY <2>1, UnqueuedOrder DEF vars, clientVars, queueVars, OrderInv, NextDelivered
  <2>2. ASSUME NEW t \in Threads, StorageCall(t) PROVE OrderInv'
    BY <2>2, EnrollmentCallOrder, ClearQueueOrder, ReportOrder, RetrieveOrder DEF StorageCall
  <2> QED BY <2>1, <2>2, SendOrder, EndOrder, EnqueueOrder DEF Next
<1>3. IInv => FirstDeliveryInOrder
  BY DEF OrderInv, InOrder, FirstDeliveryInOrder
<1> QED BY <1>1, <1>2, <1>3, DeliveryCorrect, PTL DEF Spec

-----------------------------------------------------------------------------
(***************************************************************************)
(* What the server has of an enrollment, when clients send one request at  *)
(* a time: how far a device's request is tells what is left of the         *)
(* enrollment before.                                                      *)
(***************************************************************************)

Enrolling == {"authed", "updating", "enrolled"}

CallsOf(m) ==
    CASE m = "Authenticate"      -> {"StoreAuthenticate", "ClearQueue", "Disable", "respond"}
      [] m = "CheckOut"          -> {"Disable", "respond"}
      [] m = "TokenUpdate"       -> {"StoreTokenUpdate", "respond"}
      [] m = "SetBootstrapToken" -> {"StoreBootstrapToken", "respond"}
      [] m = "GetBootstrapToken" -> {"RetrieveBootstrapToken", "respond"}
      [] m = "CommandResults"    -> {"StoreCommandReport", "RetrieveNextCommand", "respond"}

(* No channel of d is enabled but by a TokenUpdate after d began to leave. *)
OthersDisabled(d) == \A id \in enabled : DeviceOf(id) = d => id \in updated

RequestStage(t) ==
    LET m == req[t].msg
        d == req[t].id
        done == req[t].call = "respond"
    IN  req[t] # NoRequest /\ d \in Devices =>
        /\ req[t].call \in CallsOf(m)
        /\ m \in {"Authenticate", "CheckOut"} =>
             belief[d] = "leaving" /\ (done => d \notin enabled /\ OthersDisabled(d))
        /\ m = "Authenticate" =>
             /\ escrow[d] = "none"
             /\ req[t].call # "StoreAuthenticate" => d \in devices /\ d \notin bootstrap
        /\ m = "TokenUpdate" =>
             belief[d] \in {"updating", "enrolled"} /\ (done => d \in enabled)
        /\ m = "SetBootstrapToken" =>
             /\ belief[d] \in Enrolling /\ escrow[d] = "sent"
             /\ done => d \in bootstrap

DeviceStage(d) ==
    /\ belief[d] = "enrolled" => d \in enabled
    /\ belief[d] \in {"authed", "out"} => d \notin enabled
    /\ belief[d] # "leaving" => OthersDisabled(d)
    /\ belief[d] \in Enrolling =>
         /\ d \in devices
         /\ escrow[d] = "stored" => d \in bootstrap
         /\ escrow[d] = "none" => d \notin bootstrap

EnrollmentInv ==
    /\ \A t \in Threads : RequestStage(t)
    /\ \A d \in Devices : DeviceStage(d)

(* What a step of another client's request leaves of device d.             *)
Undisturbed(d) ==
    /\ belief'[d] = belief[d] /\ escrow'[d] = escrow[d]
    /\ d \in enabled' <=> d \in enabled
    /\ d \in bootstrap' <=> d \in bootstrap
    /\ devices \subseteq devices'
    /\ OthersDisabled(d) => OthersDisabled(d)'

LEMMA UndisturbedStage ==
    ASSUME NEW d \in Devices, Undisturbed(d)
    PROVE  /\ DeviceStage(d) => DeviceStage(d)'
           /\ \A t \in Threads : RequestStage(t) /\ req'[t] = req[t] /\ req[t].id = d
                => RequestStage(t)'
<1>1. DeviceStage(d) => DeviceStage(d)'
  BY DEF Undisturbed, DeviceStage
<1>2. ASSUME NEW t \in Threads, RequestStage(t), req'[t] = req[t], req[t].id = d
      PROVE  RequestStage(t)'
  BY <1>2 DEF Undisturbed, RequestStage
<1> QED BY <1>1, <1>2

(* A step of thread t on behalf of client c: the other clients' requests   *)
(* and devices are as they were, so its own is left to look at.            *)
LEMMA EnrollmentStep ==
    ASSUME EnrollmentInv, NEW t \in Threads, NEW c \in ID,
           \A i \in Threads \ {t} : req'[i] = req[i] /\ ~ InFlight(i, c),
           req'[t] = NoRequest \/ req'[t].id = c,
           \A d \in Devices \ {c} : Undisturbed(d),
           c \in Devices => DeviceStage(c)' /\ RequestStage(t)'
    PROVE  EnrollmentInv'
<1>1. ASSUME NEW d \in Devices PROVE DeviceStage(d)'
  BY UndisturbedStage DEF EnrollmentInv
<1>2. ASSUME NEW i \in Threads, i # t PROVE RequestStage(i)'
  <2>1. req'[i] = req[i] /\ ~ InFlight(i, c) /\ RequestStage(i)
    BY <1>2 DEF EnrollmentInv
  <2>2. CASE req[i] = NoRequest \/ req[i].id \notin Devices
    BY <2>1, <2>2 DEF RequestStage
  <2>3. CASE req[i] # NoRequest /\ req[i].id \in Devices
    BY <2>1, <2>3, UndisturbedStage DEF InFlight
  <2> QED BY <2>2, <2>3
<1>3. RequestStage(t)'
  BY DEF RequestStage
<1> QED BY <1>1, <1>2, <1>3 DEF EnrollmentInv

LEMMA CheckInEnrollment ==
    ASSUME TypeOK, EnrollmentInv, ~Overlap, NEW t \in Threads, NEW c \in ID, NEW m \in CheckIns,
           CheckIn(t, c, m)
    PROVE  EnrollmentInv'
<1>1. /\ \A i \in Threads \ {t} : req'[i] = req[i] /\ ~ InFlight(i, c)
      /\ req'[t] = [msg |-> m, id |-> c, call |-> FirstCall(m), status |-> "Idle",
                    uuid |-> None, next |-> None]
  BY DEF CheckIn, Receive, MaySend, TypeOK
<1>2. /\ UNCHANGED <<devices, bootstrap, enabled>>
      /\ belief'[c] = BeliefWhenSent(c, m) /\ \A i \in ID \ {c} : belief'[i] = belief[i]
      /\ escrow'[c] = CASE m = "Authenticate" -> "none"
                        [] m = "SetBootstrapToken" -> "sent"
                        [] OTHER -> escrow[c]
      /\ \A i \in ID \ {c} : escrow'[i] = escrow[i]
      /\ Permitted(c, m)
  BY DEF CheckIn, TypeOK, enrollVars
<1>3. ASSUME NEW d \in Devices \ {c} PROVE Undisturbed(d)
  <2>1. ASSUME NEW id \in enabled, DeviceOf(id) = d, id \in updated PROVE id \in updated'
    BY <2>1, <1>3 DEF CheckIn, Channels
  <2> QED BY <1>2, <2>1 DEF Undisturbed, OthersDisabled, ID
<1>4. ASSUME c \in Devices PROVE DeviceStage(c)' /\ RequestStage(t)'
  <2>1. DeviceStage(c)
    BY <1>4 DEF EnrollmentInv
  <2>2. /\ req'[t].msg = m /\ req'[t].id = c /\ req'[t].call = FirstCall(m)
        /\ FirstCall(m) \in CallsOf(m) \ {"respond"}
        /\ m = "Authenticate" => FirstCall(m) = "StoreAuthenticate"
    BY <1>1 DEF FirstCall, CallsOf, CheckIns
  <2>3. m \notin {"Authenticate", "CheckOut"} => updated' = updated
    BY DEF CheckIn
  <2>4. DeviceStage(c)'
    <3>1. m = "TokenUpdate" => belief[c] \in Enrolling
      BY <1>2, <1>4, ConstantsAssumption DEF Permitted, Enrolling
    <3>2. CASE m \in {"Authenticate", "CheckOut"}
      BY <1>2, <3>2 DEF DeviceStage, BeliefWhenSent, Enrolling
    <3>3. CASE m \notin {"Authenticate", "CheckOut"}
      BY <1>2, <2>1, <2>3, <3>1, <3>3 DEF DeviceStage, OthersDisabled, BeliefWhenSent, Enrolling
    <3> QED BY <3>2, <3>3
  <2>5. RequestStage(t)'
    <3>1. m \in {"Authenticate", "CheckOut"} => belief'[c] = "leaving"
      BY <1>2 DEF BeliefWhenSent
    <3>2. m = "TokenUpdate" => belief'[c] \in {"updating", "enrolled"}
      BY <1>2, <1>4 DEF BeliefWhenSent
    <3>3. m = "SetBootstrapToken" => belief'[c] \in Enrolling /\ escrow'[c] = "sent"
      BY <1>2 DEF BeliefWhenSent, Permitted, Enrolling
    <3>4. m = "Authenticate" => escrow'[c] = "none"
      BY <1>2
    <3> QED BY <2>2, <3>1, <3>2, <3>3, <3>4 DEF RequestStage
  <2> QED BY <2>4, <2>5
<1> QED BY <1>1, <1>3, <1>4, EnrollmentStep

LEMMA ReportEnrollment ==
    ASSUME TypeOK, EnrollmentInv, ~Overlap, NEW t \in Threads, NEW c \in ID, NEW s \in Statuses,
           Report(t, c, s)
    PROVE  EnrollmentInv'
<1>1. /\ \A i \in Threads \ {t} : req'[i] = req[i] /\ ~ InFlight(i, c)
      /\ req'[t].msg = "CommandResults" /\ req'[t].id = c /\ req'[t].call = "StoreCommandReport"
  BY DEF Report, Receive, MaySend, TypeOK, FirstCall
<1>2. \A d \in Devices : Undisturbed(d)
  BY DEF Report, Undisturbed, OthersDisabled, enrollVars
<1>3. RequestStage(t)'
  BY <1>1 DEF RequestStage, CallsOf
<1>4. \A d \in Devices : DeviceStage(d)'
  BY <1>2, UndisturbedStage DEF EnrollmentInv
<1> QED BY <1>1, <1>2, <1>3, <1>4, EnrollmentStep

LEMMA CallEnrollment ==
    ASSUME TypeOK, EnrollmentInv, OneRequestEach, NEW t \in Threads, StorageCall(t)
    PROVE  EnrollmentInv'
<1> DEFINE c == req[t].id
           m == req[t].msg
<1>1. /\ req[t] # NoRequest /\ req'[t] # NoRequest /\ c \in ID
      /\ m \in CheckIns \cup {"CommandResults"}
      /\ req'[t].id = c /\ req'[t].msg = m
      /\ \A i \in Threads \ {t} : req'[i] = req[i] /\ ~ InFlight(i, c)
      /\ RequestStage(t)
  BY StorageCallFrame DEF Request, OneRequestEach, InFlight, EnrollmentInv
<1>2. UNCHANGED <<belief, escrow>>
  BY DEF StorageCall, StoreAuthenticate, ClearQueue, Disable,
     StoreTokenUpdate, StoreBootstrapToken, RetrieveBootstrapToken,
     StoreCommandReport, RetrieveNextCommand, clientVars
<1>3. ASSUME NEW d \in Devices \ {c} PROVE Undisturbed(d)
  <2>1. d \in ID /\ DeviceOf(d) = d
    BY DEF DeviceOf, ID
  <2> QED BY <1>1, <1>2, <1>3, <2>1 DEF Undisturbed, OthersDisabled, StorageCall, StoreAuthenticate,
     ClearQueue, Disable, DisabledRows, StoreTokenUpdate, upsertEnrollment, StoreBootstrapToken,
     RetrieveBootstrapToken, StoreCommandReport, RetrieveNextCommand, enrollVars, DeviceOf
<1>4. RetrieveNextCommand(t) => req'[t].call = "respond"
  <2>1. req[t] \in Request
    BY <1>1, RequestType
  <2>2. RetrieveNextCommand(t) =>
          \/ req'[t] = [req[t] EXCEPT !.call = "respond"]
          \/ \E u : req'[t] = [req[t] EXCEPT !.call = "respond", !.next = u]
    BY DEF RetrieveNextCommand, TypeOK
  <2> QED BY <2>1, <2>2 DEF Request
<1>5. ASSUME c \in Devices PROVE DeviceStage(c)' /\ RequestStage(t)'
  <2> USE <1>1, <1>2, <1>5 DEF DeviceStage, RequestStage
  <2>1. DeviceStage(c) /\ req[t].call \in CallsOf(m) /\ c \in ID /\ DeviceOf(c) = c
    BY DEF EnrollmentInv, DeviceOf, ID
  <2>2. \A call : Then(t, call) => req'[t].call = call
    <3>1. req[t] \in Request
      BY RequestType
    <3> QED BY <3>1 DEF Then, TypeOK, Request
  <2>3. CASE StoreAuthenticate(t)
    <3>1. m = "Authenticate" /\ req'[t].call = "ClearQueue"
      BY <2>1, <2>2, <2>3 DEF StoreAuthenticate, At, CallsOf, CheckIns
    <3> QED BY <2>1, <2>3, <3>1 DEF StoreAuthenticate, CallsOf, OthersDisabled, Enrolling
  <2>4. CASE ClearQueue(t)
    <3>1. m = "Authenticate" /\ req'[t].call = "Disable"
      BY <2>1, <2>2, <2>4 DEF ClearQueue, At, CallsOf, CheckIns
    <3> QED BY <2>1, <2>4, <3>1 DEF ClearQueue, At, CallsOf, OthersDisabled, enrollVars
  <2>5. CASE Disable(t)
    <3>1. m \in {"Authenticate", "CheckOut"} /\ req'[t].call = "respond" /\ req[t].call = "Disable"
      BY <2>1, <2>2, <2>5 DEF Disable, At, CallsOf, CheckIns
    <3>2. c \notin enabled' /\ OthersDisabled(c)'
      BY <2>1, <2>5 DEF Disable, DisabledRows, OthersDisabled
    <3> QED BY <2>1, <2>5, <3>1, <3>2 DEF Disable, CallsOf, Enrolling
  <2>6. CASE StoreTokenUpdate(t)
    <3>1. m = "TokenUpdate" /\ req'[t].call = "respond"
      BY <2>1, <2>2, <2>6 DEF StoreTokenUpdate, At, CallsOf, CheckIns
    <3> QED BY <2>1, <2>6, <3>1 DEF StoreTokenUpdate, upsertEnrollment, CallsOf, OthersDisabled, Enrolling
  <2>7. CASE StoreBootstrapToken(t)
    <3>1. m = "SetBootstrapToken" /\ req'[t].call = "respond"
      BY <2>1, <2>2, <2>7 DEF StoreBootstrapToken, At, CallsOf, CheckIns
    <3> QED BY <2>1, <2>7, <3>1 DEF StoreBootstrapToken, CallsOf, OthersDisabled, Enrolling
  <2>8. CASE RetrieveBootstrapToken(t)
    <3>1. m = "GetBootstrapToken" /\ req'[t].call = "respond"
      BY <2>1, <2>2, <2>8 DEF RetrieveBootstrapToken, At, CallsOf, CheckIns
    <3> QED BY <2>1, <2>8, <3>1 DEF RetrieveBootstrapToken, CallsOf, OthersDisabled, enrollVars
  <2>9. CASE StoreCommandReport(t)
    <3>1. m = "CommandResults" /\ req'[t].call = "RetrieveNextCommand"
      BY <2>1, <2>2, <2>9 DEF StoreCommandReport, At, CallsOf, CheckIns
    <3> QED BY <2>1, <2>9, <3>1 DEF StoreCommandReport, CallsOf, OthersDisabled, enrollVars
  <2>10. CASE RetrieveNextCommand(t)
    <3>1. m = "CommandResults"
      BY <2>1, <2>10 DEF RetrieveNextCommand, At, CallsOf, CheckIns
    <3>2. req'[t].call = "respond"
      BY <1>4, <2>10
    <3> QED BY <2>1, <2>10, <3>1, <3>2 DEF RetrieveNextCommand, CallsOf, OthersDisabled, enrollVars
  <2> QED BY <2>3, <2>4, <2>5, <2>6, <2>7, <2>8, <2>9, <2>10 DEF StorageCall
<1> QED BY <1>1, <1>3, <1>5, EnrollmentStep

(* The end of a request, answered or not                                   *)
LEMMA EndEnrollment ==
    ASSUME TypeOK, EnrollmentInv, OneRequestEach, NEW t \in Threads, Respond(t) \/ Abort(t)
    PROVE  EnrollmentInv'
<1>0. PICK c \in ID, m \in CheckIns \cup {"CommandResults"} : c = req[t].id /\ m = req[t].msg
  BY RequestType DEF Respond, Abort, At, Request
<1> USE <1>0
<1>1. /\ req[t] # NoRequest /\ req'[t] = NoRequest
      /\ \A i \in Threads \ {t} : req'[i] = req[i] /\ ~ InFlight(i, c)
      /\ RequestStage(t)
  <2>1. req[t] # NoRequest /\ req[t] \in Request
    BY RequestType DEF Respond, Abort, At
  <2>2. req'[t] = NoRequest /\ \A i \in Threads \ {t} : req'[i] = req[i]
    BY DEF Respond, Abort, TypeOK
  <2> QED BY <2>1, <2>2 DEF Request, OneRequestEach, InFlight, EnrollmentInv
<1>2. /\ UNCHANGED <<devices, bootstrap, enabled, updated>>
      /\ OthersDisabled(c)' <=> OthersDisabled(c)
  BY DEF Respond, Abort, enrollVars, OthersDisabled
<1>3. ASSUME NEW d \in Devices \ {c} PROVE Undisturbed(d)
  BY <1>1, <1>2 DEF Respond, Abort, Undisturbed, OthersDisabled, TypeOK, ID
<1>4. ASSUME c \in Devices PROVE DeviceStage(c)' /\ RequestStage(t)'
  <2>1. RequestStage(t)'
    BY <1>1 DEF RequestStage
  <2>2. DeviceStage(c)
    BY <1>4 DEF EnrollmentInv
  <2>3. CASE Abort(t)
    BY <1>2, <2>1, <2>2, <2>3 DEF Abort, DeviceStage
  <2>4. CASE Respond(t)
    <3>1. /\ req[t].call = "respond"
          /\ belief'[c] = BeliefWhenDone(c, m)
          /\ escrow'[c] = IF m = "SetBootstrapToken" THEN "stored" ELSE escrow[c]
      BY <1>1, <2>4 DEF Respond, At, TypeOK
    <3>2. m \in {"Authenticate", "CheckOut"} =>
            belief[c] = "leaving" /\ c \notin enabled /\ OthersDisabled(c)
      BY <1>1, <1>4, <3>1 DEF RequestStage
    <3>3. /\ m = "Authenticate" => escrow[c] = "none" /\ c \in devices /\ c \notin bootstrap
          /\ m = "TokenUpdate" => belief[c] \in Enrolling /\ c \in enabled
          /\ m = "SetBootstrapToken" => belief[c] \in Enrolling /\ c \in bootstrap
      BY <1>1, <1>4, <3>1 DEF RequestStage, Enrolling
    <3> QED BY <1>1, <1>2, <2>1, <2>2, <3>1, <3>2, <3>3 DEF DeviceStage, BeliefWhenDone, Enrolling, CheckIns
  <2> QED BY <2>1, <2>3, <2>4
<1> QED BY <1>1, <1>3, <1>4, EnrollmentStep

(* With requests that do not overlap, server and device agree about the    *)
(* enrollment, its user channels and its bootstrap token, whichever of a   *)
(* request's calls were the last (Authenticate, CheckOut and TokenUpdate   *)
(* of service/nanomdm/service.go).                                         *)
THEOREM EnrollmentCorrect ==
    ASSUME ~Overlap
    PROVE  Spec => []EnrollmentInv
<1>1. Init => EnrollmentInv
  BY DEF Init, EnrollmentInv, RequestStage, DeviceStage, OthersDisabled, ID, Enrolling
<1>2. TypeOK /\ DeliveryInv /\ EnrollmentInv /\ [Next]_vars => EnrollmentInv'
  <2> SUFFICES ASSUME TypeOK, OneRequestEach, EnrollmentInv, [Next]_vars PROVE EnrollmentInv'
    BY DEF DeliveryInv
  <2>1. CASE UNCHANGED <<enrollVars, clientVars, updated, req>>
    BY <2>1 DEF EnrollmentInv, RequestStage, DeviceStage, OthersDisabled, enrollVars, clientVars
  <2> QED BY <2>1, CheckInEnrollment, ReportEnrollment, CallEnrollment, EndEnrollment
        DEF Next, EnqueueCommand, vars
<1> QED BY <1>1, <1>2, DeliveryCorrect, TypeCorrect, PTL DEF Spec

(* After a TokenUpdate was answered the device is enabled until it leaves, *)
(* after an Authenticate or CheckOut it is not.                            *)
THEOREM ServerKnowsEnrollmentCorrect ==
    ASSUME ~Overlap
    PROVE  Spec => []ServerKnowsEnrollment
<1>1. EnrollmentInv => ServerKnowsEnrollment
  BY DEF EnrollmentInv, DeviceStage, ServerKnowsEnrollment
<1> QED BY <1>1, EnrollmentCorrect, PTL

(* User channels leave with their device (Disable, storage/mysql and       *)
(* pgsql), although their own requests go on meanwhile.                    *)
THEOREM EnabledSinceUpdateCorrect ==
    ASSUME ~Overlap
    PROVE  Spec => []EnabledSinceUpdate
<1>1. TypeOK /\ EnrollmentInv => EnabledSinceUpdate
  <2> SUFFICES ASSUME TypeOK, EnrollmentInv, NEW id \in enabled, belief[DeviceOf(id)] # "leaving"
               PROVE  id \in updated
    BY DEF EnabledSinceUpdate
  <2>1. DeviceOf(id) \in Devices
    BY ConstantsAssumption DEF TypeOK, DeviceOf, ID
  <2> QED BY <2>1 DEF EnrollmentInv, DeviceStage, OthersDisabled
<1> QED BY <1>1, EnrollmentCorrect, TypeCorrect, PTL

(* The bootstrap token of the enrollment, none of the one before it        *)
(* (StoreAuthenticate and StoreBootstrapToken, storage/mysql and pgsql).   *)
THEOREM EscrowOfEnrollmentCorrect ==
    ASSUME ~Overlap
    PROVE  Spec => []EscrowOfEnrollment
<1>1. EnrollmentInv => EscrowOfEnrollment
  BY DEF EnrollmentInv, DeviceStage, Enrolling, EscrowOfEnrollment
<1> QED BY <1>1, EnrollmentCorrect, PTL

=============================================================================
