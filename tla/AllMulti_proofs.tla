-------------------------- MODULE AllMulti_proofs --------------------------
(* Theorems about AllMulti, for every value of its constants and for any   *)
(* number of storages.                                                     *)
EXTENDS AllMulti, FiniteSetTheorems, WellFoundedInduction, TLAPS

(* The callers are two, and 1 is the first store.                          *)
LEMMA Constants ==
    /\ Callers = {"client", "api"} /\ 1 \in Stores /\ None \notin Commands
    /\ Commands \subseteq Nat /\ "client" \in Callers /\ "api" \in Callers
BY AllMultiAssumption

-----------------------------------------------------------------------------
(* The goroutines *)

LEMMA JobFields ==
    ASSUME NEW j \in Job
    PROVE  j.src \in Dirs /\ j.moved \in BOOLEAN /\ j.val \in Commands \cup {None}
BY DEF Job

LEMMA BecomesJob ==
    ASSUME TypeOK, NEW k \in Callers, NEW s \in Stores, NEW j \in Job,
           Becomes(k, s, j)
    PROVE  /\ job' \in [Callers -> [Stores -> Job]]
           /\ job'[k][s] = j
<1>1. job \in [Callers -> [Stores -> Job]]
  BY DEF TypeOK
<1>2. job' = [job EXCEPT ![k] = [job[k] EXCEPT ![s] = j]]
  BY DEF Becomes
<1>3. [job[k] EXCEPT ![s] = j] \in [Stores -> Job]
  BY <1>1
<1> QED BY <1>1, <1>2, <1>3

LEMMA StartedJob ==
    Started \in Job /\ Started.at = "start" /\ ~ Started.moved /\ Started.src = "Queue"
BY DEF Started, Underway, Job, Dirs

Steps == {"start", "write", "move", "removeResults", "writeResults", "queue", "notNow"}

LEMMA ThenJob ==
    ASSUME TypeOK, NEW k \in Callers, NEW s \in Stores, NEW step \in Steps,
           Then(k, s, step)
    PROVE  /\ job' \in [Callers -> [Stores -> Job]]
           /\ job'[k][s].at = step /\ job'[k][s].src = job[k][s].src
           /\ job'[k][s].moved <=> job[k][s].moved
<1>1. job[k][s].src \in Dirs /\ job[k][s].moved \in BOOLEAN
  BY JobFields DEF TypeOK
<1>2. PICK j : j = Underway(step, job[k][s].src, job[k][s].moved)
  OBVIOUS
<1>3. /\ j \in Job /\ j.at = step /\ j.src = job[k][s].src
      /\ j.moved <=> job[k][s].moved
  BY <1>1, <1>2 DEF Underway, Job, Steps
<1>4. Becomes(k, s, j)
  BY <1>2 DEF Then
<1> QED BY <1>3, <1>4, BecomesJob

LEMMA DoneJob ==
    ASSUME TypeOK, NEW k \in Callers, NEW s \in Stores,
           NEW c \in Commands \cup {None}, Done(k, s, c)
    PROVE  /\ job' \in [Callers -> [Stores -> Job]]
           /\ job'[k][s].at = "done" /\ job'[k][s].src = "Queue"
           /\ job'[k][s].moved <=> job[k][s].moved
           /\ job'[k][s].val = c
<1>1. job[k][s].moved \in BOOLEAN
  BY JobFields DEF TypeOK
<1>2. PICK j : j = Outcome("done", job[k][s].moved, c)
  OBVIOUS
<1>3. /\ j \in Job /\ j.at = "done" /\ j.src = "Queue"
      /\ j.moved <=> job[k][s].moved
      /\ j.val = c
  BY <1>1, <1>2 DEF Outcome, Job, Dirs, Over
<1>4. Becomes(k, s, j)
  BY <1>2 DEF Done
<1> QED BY <1>3, <1>4, BecomesJob

LEMMA FailedJob ==
    ASSUME TypeOK, NEW k \in Callers, NEW s \in Stores, Failed(k, s)
    PROVE  /\ job' \in [Callers -> [Stores -> Job]]
           /\ job'[k][s].at = "failed" /\ job'[k][s].src = "Queue"
           /\ job'[k][s].moved <=> job[k][s].moved
<1>1. job[k][s].moved \in BOOLEAN
  BY JobFields DEF TypeOK
<1>2. PICK j : j = Outcome("failed", job[k][s].moved, None)
  OBVIOUS
<1>3. /\ j \in Job /\ j.at = "failed" /\ j.src = "Queue"
      /\ j.moved <=> job[k][s].moved
  BY <1>1, <1>2 DEF Outcome, Job, Dirs, Over
<1>4. Becomes(k, s, j)
  BY <1>2 DEF Failed
<1> QED BY <1>3, <1>4, BecomesJob

-----------------------------------------------------------------------------
(* The calls *)

LEMMA CallOf ==
    ASSUME TypeOK, CallInv, NEW k \in Callers
    PROVE  /\ call[k].op = "EnqueueCommand" =>
                 k = "api" /\ call[k].uuid \in Commands /\ call[k].uuid \in issued
           /\ call[k].op \in {"StoreCommandReport", "RetrieveNextCommand", "ClearQueue"}
                 => k = "client"
           /\ call[k].op = "StoreCommandReport" =>
                 /\ call[k].uuid = held /\ held \in Commands
                 /\ call[k].status \in {"NotNow", "Acknowledged"}
<1>1. k = "api" \/ k = "client"
  BY Constants
<1>2. call[k] \in Call /\ held \in Commands \cup {None} /\ issued \subseteq Commands
  BY DEF TypeOK
<1>3. call[k].status \in {"Idle", "NotNow", "Acknowledged"}
  BY <1>2 DEF Call
<1> QED BY <1>1, <1>2, <1>3 DEF CallInv, Reporting

-----------------------------------------------------------------------------
(* What a step does to what a storage holds *)

SameFiles(s) ==
    /\ blank'[s] = blank[s]
    /\ \A d \in Dirs, c \in Commands : Exists(s, d, c)' <=> Exists(s, d, c)

SameTables(s) ==
    order'[s] = order[s] /\ result'[s] = result[s] /\ inactive'[s] = inactive[s]

SameStore(s) == SameFiles(s) /\ SameTables(s)

SameView(s) ==
    /\ Waiting(s)' = Waiting(s) /\ Deferred(s)' = Deferred(s)
    /\ Ended(s)' = Ended(s)
    /\ Stored(s)' = Stored(s) /\ Readable(s)' = Readable(s)

LEMMA StoreUnchanged ==
    ASSUME NEW s \in Stores, kind' = kind, SameStore(s)
    PROVE  SameView(s)
<1>1. CASE kind[s] = "sql"
  <2>1. Rows(s)' = Rows(s) /\ Answered(s)' = Answered(s)
    BY DEF SameStore, SameTables, Rows, Answered
  <2>2. Waiting(s)' = Waiting(s)
    BY <1>1, <2>1 DEF Waiting, SameStore, SameTables
  <2> QED BY <1>1, <2>1, <2>2 DEF SameView, Deferred, Ended, Stored, Readable,
          SameStore, SameTables
<1>2. CASE kind[s] # "sql"
  <2>1. {"Queue", "QueueNotNow", "QueueDone", "QueueInactive"} = Dirs
    BY DEF Dirs
  <2>2. \A c \in Commands :
           /\ Exists(s, "Queue", c)' <=> Exists(s, "Queue", c)
           /\ Exists(s, "QueueNotNow", c)' <=> Exists(s, "QueueNotNow", c)
           /\ Exists(s, "QueueDone", c)' <=> Exists(s, "QueueDone", c)
           /\ Exists(s, "QueueInactive", c)' <=> Exists(s, "QueueInactive", c)
    BY <2>1 DEF SameStore, SameFiles
  <2>3. blank'[s] = blank[s] /\ kind'[s] # "sql"
    BY <1>2 DEF SameStore, SameFiles
  <2>4. Waiting(s)' = Waiting(s)
    BY <1>2, <2>2, <2>3 DEF Waiting
  <2>5. Deferred(s)' = Deferred(s)
    BY <1>2, <2>2, <2>3 DEF Deferred
  <2>6. Ended(s)' = Ended(s)
    BY <1>2, <2>2, <2>3 DEF Ended
  <2>7. Stored(s)' = Stored(s)
    BY <1>2, <2>2, <2>3 DEF Stored, Dirs
  <2> QED BY <1>2, <2>3, <2>4, <2>5, <2>6, <2>7 DEF SameView, Readable
<1> QED BY <1>1, <1>2

LEMMA FilesUnchanged ==
    ASSUME NEW s \in Stores, dir'[s] = dir[s], blank'[s] = blank[s]
    PROVE  SameFiles(s)
BY DEF SameFiles, Exists

(* EnqueueCommand in the file backend: the file is created, then written.  *)
LEMMA CreateEffect ==
    ASSUME TypeOK, NEW k \in Callers, NEW s \in Stores,
           call[k].uuid \in Commands, call[k].uuid \notin Stored(s),
           kind[s] = "file", kind' = kind, Create(k, s)
    PROVE  /\ \A c \in Commands, d \in Dirs :
                 Exists(s, d, c)' <=> Exists(s, d, c) \/ (c = call[k].uuid /\ d = "Queue")
           /\ blank'[s] = blank[s] \cup {call[k].uuid}
           /\ Waiting(s)' = Waiting(s) /\ Deferred(s)' = Deferred(s)
           /\ Ended(s)' = Ended(s)
           /\ Stored(s)' = Stored(s) \cup {call[k].uuid}
           /\ Readable(s)' = Readable(s)
<1> DEFINE u == call[k].uuid
<1>0. dir \in [Stores -> [Dirs -> SUBSET Files]] /\ blank \in [Stores -> SUBSET Commands]
  BY DEF TypeOK
<1>1. /\ dir' = [dir EXCEPT ![s]["Queue"] = @ \cup {<<u, "plist">>}]
      /\ blank' = [blank EXCEPT ![s] = @ \cup {u}]
  BY DEF Create
<1>2. \A d \in Dirs : dir'[s][d] = IF d = "Queue" THEN dir[s][d] \cup {<<u, "plist">>}
                                   ELSE dir[s][d]
  BY <1>0, <1>1 DEF Dirs
<1>3. \A c \in Commands, d \in Dirs :
          Exists(s, d, c)' <=> Exists(s, d, c) \/ (c = u /\ d = "Queue")
  <2> SUFFICES ASSUME NEW c \in Commands, NEW d \in Dirs
               PROVE  Exists(s, d, c)' <=> Exists(s, d, c) \/ (c = u /\ d = "Queue")
    OBVIOUS
  <2>1. <<c, "plist">> = <<u, "plist">> <=> c = u
    OBVIOUS
  <2>2. d = "Queue" => dir'[s][d] = dir[s][d] \cup {<<u, "plist">>}
    BY <1>2
  <2>3. d # "Queue" => dir'[s][d] = dir[s][d]
    BY <1>2
  <2> HIDE DEF u
  <2> QED BY <2>1, <2>2, <2>3 DEF Exists
<1>4. blank'[s] = blank[s] \cup {u}
  BY <1>0, <1>1
<1>5. kind[s] # "sql" /\ kind'[s] # "sql"
  BY DEF Create
<1>6. \A d \in Dirs : ~ Exists(s, d, u)
  BY <1>5 DEF Stored
<1>7. {"Queue", "QueueNotNow", "QueueDone", "QueueInactive"} = Dirs
  BY DEF Dirs
<1> HIDE DEF u
<1>8. u \in Commands /\ u \notin Stored(s)
  BY DEF u
<1>9. Waiting(s)' = Waiting(s)
  BY <1>3, <1>4, <1>5, <1>6, <1>7 DEF Waiting
<1>10. Deferred(s)' = Deferred(s)
  BY <1>3, <1>5, <1>7 DEF Deferred
<1>11. Ended(s)' = Ended(s)
  BY <1>3, <1>5, <1>7 DEF Ended
<1>12. Stored(s)' = Stored(s) \cup {u}
  BY <1>3, <1>5, <1>7, <1>8 DEF Stored
<1>13. Readable(s)' = Readable(s)
  BY <1>4, <1>5, <1>8, <1>12 DEF Readable
<1> QED BY <1>3, <1>4, <1>9, <1>10, <1>11, <1>12, <1>13 DEF u

LEMMA WriteEffect ==
    ASSUME TypeOK, NEW k \in Callers, NEW s \in Stores,
           call[k].uuid \in Commands, Exists(s, "Queue", call[k].uuid),
           kind[s] = "file", kind' = kind, Write(k, s)
    PROVE  /\ \A c \in Commands, d \in Dirs : Exists(s, d, c)' <=> Exists(s, d, c)
           /\ blank'[s] = blank[s] \ {call[k].uuid}
           /\ Waiting(s)' = Waiting(s) \cup {call[k].uuid}
           /\ Deferred(s)' = Deferred(s) /\ Ended(s)' = Ended(s)
           /\ Stored(s)' = Stored(s)
           /\ Readable(s)' = Readable(s) \cup {call[k].uuid}
<1> DEFINE u == call[k].uuid
<1>1. dir' = dir /\ blank'[s] = blank[s] \ {u}
  BY DEF Write, TypeOK
<1>2. kind[s] # "sql" /\ kind'[s] # "sql"
  OBVIOUS
<1>3. \A c \in Commands, d \in Dirs : Exists(s, d, c)' <=> Exists(s, d, c)
  BY <1>1 DEF Exists
<1>4. {"Queue", "QueueNotNow", "QueueDone", "QueueInactive"} = Dirs
  BY DEF Dirs
<1>5. u \in Commands /\ Exists(s, "Queue", u)
  OBVIOUS
<1> HIDE DEF u
<1>6. Waiting(s)' = Waiting(s) \cup {u}
  BY <1>1, <1>2, <1>3, <1>4, <1>5 DEF Waiting
<1>7. Deferred(s)' = Deferred(s)
  BY <1>2, <1>3, <1>4 DEF Deferred
<1>8. Ended(s)' = Ended(s)
  BY <1>2, <1>3, <1>4 DEF Ended
<1>9. Stored(s)' = Stored(s) /\ u \in Stored(s)
  BY <1>2, <1>3, <1>4, <1>5 DEF Stored
<1>10. Readable(s)' = Readable(s) \cup {u}
  BY <1>1, <1>2, <1>9 DEF Readable
<1> QED BY <1>1, <1>3, <1>6, <1>7, <1>8, <1>9, <1>10 DEF u

(* A command's file is moved. *)
LEMMA RenamedDirs ==
    ASSUME TypeOK, NEW s \in Stores, NEW c \in Commands, NEW from, NEW to,
           Renamed(s, from, to, c)
    PROVE  /\ dir' \in [Stores -> [Dirs -> SUBSET Files]]
           /\ \A e \in Commands, d \in Dirs :
                 Exists(s, d, e)' <=> IF e = c /\ d \in {from, to} THEN d = to
                                     ELSE Exists(s, d, e)
           /\ \A e \in Commands, d \in Dirs :
                 <<e, "result.plist">> \in dir'[s][d] <=> <<e, "result.plist">> \in dir[s][d]
           /\ \A d \in Dirs \ {from, to} : dir'[s][d] = dir[s][d]
<1> DEFINE f == <<c, "plist">>
           D(d) == IF d = to THEN dir[s][d] \cup {f}
                   ELSE IF d = from THEN dir[s][d] \ {f} ELSE dir[s][d]
           g == [d \in Dirs |-> D(d)]
<1>1. dir \in [Stores -> [Dirs -> SUBSET Files]] /\ f \in Files
  BY DEF TypeOK, Files
<1>2. dir' = [dir EXCEPT ![s] = g]
  BY DEF Renamed
<1>3. g \in [Dirs -> SUBSET Files]
  BY <1>1
<1> HIDE DEF g
<1>4. dir' \in [Stores -> [Dirs -> SUBSET Files]] /\ dir'[s] = g
  BY <1>1, <1>2, <1>3
<1>5. \A d \in Dirs : dir'[s][d] = D(d)
  BY <1>4 DEF g
<1>6. ASSUME NEW e \in Commands, NEW d \in Dirs
      PROVE  /\ Exists(s, d, e)' <=> IF e = c /\ d \in {from, to} THEN d = to
                                     ELSE Exists(s, d, e)
             /\ <<e, "result.plist">> \in dir'[s][d] <=> <<e, "result.plist">> \in dir[s][d]
  <2>1. (<<e, "plist">> = f <=> e = c) /\ <<e, "result.plist">> # f
    OBVIOUS
  <2>2. dir'[s][d] = D(d)
    BY <1>5
  <2> HIDE DEF f
  <2> QED BY <2>1, <2>2 DEF Exists
<1>7. \A d \in Dirs \ {from, to} : dir'[s][d] = dir[s][d]
  BY <1>5
<1> QED BY <1>4, <1>6, <1>7

LEMMA RenamedEffect ==
    ASSUME TypeOK, NEW s \in Stores, NEW c \in Commands,
           NEW from \in {"Queue", "QueueNotNow"}, NEW to \in Dirs,
           FilesInv(s), Exists(s, from, c), Renamed(s, from, to, c),
           kind[s] = "file", kind' = kind, blank'[s] = blank[s]
    PROVE  /\ \A e \in Commands, d \in Dirs :
                 Exists(s, d, e)' <=> IF e = c THEN d = to ELSE Exists(s, d, e)
           /\ Waiting(s)' = IF to \in {"Queue", "QueueNotNow"} THEN Waiting(s)
                            ELSE Waiting(s) \ {c}
           /\ Deferred(s)' = IF to = "QueueNotNow" THEN Deferred(s) \cup {c}
                             ELSE Deferred(s) \ {c}
           /\ Ended(s)' = IF to \in {"QueueDone", "QueueInactive"} THEN Ended(s) \cup {c}
                          ELSE Ended(s)
           /\ Stored(s)' = Stored(s) /\ Readable(s)' = Readable(s)
           /\ c \in Stored(s) /\ c \notin Ended(s)
<1>1. \A d \in Dirs : Exists(s, d, c) => d = from
  BY DEF FilesInv, Dirs
<1>5. \A e \in Commands, d \in Dirs :
          Exists(s, d, e)' <=> IF e = c THEN d = to ELSE Exists(s, d, e)
  BY <1>1, RenamedDirs
<1>6. {"Queue", "QueueNotNow", "QueueDone", "QueueInactive"} = Dirs
  BY DEF Dirs
<1>7. kind[s] # "sql" /\ kind'[s] # "sql"
  OBVIOUS
<1>8. Waiting(s)' = IF to \in {"Queue", "QueueNotNow"} THEN Waiting(s)
                    ELSE Waiting(s) \ {c}
  BY <1>5, <1>6, <1>7 DEF Waiting
<1>9. Deferred(s)' = IF to = "QueueNotNow" THEN Deferred(s) \cup {c}
                     ELSE Deferred(s) \ {c}
  BY <1>5, <1>6, <1>7 DEF Deferred
<1>10. Ended(s)' = IF to \in {"QueueDone", "QueueInactive"} THEN Ended(s) \cup {c}
                   ELSE Ended(s)
  BY <1>1, <1>5, <1>6, <1>7 DEF Ended
<1>11. Stored(s)' = Stored(s) /\ c \in Stored(s) /\ c \notin Ended(s)
  BY <1>1, <1>5, <1>6, <1>7 DEF Stored, Ended
<1>12. Readable(s)' = Readable(s)
  BY <1>7, <1>11 DEF Readable
<1> QED BY <1>5, <1>8, <1>9, <1>10, <1>11, <1>12

(* The statements of a database *)
LEMMA InsertRowEffect ==
    ASSUME TypeOK, NEW k \in Callers, NEW s \in Stores,
           call[k].uuid \in Commands, call[k].uuid \notin Stored(s), TableInv(s),
           kind[s] = "sql", kind' = kind, InsertRow(k, s)
    PROVE  /\ Rows(s)' = Rows(s) \cup {call[k].uuid}
           /\ inactive'[s] = inactive[s] /\ result'[s] = result[s]
           /\ Waiting(s)' = Waiting(s) \cup {call[k].uuid}
           /\ Deferred(s)' = Deferred(s) /\ Ended(s)' = Ended(s)
           /\ Stored(s)' = Stored(s) \cup {call[k].uuid}
           /\ Readable(s)' = Readable(s) \cup {call[k].uuid}
<1> DEFINE u == call[k].uuid
<1>1. order[s] \in Seq(Commands) /\ order'[s] = Append(order[s], u)
  BY DEF InsertRow, TypeOK
<1>2. inactive' = inactive /\ result' = result
  BY DEF InsertRow
<1>3. u \in Commands
  OBVIOUS
<1>4. u \notin Rows(s)
  BY DEF Stored
<1> HIDE DEF u
<1>5. Rows(s)' = Rows(s) \cup {u}
  <2>1. /\ DOMAIN order'[s] = DOMAIN order[s] \cup {Len(order[s]) + 1}
        /\ order'[s][Len(order[s]) + 1] = u
        /\ \A i \in DOMAIN order[s] : order'[s][i] = order[s][i]
    BY <1>1, <1>3
  <2> QED BY <2>1 DEF Rows, ToSet
<1>6. Answered(s)' = Answered(s) /\ u \notin inactive[s] \cup Answered(s)
      /\ result[s][u] = "none"
  <2>1. \A c \in Commands : result[s][c] # "none" => c \in Rows(s)
    BY DEF TableInv
  <2>2. inactive[s] \subseteq Rows(s)
    BY DEF TableInv
  <2> QED BY <1>2, <1>3, <1>4, <2>1, <2>2 DEF Answered
<1>7. Waiting(s)' = Waiting(s) \cup {u}
  BY <1>2, <1>5, <1>6 DEF Waiting
<1>8. Deferred(s)' = Deferred(s)
  BY <1>2, <1>6, <1>7 DEF Deferred
<1>9. Ended(s)' = Ended(s)
  BY <1>2, <1>6 DEF Ended
<1> QED BY <1>2, <1>5, <1>7, <1>8, <1>9 DEF u, Stored, Readable

LEMMA UpsertEffect ==
    ASSUME TypeOK, NEW k \in Callers, NEW s \in Stores, NEW c \in Rows(s),
           c \in Commands, TableInv(s), NEW status \in {"NotNow", "Acknowledged"},
           status = "NotNow" => c \notin settled,
           \A d \in Commands : result'[s][d] = IF d = c THEN status ELSE result[s][d],
           kind[s] = "sql", kind' = kind, order' = order, inactive' = inactive
    PROVE  /\ Rows(s)' = Rows(s) /\ Readable(s)' = Readable(s) /\ Stored(s)' = Stored(s)
           /\ IF status = "NotNow"
              THEN /\ Waiting(s)' = Waiting(s) /\ Ended(s)' = Ended(s)
                   /\ Deferred(s)' = Deferred(s) \cup ({c} \cap Waiting(s))
              ELSE /\ Waiting(s)' = Waiting(s) \ {c} /\ Ended(s)' = Ended(s) \cup {c}
                   /\ Deferred(s)' = Deferred(s) \ {c}
<1>2. \A d \in Commands : result'[s][d] = IF d = c THEN status ELSE result[s][d]
  OBVIOUS
<1>3. Rows(s)' = Rows(s)
  BY DEF Rows
<1>4. CASE status = "NotNow"
  <2>1. result[s][c] # "Acknowledged"
    BY <1>4 DEF TableInv
  <2>2. Answered(s)' = Answered(s)
    BY <1>2, <1>4, <2>1 DEF Answered
  <2>3. Waiting(s)' = Waiting(s)
    BY <1>3, <2>2 DEF Waiting
  <2>4. Waiting(s) \subseteq Commands
    BY DEF Waiting, Rows, ToSet, TypeOK
  <2>5. Deferred(s)' = Deferred(s) \cup ({c} \cap Waiting(s))
    BY <1>2, <1>4, <2>3, <2>4 DEF Deferred
  <2> QED BY <1>2, <1>3, <1>4, <2>2, <2>3, <2>5 DEF Ended, Readable, Stored
<1>5. CASE status # "NotNow"
  <2>0. status = "Acknowledged"
    BY <1>5
  <2>2. Answered(s)' = Answered(s) \cup {c}
    BY <1>2, <2>0 DEF Answered
  <2>3. Waiting(s)' = Waiting(s) \ {c}
    BY <1>3, <2>2 DEF Waiting
  <2>4. Waiting(s) \subseteq Commands
    BY DEF Waiting, Rows, ToSet, TypeOK
  <2>5. Deferred(s)' = Deferred(s) \ {c}
    BY <1>2, <2>0, <2>3, <2>4 DEF Deferred
  <2>6. Ended(s)' = Ended(s) \cup {c}
    BY <2>2 DEF Ended
  <2> QED BY <1>2, <1>3, <1>5, <2>3, <2>5, <2>6 DEF Readable, Stored
<1> QED BY <1>4, <1>5

LEMMA DeactivateEffect ==
    ASSUME TypeOK, NEW k \in Callers, NEW s \in Stores, TableInv(s),
           kind[s] = "sql", kind' = kind, Deactivate(k, s)
    PROVE  /\ Rows(s)' = Rows(s) /\ inactive'[s] = inactive[s] \cup Waiting(s)
           /\ Waiting(s)' = {} /\ Deferred(s)' = {}
           /\ Ended(s)' = Ended(s) \cup Waiting(s)
           /\ Stored(s)' = Stored(s) /\ Readable(s)' = Readable(s)
<1>1. order' = order /\ result' = result /\ inactive'[s] = inactive[s] \cup Waiting(s)
  BY DEF Deactivate, TypeOK
<1>2. Rows(s)' = Rows(s) /\ Answered(s)' = Answered(s)
  BY <1>1 DEF Rows, Answered
<1>3. Waiting(s)' = {}
  BY <1>1, <1>2 DEF Waiting
<1>4. Deferred(s)' = {}
  BY <1>3 DEF Deferred
<1>5. Ended(s)' = Ended(s) \cup Waiting(s)
  BY <1>1, <1>2 DEF Ended
<1> QED BY <1>1, <1>2, <1>3, <1>4, <1>5 DEF Stored, Readable

-----------------------------------------------------------------------------
(* What a step of a goroutine leaves alone *)

LEMMA JobFrame ==
    ASSUME TypeOK, NEW k \in Callers, NEW s \in Stores,
           (\E j : Becomes(k, s, j)) \/ job' = job
    PROVE  \A l \in Callers, t \in Stores : l # k \/ t # s => job'[l][t] = job[l][t]
<1>1. CASE job' = job
  BY <1>1
<1>2. CASE \E j : Becomes(k, s, j)
  <2>1. PICK j : Becomes(k, s, j)
    BY <1>2
  <2>2. job' = [job EXCEPT ![k] = [job[k] EXCEPT ![s] = j]]
    BY <2>1 DEF Becomes
  <2>3. job \in [Callers -> [Stores -> Job]]
    BY DEF TypeOK
  <2> QED BY <2>2, <2>3
<1> QED BY <1>1, <1>2

Frame(s) ==
    /\ kind' = kind /\ call' = call /\ held' = held
    /\ settled' = settled /\ issued' = issued
    /\ fails' = fails \/ (fails < MaxFail /\ fails' = fails + 1)
    /\ \A t \in Stores : t # s => /\ dir'[t] = dir[t] /\ blank'[t] = blank[t]
                               /\ SameTables(t)

LEMMA JobChange ==
    ASSUME NEW k \in Callers, NEW s \in Stores, Run(k, s)
    PROVE  (\E j : Becomes(k, s, j)) \/ job' = job
<1>1. ASSUME \/ \E step : Then(k, s, step)
             \/ \E c : Done(k, s, c)
             \/ Failed(k, s)
      PROVE  \E j : Becomes(k, s, j)
  BY <1>1 DEF Then, Done, Failed
<1>2. CASE FileStep(k, s)
  <2>1. CASE Create(k, s) \/ Write(k, s) \/ RemoveResults(k, s) \/ WriteResults(k, s)
             \/ StepFails(k, s)
    BY <1>1, <2>1 DEF Create, Write, RemoveResults, WriteResults, StepFails
  <2>2. CASE Locate(k, s) \/ Move(k, s)
    BY <1>1, <2>2 DEF Locate, Move
  <2>3. CASE NextNotNow(k, s) \/ NextQueued(k, s)
    BY <1>1, <2>3 DEF NextNotNow, NextQueued, Got
  <2>4. CASE ClearQueued(k, s) \/ ClearNotNow(k, s)
    BY <1>1, <2>4 DEF ClearQueued, ClearNotNow, ClearedFrom
  <2> QED BY <1>2, <2>1, <2>2, <2>3, <2>4 DEF FileStep
<1>3. CASE DatabaseStep(k, s)
  BY <1>1, <1>3 DEF DatabaseStep, InsertRow, UpsertResult, SelectNext, Deactivate,
     StatementFails
<1> QED BY <1>2, <1>3 DEF Run

LEMMA RunFrame ==
    ASSUME TypeOK, NEW k \in Callers, NEW s \in Stores, Run(k, s)
    PROVE  /\ Frame(s)
           /\ \A l \in Callers, t \in Stores : l # k \/ t # s => job'[l][t] = job[l][t]
<1>1. kind' = kind /\ held' = held /\ settled' = settled /\ issued' = issued
  BY DEF Run
<1>2. ASSUME FileStep(k, s)
      PROVE  /\ call' = call
             /\ fails' = fails \/ (fails < MaxFail /\ fails' = fails + 1)
             /\ \A t \in Stores : t # s => dir'[t] = dir[t] /\ blank'[t] = blank[t]
  <2>0. dir \in [Stores -> [Dirs -> SUBSET Files]] /\ blank \in [Stores -> SUBSET Commands]
    BY DEF TypeOK
  <2>1. CASE Create(k, s) \/ Write(k, s) \/ RemoveResults(k, s) \/ WriteResults(k, s)
    BY <2>0, <2>1 DEF Create, Write, RemoveResults, WriteResults
  <2>2. CASE Locate(k, s) \/ Move(k, s)
    BY <2>0, <2>2 DEF Locate, Move, Renamed
  <2>3. CASE NextNotNow(k, s) \/ NextQueued(k, s)
    BY <2>3 DEF NextNotNow, NextQueued
  <2>4. CASE ClearQueued(k, s) \/ ClearNotNow(k, s)
    BY <2>0, <2>4 DEF ClearQueued, ClearNotNow, ClearedFrom, Renamed
  <2>5. CASE StepFails(k, s)
    BY <2>5 DEF StepFails
  <2> QED BY <1>2, <2>1, <2>2, <2>3, <2>4, <2>5 DEF FileStep
<1>3. ASSUME DatabaseStep(k, s)
      PROVE  /\ fails' = fails \/ (fails < MaxFail /\ fails' = fails + 1)
             /\ \A t \in Stores : t # s => SameTables(t)
  BY <1>3 DEF DatabaseStep, InsertRow, UpsertResult, SelectNext, Deactivate,
     StatementFails, tables, TypeOK, SameTables
<1>4. Frame(s)
  BY <1>1, <1>2, <1>3 DEF Run, Frame, tables, files, SameTables
<1> QED BY <1>4, JobChange, JobFrame

-----------------------------------------------------------------------------
(* Types *)

LEMMA FoundCommand ==
    ASSUME TypeOK, NEW s \in Stores, NEW d \in Dirs, Finds(s, d) = "command"
    PROVE  /\ FirstUUID(s, d) \in Commands /\ Exists(s, d, FirstUUID(s, d))
           /\ FirstUUID(s, d) \notin blank[s]
<1>1. Decodes(s, d)
  BY DEF Finds
<1>2. <<FirstUUID(s, d), "plist">> \in dir[s][d] /\ FirstUUID(s, d) \notin blank[s]
  BY <1>1 DEF Decodes, NextIsCommand
<1>3. dir[s][d] \subseteq Commands \X {"plist", "result.plist"}
  BY DEF TypeOK, Files
<1>4. PICK c : c = FirstUUID(s, d)
  OBVIOUS
<1>5. c \in Commands
  BY <1>2, <1>3, <1>4
<1> QED BY <1>2, <1>4, <1>5 DEF Exists

LEMMA GotJob ==
    ASSUME TypeOK, NEW k \in Callers, NEW s \in Stores, NEW d \in Dirs, Got(k, s, d)
    PROVE  /\ job' \in [Callers -> [Stores -> Job]]
           /\ job'[k][s].at \in Over /\ job'[k][s].src = "Queue"
           /\ job'[k][s].moved <=> job[k][s].moved
           /\ job'[k][s].at = "done" =>
                 /\ job'[k][s].val \in Commands /\ Exists(s, d, job'[k][s].val)
                 /\ job'[k][s].val \notin blank[s]
<1>1. CASE Finds(s, d) = "command" /\ Done(k, s, FirstUUID(s, d))
  <2>1. PICK c : c = FirstUUID(s, d)
    OBVIOUS
  <2>2. c \in Commands /\ Exists(s, d, c) /\ c \notin blank[s]
    BY <1>1, <2>1, FoundCommand
  <2>3. Done(k, s, c)
    BY <1>1, <2>1
  <2> QED BY <2>2, <2>3, DoneJob DEF Over
<1>2. CASE Finds(s, d) = "error" /\ Failed(k, s)
  BY <1>2, FailedJob DEF Over
<1> QED BY <1>1, <1>2 DEF Got

LEMMA SourceDir ==
    ASSUME NEW s \in Stores, NEW c
    PROVE  Source(s, c) \in {"Queue", "QueueNotNow"} /\ Source(s, c) \in Dirs
BY DEF Source, Dirs

LEMMA LocateJob ==
    ASSUME TypeOK, NEW k \in Callers, NEW s \in Stores, Locate(k, s)
    PROVE  /\ job' \in [Callers -> [Stores -> Job]]
           /\ job'[k][s].at = "move" /\ job'[k][s].src = Source(s, call[k].uuid)
           /\ ~ job'[k][s].moved
<1>1. PICK j : j = Underway("move", Source(s, call[k].uuid), FALSE)
  OBVIOUS
<1>2. Becomes(k, s, j)
  BY <1>1 DEF Locate
<1>3. Source(s, call[k].uuid) \in Dirs
  BY DEF Source, Dirs
<1>4. /\ j \in Job /\ j.at = "move" /\ j.src = Source(s, call[k].uuid)
      /\ ~ j.moved
  BY <1>1, <1>3 DEF Underway, Job
<1> QED BY <1>2, <1>4, BecomesJob

LEMMA MoveJob ==
    ASSUME TypeOK, NEW k \in Callers, NEW s \in Stores, Move(k, s),
           Exists(s, job[k][s].src, call[k].uuid)
    PROVE  /\ job' \in [Callers -> [Stores -> Job]]
           /\ job'[k][s].at = IF job[k][s].src = "QueueNotNow" THEN "removeResults"
                              ELSE "writeResults"
           /\ job'[k][s].src = job[k][s].src
           /\ job'[k][s].moved
<1>1. PICK j : j = Underway(IF job[k][s].src = "QueueNotNow" THEN "removeResults"
                            ELSE "writeResults", job[k][s].src, TRUE)
  OBVIOUS
<1>2. Becomes(k, s, j)
  BY <1>1 DEF Move
<1>3. job[k][s].src \in Dirs
  BY JobFields DEF TypeOK
<1>4. /\ j \in Job /\ j.src = job[k][s].src /\ j.moved
      /\ j.at = IF job[k][s].src = "QueueNotNow" THEN "removeResults" ELSE "writeResults"
  BY <1>1, <1>3 DEF Underway, Job
<1> QED BY <1>2, <1>4, BecomesJob

LEMMA UpsertJob ==
    ASSUME TypeOK, NEW k \in Callers, NEW s \in Stores, UpsertResult(k, s),
           call[k].uuid \in Rows(s)
    PROVE  /\ job' \in [Callers -> [Stores -> Job]]
           /\ job'[k][s].at = "done" /\ job'[k][s].src = "Queue"
           /\ job'[k][s].moved
<1>1. PICK j : j = Outcome("done", TRUE, None)
  OBVIOUS
<1>2. Becomes(k, s, j)
  BY <1>1 DEF UpsertResult
<1>3. /\ j \in Job /\ j.at = "done" /\ j.src = "Queue" /\ j.moved
  BY <1>1 DEF Outcome, Job, Dirs, Over
<1> QED BY <1>2, <1>3, BecomesJob

LEMMA SelectJob ==
    ASSUME TypeOK, NEW k \in Callers, NEW s \in Stores, SelectNext(k, s)
    PROVE  /\ job' \in [Callers -> [Stores -> Job]]
           /\ job'[k][s].at = "done" /\ job'[k][s].src = "Queue"
           /\ job'[k][s].moved <=> job[k][s].moved
           /\ \/ job'[k][s].val = None /\ Rank(k, s) = {}
              \/ \E i \in Rank(k, s) : job'[k][s].val = order[s][i]
<1>1. CASE Rank(k, s) = {} /\ Done(k, s, None)
  BY <1>1, DoneJob
<1>2. CASE \E i \in Rank(k, s) : Done(k, s, order[s][i])
  <2>1. PICK i \in Rank(k, s) : Done(k, s, order[s][i])
    BY <1>2
  <2>2. PICK c : c = order[s][i]
    OBVIOUS
  <2>3. c \in Commands
    BY <2>2 DEF Rank, TypeOK
  <2>4. Done(k, s, c)
    BY <2>1, <2>2
  <2> QED BY <2>2, <2>3, <2>4, DoneJob
<1> QED BY <1>1, <1>2 DEF SelectNext

LEMMA RunType ==
    ASSUME TypeOK, CallInv, NEW k \in Callers, NEW s \in Stores, Run(k, s)
    PROVE  TypeOK'
<1>0. /\ call \in [Callers -> Call] /\ kind \in Kinds
      /\ held \in Commands \cup {None} /\ settled \subseteq Commands
      /\ issued \subseteq Commands /\ fails \in 0 .. MaxFail
      /\ dir \in [Stores -> [Dirs -> SUBSET Files]]
      /\ blank \in [Stores -> SUBSET Commands] /\ order \in [Stores -> Seq(Commands)]
      /\ result \in [Stores -> [Commands -> Statuses]]
      /\ inactive \in [Stores -> SUBSET Commands]
  BY DEF TypeOK
<1>1. /\ call' \in [Callers -> Call] /\ kind' \in Kinds
      /\ held' \in Commands \cup {None} /\ settled' \subseteq Commands
      /\ issued' \subseteq Commands /\ fails' \in 0 .. MaxFail
  <2>1. Frame(s)
    BY RunFrame
  <2>2. fails' \in 0 .. MaxFail
    BY <1>0, <2>1, AllMultiAssumption DEF Frame
  <2> QED BY <1>0, <2>1, <2>2 DEF Frame
<1>2. ASSUME kind[s] = "file", FileStep(k, s), UNCHANGED tables
      PROVE  /\ job' \in [Callers -> [Stores -> Job]]
             /\ dir' \in [Stores -> [Dirs -> SUBSET Files]]
             /\ blank' \in [Stores -> SUBSET Commands]
  <2>0. \A c \in Commands : <<c, "plist">> \in Files /\ <<c, "result.plist">> \in Files
    BY DEF Files
  <2>1. CASE Create(k, s)
    <3>1. call[k].uuid \in Commands
      BY <2>1, CallOf DEF Create, At
    <3>2. job' \in [Callers -> [Stores -> Job]]
      BY <2>1, ThenJob DEF Create, Steps
    <3> QED BY <1>0, <2>0, <2>1, <3>1, <3>2 DEF Create, Dirs
  <2>2. CASE Write(k, s)
    BY <1>0, <2>2, DoneJob DEF Write
  <2>3. CASE Locate(k, s)
    BY <1>0, <2>3, LocateJob DEF Locate
  <2>4. CASE Move(k, s)
    <3>1. call[k].uuid \in Commands
      BY <2>4, CallOf DEF Move, At
    <3>2. job' \in [Callers -> [Stores -> Job]]
      <4>1. CASE Exists(s, job[k][s].src, call[k].uuid)
        BY <2>4, <4>1, MoveJob
      <4>2. CASE ~ Exists(s, job[k][s].src, call[k].uuid)
        BY <2>4, <4>2, FailedJob DEF Move
      <4> QED BY <4>1, <4>2
    <3>3. dir' \in [Stores -> [Dirs -> SUBSET Files]]
      <4>1. CASE dir' = dir
        BY <1>0, <4>1
      <4>2. CASE Renamed(s, job[k][s].src, Destination(k), call[k].uuid)
        BY <3>1, <4>2, RenamedDirs
      <4> QED BY <2>4, <4>1, <4>2 DEF Move
    <3> QED BY <1>0, <2>4, <3>2, <3>3 DEF Move
  <2>5. CASE RemoveResults(k, s)
    <3>1. job' \in [Callers -> [Stores -> Job]]
      BY <2>5, ThenJob DEF RemoveResults, Steps
    <3>2. PICK g : /\ g = [dir[s] EXCEPT !["QueueNotNow"] = @ \ {<<call[k].uuid, "result.plist">>}]
                   /\ dir' = dir \/ dir' = [dir EXCEPT ![s] = g]
      BY <2>5 DEF RemoveResults
    <3>3. g \in [Dirs -> SUBSET Files]
      BY <1>0, <3>2 DEF Dirs
    <3>4. dir' \in [Stores -> [Dirs -> SUBSET Files]]
      BY <1>0, <3>2, <3>3
    <3> QED BY <1>0, <2>5, <3>1, <3>4 DEF RemoveResults
  <2>6. CASE WriteResults(k, s)
    <3>1. job' \in [Callers -> [Stores -> Job]]
      BY <2>6, DoneJob DEF WriteResults
    <3>2. call[k].uuid \in Commands /\ Destination(k) \in Dirs
      BY <2>6, CallOf DEF WriteResults, At, Destination, Dirs
    <3> QED BY <1>0, <2>0, <2>6, <3>1, <3>2 DEF WriteResults
  <2>7. CASE NextNotNow(k, s)
    <3>1. Then(k, s, "queue") \/ Got(k, s, "QueueNotNow")
      BY <2>7 DEF NextNotNow
    <3> QED BY <1>0, <2>7, <3>1, ThenJob, GotJob DEF NextNotNow, Dirs, Steps
  <2>8. CASE NextQueued(k, s)
    <3>1. Done(k, s, None) \/ Got(k, s, "Queue")
      BY <2>8 DEF NextQueued
    <3> QED BY <1>0, <2>8, <3>1, DoneJob, GotJob DEF NextQueued, Dirs
  <2>9. CASE ClearQueued(k, s) \/ ClearNotNow(k, s)
    <3>1. PICK d \in {"Queue", "QueueNotNow"} : ClearedFrom(k, s, d)
      BY <2>9 DEF ClearQueued, ClearNotNow
    <3>2. d \in Dirs /\ "QueueInactive" \in Dirs
      BY DEF Dirs
    <3>3. job' = job \/ Then(k, s, "notNow") \/ Done(k, s, None) \/ Failed(k, s)
      BY <3>1 DEF ClearedFrom
    <3>4. job' \in [Callers -> [Stores -> Job]]
      BY <3>3, ThenJob, DoneJob, FailedJob DEF TypeOK, Steps
    <3>5. dir' \in [Stores -> [Dirs -> SUBSET Files]]
      <4>1. CASE dir' = dir
        BY <1>0, <4>1
      <4>2. CASE Finds(s, d) = "command" /\ Renamed(s, d, "QueueInactive", FirstUUID(s, d))
        <5>1. FirstUUID(s, d) \in Commands
          BY <3>2, <4>2, FoundCommand
        <5> QED BY <4>2, <5>1, RenamedDirs
      <4> QED BY <3>1, <4>1, <4>2 DEF ClearedFrom
    <3> QED BY <1>0, <3>1, <3>4, <3>5 DEF ClearedFrom
  <2>10. CASE StepFails(k, s)
    BY <1>0, <2>10, FailedJob DEF StepFails
  <2> QED BY <1>2, <2>1, <2>2, <2>3, <2>4, <2>5, <2>6, <2>7, <2>8, <2>9, <2>10 DEF FileStep
<1>3. ASSUME kind[s] = "sql", DatabaseStep(k, s), UNCHANGED <<call, files>>
      PROVE  /\ job' \in [Callers -> [Stores -> Job]]
             /\ order' \in [Stores -> Seq(Commands)]
             /\ result' \in [Stores -> [Commands -> Statuses]]
             /\ inactive' \in [Stores -> SUBSET Commands]
  <2>1. CASE InsertRow(k, s)
    <3>1. call[k].uuid \in Commands
      BY <2>1, CallOf DEF InsertRow, At
    <3>2. order' \in [Stores -> Seq(Commands)]
      BY <1>0, <2>1, <3>1 DEF InsertRow
    <3> QED BY <1>0, <2>1, <3>2, DoneJob DEF InsertRow
  <2>2. CASE UpsertResult(k, s)
    <3>1. call[k].uuid \in Commands /\ call[k].status \in Statuses
      BY <2>2, CallOf DEF UpsertResult, At, Statuses
    <3>2. job' \in [Callers -> [Stores -> Job]]
      <4>1. CASE call[k].uuid \in Rows(s)
        BY <2>2, <4>1, UpsertJob
      <4>2. CASE call[k].uuid \notin Rows(s)
        BY <2>2, <4>2, FailedJob DEF UpsertResult
      <4> QED BY <4>1, <4>2
    <3>3. result' \in [Stores -> [Commands -> Statuses]]
      <4>1. PICK c, status : c = call[k].uuid /\ status = call[k].status
        OBVIOUS
      <4>2. result' = result \/ result' = [result EXCEPT ![s][c] = status]
        BY <2>2, <4>1 DEF UpsertResult
      <4>3. c \in Commands /\ status \in Statuses
        BY <3>1, <4>1
      <4>4. [result[s] EXCEPT ![c] = status] \in [Commands -> Statuses]
        BY <1>0, <4>3
      <4>5. result' = result \/ result' = [result EXCEPT ![s] = [result[s] EXCEPT ![c] = status]]
        BY <4>2
      <4> QED BY <1>0, <4>4, <4>5
    <3> QED BY <1>0, <2>2, <3>2, <3>3 DEF UpsertResult
  <2>3. CASE SelectNext(k, s)
    BY <1>0, <2>3, SelectJob DEF SelectNext, tables
  <2>4. CASE Deactivate(k, s)
    <3>1. Waiting(s) \subseteq Commands
      BY <1>0, <1>3 DEF Waiting, Rows, ToSet
    <3> QED BY <1>0, <2>4, <3>1, DoneJob DEF Deactivate
  <2>5. CASE StatementFails(k, s)
    BY <1>0, <2>5, FailedJob DEF StatementFails, tables
  <2> QED BY <1>3, <2>1, <2>2, <2>3, <2>4, <2>5 DEF DatabaseStep
<1> QED BY <1>0, <1>1, <1>2, <1>3 DEF Run, tables, files, TypeOK

-----------------------------------------------------------------------------
(* A step of a goroutine keeps what is known of its storage *)

Good(s) == StoreInv(s)' /\ Readable(s) \subseteq Readable(s)'

LEMMA ReportSame ==
    ASSUME NEW s \in Stores, ReportInv(s), call' = call,
           job'["client"][s] = job["client"][s] \/ ~ Reporting
    PROVE  ReportInv(s)'
BY DEF ReportInv, Reporting

LEMMA FreshSame ==
    ASSUME NEW s \in Stores, FreshInv(s), call' = call, issued' = issued,
           Stored(s)' = Stored(s),
           job'["api"][s].at = "start" => job["api"][s].at = "start"
    PROVE  FreshInv(s)'
BY DEF FreshInv, At

LEMMA FreshAdded ==
    ASSUME NEW s \in Stores, FreshInv(s), call' = call, issued' = issued,
           NEW u \in issued, Stored(s)' = Stored(s) \cup {u},
           job'["api"][s].at # "start"
    PROVE  FreshInv(s)'
BY DEF FreshInv, At

(* A step without effect on the files *)
LEMMA FilesSame ==
    ASSUME TypeOK, NEW s \in Stores, FilesInv(s), call' = call,
           \A d \in Dirs : dir'[s][d] = dir[s][d],
           blank'[s] = blank[s],
           At("api", s, "EnqueueCommand", "write")' => At("api", s, "EnqueueCommand", "write"),
           At("client", s, "ClearQueue", "notNow")' =>
              At("client", s, "ClearQueue", "notNow") \/ dir[s]["Queue"] = {},
           At("client", s, "RetrieveNextCommand", "queue")' /\ ~ Postponing =>
              At("client", s, "RetrieveNextCommand", "queue") \/ dir[s]["QueueNotNow"] = {}
    PROVE  FilesInv(s)' /\ SameFiles(s)
<1>1. \A d \in Dirs, c \in Commands : Exists(s, d, c)' <=> Exists(s, d, c)
  BY DEF Exists
<1>2. dir'[s]["Queue"] = dir[s]["Queue"] /\ dir'[s]["QueueNotNow"] = dir[s]["QueueNotNow"]
  BY DEF Dirs
<1>3. Postponing' <=> Postponing
  BY DEF Postponing
<1>4. \A c \in Commands, d \in Dirs, e \in Dirs :
          Exists(s, d, c)' /\ Exists(s, e, c)' => d = e
  BY <1>1 DEF FilesInv
<1> QED BY <1>1, <1>2, <1>3, <1>4 DEF FilesInv, SameFiles

(* The api's steps in the file backend *)
LEMMA CreateStep ==
    ASSUME TypeOK, CallInv, NEW k \in Callers, NEW s \in Stores, StoreInv(s),
           Run(k, s), kind[s] = "file", Create(k, s)
    PROVE  /\ Good(s) /\ k = "api" /\ call[k].uuid \in Commands
           /\ call[k].uuid \notin Stored(s)
           /\ job'["api"][s].at = "write"
<1>1. k = "api" /\ call[k].uuid \in Commands /\ call[k].uuid \in issued
  BY CallOf DEF Create, At
<1>2. Frame(s) /\ job'["client"][s] = job["client"][s]
  BY <1>1, RunFrame, Constants
<1>3. FreshInv(s) /\ FilesInv(s) /\ ReportInv(s)
  BY DEF StoreInv
<1>4. call[k].uuid \notin Stored(s)
  BY <1>1, <1>3 DEF FreshInv, Create
<1>5. kind' = kind /\ call' = call /\ issued' = issued
  BY <1>2 DEF Frame
<1> DEFINE u == call[k].uuid
<1>6. /\ \A c \in Commands, d \in Dirs :
            Exists(s, d, c)' <=> Exists(s, d, c) \/ (c = u /\ d = "Queue")
      /\ blank'[s] = blank[s] \cup {u}
      /\ Stored(s)' = Stored(s) \cup {u}
      /\ Readable(s)' = Readable(s)
  BY <1>1, <1>4, <1>5, CreateEffect
<1>7. job'["api"][s].at = "write"
  BY <1>1, ThenJob DEF Create, Steps
<1>8. FreshInv(s)'
  <2> HIDE DEF u
  <2>1. u \in issued
    BY <1>1 DEF u
  <2> QED BY <1>3, <1>5, <1>6, <1>7, <2>1, FreshAdded
<1>9. ReportInv(s)'
  BY <1>2, <1>3, <1>5, ReportSame
<1>10. dir'[s]["QueueNotNow"] = dir[s]["QueueNotNow"]
  BY DEF Create, TypeOK, Dirs
<1>11. \A d \in Dirs : ~ Exists(s, d, u)
  <2>1. kind[s] # "sql"
    OBVIOUS
  <2> QED BY <1>1, <1>4, <2>1 DEF Stored
<1>12. ~ At("client", s, "ClearQueue", "notNow")'
  BY <1>1, <1>5 DEF CallInv, Resting, At, Create
<1>13. FilesInv(s)'
  <2>1. \A c \in Commands, d \in Dirs, e \in Dirs :
            Exists(s, d, c)' /\ Exists(s, e, c)' => d = e
    <3> HIDE DEF u
    <3> QED BY <1>3, <1>6, <1>11 DEF FilesInv
  <2>2. At("api", s, "EnqueueCommand", "write")' => call'["api"].uuid \in blank'[s]
    BY <1>1, <1>5, <1>6
  <2>3. At("client", s, "RetrieveNextCommand", "queue")' /\ ~ Postponing' =>
           dir'[s]["QueueNotNow"] = {}
    BY <1>2, <1>3, <1>5, <1>10 DEF FilesInv, At, Postponing
  <2> QED BY <1>12, <2>1, <2>2, <2>3 DEF FilesInv
<1> QED BY <1>1, <1>4, <1>5, <1>6, <1>7, <1>8, <1>9, <1>13 DEF Good, StoreInv

LEMMA WriteStep ==
    ASSUME TypeOK, CallInv, NEW k \in Callers, NEW s \in Stores, StoreInv(s),
           Run(k, s), kind[s] = "file", Write(k, s)
    PROVE  /\ k = "api" /\ call[k].uuid \in Commands /\ call[k].uuid \in blank[s]
           /\ job'["api"][s].at = "done"
           /\ Good(s)
<1>1. k = "api" /\ call[k].uuid \in Commands /\ call[k].uuid \in issued
  BY CallOf DEF Write, At
<1>2. Frame(s) /\ job'["client"][s] = job["client"][s]
  BY <1>1, RunFrame, Constants
<1>3. FreshInv(s) /\ FilesInv(s) /\ ReportInv(s)
  BY DEF StoreInv
<1>4. call[k].uuid \in blank[s]
  BY <1>1, <1>3 DEF FilesInv, Write
<1>5. kind' = kind /\ call' = call /\ issued' = issued
  BY <1>2 DEF Frame
<1>6. job'["api"][s].at = "done"
  BY <1>1, DoneJob DEF Write
<1>7. Good(s)
  <2>0. dir' = dir /\ blank'[s] = blank[s] \ {call[k].uuid}
    BY DEF Write, TypeOK
  <2>1. /\ \A c \in Commands, d \in Dirs : Exists(s, d, c)' <=> Exists(s, d, c)
        /\ Stored(s)' = Stored(s) /\ Readable(s) \subseteq Readable(s)'
    <3>1. kind'[s] # "sql" /\ kind[s] # "sql"
      BY <1>5
    <3>2. \A c \in Commands, d \in Dirs : Exists(s, d, c)' <=> Exists(s, d, c)
      BY <2>0 DEF Exists
    <3>3. Stored(s)' = Stored(s)
      BY <3>1, <3>2 DEF Stored
    <3> QED BY <2>0, <3>1, <3>2, <3>3 DEF Readable
  <2>2. FreshInv(s)'
    BY <1>3, <1>5, <1>6, <2>1, FreshSame
  <2>3. ReportInv(s)'
    BY <1>2, <1>3, <1>5, ReportSame
  <2>5. \A c \in Commands, d \in Dirs, e \in Dirs :
            Exists(s, d, c)' /\ Exists(s, e, c)' => d = e
    BY <1>3, <2>1 DEF FilesInv
  <2>6. FilesInv(s)'
    BY <1>2, <1>3, <1>5, <1>6, <2>0, <2>5 DEF FilesInv, At, Postponing
  <2> QED BY <1>5, <2>1, <2>2, <2>3, <2>6 DEF Good, StoreInv
<1> QED BY <1>1, <1>4, <1>6, <1>7

(* The client's steps in the file backend *)
LEMMA ClientFrame ==
    ASSUME TypeOK, CallInv, NEW k \in Callers, NEW s \in Stores, Run(k, s),
           call[k].op \in {"StoreCommandReport", "RetrieveNextCommand", "ClearQueue"}
    PROVE  /\ k = "client" /\ Frame(s) /\ job'["api"][s] = job["api"][s]
           /\ kind' = kind /\ call' = call /\ issued' = issued
           /\ call[k].op = "StoreCommandReport" => call[k].uuid = held /\ held \in Commands
BY CallOf, RunFrame, Constants DEF Frame

(* A step of a report that does not move a command's file *)
LEMMA ReportStep ==
    ASSUME TypeOK, CallInv, NEW k \in Callers, NEW s \in Stores, StoreInv(s),
           Run(k, s), kind[s] = "file", call[k].op = "StoreCommandReport",
           blank'[s] = blank[s], ReportInv(s)',
           \A d \in Dirs, c \in Commands : Exists(s, d, c)' <=> Exists(s, d, c)
    PROVE  Good(s) /\ SameStore(s)
<1>1. /\ k = "client" /\ Frame(s) /\ job'["api"][s] = job["api"][s]
      /\ kind' = kind /\ call' = call /\ issued' = issued
  BY ClientFrame
<1>2. FreshInv(s) /\ FilesInv(s)
  BY DEF StoreInv
<1>3. SameStore(s)
  BY DEF SameStore, SameFiles, SameTables, Run, tables
<1>4. Stored(s)' = Stored(s) /\ Readable(s)' = Readable(s)
  BY <1>1, <1>3, StoreUnchanged DEF SameView
<1>5. FreshInv(s)'
  BY <1>1, <1>2, <1>4, FreshSame
<1>6. FilesInv(s)'
  BY <1>1, <1>2 DEF FilesInv, At
<1> QED BY <1>1, <1>3, <1>4, <1>5, <1>6 DEF Good, StoreInv

LEMMA LocateStep ==
    ASSUME TypeOK, CallInv, NEW k \in Callers, NEW s \in Stores, StoreInv(s),
           Run(k, s), kind[s] = "file", Locate(k, s)
    PROVE  Good(s) /\ SameStore(s)
<1>1. call[k].op = "StoreCommandReport" /\ k = "client" /\ call' = call
  BY ClientFrame DEF Locate, At
<1>2. SameFiles(s)
  BY FilesUnchanged DEF Locate
<1>3. ReportInv(s)'
  BY <1>1, LocateJob, SourceDir DEF ReportInv
<1> QED BY <1>1, <1>2, <1>3, ReportStep DEF SameFiles

LEMMA RemoveResultsStep ==
    ASSUME TypeOK, CallInv, NEW k \in Callers, NEW s \in Stores, StoreInv(s),
           Run(k, s), kind[s] = "file", RemoveResults(k, s)
    PROVE  Good(s) /\ SameStore(s)
<1>1. call[k].op = "StoreCommandReport" /\ k = "client" /\ call' = call
  BY ClientFrame DEF RemoveResults, At
<1>2. SameFiles(s)
  <2>1. blank' = blank
    BY DEF RemoveResults
  <2>2. PICK u : u = call[k].uuid
    OBVIOUS
  <2>3. \A d \in Dirs : dir'[s][d] = dir[s][d] \/ dir'[s][d] = dir[s][d] \ {<<u, "result.plist">>}
    BY <2>2 DEF RemoveResults, TypeOK, Dirs
  <2>4. \A c \in Commands : <<c, "plist">> # <<u, "result.plist">>
    OBVIOUS
  <2> QED BY <2>1, <2>3, <2>4 DEF SameFiles, Exists
<1>3. ReportInv(s)'
  <2>1. /\ job'[k][s].at = "writeResults" /\ job'[k][s].src = job[k][s].src
        /\ job'[k][s].moved <=> job[k][s].moved
    BY ThenJob DEF RemoveResults, Steps
  <2> QED BY <1>1, <2>1 DEF ReportInv, Reporting, StoreInv, RemoveResults, At
<1> QED BY <1>1, <1>2, <1>3, ReportStep DEF SameFiles

LEMMA WriteResultsStep ==
    ASSUME TypeOK, CallInv, NEW k \in Callers, NEW s \in Stores, StoreInv(s),
           Run(k, s), kind[s] = "file", WriteResults(k, s)
    PROVE  Good(s) /\ SameStore(s)
<1>1. call[k].op = "StoreCommandReport" /\ k = "client" /\ call' = call
  BY ClientFrame DEF WriteResults, At
<1>2. SameFiles(s)
  <2>1. blank' = blank
    BY DEF WriteResults
  <2>2. PICK u : u = call[k].uuid
    OBVIOUS
  <2>3. \A d \in Dirs : dir'[s][d] = dir[s][d] \/ dir'[s][d] = dir[s][d] \cup {<<u, "result.plist">>}
    BY <2>2 DEF WriteResults, TypeOK, Destination, Dirs
  <2>4. \A c \in Commands : <<c, "plist">> # <<u, "result.plist">>
    OBVIOUS
  <2> QED BY <2>1, <2>3, <2>4 DEF SameFiles, Exists
<1>3. ReportInv(s)'
  <2>1. /\ job'[k][s].at = "done" /\ job'[k][s].src = "Queue"
        /\ job'[k][s].moved <=> job[k][s].moved
    BY DoneJob DEF WriteResults
  <2> QED BY <1>1, <2>1 DEF ReportInv, Reporting, StoreInv, WriteResults, At
<1> QED BY <1>1, <1>2, <1>3, ReportStep DEF SameFiles

LEMMA MoveStep ==
    ASSUME TypeOK, CallInv, NEW k \in Callers, NEW s \in Stores, StoreInv(s),
           Run(k, s), kind[s] = "file", Move(k, s)
    PROVE  /\ Good(s) /\ k = "client" /\ blank'[s] = blank[s]
           /\ held \in Commands /\ call[k].uuid = held
           /\ \/ /\ Exists(s, job[k][s].src, held)
                 /\ Renamed(s, job[k][s].src, Destination(k), held)
                 /\ job'[k][s].at \in {"removeResults", "writeResults"}
                 /\ job'[k][s].moved
              \/ /\ ~ Exists(s, job[k][s].src, held)
                 /\ dir' = dir /\ job'[k][s].at = "failed"
                 /\ ~ job'[k][s].moved
                 /\ SameStore(s)
<1>1. /\ call[k].op = "StoreCommandReport" /\ k = "client" /\ call' = call /\ kind' = kind
      /\ issued' = issued /\ job'["api"][s] = job["api"][s]
      /\ call[k].uuid = held /\ held \in Commands
  BY ClientFrame DEF Move, At
<1>2. blank'[s] = blank[s]
  BY DEF Move
<1>3. ~ job[k][s].moved /\ job[k][s].src \in {"Queue", "QueueNotNow"}
  BY <1>1 DEF StoreInv, ReportInv, Reporting, Move, At
<1>4. CASE ~ Exists(s, job[k][s].src, held)
  <2>1. dir' = dir /\ Failed(k, s)
    BY <1>1, <1>4 DEF Move
  <2>2. /\ job'[k][s].at = "failed" /\ job'[k][s].src = "Queue"
        /\ job'[k][s].moved <=> job[k][s].moved
    BY <2>1, FailedJob
  <2>3. ReportInv(s)'
    BY <1>1, <1>3, <2>2 DEF ReportInv
  <2>4. SameFiles(s)
    BY <1>2, <2>1, FilesUnchanged
  <2> QED BY <1>1, <1>2, <1>3, <1>4, <2>1, <2>2, <2>3, <2>4, ReportStep DEF SameFiles
<1>5. CASE Exists(s, job[k][s].src, held)
  <2>1. Renamed(s, job[k][s].src, Destination(k), held)
    BY <1>1, <1>5 DEF Move
  <2>2. /\ job'[k][s].at \in {"removeResults", "writeResults"}
        /\ job'[k][s].src = job[k][s].src
        /\ job'[k][s].moved
    BY <1>1, <1>5, MoveJob
  <2>3. Destination(k) \in Dirs
    BY DEF Destination, Dirs
  <2>4. PICK from \in {"Queue", "QueueNotNow"}, to \in Dirs :
           from = job[k][s].src /\ to = Destination(k)
    BY <1>3, <2>3
  <2>5. FilesInv(s) /\ FreshInv(s)
    BY DEF StoreInv
  <2>6. /\ \A e \in Commands, d \in Dirs :
              Exists(s, d, e)' <=> IF e = held THEN d = to ELSE Exists(s, d, e)
        /\ Stored(s)' = Stored(s) /\ Readable(s)' = Readable(s)
    <3>1. PICK c \in Commands : c = held
      BY <1>1
    <3>2. Exists(s, from, c) /\ Renamed(s, from, to, c)
      BY <1>5, <2>1, <2>4, <3>1
    <3> QED BY <1>1, <1>2, <2>5, <3>1, <3>2, RenamedEffect
  <2>7. ReportInv(s)'
    BY <1>1, <1>3, <2>2 DEF ReportInv
  <2>8. FreshInv(s)'
    BY <1>1, <2>5, <2>6, FreshSame
  <2>9. FilesInv(s)'
    <3>1. \A c \in Commands, d \in Dirs, e \in Dirs :
              Exists(s, d, c)' /\ Exists(s, e, c)' => d = e
      BY <2>5, <2>6 DEF FilesInv
    <3>2. At("api", s, "EnqueueCommand", "write")' => call'["api"].uuid \in blank'[s]
      BY <1>1, <1>2, <2>5 DEF FilesInv, At
    <3> QED BY <1>1, <3>1, <3>2 DEF FilesInv, At
  <2> QED BY <1>1, <1>2, <1>5, <2>1, <2>2, <2>6, <2>7, <2>8, <2>9 DEF Good, StoreInv
<1> QED BY <1>4, <1>5

(* A step without effect on the storage *)
LEMMA QuietStep ==
    ASSUME TypeOK, CallInv, NEW k \in Callers, NEW s \in Stores, StoreInv(s),
           Run(k, s), kind[s] = "file",
           dir'[s] = dir[s], blank'[s] = blank[s],
           job'["client"][s] = job["client"][s] \/ ReportInv(s)',
           job'["api"][s].at = "start" => job["api"][s].at = "start",
           job'["api"][s].at = "write" => job["api"][s].at = "write",
           At("client", s, "ClearQueue", "notNow")' =>
              At("client", s, "ClearQueue", "notNow") \/ dir[s]["Queue"] = {},
           At("client", s, "RetrieveNextCommand", "queue")' /\ ~ Postponing =>
              At("client", s, "RetrieveNextCommand", "queue") \/ dir[s]["QueueNotNow"] = {}
    PROVE  Good(s) /\ SameStore(s)
<1>1. Frame(s) /\ kind' = kind /\ call' = call /\ issued' = issued
  BY RunFrame DEF Frame
<1>2. FreshInv(s) /\ FilesInv(s) /\ ReportInv(s)
  BY DEF StoreInv
<1>3. SameStore(s)
  BY FilesUnchanged DEF SameStore, SameTables, Run, tables
<1>4. Stored(s)' = Stored(s) /\ Readable(s)' = Readable(s)
  BY <1>1, <1>3, StoreUnchanged DEF SameView
<1>5. FreshInv(s)'
  BY <1>1, <1>2, <1>4, FreshSame
<1>6. FilesInv(s)'
  BY <1>1, <1>2, FilesSame DEF At
<1>7. ReportInv(s)'
  BY <1>1, <1>2, ReportSame
<1> QED BY <1>1, <1>3, <1>4, <1>5, <1>6, <1>7 DEF Good, StoreInv

LEMMA NextStep ==
    ASSUME TypeOK, CallInv, NEW k \in Callers, NEW s \in Stores, StoreInv(s),
           Run(k, s), kind[s] = "file", NextNotNow(k, s) \/ NextQueued(k, s)
    PROVE  /\ Good(s) /\ SameStore(s) /\ k = "client"
           /\ job'[k][s].at = "done" =>
                 job'[k][s].val = None \/ job'[k][s].val \in Readable(s)
<1>1. /\ call[k].op = "RetrieveNextCommand" /\ k = "client" /\ call' = call
      /\ job'["api"][s] = job["api"][s]
  BY ClientFrame DEF NextNotNow, NextQueued, At
<1>2. dir'[s] = dir[s] /\ blank'[s] = blank[s]
  BY DEF NextNotNow, NextQueued
<1>3. \/ Then(k, s, "queue") /\ (Postponing \/ dir[s]["QueueNotNow"] = {})
      \/ Done(k, s, None)
      \/ \E d \in Dirs : Got(k, s, d)
  BY <1>1 DEF NextNotNow, NextQueued, Finds, Postponing, Dirs
<1>4. /\ At("client", s, "RetrieveNextCommand", "queue")' /\ ~ Postponing =>
            dir[s]["QueueNotNow"] = {}
      /\ job'[k][s].at = "done" =>
            \/ job'[k][s].val = None
            \/ \E d \in Dirs : /\ job'[k][s].val \in Commands
                               /\ Exists(s, d, job'[k][s].val)
                               /\ job'[k][s].val \notin blank[s]
  <2>1. CASE Then(k, s, "queue") /\ (Postponing \/ dir[s]["QueueNotNow"] = {})
    BY <2>1, ThenJob DEF Steps
  <2>2. CASE Done(k, s, None)
    BY <1>1, <2>2, DoneJob DEF At
  <2>3. ASSUME NEW d \in Dirs, Got(k, s, d)
        PROVE  <1>4!1 /\ <1>4!2
    BY <1>1, <2>3, GotJob DEF At, Over
  <2> QED BY <1>3, <2>1, <2>2, <2>3
<1>5. kind[s] # "sql"
  OBVIOUS
<1>6. job'[k][s].at = "done" =>
          job'[k][s].val = None \/ job'[k][s].val \in Readable(s)
  BY <1>4, <1>5 DEF Readable, Stored
<1>7. Good(s) /\ SameStore(s)
  <2>1. ReportInv(s)'
    BY <1>1 DEF ReportInv, Reporting
  <2> QED BY <1>1, <1>2, <1>4, <2>1, QuietStep DEF At
<1> QED BY <1>1, <1>6, <1>7

LEMMA StepFailsStep ==
    ASSUME TypeOK, CallInv, NEW k \in Callers, NEW s \in Stores, StoreInv(s),
           Run(k, s), kind[s] = "file", StepFails(k, s)
    PROVE  Good(s) /\ SameStore(s)
<1>1. Frame(s) /\ call' = call
      /\ \A l \in Callers, t \in Stores : l # k \/ t # s => job'[l][t] = job[l][t]
  BY RunFrame DEF Frame
<1>2. dir'[s] = dir[s] /\ blank'[s] = blank[s]
  BY DEF StepFails
<1>3. /\ job'[k][s].at = "failed" /\ job'[k][s].src = "Queue"
      /\ job'[k][s].moved <=> job[k][s].moved
  BY FailedJob DEF StepFails
<1>4. k = "client" => ReportInv(s)'
  BY <1>1, <1>3 DEF ReportInv
<1>5. \A l \in Callers : job'[l][s] = job[l][s] \/ job'[l][s].at = "failed"
  BY <1>1, <1>3
<1>6. k = "api" => job'["client"][s] = job["client"][s]
  BY <1>1, Constants
<1>7. k = "client" \/ k = "api"
  BY Constants
<1> QED BY <1>1, <1>2, <1>4, <1>5, <1>6, <1>7, QuietStep, Constants DEF At

(* ClearQueue moves a command at a time. *)
LEMMA ClearStep ==
    ASSUME TypeOK, CallInv, NEW k \in Callers, NEW s \in Stores, StoreInv(s),
           Run(k, s), kind[s] = "file", ClearQueued(k, s) \/ ClearNotNow(k, s)
    PROVE  /\ Good(s) /\ k = "client"
           /\ blank'[s] = blank[s] /\ call["client"].op = "ClearQueue"
           /\ \/ /\ job'["client"][s].at = "notNow" /\ dir[s]["Queue"] = {}
                 /\ dir'[s] = dir[s] /\ SameStore(s)
              \/ /\ job'["client"][s].at = "done" /\ dir[s]["Queue"] = {}
                 /\ dir[s]["QueueNotNow"] = {}
                 /\ dir'[s] = dir[s] /\ SameStore(s)
              \/ /\ job'["client"][s].at = "failed"
                 /\ dir'[s] = dir[s] /\ SameStore(s)
                 /\ \E d \in {"Queue", "QueueNotNow"} : Finds(s, d) = "error"
              \/ /\ job' = job
                 /\ job["client"][s].at \in {"start", "notNow"}
                 /\ \E d \in {"Queue", "QueueNotNow"}, c \in Commands :
                       /\ Exists(s, d, c) /\ c \notin blank[s]
                       /\ Renamed(s, d, "QueueInactive", c)
<1>1. /\ call[k].op = "ClearQueue" /\ k = "client" /\ call' = call /\ kind' = kind
      /\ issued' = issued /\ job'["api"][s] = job["api"][s]
  BY ClientFrame DEF ClearQueued, ClearNotNow, At
<1>2. blank'[s] = blank[s]
  BY DEF ClearQueued, ClearNotNow, ClearedFrom
<1>3. PICK d \in {"Queue", "QueueNotNow"} :
         /\ ClearedFrom(k, s, d)
         /\ job[k][s].at = IF d = "Queue" THEN "start" ELSE "notNow"
  BY DEF ClearQueued, ClearNotNow, At
<1>4. FreshInv(s) /\ FilesInv(s) /\ ReportInv(s)'
  BY <1>1 DEF StoreInv, ReportInv, Reporting
<1>5. d = "QueueNotNow" => dir[s]["Queue"] = {}
  BY <1>1, <1>3, <1>4 DEF FilesInv, At
<1>6. CASE /\ Finds(s, d) = "nothing"
           /\ IF d = "Queue" THEN Then(k, s, "notNow") ELSE Done(k, s, None)
           /\ UNCHANGED dir
  <2>1. dir[s][d] = {}
    BY <1>6 DEF Finds
  <2>2. job'[k][s].at = IF d = "Queue" THEN "notNow" ELSE "done"
    BY <1>6, ThenJob, DoneJob DEF Steps
  <2>3. Good(s) /\ SameStore(s)
    <3>1. job'["client"][s].at = "notNow" => dir[s]["Queue"] = {}
      BY <1>1, <1>5, <2>1, <2>2
    <3> QED BY <1>1, <1>2, <1>4, <1>6, <3>1, QuietStep DEF At
  <2> QED BY <1>1, <1>2, <1>3, <1>5, <1>6, <2>1, <2>2, <2>3
<1>7. CASE Finds(s, d) = "error" /\ Failed(k, s) /\ UNCHANGED dir
  <2>1. job'[k][s].at = "failed"
    BY <1>7, FailedJob
  <2>2. Good(s) /\ SameStore(s)
    BY <1>1, <1>2, <1>4, <1>7, <2>1, QuietStep DEF At
  <2> QED BY <1>1, <1>2, <1>7, <2>1, <2>2
<1>8. CASE /\ Finds(s, d) = "command" /\ UNCHANGED job
           /\ Renamed(s, d, "QueueInactive", FirstUUID(s, d))
  <2>0. d \in Dirs /\ "QueueInactive" \in Dirs
    BY DEF Dirs
  <2>1. PICK c \in Commands : c = FirstUUID(s, d)
    BY <1>8, <2>0, FoundCommand
  <2>2. Exists(s, d, c) /\ c \notin blank[s]
    BY <1>8, <2>0, <2>1, FoundCommand
  <2>3. Renamed(s, d, "QueueInactive", c)
    BY <1>8, <2>1
  <2>4. /\ \A e \in Commands, b \in Dirs :
              Exists(s, b, e)' <=> IF e = c THEN b = "QueueInactive" ELSE Exists(s, b, e)
        /\ Stored(s)' = Stored(s) /\ Readable(s)' = Readable(s)
    BY <1>1, <1>2, <1>4, <2>0, <2>2, <2>3, RenamedEffect
  <2>5. FreshInv(s)'
    BY <1>1, <1>4, <2>4, FreshSame
  <2>6. FilesInv(s)'
    <3>1. \A x \in Commands, a \in Dirs, b \in Dirs :
              Exists(s, a, x)' /\ Exists(s, b, x)' => a = b
      BY <1>4, <2>4 DEF FilesInv
    <3>2. At("api", s, "EnqueueCommand", "write")' => call'["api"].uuid \in blank'[s]
      BY <1>1, <1>2, <1>4 DEF FilesInv, At
    <3>3. At("client", s, "ClearQueue", "notNow")' => dir'[s]["Queue"] = {}
      <4>1. ASSUME At("client", s, "ClearQueue", "notNow")'
            PROVE  dir'[s]["Queue"] = {}
        <5>1. d = "QueueNotNow"
          BY <1>1, <1>3, <1>8, <4>1 DEF At
        <5>2. dir'[s]["Queue"] = dir[s]["Queue"]
          BY <2>0, <2>3, <5>1, RenamedDirs DEF Dirs
        <5> QED BY <1>5, <5>1, <5>2
      <4> QED BY <4>1
    <3> QED BY <1>1, <3>1, <3>2, <3>3 DEF FilesInv, At
  <2>7. Good(s)
    BY <1>1, <1>4, <2>4, <2>5, <2>6 DEF Good, StoreInv
  <2> QED BY <1>1, <1>2, <1>3, <1>8, <2>2, <2>3, <2>7
<1> QED BY <1>3, <1>6, <1>7, <1>8 DEF ClearedFrom

(* The statements of a database *)
LEMMA InsertRowStep ==
    ASSUME TypeOK, CallInv, NEW k \in Callers, NEW s \in Stores, StoreInv(s),
           Run(k, s), kind[s] = "sql", InsertRow(k, s)
    PROVE  /\ Good(s) /\ k = "api" /\ call[k].uuid \in Commands
           /\ call[k].uuid \notin Stored(s)
           /\ job'["api"][s].at = "done"
<1>1. k = "api" /\ call[k].uuid \in Commands /\ call[k].uuid \in issued
  BY CallOf DEF InsertRow, At
<1>2. Frame(s) /\ job'["client"][s] = job["client"][s]
  BY <1>1, RunFrame, Constants
<1>3. FreshInv(s) /\ TableInv(s) /\ ReportInv(s)
  BY DEF StoreInv
<1>4. call[k].uuid \notin Stored(s)
  BY <1>1, <1>3 DEF FreshInv, InsertRow
<1>5. kind' = kind /\ call' = call /\ issued' = issued /\ settled' = settled
  BY <1>2 DEF Frame
<1>6. /\ Rows(s)' = Rows(s) \cup {call[k].uuid}
      /\ inactive'[s] = inactive[s] /\ result'[s] = result[s]
      /\ Stored(s)' = Stored(s) \cup {call[k].uuid}
      /\ Readable(s)' = Readable(s) \cup {call[k].uuid}
  BY <1>1, <1>3, <1>4, <1>5, InsertRowEffect
<1>7. job'["api"][s].at = "done"
  BY <1>1, DoneJob DEF InsertRow
<1>8. FreshInv(s)'
  <2>1. PICK u \in issued : u = call[k].uuid
    BY <1>1
  <2> QED BY <1>3, <1>5, <1>6, <1>7, <2>1, FreshAdded
<1>9. ReportInv(s)'
  BY <1>2, <1>3, <1>5, ReportSame
<1>10. TableInv(s)'
  BY <1>3, <1>5, <1>6 DEF TableInv
<1> QED BY <1>1, <1>4, <1>5, <1>6, <1>7, <1>8, <1>9, <1>10 DEF Good, StoreInv

(* A client's step that leaves the database as it is *)
LEMMA QuietStatement ==
    ASSUME TypeOK, CallInv, NEW k \in Callers, NEW s \in Stores, StoreInv(s),
           Run(k, s), kind[s] = "sql", SameTables(s),
           job'["client"][s] = job["client"][s] \/ ReportInv(s)',
           job'["api"][s].at = "start" => job["api"][s].at = "start"
    PROVE  Good(s) /\ SameStore(s)
<1>1. Frame(s) /\ kind' = kind /\ call' = call /\ issued' = issued /\ settled' = settled
  BY RunFrame DEF Frame
<1>2. FreshInv(s) /\ TableInv(s) /\ ReportInv(s)
  BY DEF StoreInv
<1>3. SameStore(s)
  BY FilesUnchanged DEF SameStore, SameTables, Run, files
<1>4. Stored(s)' = Stored(s) /\ Readable(s)' = Readable(s)
  BY <1>1, <1>3, StoreUnchanged DEF SameView
<1>5. FreshInv(s)'
  BY <1>1, <1>2, <1>4, FreshSame
<1>6. TableInv(s)'
  BY <1>1, <1>2 DEF TableInv, SameTables, Rows
<1>7. ReportInv(s)'
  BY <1>1, <1>2, ReportSame
<1> QED BY <1>1, <1>3, <1>4, <1>5, <1>6, <1>7 DEF Good, StoreInv

LEMMA StatementFailsStep ==
    ASSUME TypeOK, CallInv, NEW k \in Callers, NEW s \in Stores, StoreInv(s),
           Run(k, s), kind[s] = "sql", StatementFails(k, s)
    PROVE  Good(s) /\ SameStore(s)
<1>1. Frame(s) /\ call' = call
      /\ \A l \in Callers, t \in Stores : l # k \/ t # s => job'[l][t] = job[l][t]
  BY RunFrame DEF Frame
<1>2. SameTables(s)
  BY DEF StatementFails, tables, SameTables
<1>3. /\ job'[k][s].at = "failed" /\ job'[k][s].src = "Queue"
      /\ job'[k][s].moved <=> job[k][s].moved
  BY FailedJob DEF StatementFails
<1>4. k = "client" => ReportInv(s)'
  BY <1>1, <1>3 DEF ReportInv
<1>5. \A l \in Callers : job'[l][s] = job[l][s] \/ job'[l][s].at = "failed"
  BY <1>1, <1>3
<1>6. k = "api" => job'["client"][s] = job["client"][s]
  BY <1>1, Constants
<1>7. k = "client" \/ k = "api"
  BY Constants
<1> QED BY <1>1, <1>2, <1>4, <1>5, <1>6, <1>7, QuietStatement, Constants

LEMMA SelectStep ==
    ASSUME TypeOK, CallInv, NEW k \in Callers, NEW s \in Stores, StoreInv(s),
           Run(k, s), kind[s] = "sql", SelectNext(k, s)
    PROVE  /\ Good(s) /\ SameStore(s) /\ k = "client"
           /\ job'[k][s].at = "done"
           /\ job'[k][s].val = None \/ job'[k][s].val \in Readable(s)
<1>1. /\ call[k].op = "RetrieveNextCommand" /\ k = "client" /\ call' = call
      /\ job'["api"][s] = job["api"][s]
  BY ClientFrame DEF SelectNext, At
<1>2. SameTables(s)
  BY DEF SelectNext, tables, SameTables
<1>3. job'[k][s].at = "done"
      /\ (job'[k][s].val = None \/ \E i \in Rank(k, s) : job'[k][s].val = order[s][i])
  BY SelectJob
<1>4. \A i \in Rank(k, s) : order[s][i] \in Readable(s)
  BY DEF Rank, Waiting, Readable
<1>5. ReportInv(s)'
  BY <1>1 DEF ReportInv, Reporting
<1> QED BY <1>1, <1>2, <1>3, <1>4, <1>5, QuietStatement

LEMMA DeactivateStep ==
    ASSUME TypeOK, CallInv, NEW k \in Callers, NEW s \in Stores, StoreInv(s),
           Run(k, s), kind[s] = "sql", Deactivate(k, s)
    PROVE  Good(s) /\ k = "client" /\ job'[k][s].at = "done"
<1>1. /\ call[k].op = "ClearQueue" /\ k = "client" /\ call' = call /\ kind' = kind
      /\ issued' = issued /\ job'["api"][s] = job["api"][s] /\ settled' = settled
  BY ClientFrame DEF Deactivate, At, Frame
<1>2. FreshInv(s) /\ TableInv(s) /\ ReportInv(s)'
  BY <1>1 DEF StoreInv, ReportInv, Reporting
<1>3. /\ Rows(s)' = Rows(s) /\ inactive'[s] = inactive[s] \cup Waiting(s)
      /\ Stored(s)' = Stored(s) /\ Readable(s)' = Readable(s)
  BY <1>1, <1>2, DeactivateEffect
<1>4. FreshInv(s)'
  BY <1>1, <1>2, <1>3, FreshSame
<1>5. TableInv(s)'
  <2>1. Waiting(s) \subseteq Rows(s) /\ result' = result
    BY DEF Waiting, Deactivate
  <2> QED BY <1>1, <1>2, <1>3, <2>1 DEF TableInv
<1>6. job'[k][s].at = "done"
  BY DoneJob DEF Deactivate
<1> QED BY <1>1, <1>2, <1>3, <1>4, <1>5, <1>6 DEF Good, StoreInv

LEMMA UpsertStep ==
    ASSUME TypeOK, CallInv, NEW k \in Callers, NEW s \in Stores, StoreInv(s),
           Run(k, s), kind[s] = "sql", UpsertResult(k, s)
    PROVE  /\ Good(s) /\ k = "client" /\ held \in Commands /\ call[k].uuid = held
           /\ \/ /\ held \notin Rows(s) /\ SameStore(s)
                 /\ job'[k][s].at = "failed" /\ ~ job'[k][s].moved
              \/ /\ held \in Rows(s)
                 /\ job'[k][s].at = "done" /\ job'[k][s].moved
                 /\ IF Postponing
                    THEN /\ Waiting(s)' = Waiting(s) /\ Ended(s)' = Ended(s)
                         /\ Deferred(s)' = Deferred(s) \cup ({held} \cap Waiting(s))
                    ELSE /\ Waiting(s)' = Waiting(s) \ {held}
                         /\ Ended(s)' = Ended(s) \cup {held}
                         /\ Deferred(s)' = Deferred(s) \ {held}
<1>1. /\ call[k].op = "StoreCommandReport" /\ k = "client" /\ call' = call /\ kind' = kind
      /\ issued' = issued /\ job'["api"][s] = job["api"][s] /\ settled' = settled
      /\ call[k].uuid = held /\ held \in Commands
      /\ call[k].status \in {"NotNow", "Acknowledged"}
  BY ClientFrame, CallOf DEF UpsertResult, At, Frame
<1>2. FreshInv(s) /\ TableInv(s) /\ ReportInv(s)
  BY DEF StoreInv
<1>3. ~ job[k][s].moved
  BY <1>1, <1>2 DEF ReportInv, Reporting, UpsertResult, At
<1>4. order' = order /\ inactive' = inactive
  BY DEF UpsertResult
<1>5. CASE held \notin Rows(s)
  <2>1. Failed(k, s) /\ result' = result
    BY <1>1, <1>5 DEF UpsertResult
  <2>2. /\ job'[k][s].at = "failed" /\ job'[k][s].src = "Queue"
        /\ ~ job'[k][s].moved
    BY <1>3, <2>1, FailedJob
  <2>3. ReportInv(s)'
    BY <1>1, <2>2 DEF ReportInv
  <2>4. SameTables(s)
    BY <1>4, <2>1 DEF SameTables
  <2> QED BY <1>1, <1>5, <2>2, <2>3, <2>4, QuietStatement
<1>6. CASE held \in Rows(s)
  <2>1. /\ job'[k][s].at = "done" /\ job'[k][s].src = "Queue"
        /\ job'[k][s].moved
    BY <1>1, <1>6, UpsertJob
  <2>2. ReportInv(s)'
    BY <1>1, <2>1 DEF ReportInv
  <2>3. PICK c \in Rows(s), status \in {"NotNow", "Acknowledged"} :
           c = held /\ status = call[k].status
    BY <1>1, <1>6
  <2>4. \A d \in Commands : result'[s][d] = IF d = c THEN status ELSE result[s][d]
    <3>1. result' = [result EXCEPT ![s][c] = status]
      BY <1>1, <1>6, <2>3 DEF UpsertResult
    <3>2. result'[s] = [result[s] EXCEPT ![c] = status] /\ result[s] \in [Commands -> Statuses]
      BY <3>1 DEF TypeOK
    <3> QED BY <3>2
  <2>5. status = "NotNow" <=> c \notin settled
    BY <1>1, <2>3 DEF CallInv, Reporting, Postponing
  <2>6. c \in Commands
    BY <1>1, <2>3
  <2>7. /\ Rows(s)' = Rows(s) /\ Readable(s)' = Readable(s) /\ Stored(s)' = Stored(s)
        /\ IF status = "NotNow"
           THEN /\ Waiting(s)' = Waiting(s) /\ Ended(s)' = Ended(s)
                /\ Deferred(s)' = Deferred(s) \cup ({c} \cap Waiting(s))
           ELSE /\ Waiting(s)' = Waiting(s) \ {c} /\ Ended(s)' = Ended(s) \cup {c}
                /\ Deferred(s)' = Deferred(s) \ {c}
    BY <1>1, <1>2, <1>4, <2>4, <2>5, <2>6, UpsertEffect
  <2>8. FreshInv(s)'
    BY <1>1, <1>2, <2>7, FreshSame
  <2>9. TableInv(s)'
    BY <1>1, <1>2, <1>4, <2>3, <2>4, <2>5, <2>7 DEF TableInv
  <2>10. Good(s)
    BY <1>1, <2>2, <2>7, <2>8, <2>9 DEF Good, StoreInv
  <2> QED BY <1>1, <1>6, <2>1, <2>3, <2>7, <2>10 DEF Postponing
<1> QED BY <1>5, <1>6

LEMMA RunGood ==
    ASSUME TypeOK, CallInv, NEW k \in Callers, NEW s \in Stores, StoreInv(s), Run(k, s)
    PROVE  Good(s)
<1>1. ASSUME kind[s] = "file", FileStep(k, s)
      PROVE  Good(s)
  <2>1. CASE Create(k, s)
    BY <1>1, <2>1, CreateStep
  <2>2. CASE Write(k, s)
    BY <1>1, <2>2, WriteStep
  <2>3. CASE Locate(k, s)
    BY <1>1, <2>3, LocateStep
  <2>4. CASE Move(k, s)
    BY <1>1, <2>4, MoveStep
  <2>5. CASE RemoveResults(k, s)
    BY <1>1, <2>5, RemoveResultsStep
  <2>6. CASE WriteResults(k, s)
    BY <1>1, <2>6, WriteResultsStep
  <2>7. CASE NextNotNow(k, s) \/ NextQueued(k, s)
    BY <1>1, <2>7, NextStep
  <2>8. CASE ClearQueued(k, s) \/ ClearNotNow(k, s)
    BY <1>1, <2>8, ClearStep
  <2>9. CASE StepFails(k, s)
    BY <1>1, <2>9, StepFailsStep
  <2> QED BY <1>1, <2>1, <2>2, <2>3, <2>4, <2>5, <2>6, <2>7, <2>8, <2>9 DEF FileStep
<1>2. ASSUME kind[s] = "sql", DatabaseStep(k, s)
      PROVE  Good(s)
  <2>1. CASE InsertRow(k, s)
    BY <1>2, <2>1, InsertRowStep
  <2>2. CASE UpsertResult(k, s)
    BY <1>2, <2>2, UpsertStep
  <2>3. CASE SelectNext(k, s)
    BY <1>2, <2>3, SelectStep
  <2>4. CASE Deactivate(k, s)
    BY <1>2, <2>4, DeactivateStep
  <2>5. CASE StatementFails(k, s)
    BY <1>2, <2>5, StatementFailsStep
  <2> QED BY <1>2, <2>1, <2>2, <2>3, <2>4, <2>5 DEF DatabaseStep
<1> QED BY <1>1, <1>2 DEF Run

LEMMA OtherStore ==
    ASSUME TypeOK, CallInv, NEW k \in Callers, NEW s \in Stores, NEW t \in Stores \ {s},
           StoreInv(t), Run(k, s)
    PROVE  /\ StoreInv(t)' /\ SameView(t)
           /\ dir'[t] = dir[t] /\ blank'[t] = blank[t]
           /\ job'["client"][t] = job["client"][t] /\ job'["api"][t] = job["api"][t]
<1>1. /\ kind' = kind /\ call' = call /\ issued' = issued /\ settled' = settled
      /\ dir'[t] = dir[t] /\ blank'[t] = blank[t] /\ SameTables(t)
      /\ job'["client"][t] = job["client"][t] /\ job'["api"][t] = job["api"][t]
  BY RunFrame, Constants DEF Frame
<1>2. SameView(t)
  BY <1>1, FilesUnchanged, StoreUnchanged DEF SameStore
<1>3. FreshInv(t)'
  BY <1>1, <1>2, FreshSame DEF StoreInv, SameView
<1>4. ReportInv(t)'
  BY <1>1, ReportSame DEF StoreInv
<1>5. CASE kind[t] = "sql"
  <2>1. TableInv(t)'
    BY <1>1, <1>5 DEF StoreInv, TableInv, SameTables, Rows
  <2> QED BY <1>1, <1>2, <1>3, <1>4, <1>5, <2>1 DEF StoreInv
<1>6. CASE kind[t] # "sql"
  <2>1. FilesInv(t)'
    BY <1>1, <1>6, FilesSame DEF StoreInv, At
  <2> QED BY <1>1, <1>2, <1>3, <1>4, <1>6, <2>1 DEF StoreInv
<1> QED BY <1>5, <1>6

(* Only the files being written are not readable, and nothing moves them.  *)
LEMMA BlankStep ==
    ASSUME TypeOK, CallInv, NEW k \in Callers, NEW s \in Stores, StoreInv(s),
           Run(k, s), kind[s] = "file", BlankInv(s), Reporting => held \notin blank[s]
    PROVE  BlankInv(s)'
<1>0. FileStep(k, s) /\ kind' = kind /\ FilesInv(s) /\ "Queue" \in Dirs
      /\ blank[s] \subseteq Commands
  BY DEF Run, StoreInv, Dirs, TypeOK
<1>1. ASSUME SameFiles(s)
      PROVE  BlankInv(s)'
  BY <1>0, <1>1 DEF SameFiles, BlankInv
<1>2. CASE Create(k, s)
  <2>1. call[k].uuid \in Commands /\ call[k].uuid \notin Stored(s)
    BY <1>2, CreateStep
  <2>2. /\ \A c \in Commands, d \in Dirs :
              Exists(s, d, c)' <=> Exists(s, d, c) \/ (c = call[k].uuid /\ d = "Queue")
        /\ blank'[s] = blank[s] \cup {call[k].uuid}
    BY <1>0, <1>2, <2>1, CreateEffect
  <2> QED BY <1>0, <2>1, <2>2 DEF BlankInv
<1>3. CASE Write(k, s)
  <2>1. dir' = dir /\ blank'[s] \subseteq blank[s]
    BY <1>3 DEF Write, TypeOK
  <2> QED BY <2>1 DEF BlankInv, Exists
<1>4. CASE Locate(k, s)
  BY <1>1, <1>4, LocateStep DEF SameStore
<1>5. CASE Move(k, s)
  <2>1. /\ held \in Commands /\ blank'[s] = blank[s] /\ Reporting
        /\ \/ SameStore(s)
           \/ Renamed(s, job[k][s].src, Destination(k), held)
    BY <1>5, MoveStep DEF Move, At, Reporting
  <2>2. CASE SameStore(s)
    BY <1>1, <2>2 DEF SameStore
  <2>3. CASE Renamed(s, job[k][s].src, Destination(k), held)
    <3>1. PICK from, to : from = job[k][s].src /\ to = Destination(k)
      OBVIOUS
    <3>2. \A e \in Commands, d \in Dirs :
              Exists(s, d, e)' <=> IF e = held /\ d \in {from, to} THEN d = to
                                  ELSE Exists(s, d, e)
      BY <2>1, <2>3, <3>1, RenamedDirs
    <3> QED BY <1>0, <2>1, <3>2 DEF BlankInv
  <2> QED BY <2>1, <2>2, <2>3
<1>6. CASE RemoveResults(k, s)
  BY <1>1, <1>6, RemoveResultsStep DEF SameStore
<1>7. CASE WriteResults(k, s)
  BY <1>1, <1>7, WriteResultsStep DEF SameStore
<1>8. CASE NextNotNow(k, s) \/ NextQueued(k, s)
  BY <1>1, <1>8, NextStep DEF SameStore
<1>9. CASE ClearQueued(k, s) \/ ClearNotNow(k, s)
  <2>1. /\ blank'[s] = blank[s]
        /\ \/ SameStore(s)
           \/ \E d \in {"Queue", "QueueNotNow"}, c \in Commands :
                 c \notin blank[s] /\ Renamed(s, d, "QueueInactive", c)
    BY <1>9, ClearStep
  <2>2. CASE SameStore(s)
    BY <1>1, <2>2 DEF SameStore
  <2>3. ASSUME NEW d \in {"Queue", "QueueNotNow"}, NEW c \in Commands,
               c \notin blank[s], Renamed(s, d, "QueueInactive", c)
        PROVE  BlankInv(s)'
    <3>1. \A e \in Commands, b \in Dirs :
              Exists(s, b, e)' <=> IF e = c /\ b \in {d, "QueueInactive"}
                                  THEN b = "QueueInactive" ELSE Exists(s, b, e)
      BY <2>3, RenamedDirs
    <3> QED BY <1>0, <2>1, <2>3, <3>1 DEF BlankInv
  <2> QED BY <2>1, <2>2, <2>3
<1>10. CASE StepFails(k, s)
  BY <1>1, <1>10, StepFailsStep DEF SameStore
<1> QED BY <1>0, <1>2, <1>3, <1>4, <1>5, <1>6, <1>7, <1>8, <1>9, <1>10 DEF FileStep

(* What a client is given is a command of the storage. *)
LEMMA GivenReadable ==
    ASSUME TypeOK, CallInv, NEW k \in Callers, NEW s \in Stores, StoreInv(s), Run(k, s),
           call[k].op = "RetrieveNextCommand", job'[k][s].at = "done"
    PROVE  job'[k][s].val = None \/ job'[k][s].val \in Readable(s)
<1>1. CASE kind[s] = "file" /\ FileStep(k, s)
  <2>1. ~ StepFails(k, s)
    BY FailedJob DEF StepFails
  <2>2. NextNotNow(k, s) \/ NextQueued(k, s)
    BY <1>1, <2>1 DEF FileStep, Create, Write, Locate, Move, RemoveResults, WriteResults,
       ClearQueued, ClearNotNow, At
  <2> QED BY <1>1, <2>2, NextStep
<1>2. CASE kind[s] = "sql" /\ DatabaseStep(k, s)
  <2>1. ~ StatementFails(k, s)
    BY FailedJob DEF StatementFails
  <2>2. SelectNext(k, s)
    BY <1>2, <2>1 DEF DatabaseStep, InsertRow, UpsertResult, Deactivate, At
  <2> QED BY <1>2, <2>2, SelectStep
<1> QED BY <1>1, <1>2 DEF Run

LEMMA RunFirst ==
    ASSUME FirstInv, NEW k \in Callers, NEW s \in Stores, Run(k, s)
    PROVE  FirstInv'
<1>1. TypeOK /\ CallInv /\ HeldInv /\ (\A t \in Stores : StoreInv(t))
  BY DEF FirstInv
<1>2. /\ Frame(s)
      /\ \A l \in Callers, t \in Stores : l # k \/ t # s => job'[l][t] = job[l][t]
  BY <1>1, RunFrame
<1>3. TypeOK'
  BY <1>1, RunType
<1>4. CallInv'
  BY <1>1, <1>2 DEF Frame, CallInv, Reporting, Postponing, Resting
<1>5. Good(s)
  BY <1>1, RunGood
<1>6. \A t \in Stores : StoreInv(t)' /\ Readable(t) \subseteq Readable(t)'
  <2> SUFFICES ASSUME NEW t \in Stores
               PROVE  StoreInv(t)' /\ Readable(t) \subseteq Readable(t)'
    OBVIOUS
  <2>1. CASE t = s
    BY <1>5, <2>1 DEF Good
  <2>2. CASE t # s
    BY <1>1, <2>2, OtherStore DEF SameView
  <2> QED BY <2>1, <2>2
<1>7. HeldInv'
  <2>1. Readable(1) \subseteq Readable(1)'
    BY <1>6, Constants
  <2>2. held' # None => held' \in Readable(1)'
    BY <1>1, <1>2, <2>1 DEF Frame, HeldInv
  <2>3. ASSUME Answering', First'.val # None
        PROVE  First'.val \in Readable(1)'
    <3>1. call["client"].op = "RetrieveNextCommand" /\ First'.at = "done"
      BY <1>2, <2>3 DEF Answering, Frame
    <3>2. CASE k = "client" /\ s = 1
      BY <1>1, <2>1, <2>3, <3>1, <3>2, GivenReadable DEF First
    <3>3. CASE ~ (k = "client" /\ s = 1)
      <4>1. First' = First
        BY <1>2, <3>3, Constants DEF First
      <4> QED BY <1>1, <2>1, <2>3, <3>1, <4>1 DEF HeldInv, Answering
    <3> QED BY <3>2, <3>3
  <2> QED BY <2>2, <2>3 DEF HeldInv
<1>8. kind'[1] = "file" => BlankInv(1)'
  <2> SUFFICES ASSUME kind[1] = "file"
               PROVE  BlankInv(1)'
    BY <1>2 DEF Frame
  <2>1. BlankInv(1) /\ 1 \in Stores
    BY Constants DEF FirstInv
  <2>2. CASE s = 1
    <3>1. kind[1] # "sql" /\ (Reporting => held # None)
      BY <1>1 DEF CallInv
    <3>2. Reporting => held \notin blank[1]
      BY <1>1, <3>1 DEF HeldInv, Readable
    <3> QED BY <1>1, <2>1, <2>2, <3>2, BlankStep
  <2>3. CASE s # 1
    BY <1>1, <2>1, <2>3, OtherStore DEF BlankInv, Exists
  <2> QED BY <2>2, <2>3
<1> QED BY <1>3, <1>4, <1>6, <1>7, <1>8 DEF FirstInv

-----------------------------------------------------------------------------
(* The callers *)

Ops == {"none", "EnqueueCommand", "StoreCommandReport", "RetrieveNextCommand",
        "ClearQueue"}

LEMMA ExecJob ==
    ASSUME TypeOK, NEW k \in Callers, NEW op \in Ops, NEW c \in Commands \cup {None},
           NEW status \in {"Idle", "NotNow", "Acknowledged"},
           execStores(k, op, c, status)
    PROVE  /\ call' \in [Callers -> Call] /\ job' \in [Callers -> [Stores -> Job]]
           /\ call'[k].op = op /\ call'[k].uuid = c /\ call'[k].status = status
           /\ \A s \in Stores : job'[k][s] = Started
           /\ \A l \in Callers \ {k} : call'[l] = call[l] /\ job'[l] = job[l]
<1>1. call \in [Callers -> Call] /\ job \in [Callers -> [Stores -> Job]]
  BY DEF TypeOK
<1>2. PICK r : r = [op |-> op, uuid |-> c, status |-> status]
  OBVIOUS
<1>3. r \in Call /\ r.op = op /\ r.uuid = c /\ r.status = status
  BY <1>2 DEF Call, Ops
<1>4. call' = [call EXCEPT ![k] = r]
  BY <1>2 DEF execStores
<1>5. job' = [job EXCEPT ![k] = [s \in Stores |-> Started]]
  BY DEF execStores
<1>6. [s \in Stores |-> Started] \in [Stores -> Job]
  BY StartedJob
<1> QED BY <1>1, <1>3, <1>4, <1>5, <1>6

LEMMA NoCallJob ==
    ASSUME TypeOK, NEW k \in Callers, call' = [call EXCEPT ![k] = NoCall], NoJobs(k)
    PROVE  /\ call' \in [Callers -> Call] /\ job' \in [Callers -> [Stores -> Job]]
           /\ call'[k].op = "none" /\ call'[k].uuid = None
           /\ \A s \in Stores : job'[k][s] = Started
           /\ \A l \in Callers \ {k} : call'[l] = call[l] /\ job'[l] = job[l]
<1>1. call \in [Callers -> Call] /\ job \in [Callers -> [Stores -> Job]]
  BY DEF TypeOK
<1>2. NoCall \in Call /\ NoCall.op = "none" /\ NoCall.uuid = None
  BY DEF NoCall, Call
<1>3. [s \in Stores |-> Started] \in [Stores -> Job]
  BY StartedJob
<1> QED BY <1>1, <1>2, <1>3 DEF NoJobs

(* No store changes in a caller's step. *)
LEMMA CallerView ==
    ASSUME NEW s \in Stores, UNCHANGED <<files, kind, tables>>
    PROVE  SameView(s) /\ SameStore(s) /\ dir'[s] = dir[s] /\ blank'[s] = blank[s]
<1>1. SameStore(s)
  BY FilesUnchanged DEF SameStore, SameTables, files, tables
<1> QED BY <1>1, StoreUnchanged DEF files

LEMMA ClientCallStores ==
    ASSUME FirstInv, NEW s \in Stores, UNCHANGED <<files, kind, tables>>,
           call'["api"] = call["api"], job'["api"] = job["api"],
           issued' = issued, settled \subseteq settled',
           job'["client"][s] = Started
    PROVE  StoreInv(s)'
<1>1. SameView(s) /\ SameStore(s) /\ dir'[s] = dir[s] /\ blank'[s] = blank[s] /\ kind' = kind
  BY CallerView
<1>2. StoreInv(s) /\ FreshInv(s)
  BY DEF FirstInv, StoreInv
<1>3. FreshInv(s)'
  BY <1>1, <1>2 DEF FreshInv, SameView, At
<1>4. ReportInv(s)'
  BY StartedJob DEF ReportInv
<1>5. CASE kind[s] = "sql"
  <2>1. TableInv(s)'
    BY <1>1, <1>2, <1>5 DEF StoreInv, TableInv, SameStore, SameTables, Rows
  <2> QED BY <1>1, <1>3, <1>4, <1>5, <2>1 DEF StoreInv
<1>6. CASE kind[s] # "sql"
  <2>1. FilesInv(s)
    BY <1>2, <1>6 DEF StoreInv
  <2>2. \A c \in Commands, d \in Dirs, e \in Dirs :
            Exists(s, d, c)' /\ Exists(s, e, c)' => d = e
    BY <1>1, <2>1 DEF FilesInv, SameStore, SameFiles
  <2>3. FilesInv(s)'
    BY <1>1, <2>1, <2>2, StartedJob DEF FilesInv, At
  <2> QED BY <1>1, <1>3, <1>4, <1>6, <2>3 DEF StoreInv
<1> QED BY <1>5, <1>6

LEMMA ApiCallStores ==
    ASSUME FirstInv, NEW s \in Stores, UNCHANGED <<files, kind, tables, settled, held>>,
           call'["client"] = call["client"], job'["client"] = job["client"],
           issued \subseteq issued', job'["api"][s] = Started,
           call'["api"].op = "none" \/ call'["api"].uuid \notin issued
    PROVE  StoreInv(s)'
<1>1. SameView(s) /\ SameStore(s) /\ dir'[s] = dir[s] /\ blank'[s] = blank[s] /\ kind' = kind
  BY CallerView
<1>2. StoreInv(s) /\ FreshInv(s) /\ ReportInv(s)
  BY DEF FirstInv, StoreInv
<1>3. FreshInv(s)'
  BY <1>1, <1>2 DEF FreshInv, SameView, At
<1>4. ReportInv(s)'
  BY <1>2 DEF ReportInv, Reporting
<1>5. CASE kind[s] = "sql"
  <2>1. TableInv(s)'
    BY <1>1, <1>2, <1>5 DEF StoreInv, TableInv, SameStore, SameTables, Rows
  <2> QED BY <1>1, <1>3, <1>4, <1>5, <2>1 DEF StoreInv
<1>6. CASE kind[s] # "sql"
  <2>1. FilesInv(s)
    BY <1>2, <1>6 DEF StoreInv
  <2>2. \A c \in Commands, d \in Dirs, e \in Dirs :
            Exists(s, d, c)' /\ Exists(s, e, c)' => d = e
    BY <1>1, <2>1 DEF FilesInv, SameStore, SameFiles
  <2>3. FilesInv(s)'
    BY <1>1, <2>1, <2>2, StartedJob DEF FilesInv, At, Postponing
  <2> QED BY <1>1, <1>3, <1>4, <1>6, <2>3 DEF StoreInv
<1> QED BY <1>5, <1>6

LEMMA BlankSame ==
    ASSUME FirstInv, UNCHANGED <<files, kind, tables>>
    PROVE  (kind[1] = "file" => BlankInv(1))' /\ SameView(1)
BY Constants, CallerView DEF FirstInv, BlankInv, Exists, files

LEMMA EnqueueFirst ==
    ASSUME FirstInv, "overlap" \notin Allowed, NEW c \in Commands, Enqueue(c)
    PROVE  FirstInv'
<1>1. TypeOK /\ CallInv /\ HeldInv
  BY DEF FirstInv
<1>2. /\ execStores("api", "EnqueueCommand", c, "Idle") /\ Resting("api")
      /\ c \notin issued /\ issued' = issued \cup {c}
      /\ call["client"].op # "ClearQueue"
      /\ UNCHANGED <<files, fails, kind, tables, held, settled>>
  BY DEF Enqueue
<1>3. /\ call' \in [Callers -> Call] /\ job' \in [Callers -> [Stores -> Job]]
      /\ call'["api"].op = "EnqueueCommand" /\ call'["api"].uuid = c
      /\ \A s \in Stores : job'["api"][s] = Started
      /\ call'["client"] = call["client"] /\ job'["client"] = job["client"]
  <2>1. "EnqueueCommand" \in Ops /\ c \in Commands \cup {None}
    BY DEF Ops
  <2> QED BY <1>1, <1>2, <2>1, ExecJob, Constants
<1>4. TypeOK'
  BY <1>1, <1>2, <1>3 DEF TypeOK, files, tables
<1>5. CallInv'
  BY <1>1, <1>2, <1>3 DEF CallInv, Reporting, Postponing
<1>6. \A s \in Stores : StoreInv(s)'
  BY <1>2, <1>3, ApiCallStores
<1>7. (kind[1] = "file" => BlankInv(1))' /\ SameView(1)
  BY <1>2, BlankSame
<1>8. HeldInv'
  BY <1>1, <1>2, <1>3, <1>7 DEF HeldInv, SameView, Answering, First
<1> QED BY <1>4, <1>5, <1>6, <1>7, <1>8 DEF FirstInv

(* Any call the client starts *)
LEMMA ClientCallFirst ==
    ASSUME FirstInv,
           NEW op \in {"StoreCommandReport", "RetrieveNextCommand", "ClearQueue"},
           NEW c \in Commands \cup {None},
           NEW status \in {"Idle", "NotNow", "Acknowledged"},
           execStores("client", op, c, status),
           op = "StoreCommandReport" =>
              /\ c = held' /\ held' # None /\ status # "Idle"
              /\ status = "NotNow" <=> held' \notin settled',
           op = "ClearQueue" => Resting("api"),
           held' \in {held, None}, settled \subseteq settled', settled' \subseteq Commands,
           UNCHANGED <<files, fails, kind, tables, issued>>
    PROVE  FirstInv'
<1>1. TypeOK /\ CallInv /\ HeldInv
  BY DEF FirstInv
<1>2. /\ call' \in [Callers -> Call] /\ job' \in [Callers -> [Stores -> Job]]
      /\ call'["client"].op = op /\ call'["client"].uuid = c /\ call'["client"].status = status
      /\ \A s \in Stores : job'["client"][s] = Started
      /\ call'["api"] = call["api"] /\ job'["api"] = job["api"]
  <2>1. op \in Ops
    BY DEF Ops
  <2> QED BY <1>1, <2>1, ExecJob, Constants
<1>3. TypeOK'
  BY <1>1, <1>2 DEF TypeOK, files, tables
<1>4. CallInv'
  BY <1>1, <1>2 DEF CallInv, Reporting, Postponing, Resting
<1>5. \A s \in Stores : StoreInv(s)'
  BY <1>2, ClientCallStores
<1>6. (kind[1] = "file" => BlankInv(1))' /\ SameView(1)
  BY BlankSame
<1>7. ~ Answering'
  BY <1>2, StartedJob, Constants DEF Answering, First
<1>8. HeldInv'
  BY <1>1, <1>6, <1>7 DEF HeldInv, SameView
<1> QED BY <1>3, <1>4, <1>5, <1>6, <1>8 DEF FirstInv

LEMMA IdleFirst ==
    ASSUME FirstInv, Idle
    PROVE  FirstInv'
<1>1. settled' = settled /\ settled \subseteq Commands
  BY DEF Idle, FirstInv, TypeOK
<1> QED BY <1>1, ClientCallFirst DEF Idle

LEMMA ReportFirst ==
    ASSUME FirstInv, NEW status \in {"NotNow", "Acknowledged"}, Report(status)
    PROVE  FirstInv'
<1>1. /\ execStores("client", "StoreCommandReport", held, status) /\ held' = held
      /\ held # None /\ (status = "NotNow" => held \notin settled)
      /\ settled' = IF status = "NotNow" THEN settled ELSE settled \cup {held}
      /\ UNCHANGED <<files, fails, kind, tables, issued>>
  BY DEF Report
<1>2. held \in Commands \cup {None} /\ settled \subseteq Commands
  BY DEF FirstInv, TypeOK
<1>3. PICK c \in Commands \cup {None} : c = held
  BY <1>2
<1> QED BY <1>1, <1>2, <1>3, ClientCallFirst

LEMMA AuthenticateFirst ==
    ASSUME FirstInv, "overlap" \notin Allowed, Authenticate
    PROVE  FirstInv'
<1>1. settled' = settled /\ settled \subseteq Commands
  BY DEF Authenticate, FirstInv, TypeOK
<1> QED BY <1>1, ClientCallFirst DEF Authenticate

LEMMA ReturnFirst ==
    ASSUME FirstInv, NEW k \in Callers, Return(k)
    PROVE  FirstInv'
<1>1. TypeOK /\ CallInv /\ HeldInv /\ settled \subseteq Commands
  BY DEF FirstInv, TypeOK
<1>2. UNCHANGED <<files, fails, kind, tables, settled, issued>>
  BY DEF Return
<1>3. CASE call[k].op = "StoreCommandReport" /\ Final(k).at = "done"
  <2>1. k = "client"
    BY <1>1, <1>3, CallOf
  <2>2. PICK status \in {"Idle", "NotNow", "Acknowledged"} : status = call[k].status
    BY <1>1 DEF TypeOK, Call
  <2>3. execStores("client", "RetrieveNextCommand", None, status) /\ held' = held
    BY <1>3, <2>1, <2>2 DEF Return
  <2> QED BY <1>1, <1>2, <2>3, ClientCallFirst
<1>4. CASE ~ (call[k].op = "StoreCommandReport" /\ Final(k).at = "done")
  <2>1. /\ call' = [call EXCEPT ![k] = NoCall] /\ NoJobs(k)
        /\ held' = IF call[k].op = "RetrieveNextCommand" /\ Final(k).at = "done"
                   THEN Final(k).val ELSE held
    BY <1>4 DEF Return
  <2>2. /\ call' \in [Callers -> Call] /\ job' \in [Callers -> [Stores -> Job]]
        /\ call'[k].op = "none" /\ call'[k].uuid = None
        /\ \A s \in Stores : job'[k][s] = Started
        /\ \A l \in Callers \ {k} : call'[l] = call[l] /\ job'[l] = job[l]
    BY <1>1, <2>1, NoCallJob
  <2>3. (kind[1] = "file" => BlankInv(1))' /\ SameView(1)
    BY <1>2, BlankSame
  <2>4. held' \in Commands \cup {None} /\ (held' # None => held' \in Readable(1))
    <3>1. CASE call[k].op = "RetrieveNextCommand" /\ Final(k).at = "done"
      <4>1. k = "client"
        BY <1>1, <3>1, CallOf
      <4>2. Answering /\ held' = First.val
        BY <2>1, <3>1, <4>1 DEF Answering, First, Final
      <4>3. First.val \in Commands \cup {None}
        BY <1>1, Constants, JobFields DEF First, TypeOK
      <4> QED BY <1>1, <4>2, <4>3 DEF HeldInv
    <3>2. CASE ~ (call[k].op = "RetrieveNextCommand" /\ Final(k).at = "done")
      BY <1>1, <2>1, <3>2 DEF HeldInv, TypeOK
    <3> QED BY <3>1, <3>2
  <2>5. TypeOK'
    BY <1>1, <1>2, <2>2, <2>4 DEF TypeOK, files, tables
  <2>6. CASE k = "client"
    <3>1. call'["client"].op = "none" /\ call'["api"] = call["api"] /\ job'["api"] = job["api"]
      BY <2>2, <2>6, Constants
    <3>2. CallInv'
      BY <1>1, <1>2, <3>1 DEF CallInv, Reporting
    <3>3. \A s \in Stores : StoreInv(s)'
      BY <1>2, <2>2, <2>6, <3>1, ClientCallStores
    <3>4. HeldInv'
      BY <2>3, <2>4, <3>1 DEF HeldInv, Answering, SameView
    <3> QED BY <2>3, <2>5, <3>2, <3>3, <3>4 DEF FirstInv
  <2>7. CASE k = "api"
    <3>1. /\ call'["api"].op = "none" /\ call'["client"] = call["client"]
          /\ job'["client"] = job["client"]
      BY <2>2, <2>7, Constants
    <3>2. held' = held
      BY <1>1, <2>1, <2>7 DEF CallInv
    <3>3. CallInv'
      BY <1>1, <1>2, <3>1, <3>2 DEF CallInv, Reporting, Postponing, Resting
    <3>4. \A s \in Stores : StoreInv(s)'
      BY <1>2, <2>2, <2>7, <3>1, <3>2, ApiCallStores
    <3>5. HeldInv'
      BY <1>1, <2>3, <3>1, <3>2 DEF HeldInv, Answering, First, SameView
    <3> QED BY <2>3, <2>5, <3>3, <3>4, <3>5 DEF FirstInv
  <2> QED BY <2>6, <2>7, Constants
<1> QED BY <1>3, <1>4

LEMMA InitFirst == Init => FirstInv
<1> SUFFICES ASSUME Init
             PROVE  FirstInv
  OBVIOUS
<1>1. NoCall \in Call /\ NoCall.op = "none" /\ NoCall.uuid = None
  BY DEF NoCall, Call
<1>2. /\ \A k \in Callers : call[k] = NoCall
      /\ \A k \in Callers, s \in Stores : job[k][s] = Started
      /\ \A s \in Stores : blank[s] = {} /\ order[s] = <<>> /\ inactive[s] = {}
      /\ \A s \in Stores : result[s] = [c \in Commands |-> "none"]
      /\ \A s \in Stores, d \in Dirs : dir[s][d] = {}
      /\ held = None /\ settled = {} /\ issued = {} /\ fails = 0 /\ kind \in Kinds
  BY DEF Init
<1>3. TypeOK
  <2>1. 0 \in 0 .. MaxFail
    BY AllMultiAssumption
  <2>2. <<>> \in Seq(Commands) /\ "none" \in Statuses
    BY DEF Statuses
  <2>3. /\ call \in [Callers -> Call] /\ job \in [Callers -> [Stores -> Job]]
        /\ result \in [Stores -> [Commands -> Statuses]]
    BY <1>1, <2>2, StartedJob DEF Init
  <2>4. /\ dir \in [Stores -> [Dirs -> SUBSET Files]]
        /\ blank \in [Stores -> SUBSET Commands] /\ inactive \in [Stores -> SUBSET Commands]
        /\ order \in [Stores -> Seq(Commands)]
    BY <2>2 DEF Init
  <2> QED BY <1>2, <2>1, <2>3, <2>4 DEF TypeOK
<1>4. call["client"] = NoCall /\ call["api"] = NoCall
  BY <1>2, Constants
<1>5. CallInv
  BY <1>1, <1>4 DEF CallInv, Reporting
<1>6. HeldInv
  BY <1>1, <1>2, <1>4 DEF HeldInv, Answering
<1>7. ASSUME NEW s \in Stores
      PROVE  StoreInv(s) /\ BlankInv(s)
  <2>1. Rows(s) = {}
    BY <1>2 DEF Rows, ToSet
  <2>2. \A d \in Dirs, c \in Commands : ~ Exists(s, d, c)
    BY <1>2 DEF Exists
  <2>3. Stored(s) = {}
    BY <2>1, <2>2 DEF Stored
  <2>4. FreshInv(s) /\ ReportInv(s)
    BY <1>1, <1>4, <2>3 DEF FreshInv, ReportInv, Reporting
  <2>5. TableInv(s)
    BY <1>2 DEF TableInv
  <2>6. FilesInv(s) /\ BlankInv(s)
    BY <1>1, <1>2, <1>4, <2>2 DEF FilesInv, BlankInv, At
  <2> QED BY <2>4, <2>5, <2>6 DEF StoreInv
<1> QED BY <1>3, <1>5, <1>6, <1>7, Constants DEF FirstInv

LEMMA StutterFirst ==
    ASSUME FirstInv, UNCHANGED vars
    PROVE  FirstInv'
<1>1. /\ TypeOK' /\ CallInv'
      /\ \A s \in Stores : StoreInv(s)' /\ SameView(s)
  <2>1. /\ call' = call /\ job' = job /\ dir' = dir /\ blank' = blank /\ fails' = fails
        /\ kind' = kind /\ order' = order /\ result' = result /\ inactive' = inactive
        /\ held' = held /\ settled' = settled /\ issued' = issued
    BY DEF vars, files, tables
  <2>2. TypeOK' /\ CallInv'
    BY <2>1 DEF FirstInv, TypeOK, CallInv, Reporting, Postponing, Resting
  <2>3. \A s \in Stores : SameView(s)
    BY <2>1, CallerView DEF files, tables
  <2>4. ASSUME NEW s \in Stores
        PROVE  StoreInv(s)'
    <3>1. StoreInv(s)
      BY DEF FirstInv
    <3>2. FreshInv(s)' /\ ReportInv(s)'
      BY <2>1, <2>3, <3>1 DEF StoreInv, FreshInv, ReportInv, SameView, At, Reporting
    <3>3. (TableInv(s)' <=> TableInv(s)) /\ (FilesInv(s)' <=> FilesInv(s))
      BY <2>1 DEF TableInv, FilesInv, Rows, At, Exists, Postponing
    <3> QED BY <2>1, <3>1, <3>2, <3>3 DEF StoreInv
  <2> QED BY <2>2, <2>3, <2>4
<1>2. HeldInv'
  BY <1>1, Constants DEF FirstInv, HeldInv, SameView, Answering, First, vars
<1>3. (kind[1] = "file" => BlankInv(1))'
  BY DEF FirstInv, BlankInv, Exists, vars, files
<1> QED BY <1>1, <1>2, <1>3 DEF FirstInv

LEMMA NextFirst ==
    ASSUME FirstInv, "overlap" \notin Allowed, [Next]_vars
    PROVE  FirstInv'
<1>1. CASE \E c \in Commands : Enqueue(c)
  BY <1>1, EnqueueFirst
<1>2. CASE Idle
  BY <1>2, IdleFirst
<1>3. CASE \E status \in {"NotNow", "Acknowledged"} : Report(status)
  BY <1>3, ReportFirst
<1>4. CASE Authenticate
  BY <1>4, AuthenticateFirst
<1>5. CASE \E k \in Callers : Return(k)
  BY <1>5, ReturnFirst
<1>6. CASE \E k \in Callers, s \in Stores : Run(k, s)
  BY <1>6, RunFirst
<1>7. CASE UNCHANGED vars
  BY <1>7, StutterFirst
<1> QED BY <1>1, <1>2, <1>3, <1>4, <1>5, <1>6, <1>7 DEF Next

LEMMA AlwaysFirst ==
    ASSUME "overlap" \notin Allowed
    PROVE  Spec => []FirstInv
<1>1. Init => FirstInv
  BY InitFirst
<1>2. FirstInv /\ [Next]_vars => FirstInv'
  BY NextFirst
<1> QED BY <1>1, <1>2, PTL DEF Spec

-----------------------------------------------------------------------------
(* What the client sees is the first store's queue. *)

Holds == IF Answering THEN First.val ELSE held

Promised == [FirstStore!Next]_(FirstStore!vars)

LEMMA PhaseNow ==
    ASSUME NEW op, op = call["client"].op
    PROVE  /\ op = "none" => Phase = "idle" /\ Holds = held
           /\ op = "RetrieveNextCommand" =>
                 IF First.at = "done" THEN Phase = "idle" /\ Holds = First.val
                 ELSE Phase = Given(call["client"].status) /\ Holds = held
           /\ op = "StoreCommandReport" =>
                 /\ Holds = held
                 /\ First.moved => Phase = Given(call["client"].status)
                 /\ ~ First.moved => Phase = "idle"
           /\ op = "ClearQueue" =>
                 /\ Holds = held
                 /\ Phase = IF First.at = "done" THEN "idle" ELSE "clearing"
BY DEF Phase, Served, Holds, Answering

LEMMA PhaseThen ==
    ASSUME NEW op, op = call'["client"].op
    PROVE  /\ op = "none" => Phase' = "idle" /\ Holds' = held'
           /\ op = "RetrieveNextCommand" =>
                 IF First'.at = "done" THEN Phase' = "idle" /\ Holds' = First'.val
                 ELSE Phase' = Given(call'["client"].status) /\ Holds' = held'
           /\ op = "StoreCommandReport" =>
                 /\ Holds' = held'
                 /\ First'.moved => Phase' = Given(call'["client"].status)
                 /\ ~ First'.moved => Phase' = "idle"
           /\ op = "ClearQueue" =>
                 /\ Holds' = held'
                 /\ Phase' = IF First'.at = "done" THEN "idle" ELSE "clearing"
BY DEF Phase, Served, Holds, Answering, First, Given

LEMMA Unseen ==
    ASSUME SameView(1), Phase' = Phase, Holds' = Holds
    PROVE  Promised
BY DEF Promised, SameView, Holds, FirstStore!vars, FirstStore!queueVars

LEMMA InitPromised == Init => FirstStore!Init
<1> SUFFICES ASSUME Init
             PROVE  FirstStore!Init
  OBVIOUS
<1>1. call["client"] = NoCall /\ NoCall.op = "none" /\ 1 \in Stores
  BY Constants DEF Init, NoCall
<1>2. /\ order[1] = <<>> /\ \A d \in Dirs : dir[1][d] = {}
      /\ inactive[1] = {} /\ result[1] = [c \in Commands |-> "none"] /\ held = None
  BY <1>1 DEF Init
<1>3. Rows(1) = {} /\ Answered(1) = {}
  BY <1>2 DEF Rows, ToSet, Answered
<1>4. \A d \in Dirs, c \in Commands : ~ Exists(1, d, c)
  BY <1>2 DEF Exists
<1>5. Waiting(1) = {} /\ Deferred(1) = {} /\ Ended(1) = {}
  BY <1>2, <1>3, <1>4 DEF Waiting, Deferred, Ended, Dirs
<1>6. Phase = "idle" /\ Holds = held
  BY <1>1, PhaseNow
<1> QED BY <1>2, <1>5, <1>6 DEF FirstStore!Init, Holds

LEMMA CallersPromised ==
    ASSUME FirstInv,
           Idle \/ Authenticate \/ (\E c \in Commands : Enqueue(c))
           \/ \E status \in {"NotNow", "Acknowledged"} : Report(status)
    PROVE  Promised
<1>1. UNCHANGED <<files, kind, tables>>
  BY DEF Idle, Authenticate, Enqueue, Report
<1>2. SameView(1) /\ TypeOK
  BY <1>1, CallerView, Constants DEF FirstInv
<1>3. CASE \E c \in Commands : Enqueue(c)
  <2>1. PICK c \in Commands : Enqueue(c)
    BY <1>3
  <2>2. "EnqueueCommand" \in Ops /\ c \in Commands \cup {None}
    BY DEF Ops
  <2>3. call'["client"] = call["client"] /\ job'["client"] = job["client"] /\ held' = held
    BY <1>2, <2>1, <2>2, ExecJob, Constants DEF Enqueue
  <2>4. Phase' = Phase /\ Holds' = Holds
    BY <2>3 DEF Phase, Served, Holds, Answering, First, Given
  <2> QED BY <1>2, <2>4, Unseen
<1>4. ASSUME NEW op \in Ops, NEW c \in Commands \cup {None},
             NEW status \in {"Idle", "NotNow", "Acknowledged"},
             Resting("client"), execStores("client", op, c, status)
      PROVE  /\ Phase = "idle" /\ Holds = held
             /\ op = "RetrieveNextCommand" =>
                   Phase' = Given(status) /\ Holds' = held'
             /\ op = "StoreCommandReport" => Phase' = "idle" /\ Holds' = held'
             /\ op = "ClearQueue" => Phase' = "clearing" /\ Holds' = held'
  <2>1. call'["client"].op = op /\ call'["client"].status = status
        /\ job'["client"][1] = Started
    BY <1>2, <1>4, ExecJob, Constants
  <2>2. First'.at = "start" /\ ~ First'.moved
    BY <2>1, StartedJob DEF First
  <2> QED BY <1>4, <2>1, <2>2, PhaseNow, PhaseThen DEF Resting
<1>5. CASE Idle
  <2>1. /\ Phase = "idle" /\ Holds = held /\ held' = None
        /\ Phase' = "any" /\ Holds' = held'
    BY <1>4, <1>5 DEF Idle, Given, Ops
  <2>2. FirstStore!Idle
    BY <1>2, <2>1 DEF FirstStore!Idle, FirstStore!queueVars, SameView, Holds
  <2> QED BY <2>2 DEF Promised, FirstStore!Next
<1>6. CASE Authenticate
  <2>1. /\ Phase = "idle" /\ Holds = held /\ held' = None
        /\ Phase' = "clearing" /\ Holds' = held'
    BY <1>4, <1>6 DEF Authenticate, Ops
  <2>2. FirstStore!Clear
    BY <1>2, <2>1 DEF FirstStore!Clear, FirstStore!queueVars, SameView, Holds
  <2> QED BY <2>2 DEF Promised, FirstStore!Next
<1>7. CASE \E status \in {"NotNow", "Acknowledged"} : Report(status)
  <2>1. PICK status \in {"NotNow", "Acknowledged"} : Report(status)
    BY <1>7
  <2>2. held \in Commands \cup {None} /\ held' = held
    BY <1>2, <2>1 DEF TypeOK, Report
  <2>3. Phase' = Phase /\ Holds' = Holds
    BY <1>4, <2>1, <2>2 DEF Report, Ops
  <2> QED BY <1>2, <2>3, Unseen
<1> QED BY <1>3, <1>5, <1>6, <1>7

LEMMA ReturnPromised ==
    ASSUME FirstInv, NEW k \in Callers, Return(k)
    PROVE  Promised
<1>1. UNCHANGED <<files, kind, tables>> /\ TypeOK /\ CallInv
  BY DEF Return, FirstInv
<1>2. SameView(1)
  BY <1>1, CallerView, Constants
<1>3. CASE k = "api"
  <2>1. call[k].op \notin {"StoreCommandReport", "RetrieveNextCommand"}
    BY <1>1, <1>3, CallOf
  <2>2. call' = [call EXCEPT ![k] = NoCall] /\ NoJobs(k) /\ held' = held
    BY <2>1 DEF Return
  <2>3. call'["client"] = call["client"] /\ job'["client"] = job["client"]
    BY <1>1, <1>3, <2>2, NoCallJob, Constants
  <2>4. Phase' = Phase /\ Holds' = Holds
    BY <2>2, <2>3 DEF Phase, Served, Holds, Answering, First, Given
  <2> QED BY <1>2, <2>4, Unseen
<1>4. CASE k = "client" /\ call[k].op = "StoreCommandReport" /\ Final(k).at = "done"
  <2>1. First.moved
    BY <1>4, Constants DEF FirstInv, StoreInv, ReportInv, Reporting, Final, First
  <2>2. PICK status \in {"Idle", "NotNow", "Acknowledged"} : status = call[k].status
    BY <1>1 DEF TypeOK, Call
  <2>3. execStores("client", "RetrieveNextCommand", None, status) /\ held' = held
    BY <1>4, <2>2 DEF Return
  <2>4. /\ call'["client"].op = "RetrieveNextCommand" /\ call'["client"].status = status
        /\ job'["client"][1] = Started
    <3>1. PICK op \in Ops, c \in Commands \cup {None} :
             op = "RetrieveNextCommand" /\ c = None
      BY DEF Ops
    <3> QED BY <1>1, <2>3, <3>1, ExecJob, Constants
  <2>5. First'.at = "start"
    BY <2>4, StartedJob DEF First
  <2>6. Phase' = Phase /\ Holds' = Holds
    BY <1>4, <2>1, <2>2, <2>3, <2>4, <2>5, PhaseNow, PhaseThen
  <2> QED BY <1>2, <2>6, Unseen
<1>5. CASE k = "client" /\ ~ (call[k].op = "StoreCommandReport" /\ Final(k).at = "done")
  <2>1. /\ call' = [call EXCEPT ![k] = NoCall] /\ NoJobs(k)
        /\ held' = IF call[k].op = "RetrieveNextCommand" /\ Final(k).at = "done"
                   THEN Final(k).val ELSE held
    BY <1>5 DEF Return
  <2>2. call'["client"].op = "none"
    BY <1>1, <1>5, <2>1, NoCallJob
  <2>3. Phase' = "idle" /\ Holds' = held'
    BY <2>2, PhaseThen
  <2>4. Holds' = Holds
    BY <1>5, <2>1, <2>3 DEF Holds, Answering, First, Final
  <2>5. CASE Phase = "idle"
    BY <1>2, <2>3, <2>4, <2>5, Unseen
  <2>6. CASE Phase # "idle"
    <3>1. FirstStore!Fail
      BY <1>2, <2>3, <2>4, <2>6 DEF FirstStore!Fail, FirstStore!queueVars, SameView, Holds
    <3> QED BY <3>1 DEF Promised, FirstStore!Next
  <2> QED BY <2>5, <2>6
<1> QED BY <1>3, <1>4, <1>5, Constants

LEMMA SameJobPhase ==
    ASSUME call' = call, held' = held, job'["client"][1] = job["client"][1]
    PROVE  Phase' = Phase /\ Holds' = Holds
BY DEF Phase, Served, Holds, Answering, First, Given

(* The api's steps on the first store *)
LEMMA StoredPromised ==
    ASSUME NEW c \in Commands, Phase' = Phase, Holds' = Holds,
           c \notin Waiting(1) \cup Ended(1),
           Waiting(1)' = Waiting(1) \cup {c}, Deferred(1)' = Deferred(1),
           Ended(1)' = Ended(1)
    PROVE  Promised
<1>1. FirstStore!Enqueue(c)
  BY DEF FirstStore!Enqueue, Holds
<1> QED BY <1>1 DEF Promised, FirstStore!Next

LEMMA EnqueuePromised ==
    ASSUME FirstInv, NEW k \in Callers, Run(k, 1),
           \/ kind[1] = "file" /\ (Create(k, 1) \/ Write(k, 1))
           \/ kind[1] = "sql" /\ InsertRow(k, 1)
    PROVE  Promised
<1>0. TypeOK /\ CallInv /\ StoreInv(1) /\ 1 \in Stores
  BY Constants DEF FirstInv
<1>1. k = "api"
  BY <1>0, CallOf DEF Create, Write, InsertRow, At
<1>2. /\ kind' = kind /\ call' = call /\ held' = held
      /\ job'["client"][1] = job["client"][1]
  BY <1>0, <1>1, RunFrame, Constants DEF Frame
<1>3. Phase' = Phase /\ Holds' = Holds
  BY <1>2, SameJobPhase
<1>4. CASE Create(k, 1) /\ kind[1] = "file"
  <2>1. call[k].uuid \in Commands /\ call[k].uuid \notin Stored(1)
    BY <1>0, <1>4, CreateStep
  <2>2. Waiting(1)' = Waiting(1) /\ Deferred(1)' = Deferred(1) /\ Ended(1)' = Ended(1)
    BY <1>0, <1>2, <1>4, <2>1, CreateEffect
  <2> QED BY <1>3, <2>2
      DEF Promised, Holds, FirstStore!vars, FirstStore!queueVars
<1>5. CASE Write(k, 1) /\ kind[1] = "file"
  <2>1. /\ call[k].uuid \in Commands /\ call[k].uuid \in blank[1]
        /\ Exists(1, "Queue", call[k].uuid)
    BY <1>0, <1>5, WriteStep DEF FirstInv, BlankInv
  <2>2. PICK c \in Commands : c = call[k].uuid
    BY <2>1
  <2>3. /\ Waiting(1)' = Waiting(1) \cup {c} /\ Deferred(1)' = Deferred(1)
        /\ Ended(1)' = Ended(1)
    BY <1>0, <1>2, <1>5, <2>1, <2>2, WriteEffect
  <2>4. c \notin Waiting(1) \cup Ended(1)
    <3>1. kind[1] # "sql" /\ FilesInv(1)
      BY <1>0, <1>5 DEF StoreInv
    <3> QED BY <2>1, <2>2, <3>1 DEF Waiting, Ended, FilesInv, Dirs
  <2> QED BY <1>3, <2>3, <2>4, StoredPromised
<1>6. CASE InsertRow(k, 1) /\ kind[1] = "sql"
  <2>1. call[k].uuid \in Commands /\ call[k].uuid \notin Stored(1) /\ TableInv(1)
    BY <1>0, <1>6, InsertRowStep DEF StoreInv
  <2>2. PICK c \in Commands : c = call[k].uuid
    BY <2>1
  <2>3. /\ Waiting(1)' = Waiting(1) \cup {c} /\ Deferred(1)' = Deferred(1)
        /\ Ended(1)' = Ended(1)
    BY <1>0, <1>2, <1>6, <2>1, <2>2, InsertRowEffect
  <2>4. c \notin Waiting(1) \cup Ended(1)
    <3>1. c \notin Rows(1)
      BY <1>6, <2>1, <2>2 DEF Stored
    <3>2. result[1][c] = "none" /\ c \notin inactive[1]
      BY <2>1, <3>1 DEF TableInv
    <3> QED BY <1>6, <3>1, <3>2 DEF Waiting, Ended, Answered
  <2> QED BY <1>3, <2>3, <2>4, StoredPromised
<1> QED BY <1>4, <1>5, <1>6

(* A report that reaches the first store *)
LEMMA ReportPromised ==
    ASSUME FirstInv, NEW k \in Callers, Run(k, 1),
           \/ kind[1] = "file" /\ Move(k, 1)
           \/ kind[1] = "sql" /\ UpsertResult(k, 1)
    PROVE  Promised
<1>0. TypeOK /\ CallInv /\ HeldInv /\ StoreInv(1) /\ 1 \in Stores
  BY Constants DEF FirstInv
<1>1. call[k].op = "StoreCommandReport"
  BY DEF Move, UpsertResult, At
<1>2. /\ k = "client" /\ Reporting /\ held \in Commands /\ held # None
      /\ call["client"].status \in {"NotNow", "Acknowledged"}
      /\ call["client"].uuid = held
  BY <1>0, <1>1, CallOf, Constants DEF Reporting
<1>3. kind' = kind /\ call' = call /\ held' = held
  BY <1>0, RunFrame DEF Frame
<1>4. ~ First.moved
  BY <1>0, <1>2 DEF StoreInv, ReportInv, Move, UpsertResult, At, First
<1>5. Phase = "idle" /\ Holds = held /\ Holds' = held
  BY <1>1, <1>2, <1>3, <1>4, PhaseNow, PhaseThen
<1>6. ASSUME First'.moved,
             IF Postponing
             THEN /\ Waiting(1)' = Waiting(1) /\ Ended(1)' = Ended(1)
                  /\ Deferred(1)' = Deferred(1) \cup ({held} \cap Waiting(1))
             ELSE /\ Waiting(1)' = Waiting(1) \ {held}
                  /\ Ended(1)' = Ended(1) \cup {held}
                  /\ Deferred(1)' = Deferred(1) \ {held}
      PROVE  Promised
  <2>1. Phase' = Given(call["client"].status)
    BY <1>1, <1>2, <1>3, <1>6, PhaseThen
  <2>2. CASE Postponing
    <3>1. Phase' = "new"
      BY <2>1, <2>2 DEF Given, Postponing
    <3>2. FirstStore!NotNow
      BY <1>2, <1>5, <1>6, <2>2, <3>1 DEF FirstStore!NotNow, Holds
    <3> QED BY <3>2 DEF Promised, FirstStore!Next
  <2>3. CASE ~ Postponing
    <3>1. Phase' = "any"
      BY <2>1, <2>3 DEF Given, Postponing
    <3>2. FirstStore!Answer
      BY <1>2, <1>5, <1>6, <2>3, <3>1 DEF FirstStore!Answer, Holds
    <3> QED BY <3>2 DEF Promised, FirstStore!Next
  <2> QED BY <2>2, <2>3
<1>7. ASSUME SameStore(1), ~ First'.moved
      PROVE  Promised
  <2>1. Phase' = "idle"
    BY <1>1, <1>2, <1>3, <1>7, PhaseThen
  <2> QED BY <1>0, <1>3, <1>5, <1>7, <2>1, StoreUnchanged, Unseen
<1>8. CASE UpsertResult(k, 1) /\ kind[1] = "sql"
  BY <1>0, <1>2, <1>6, <1>7, <1>8, UpsertStep DEF First
<1>9. CASE Move(k, 1) /\ kind[1] = "file"
  <2>1. /\ blank'[1] = blank[1]
        /\ \/ /\ Exists(1, job[k][1].src, held)
              /\ Renamed(1, job[k][1].src, Destination(k), held)
              /\ First'.moved
           \/ SameStore(1) /\ ~ First'.moved
    BY <1>0, <1>2, <1>9, MoveStep DEF First
  <2>2. CASE /\ Exists(1, job[k][1].src, held)
             /\ Renamed(1, job[k][1].src, Destination(k), held)
             /\ First'.moved
    <3>1. PICK from \in {"Queue", "QueueNotNow"}, to \in Dirs :
             /\ from = job[k][1].src
             /\ to = IF Postponing THEN "QueueNotNow" ELSE "QueueDone"
      BY <1>0, <1>2, <1>9 DEF StoreInv, ReportInv, Move, At, Dirs
    <3>2. to = Destination(k)
      BY <1>2, <3>1 DEF Destination, Postponing
    <3>3. kind[1] # "sql" /\ FilesInv(1)
      BY <1>0, <1>9 DEF StoreInv
    <3>4. PICK c \in Commands : c = held
      BY <1>2
    <3>5. Exists(1, from, c) /\ Renamed(1, from, to, c)
      BY <2>2, <3>1, <3>2, <3>4
    <3>6. /\ Waiting(1)' = IF Postponing THEN Waiting(1) ELSE Waiting(1) \ {c}
          /\ Deferred(1)' = IF Postponing THEN Deferred(1) \cup {c} ELSE Deferred(1) \ {c}
          /\ Ended(1)' = IF Postponing THEN Ended(1) ELSE Ended(1) \cup {c}
      BY <1>0, <1>3, <1>9, <2>1, <3>1, <3>3, <3>5, RenamedEffect
    <3>7. c \in Waiting(1)
      <4>1. c \notin blank[1]
        BY <1>0, <1>2, <3>3, <3>4 DEF HeldInv, Readable
      <4> QED BY <3>3, <3>5, <4>1 DEF Waiting
    <3> QED BY <1>6, <2>2, <3>4, <3>6, <3>7
  <2> QED BY <1>7, <2>1, <2>2
<1> QED BY <1>8, <1>9

(* The next command *)
Offers(c) == c \in Waiting(1) /\ ~ (Postponing /\ c \in Deferred(1))

LEMMA GivenPromised ==
    ASSUME Phase = Given(call["client"].status), Phase' = "idle", SameView(1),
           Holds' \in Commands \cup {None},
           IF \E c \in Commands : Offers(c) THEN Offers(Holds') ELSE Holds' = None
    PROVE  Promised
<1>1. Phase \in {"any", "new"} /\ (Phase = "new" <=> Postponing)
  BY DEF Given, Postponing
<1>2. \A c : Offers(c) <=> c \in Waiting(1) /\ ~ (Phase = "new" /\ c \in Deferred(1))
  BY <1>1 DEF Offers
<1>3. FirstStore!Retrieve
  BY <1>1, <1>2 DEF FirstStore!Retrieve, FirstStore!Offered, FirstStore!queueVars,
     SameView, Holds
<1> QED BY <1>3 DEF Promised, FirstStore!Next

LEMMA RetrievePromised ==
    ASSUME FirstInv, NEW k \in Callers, Run(k, 1),
           \/ kind[1] = "file" /\ (NextNotNow(k, 1) \/ NextQueued(k, 1))
           \/ kind[1] = "sql" /\ SelectNext(k, 1)
    PROVE  Promised
<1>0. TypeOK /\ CallInv /\ StoreInv(1) /\ 1 \in Stores /\ None \notin Commands
  BY Constants DEF FirstInv
<1>1. k = "client" => call[k].op = "RetrieveNextCommand" /\ First.at # "done"
  BY DEF NextNotNow, NextQueued, SelectNext, At, First
<1>2. k = "client" /\ call["client"].op = "RetrieveNextCommand"
  BY <1>0, CallOf DEF NextNotNow, NextQueued, SelectNext, At
<1>3. call' = call /\ held' = held /\ kind' = kind
  BY <1>0, RunFrame DEF Frame
<1>4. Phase = Given(call["client"].status) /\ Holds = held
  BY <1>1, <1>2, PhaseNow
<1>5. SameView(1)
  BY <1>0, <1>3, NextStep, SelectStep, StoreUnchanged
<1>6. CASE First'.at # "done"
  <2>1. Phase' = Phase /\ Holds' = Holds
    BY <1>2, <1>3, <1>4, <1>6, PhaseThen
  <2> QED BY <1>5, <2>1, Unseen
<1>7. CASE First'.at = "done"
  <2>1. Phase' = "idle" /\ Holds' = First'.val
    BY <1>2, <1>3, <1>7, PhaseThen
  <2>2. ASSUME First'.val \in Commands, Offers(First'.val)
        PROVE  Promised
    BY <1>4, <1>5, <2>1, <2>2, GivenPromised
  <2>3. ASSUME First'.val = None, \A c \in Commands : ~ Offers(c)
        PROVE  Promised
    BY <1>4, <1>5, <2>1, <2>3, GivenPromised
  <2>4. CASE kind[1] = "sql" /\ SelectNext(k, 1)
    <3>1. \/ First'.val = None /\ Rank(k, 1) = {}
          \/ \E i \in Rank(k, 1) : First'.val = order[1][i]
      BY <1>0, <1>2, <2>4, SelectJob DEF First
    <3>2. \A i \in DOMAIN order[1] : order[1][i] \in Commands
      BY <1>0 DEF TypeOK
    <3>3. \A i \in DOMAIN order[1] : i \in Rank(k, 1) <=> Offers(order[1][i])
      BY <1>2 DEF Rank, Offers, Postponing
    <3>4. \A c : Offers(c) => \E i \in DOMAIN order[1] : order[1][i] = c
      BY <2>4 DEF Offers, Waiting, Rows, ToSet
    <3>5. CASE First'.val = None /\ Rank(k, 1) = {}
      BY <2>3, <3>3, <3>4, <3>5
    <3>6. CASE \E i \in Rank(k, 1) : First'.val = order[1][i]
      BY <2>2, <3>2, <3>3, <3>6 DEF Rank
    <3> QED BY <3>1, <3>5, <3>6
  <2>5. CASE kind[1] = "file" /\ (NextNotNow(k, 1) \/ NextQueued(k, 1))
    <3>1. kind[1] # "sql" /\ FilesInv(1) /\ {"Queue", "QueueNotNow"} \subseteq Dirs
      BY <1>0, <2>5 DEF StoreInv, Dirs
    <3>2. ~ Then(k, 1, "queue")
      BY <1>0, <1>2, <1>7, ThenJob DEF Steps, First
    <3>3. \/ Got(k, 1, "QueueNotNow") /\ ~ Postponing
          \/ Got(k, 1, "Queue")
          \/ /\ Done(k, 1, None) /\ dir[1]["Queue"] = {}
             /\ ~ Postponing => dir[1]["QueueNotNow"] = {}
      BY <1>2, <2>5, <3>1, <3>2
         DEF NextNotNow, NextQueued, Postponing, Finds, FilesInv, At
    <3>4. ASSUME NEW d \in {"Queue", "QueueNotNow"}, Got(k, 1, d),
                 d = "QueueNotNow" => ~ Postponing
          PROVE  Promised
      <4>1. /\ First'.val \in Commands /\ Exists(1, d, First'.val)
            /\ First'.val \notin blank[1]
        BY <1>0, <1>2, <1>7, <3>1, <3>4, GotJob DEF First
      <4>2. First'.val \in Waiting(1)
        BY <3>1, <4>1 DEF Waiting
      <4>3. d = "Queue" => First'.val \notin Deferred(1)
        BY <3>1, <4>1 DEF Deferred, FilesInv
      <4> QED BY <2>2, <3>4, <4>1, <4>2, <4>3 DEF Offers
    <3>5. CASE /\ Done(k, 1, None) /\ dir[1]["Queue"] = {}
               /\ ~ Postponing => dir[1]["QueueNotNow"] = {}
      <4>1. First'.val = None
        BY <1>0, <1>2, <3>5, DoneJob DEF First
      <4>2. \A c \in Commands : ~ Offers(c)
        BY <3>1, <3>5 DEF Offers, Waiting, Deferred, Exists
      <4> QED BY <2>3, <4>1, <4>2
    <3> QED BY <3>3, <3>4, <3>5
  <2> QED BY <2>4, <2>5
<1> QED BY <1>6, <1>7

(* ClearQueue *)
LEMMA ClearPromised ==
    ASSUME FirstInv, NEW k \in Callers, Run(k, 1),
           \/ kind[1] = "file" /\ (ClearQueued(k, 1) \/ ClearNotNow(k, 1))
           \/ kind[1] = "sql" /\ Deactivate(k, 1)
    PROVE  Promised
<1>0. TypeOK /\ CallInv /\ StoreInv(1) /\ 1 \in Stores
  BY Constants DEF FirstInv
<1>1. k = "client" => call[k].op = "ClearQueue" /\ First.at # "done"
  BY DEF ClearQueued, ClearNotNow, Deactivate, At, First
<1>2. k = "client" /\ call["client"].op = "ClearQueue"
  BY <1>0, CallOf DEF ClearQueued, ClearNotNow, Deactivate, At
<1>3. call' = call /\ held' = held /\ kind' = kind
  BY <1>0, RunFrame DEF Frame
<1>4. Phase = "clearing" /\ Holds = held /\ Holds' = held
      /\ Phase' = IF First'.at = "done" THEN "idle" ELSE "clearing"
  BY <1>1, <1>2, <1>3, PhaseNow, PhaseThen
<1>5. ASSUME NEW C \in SUBSET Waiting(1),
             Waiting(1)' = Waiting(1) \ C, Deferred(1)' = Deferred(1) \ C,
             Ended(1)' = Ended(1) \cup C,
             First'.at = "done" => Waiting(1)' = {}
      PROVE  Promised
  <2>1. FirstStore!Remove(C)
    BY <1>4, <1>5 DEF FirstStore!Remove, Holds
  <2> QED BY <2>1 DEF Promised, FirstStore!Next
<1>6. ASSUME SameStore(1), First'.at = "done" => Waiting(1) = {}
      PROVE  Promised
  <2>1. SameView(1)
    BY <1>0, <1>3, <1>6, StoreUnchanged
  <2>2. PICK C \in SUBSET Waiting(1) : C = {}
    OBVIOUS
  <2>3. /\ Waiting(1)' = Waiting(1) \ C /\ Deferred(1)' = Deferred(1) \ C
        /\ Ended(1)' = Ended(1) \cup C
    BY <2>1, <2>2 DEF SameView
  <2> QED BY <1>5, <1>6, <2>1, <2>3 DEF SameView
<1>7. CASE Deactivate(k, 1) /\ kind[1] = "sql"
  <2>1. TableInv(1)
    BY <1>0, <1>7 DEF StoreInv
  <2>2. Waiting(1)' = {} /\ Deferred(1)' = {} /\ Ended(1)' = Ended(1) \cup Waiting(1)
    BY <1>0, <1>3, <1>7, <2>1, DeactivateEffect
  <2>3. Deferred(1) \subseteq Waiting(1)
    BY <1>7 DEF Deferred
  <2> QED BY <1>5, <2>2, <2>3
<1>8. CASE (ClearQueued(k, 1) \/ ClearNotNow(k, 1)) /\ kind[1] = "file"
  <2>0. kind[1] # "sql" /\ FilesInv(1) /\ "QueueInactive" \in Dirs /\ blank'[1] = blank[1]
    BY <1>0, <1>8, ClearStep DEF StoreInv, Dirs
  <2>1. \/ /\ SameStore(1)
           /\ First'.at = "done" => dir[1]["Queue"] = {} /\ dir[1]["QueueNotNow"] = {}
        \/ /\ job' = job
           /\ \E d \in {"Queue", "QueueNotNow"}, c \in Commands :
                 /\ Exists(1, d, c) /\ c \notin blank[1]
                 /\ Renamed(1, d, "QueueInactive", c)
    BY <1>0, <1>8, ClearStep DEF First
  <2>2. CASE /\ SameStore(1)
             /\ First'.at = "done" => dir[1]["Queue"] = {} /\ dir[1]["QueueNotNow"] = {}
    <3>1. First'.at = "done" => Waiting(1) = {}
      BY <2>0, <2>2 DEF Waiting, Exists
    <3> QED BY <1>6, <2>2, <3>1
  <2>3. ASSUME job' = job, NEW d \in {"Queue", "QueueNotNow"}, NEW c \in Commands,
               Exists(1, d, c), c \notin blank[1], Renamed(1, d, "QueueInactive", c)
        PROVE  Promised
    <3>1. /\ Waiting(1)' = Waiting(1) \ {c} /\ Deferred(1)' = Deferred(1) \ {c}
          /\ Ended(1)' = Ended(1) \cup {c}
      BY <1>0, <1>3, <1>8, <2>0, <2>3, RenamedEffect
    <3>2. c \in Waiting(1)
      BY <2>0, <2>3 DEF Waiting
    <3>3. First'.at # "done"
      BY <1>1, <1>2, <2>3 DEF First
    <3> QED BY <1>5, <3>1, <3>2, <3>3
  <2> QED BY <2>1, <2>2, <2>3
<1> QED BY <1>7, <1>8

(* A step that fails, or that the first store takes on its own *)
LEMMA QuietPromised ==
    ASSUME FirstInv, NEW k \in Callers, NEW s \in Stores, Run(k, s), SameView(1),
           s = 1 => /\ call[k].op # "none" /\ job[k][1].at # "done"
                    /\ job'[k][1].at # "done"
                    /\ job'[k][1].moved <=> job[k][1].moved
    PROVE  Promised
<1>0. TypeOK /\ 1 \in Stores /\ "client" \in Callers
  BY Constants DEF FirstInv
<1>1. /\ call' = call /\ held' = held
      /\ \A l \in Callers, t \in Stores : l # k \/ t # s => job'[l][t] = job[l][t]
  BY <1>0, RunFrame DEF Frame
<1>2. CASE k # "client" \/ s # 1
  <2>1. job'["client"][1] = job["client"][1]
    BY <1>0, <1>1, <1>2
  <2> QED BY <1>1, <2>1, SameJobPhase, Unseen
<1>3. CASE k = "client" /\ s = 1
  <2>1. /\ First.at # "done" /\ First'.at # "done"
        /\ First'.moved <=> First.moved
    BY <1>3 DEF First
  <2>2. Phase' = Phase /\ Holds' = Holds
    BY <1>1, <2>1 DEF Phase, Served, Holds, Answering, Given
  <2> QED BY <2>2, Unseen
<1> QED BY <1>2, <1>3

LEMMA RunPromised ==
    ASSUME FirstInv, NEW k \in Callers, NEW s \in Stores, Run(k, s)
    PROVE  Promised
<1>0. TypeOK /\ CallInv /\ StoreInv(1) /\ 1 \in Stores /\ kind' = kind
  BY RunFrame, Constants DEF FirstInv, Frame
<1>1. CASE s # 1
  BY <1>0, <1>1, OtherStore, QuietPromised
<1>2. ASSUME s = 1, SameStore(1), call[k].op # "none", job[k][1].at # "done",
             job'[k][1].at # "done", job'[k][1].moved <=> job[k][1].moved
      PROVE  Promised
  BY <1>0, <1>2, StoreUnchanged, QuietPromised
<1>3. CASE s = 1 /\ kind[1] = "file" /\ FileStep(k, 1)
  <2>0. Run(k, 1) /\ kind[1] = "file"
    BY <1>3
  <2>1. CASE Create(k, 1) \/ Write(k, 1)
    BY <2>0, <2>1, EnqueuePromised
  <2>2. CASE Move(k, 1)
    BY <2>0, <2>2, ReportPromised
  <2>3. CASE NextNotNow(k, 1) \/ NextQueued(k, 1)
    BY <2>0, <2>3, RetrievePromised
  <2>4. CASE ClearQueued(k, 1) \/ ClearNotNow(k, 1)
    BY <2>0, <2>4, ClearPromised
  <2>5. CASE Locate(k, 1)
    <3>1. SameStore(1)
      BY <1>0, <1>3, <2>5, LocateStep
    <3>2. k = "client" /\ Reporting
      BY <1>0, <2>5, CallOf DEF Locate, At, Reporting
    <3>3. /\ call[k].op # "none" /\ job[k][1].at = "start" /\ ~ job[k][1].moved
      BY <1>0, <2>5, <3>2 DEF Locate, At, StoreInv, ReportInv
    <3>4. job'[k][1].at = "move" /\ ~ job'[k][1].moved
      BY <1>0, <2>5, LocateJob
    <3> QED BY <1>2, <1>3, <3>1, <3>3, <3>4
  <2>6. CASE RemoveResults(k, 1)
    <3>1. SameStore(1)
      BY <1>0, <1>3, <2>6, RemoveResultsStep
    <3>2. /\ job'[k][1].at = "writeResults"
          /\ job'[k][1].moved <=> job[k][1].moved
      BY <1>0, <2>6, ThenJob DEF RemoveResults, Steps
    <3> QED BY <1>2, <1>3, <2>6, <3>1, <3>2 DEF RemoveResults, At
  <2>7. CASE WriteResults(k, 1)
    <3>1. SameStore(1)
      BY <1>0, <1>3, <2>7, WriteResultsStep
    <3>2. k = "client" /\ Reporting /\ First.moved
      BY <1>0, <2>7, CallOf DEF WriteResults, At, Reporting, StoreInv, ReportInv, First
    <3>3. First'.moved
      BY <1>0, <2>7, <3>2, DoneJob DEF WriteResults, First
    <3>4. call' = call /\ held' = held
      BY <1>0, <1>3, RunFrame DEF Frame
    <3>5. Phase' = Phase /\ Holds' = Holds
      BY <3>2, <3>3, <3>4, PhaseNow, PhaseThen DEF Reporting
    <3> QED BY <1>0, <3>1, <3>5, StoreUnchanged, Unseen
  <2>8. CASE StepFails(k, 1)
    <3>1. SameStore(1)
      BY <1>0, <1>3, <2>8, StepFailsStep
    <3>2. /\ job'[k][1].at = "failed"
          /\ job'[k][1].moved <=> job[k][1].moved
      BY <1>0, <2>8, FailedJob DEF StepFails
    <3> QED BY <1>2, <1>3, <2>8, <3>1, <3>2 DEF StepFails, Over
  <2> QED BY <1>3, <2>1, <2>2, <2>3, <2>4, <2>5, <2>6, <2>7, <2>8 DEF FileStep
<1>4. CASE s = 1 /\ kind[1] = "sql" /\ DatabaseStep(k, 1)
  <2>1. CASE InsertRow(k, 1)
    BY <1>4, <2>1, EnqueuePromised
  <2>2. CASE UpsertResult(k, 1)
    BY <1>4, <2>2, ReportPromised
  <2>3. CASE SelectNext(k, 1)
    BY <1>4, <2>3, RetrievePromised
  <2>4. CASE Deactivate(k, 1)
    BY <1>4, <2>4, ClearPromised
  <2>5. CASE StatementFails(k, 1)
    <3>1. SameStore(1)
      BY <1>0, <1>4, <2>5, StatementFailsStep
    <3>2. /\ job'[k][1].at = "failed"
          /\ job'[k][1].moved <=> job[k][1].moved
      BY <1>0, <2>5, FailedJob DEF StatementFails
    <3> QED BY <1>2, <1>4, <2>5, <3>1, <3>2 DEF StatementFails, Over
  <2> QED BY <1>4, <2>1, <2>2, <2>3, <2>4, <2>5 DEF DatabaseStep
<1> QED BY <1>1, <1>3, <1>4 DEF Run

LEMMA StutterPromised ==
    ASSUME FirstInv, UNCHANGED vars
    PROVE  Promised
<1>1. SameView(1)
  BY CallerView, Constants DEF vars
<1>2. call' = call /\ held' = held /\ job'["client"][1] = job["client"][1]
  BY DEF vars
<1> QED BY <1>1, <1>2, SameJobPhase, Unseen

LEMMA NextPromised ==
    ASSUME FirstInv, [Next]_vars
    PROVE  Promised
<1>1. CASE Idle \/ Authenticate \/ (\E c \in Commands : Enqueue(c))
           \/ \E status \in {"NotNow", "Acknowledged"} : Report(status)
  BY <1>1, CallersPromised
<1>2. CASE \E k \in Callers : Return(k)
  BY <1>2, ReturnPromised
<1>3. CASE \E k \in Callers, s \in Stores : Run(k, s)
  BY <1>3, RunPromised
<1>4. CASE UNCHANGED vars
  BY <1>4, StutterPromised
<1> QED BY <1>1, <1>2, <1>3, <1>4 DEF Next

(* The client of several storages sees the first one's queue and no other, *)
(* and that queue keeps what a storage promises (storage/queue.go):        *)
(* whatever the other stores do, in whatever order they answer, fail or    *)
(* fall behind (allmulti.go: finalValue and finalErr are the first's), as  *)
(* long as the queue is not cleared during an EnqueueCommand.              *)
THEOREM ImplementsFirstCorrect ==
    ASSUME "overlap" \notin Allowed
    PROVE  Spec => ImplementsFirst
<1>1. Init => FirstStore!Init
  BY InitPromised
<1>2. FirstInv /\ [Next]_vars => [FirstStore!Next]_(FirstStore!vars)
  BY NextPromised DEF Promised
<1>3. Spec => []FirstInv
  BY AlwaysFirst
<1> QED BY <1>1, <1>2, <1>3, PTL DEF Spec, ImplementsFirst, FirstStore!Spec

-----------------------------------------------------------------------------
(* Without errors every store keeps up with the first.                     *)

LEMMA LeastNatural ==
    ASSUME NEW T \in SUBSET Nat, T # {}
    PROVE  Min(T) \in T
<1>1. PICK R : R = OpToRel(<, Nat) /\ IsWellFoundedOn(R, Nat)
  BY NatLessThanWellFounded, Zenon
<1>2. PICK m \in T : \A n \in T : ~ (<<n, m>> \in R)
  BY <1>1, WFMin
<1>3. \A n \in T : n \in Nat /\ m \in Nat /\ ~ (n < m)
  BY <1>1, <1>2 DEF OpToRel
<1>4. \E x \in T : \A y \in T : x <= y
  BY <1>3
<1> QED BY <1>4 DEF Min

(* A directory that holds only files of commands decodes.                  *)
LEMMA FirstDecodes ==
    ASSUME TypeOK, NEW s \in Stores, NEW d \in Dirs,
           \A f \in dir[s][d] : Exists(s, d, f[1]) /\ f[1] \notin blank[s]
    PROVE  Finds(s, d) # "error"
<1> SUFFICES ASSUME dir[s][d] # {}
             PROVE  Decodes(s, d)
  BY DEF Finds
<1>1. dir[s][d] \subseteq Commands \X {"plist", "result.plist"}
  BY DEF TypeOK, Files
<1>2. PICK T : T = {f[1] : f \in dir[s][d]}
  OBVIOUS
<1>3. T \subseteq Nat /\ T # {}
  BY <1>1, <1>2, Constants
<1>4. PICK c : c = Min(T)
  OBVIOUS
<1>5. c \in T
  BY <1>3, <1>4, LeastNatural
<1>6. Exists(s, d, c) /\ c \notin blank[s]
  BY <1>2, <1>5
<1>7. c = FirstUUID(s, d)
  BY <1>2, <1>4 DEF FirstUUID
<1> QED BY <1>6, <1>7 DEF Decodes, NextIsCommand, Exists

Apart == Reporting => held # call["api"].uuid

Recorded(s) == issued \subseteq Readable(s) \cup Upcoming(s)

WillSame(s) ==
    /\ WillWait(s)' = WillWait(s) /\ WillDefer(s)' = WillDefer(s)
    /\ WillEnd(s)' = WillEnd(s)

(* What the client reports on is a command of every store.                 *)
LEMMA HeldRecorded ==
    ASSUME FirstInv, Apart, NEW s \in Stores, Recorded(s), Reporting
    PROVE  /\ held \in Commands /\ held \in Readable(s) /\ held \in Stored(s)
           /\ kind[s] = "file" => held \notin blank[s]
<1>1. /\ held # None /\ held \in Readable(1) /\ FreshInv(1) /\ held \in Commands
  BY Constants DEF FirstInv, CallInv, HeldInv, StoreInv, TypeOK
<1>2. held \in issued
  BY <1>1 DEF Readable, Stored, FreshInv
<1>3. held \in Readable(s)
  BY <1>2 DEF Recorded, Upcoming, Apart
<1> QED BY <1>1, <1>3 DEF Readable, Stored

-----------------------------------------------------------------------------
(* The files *)

LEMMA ReadQuiet ==
    ASSUME NEW s \in Stores, ReadInv(s), BlankInv(s)', call' = call, held' = held,
           \A d \in Dirs : dir'[s][d] = dir[s][d], blank'[s] = blank[s],
           At("api", s, "EnqueueCommand", "write") =>
              At("api", s, "EnqueueCommand", "write")',
           At("client", s, "StoreCommandReport", "removeResults") =>
              job'["client"][s] = job["client"][s],
           Reporting /\ job'["client"][s].at = "move" =>
              job'["client"][s].src = Source(s, held),
           Reporting /\ Postponing
           /\ job'["client"][s].at \in {"removeResults", "writeResults"} =>
              Exists(s, "QueueNotNow", held)
    PROVE  ReadInv(s)'
<1>1. dir'[s]["Queue"] = dir[s]["Queue"] /\ dir'[s]["QueueNotNow"] = dir[s]["QueueNotNow"]
  BY DEF Dirs
<1>2. \A c : /\ Exists(s, "Queue", c)' <=> Exists(s, "Queue", c)
             /\ Exists(s, "QueueNotNow", c)' <=> Exists(s, "QueueNotNow", c)
  BY <1>1 DEF Exists
<1>3. Source(s, held)' = Source(s, held)
  BY <1>1 DEF Source, Exists
<1>4. \A c \in blank'[s] : At("api", s, "EnqueueCommand", "write")' /\ c = call'["api"].uuid
  BY DEF ReadInv
<1>5. \A f \in dir'[s]["Queue"] : f[2] = "plist"
  BY <1>1 DEF ReadInv
<1>6. \A f \in dir'[s]["QueueNotNow"] :
          \/ Exists(s, "QueueNotNow", f[1])'
          \/ At("client", s, "StoreCommandReport", "removeResults")' /\ f[1] = held'
  BY <1>1, <1>2 DEF ReadInv, At
<1>7. call'["client"].op = "ClearQueue" => ~ KeepsResult(s)'
  BY <1>1 DEF ReadInv, KeepsResult
<1>8. (Reporting /\ job["client"][s].at = "move" =>
          job["client"][s].src = Source(s, held))'
  BY <1>3 DEF Reporting
<1>9. (Reporting /\ Postponing /\ job["client"][s].at \in {"removeResults", "writeResults"}
          => Exists(s, "QueueNotNow", held))'
  BY <1>2 DEF Reporting, Postponing
<1> QED BY <1>4, <1>5, <1>6, <1>7, <1>8, <1>9 DEF ReadInv

LEMMA ReadStored ==
    ASSUME FirstInv, Apart, NEW k \in Callers, NEW s \in Stores, Run(k, s),
           kind[s] = "file", ReadInv(s), Recorded(s), BlankInv(s)',
           Create(k, s) \/ Write(k, s)
    PROVE  ReadInv(s)'
<1>0. TypeOK /\ CallInv /\ StoreInv(s)
  BY DEF FirstInv
<1>1. k = "api" /\ call["api"].op = "EnqueueCommand" /\ call["api"].uuid \in Commands
  BY <1>0, CallOf DEF Create, Write, At
<1>2. /\ kind' = kind /\ call' = call /\ held' = held
      /\ job'["client"][s] = job["client"][s]
  BY <1>0, <1>1, RunFrame, Constants DEF Frame
<1>3. CASE Write(k, s)
  <2>1. blank'[s] = {}
    BY <1>1, <1>3 DEF Write, ReadInv, FirstInv, TypeOK
  <2>2. dir' = dir
    BY <1>3 DEF Write
  <2>3. Source(s, held)' = Source(s, held)
    BY <1>2, <2>2 DEF Source, Exists
  <2> QED BY <1>2, <2>1, <2>2, <2>3
      DEF ReadInv, At, Exists, KeepsResult, Reporting, Postponing
<1>4. CASE Create(k, s)
  <2> DEFINE u == call["api"].uuid
  <2>1. u \notin Stored(s) /\ At("api", s, "EnqueueCommand", "write")'
    BY <1>0, <1>1, <1>2, <1>4, CreateStep DEF At
  <2>2. blank'[s] = blank[s] \cup {u} /\ kind[s] # "sql"
    BY <1>0, <1>1, <1>4 DEF Create, TypeOK
  <2>3. /\ dir'[s]["Queue"] = dir[s]["Queue"] \cup {<<u, "plist">>}
        /\ dir'[s]["QueueNotNow"] = dir[s]["QueueNotNow"]
    BY <1>0, <1>1, <1>4 DEF Create, TypeOK, Dirs
  <2>4. \A c \in blank'[s] : c = u
    <3>1. ~ At("api", s, "EnqueueCommand", "write")
      BY <1>1, <1>4 DEF Create, At
    <3> QED BY <2>2, <3>1 DEF ReadInv
  <2>5. Reporting => Source(s, held)' = Source(s, held)
    <3>1. Reporting => held # u
      BY DEF Apart
    <3>2. PICK v : v = u
      OBVIOUS
    <3>3. Reporting => <<held, "plist">> # <<v, "plist">>
      BY <3>1, <3>2
    <3> HIDE DEF u
    <3> QED BY <1>2, <2>3, <3>2, <3>3 DEF Source, Exists
  <2>6. \A f \in dir'[s]["Queue"] : f[2] = "plist"
    BY <2>3 DEF ReadInv
  <2>7. \A c : Exists(s, "QueueNotNow", c)' <=> Exists(s, "QueueNotNow", c)
    BY <2>3 DEF Exists
  <2>8. (\A f \in dir[s]["QueueNotNow"] :
          \/ Exists(s, "QueueNotNow", f[1])
          \/ At("client", s, "StoreCommandReport", "removeResults") /\ f[1] = held)'
    BY <1>2, <2>3, <2>7 DEF ReadInv, At
  <2>9. call'["client"].op = "ClearQueue" => ~ KeepsResult(s)'
    BY <1>2, <2>3 DEF ReadInv, KeepsResult
  <2>10. (Reporting /\ job["client"][s].at = "move" =>
             job["client"][s].src = Source(s, held))'
    BY <1>2, <2>5 DEF Reporting, ReadInv
  <2>11. (Reporting /\ Postponing
          /\ job["client"][s].at \in {"removeResults", "writeResults"}
             => Exists(s, "QueueNotNow", held))'
    BY <1>2, <2>7 DEF Reporting, Postponing, ReadInv
  <2> HIDE DEF u
  <2>12. (\A c \in blank[s] : At("api", s, "EnqueueCommand", "write") /\ c = call["api"].uuid)'
    BY <1>2, <2>1, <2>4 DEF u
  <2> QED BY <2>6, <2>8, <2>9, <2>10, <2>11, <2>12 DEF ReadInv
<1> QED BY <1>3, <1>4

LEMMA ReadReported ==
    ASSUME FirstInv, Apart, NEW k \in Callers, NEW s \in Stores, Run(k, s),
           kind[s] = "file", ReadInv(s), Recorded(s), BlankInv(s)', fails' = fails,
           Locate(k, s) \/ Move(k, s) \/ RemoveResults(k, s) \/ WriteResults(k, s)
    PROVE  ReadInv(s)'
<1>0. TypeOK /\ CallInv /\ StoreInv(s) /\ {"Queue", "QueueNotNow", "QueueDone"} \subseteq Dirs
  BY DEF FirstInv, Dirs
<1>1. /\ k = "client" /\ Reporting /\ held \in Commands /\ call[k].uuid = held
      /\ call[k].status \in {"NotNow", "Acknowledged"}
  BY <1>0, CallOf DEF Locate, Move, RemoveResults, WriteResults, At, Reporting
<1>2. /\ kind' = kind /\ call' = call /\ held' = held /\ job'["api"][s] = job["api"][s]
  BY <1>0, <1>1, RunFrame, Constants DEF Frame
<1>3. /\ Destination(k) = IF Postponing THEN "QueueNotNow" ELSE "QueueDone"
      /\ blank'[s] = blank[s] /\ Reporting' /\ (Postponing' <=> Postponing)
      /\ call["client"].op = "StoreCommandReport" /\ FilesInv(s)
  BY <1>0, <1>1, <1>2 DEF Destination, Postponing, Reporting, Locate, Move, RemoveResults,
     WriteResults, StoreInv
<1>4. (\A c \in blank[s] : At("api", s, "EnqueueCommand", "write") /\ c = call["api"].uuid)'
  BY <1>2, <1>3 DEF ReadInv, At
<1>5. dir[s]["QueueNotNow"] \subseteq Commands \X {"plist", "result.plist"}
  BY <1>0 DEF TypeOK, Files
<1>6. CASE Locate(k, s)
  <2>1. /\ job'["client"][s].at = "move" /\ job'["client"][s].src = Source(s, held)
        /\ job["client"][s].at = "start" /\ dir' = dir
    BY <1>0, <1>1, <1>6, LocateJob DEF Locate, At
  <2> QED BY <1>2, <1>3, <2>1, ReadQuiet DEF At
<1>7. CASE Move(k, s)
  <2>0. /\ job["client"][s].at = "move" /\ job["client"][s].src = Source(s, held)
        /\ job["client"][s].src \in {"Queue", "QueueNotNow"}
        /\ job["client"][s].src \in Dirs
    BY <1>0, <1>1, <1>7 DEF Move, At, ReadInv, StoreInv, ReportInv, Reporting
  <2>1. CASE ~ Exists(s, Source(s, held), held)
    <3>1. job'["client"][s].at = "failed" /\ dir' = dir
      BY <1>0, <1>1, <1>7, <2>0, <2>1, FailedJob DEF Move
    <3> QED BY <1>2, <1>3, <2>0, <3>1, ReadQuiet DEF At
  <2>2. CASE Exists(s, Source(s, held), held)
    <3>0. PICK from \in {"Queue", "QueueNotNow"}, to \in Dirs :
             /\ from = job["client"][s].src /\ from = Source(s, held)
             /\ to = IF Postponing THEN "QueueNotNow" ELSE "QueueDone"
      BY <1>0, <2>0
    <3>1. /\ job'["client"][s].at = IF from = "QueueNotNow" THEN "removeResults"
                                   ELSE "writeResults"
      BY <1>0, <1>1, <1>7, <2>2, <3>0, MoveJob
    <3>2. Renamed(s, from, to, held) /\ Exists(s, from, held)
      BY <1>1, <1>3, <1>7, <2>2, <3>0 DEF Move
    <3>3. /\ \A e \in Commands, d \in Dirs :
                Exists(s, d, e)' <=> IF e = held /\ d \in {from, to} THEN d = to
                                    ELSE Exists(s, d, e)
          /\ \A e \in Commands, d \in Dirs :
                <<e, "result.plist">> \in dir'[s][d] <=> <<e, "result.plist">> \in dir[s][d]
          /\ dir' \in [Stores -> [Dirs -> SUBSET Files]]
      BY <1>0, <1>1, <3>2, RenamedDirs
    <3>4. \A f \in dir'[s]["Queue"] : f[2] = "plist"
      <4>1. dir'[s]["Queue"] \subseteq Commands \X {"plist", "result.plist"}
        BY <1>0, <3>3 DEF Files
      <4>2. ASSUME NEW f \in dir'[s]["Queue"], f[2] # "plist"
            PROVE  FALSE
        <5>1. f[1] \in Commands /\ f = <<f[1], "result.plist">>
          BY <4>1, <4>2
        <5>2. <<f[1], "result.plist">> \in dir[s]["Queue"]
          BY <1>0, <3>3, <4>2, <5>1
        <5> QED BY <5>2 DEF ReadInv
      <4> QED BY <4>2
    <3>5. (\A f \in dir[s]["QueueNotNow"] :
            \/ Exists(s, "QueueNotNow", f[1])
            \/ At("client", s, "StoreCommandReport", "removeResults") /\ f[1] = held)'
      <4>1. dir'[s]["QueueNotNow"] \subseteq Commands \X {"plist", "result.plist"}
        BY <1>0, <3>3 DEF Files
      <4>2. ASSUME NEW f \in dir'[s]["QueueNotNow"], ~ Exists(s, "QueueNotNow", f[1])'
            PROVE  At("client", s, "StoreCommandReport", "removeResults")' /\ f[1] = held'
        <5>1. f[1] \in Commands /\ f = <<f[1], f[2]>> /\ f[2] \in {"plist", "result.plist"}
          BY <4>1
        <5>2. f[2] = "result.plist"
          BY <4>2, <5>1 DEF Exists
        <5>3. <<f[1], "result.plist">> \in dir[s]["QueueNotNow"]
          BY <1>0, <3>3, <4>2, <5>1, <5>2
        <5>4. Exists(s, "QueueNotNow", f[1])
          <6>1. PICK g : g = <<f[1], "result.plist">>
            OBVIOUS
          <6>2. g \in dir[s]["QueueNotNow"] /\ g[1] = f[1]
            BY <5>3, <6>1
          <6> QED BY <2>0, <6>2 DEF ReadInv, At
        <5>5. f[1] = held /\ from = "QueueNotNow"
          <6>1. f[1] = held /\ "QueueNotNow" \in {from, to}
            BY <1>0, <3>3, <4>2, <5>1, <5>4
          <6> QED BY <1>0, <3>0, <3>3, <4>2, <5>1, <6>1
        <5> QED BY <1>2, <1>3, <3>1, <5>5 DEF At
      <4> QED BY <4>2
    <3>6. (Reporting /\ Postponing
           /\ job["client"][s].at \in {"removeResults", "writeResults"}
              => Exists(s, "QueueNotNow", held))'
      <4>1. PICK c \in Commands : c = held /\ c = held'
        BY <1>1, <1>2
      <4>2. Exists(s, to, c)'
        BY <3>0, <3>3, <4>1
      <4>3. Postponing => to = "QueueNotNow"
        BY <3>0
      <4> QED BY <1>3, <4>1, <4>2, <4>3 DEF Exists
    <3>7. (Reporting /\ job["client"][s].at = "move" => job["client"][s].src = Source(s, held))'
      BY <3>1
    <3> QED BY <1>2, <1>3, <1>4, <3>4, <3>5, <3>6, <3>7 DEF ReadInv
  <2> QED BY <2>1, <2>2
<1>8. CASE RemoveResults(k, s)
  <2>1. /\ job'["client"][s].at = "writeResults" /\ job["client"][s].at = "removeResults"
    BY <1>0, <1>1, <1>8, ThenJob DEF RemoveResults, At, Steps
  <2>2. fails \in Nat
    BY <1>0, AllMultiAssumption DEF TypeOK
  <2>3. /\ dir'[s]["QueueNotNow"] = dir[s]["QueueNotNow"] \ {<<held, "result.plist">>}
        /\ dir'[s]["Queue"] = dir[s]["Queue"]
    BY <1>0, <1>1, <1>8, <2>2 DEF RemoveResults, TypeOK
  <2>4. \A c : Exists(s, "QueueNotNow", c)' <=> Exists(s, "QueueNotNow", c)
    <3>1. \A c : <<c, "plist">> # <<held, "result.plist">>
      OBVIOUS
    <3> QED BY <2>3, <3>1 DEF Exists
  <2>5. (\A f \in dir[s]["QueueNotNow"] :
          \/ Exists(s, "QueueNotNow", f[1])
          \/ At("client", s, "StoreCommandReport", "removeResults") /\ f[1] = held)'
    <3>1. ASSUME NEW f \in dir'[s]["QueueNotNow"]
          PROVE  Exists(s, "QueueNotNow", f[1])'
      <4>1. f \in dir[s]["QueueNotNow"] /\ f # <<held, "result.plist">>
        BY <2>3
      <4>2. f = <<f[1], f[2]>> /\ f[2] \in {"plist", "result.plist"}
        BY <1>5, <4>1
      <4>3. CASE f[1] = held
        BY <2>4, <4>1, <4>2, <4>3 DEF Exists
      <4>4. CASE f[1] # held
        BY <2>4, <4>1, <4>4 DEF ReadInv
      <4> QED BY <4>3, <4>4
    <3> QED BY <3>1
  <2>6. (Reporting /\ Postponing
         /\ job["client"][s].at \in {"removeResults", "writeResults"}
            => Exists(s, "QueueNotNow", held))'
    <3>1. Postponing => Exists(s, "QueueNotNow", held)
      BY <1>1, <2>1 DEF ReadInv
    <3>2. Exists(s, "QueueNotNow", held)' <=> Exists(s, "QueueNotNow", held)
      BY <1>2, <2>4 DEF Exists
    <3> QED BY <1>3, <3>1, <3>2
  <2>7. \A f \in dir'[s]["Queue"] : f[2] = "plist"
    BY <2>3 DEF ReadInv
  <2>8. (Reporting /\ job["client"][s].at = "move" => job["client"][s].src = Source(s, held))'
    BY <2>1
  <2> QED BY <1>2, <1>3, <1>4, <2>5, <2>6, <2>7, <2>8 DEF ReadInv
<1>9. CASE WriteResults(k, s)
  <2>1. /\ job'["client"][s].at = "done" /\ job["client"][s].at = "writeResults"
    BY <1>0, <1>1, <1>9, DoneJob DEF WriteResults, At
  <2>0. PICK r : r = <<held, "result.plist">>
    OBVIOUS
  <2>2. r = <<held, "result.plist">> /\ r[1] = held
    BY <2>0
  <2>3. /\ dir'[s]["QueueNotNow"] = IF Postponing THEN dir[s]["QueueNotNow"] \cup {r}
                                   ELSE dir[s]["QueueNotNow"]
        /\ dir'[s]["Queue"] = dir[s]["Queue"]
    BY <1>0, <1>1, <1>3, <1>9, <2>2 DEF WriteResults, TypeOK
  <2>4. \A c : Exists(s, "QueueNotNow", c) => Exists(s, "QueueNotNow", c)'
    BY <2>3 DEF Exists
  <2>5. (\A f \in dir[s]["QueueNotNow"] :
          \/ Exists(s, "QueueNotNow", f[1])
          \/ At("client", s, "StoreCommandReport", "removeResults") /\ f[1] = held)'
    <3> SUFFICES ASSUME NEW f \in dir'[s]["QueueNotNow"]
                 PROVE  Exists(s, "QueueNotNow", f[1])'
      OBVIOUS
    <3>1. CASE f \in dir[s]["QueueNotNow"]
      BY <2>1, <2>4, <3>1 DEF ReadInv, At
    <3>2. CASE f = r /\ Postponing
      <4>1. Exists(s, "QueueNotNow", held)
        BY <1>1, <2>1, <3>2 DEF ReadInv
      <4> QED BY <2>2, <2>4, <3>2, <4>1
    <3> QED BY <2>3, <3>1, <3>2
  <2>6. \A f \in dir'[s]["Queue"] : f[2] = "plist"
    BY <2>3 DEF ReadInv
  <2> QED BY <1>2, <1>3, <1>4, <2>1, <2>5, <2>6 DEF ReadInv
<1> QED BY <1>6, <1>7, <1>8, <1>9

LEMMA ReadCleared ==
    ASSUME FirstInv, NEW k \in Callers, NEW s \in Stores, Run(k, s),
           kind[s] = "file", ReadInv(s), BlankInv(s)',
           ClearQueued(k, s) \/ ClearNotNow(k, s)
    PROVE  /\ ReadInv(s)'
           /\ ~ \E d \in {"Queue", "QueueNotNow"} : Finds(s, d) = "error"
<1>0. TypeOK /\ CallInv /\ StoreInv(s) /\ {"Queue", "QueueNotNow", "QueueInactive"} \subseteq Dirs
  BY DEF FirstInv, Dirs
<1>1. /\ k = "client" /\ call["client"].op = "ClearQueue" /\ Resting("api")
  BY <1>0, CallOf DEF ClearQueued, ClearNotNow, At, CallInv
<1>2. /\ kind' = kind /\ call' = call /\ held' = held /\ job'["api"][s] = job["api"][s]
      /\ blank'[s] = blank[s]
  BY <1>0, <1>1, RunFrame, Constants DEF Frame, ClearQueued, ClearNotNow, ClearedFrom
<1>3. blank[s] = {}
  BY <1>1 DEF ReadInv, At, Resting
<1>4. \A d \in {"Queue", "QueueNotNow"}, c \in Commands : <<c, "result.plist">> \notin dir[s][d]
  <2>1. \A f \in dir[s]["QueueNotNow"] : f[2] # "result.plist"
    BY <1>1 DEF ReadInv, KeepsResult
  <2>2. \A f \in dir[s]["Queue"] : f[2] # "result.plist"
    BY DEF ReadInv
  <2> QED BY <2>1, <2>2
<1>5. \A e \in Stores, d \in Dirs : dir[e][d] \subseteq Commands \X {"plist", "result.plist"}
  BY <1>0 DEF TypeOK, Files
<1>6. ~ \E d \in {"Queue", "QueueNotNow"} : Finds(s, d) = "error"
  <2> SUFFICES ASSUME NEW d \in {"Queue", "QueueNotNow"}
               PROVE  Finds(s, d) # "error"
    OBVIOUS
  <2>1. ASSUME NEW f \in dir[s][d]
        PROVE  Exists(s, d, f[1])
    <3>1. f[1] \in Commands /\ f = <<f[1], f[2]>> /\ f[2] \in {"plist", "result.plist"}
      BY <1>0, <1>5
    <3> QED BY <1>4, <3>1 DEF Exists
  <2> QED BY <1>0, <1>3, <2>1, FirstDecodes
<1>7. CASE job' = job /\ \E d \in {"Queue", "QueueNotNow"}, c \in Commands :
                            Renamed(s, d, "QueueInactive", c)
  <2>1. PICK d \in {"Queue", "QueueNotNow"}, c \in Commands : Renamed(s, d, "QueueInactive", c)
    BY <1>7
  <2>2. /\ dir' \in [Stores -> [Dirs -> SUBSET Files]]
        /\ \A e \in Commands, b \in Dirs :
              <<e, "result.plist">> \in dir'[s][b] <=> <<e, "result.plist">> \in dir[s][b]
    BY <1>0, <2>1, RenamedDirs
  <2>3. ASSUME NEW b \in {"Queue", "QueueNotNow"}, NEW f \in dir'[s][b]
        PROVE  f[2] = "plist" /\ Exists(s, b, f[1])'
    <3>1. f[1] \in Commands /\ f = <<f[1], f[2]>> /\ f[2] \in {"plist", "result.plist"}
      BY <1>0, <2>2 DEF Files
    <3>2. <<f[1], "result.plist">> \notin dir'[s][b]
      BY <1>0, <1>4, <2>2, <3>1
    <3> QED BY <3>1, <3>2 DEF Exists
  <2>4. \A f \in dir'[s]["Queue"] : f[2] = "plist"
    BY <2>3
  <2>5. \A f \in dir'[s]["QueueNotNow"] : f[2] = "plist" /\ Exists(s, "QueueNotNow", f[1])'
    BY <2>3
  <2>6. ~ KeepsResult(s)' /\ ~ Reporting' /\ blank'[s] = {}
    BY <1>1, <1>2, <1>3, <2>5 DEF KeepsResult, Reporting
  <2> QED BY <1>6, <2>4, <2>5, <2>6 DEF ReadInv
<1>8. CASE dir'[s] = dir[s]
  <2>1. \A d \in Dirs : dir'[s][d] = dir[s][d]
    BY <1>8
  <2>2. call' = call /\ ~ Reporting
    BY <1>1, RunFrame, <1>0 DEF Frame, Reporting
  <2> QED BY <1>1, <1>2, <1>3, <1>6, <2>1, <2>2, ReadQuiet DEF At, Reporting, Resting
<1>9. dir'[s] = dir[s] \/ (job' = job /\ \E d \in {"Queue", "QueueNotNow"}, c \in Commands :
                                             Renamed(s, d, "QueueInactive", c))
  BY <1>0, ClearStep
<1> QED BY <1>6, <1>7, <1>8, <1>9

LEMMA ReadStep ==
    ASSUME FirstInv, Apart, NEW k \in Callers, NEW s \in Stores, Run(k, s),
           kind[s] = "file", ReadInv(s), Recorded(s), fails' = fails
    PROVE  ReadInv(s)'
<1>0. TypeOK /\ CallInv /\ StoreInv(s) /\ FileStep(k, s) /\ BlankInv(s)
  BY DEF FirstInv, Run, ReadInv
<1>1. BlankInv(s)'
  <2>1. Reporting => held \notin blank[s]
    BY HeldRecorded
  <2> QED BY <1>0, <2>1, BlankStep
<1>2. CASE Create(k, s) \/ Write(k, s)
  BY <1>1, <1>2, ReadStored
<1>3. CASE Locate(k, s) \/ Move(k, s) \/ RemoveResults(k, s) \/ WriteResults(k, s)
  BY <1>1, <1>3, ReadReported
<1>4. CASE ClearQueued(k, s) \/ ClearNotNow(k, s)
  BY <1>1, <1>4, ReadCleared
<1>5. CASE NextNotNow(k, s) \/ NextQueued(k, s)
  <2>1. k = "client" /\ call["client"].op = "RetrieveNextCommand"
    BY <1>0, <1>5, CallOf DEF NextNotNow, NextQueued, At
  <2>2. /\ call' = call /\ held' = held /\ job'["api"][s] = job["api"][s]
        /\ dir' = dir /\ blank' = blank /\ ~ Reporting
    BY <1>0, <1>5, <2>1, RunFrame, Constants DEF Frame, NextNotNow, NextQueued, Reporting
  <2> QED BY <1>1, <2>1, <2>2, ReadQuiet DEF At
<1>6. ~ StepFails(k, s)
  BY <1>0, AllMultiAssumption DEF StepFails, TypeOK
<1> QED BY <1>0, <1>2, <1>3, <1>4, <1>5, <1>6 DEF FileStep

LEMMA ReadOther ==
    ASSUME FirstInv, NEW k \in Callers, NEW s \in Stores, NEW t \in Stores \ {s},
           Run(k, s), ReadInv(t)
    PROVE  ReadInv(t)'
<1>1. /\ call' = call /\ held' = held /\ dir'[t] = dir[t] /\ blank'[t] = blank[t]
      /\ job'["client"][t] = job["client"][t] /\ job'["api"][t] = job["api"][t]
  BY OtherStore, RunFrame DEF FirstInv, Frame
<1>2. BlankInv(t)'
  BY <1>1 DEF ReadInv, BlankInv, Exists
<1> QED BY <1>1, <1>2, ReadQuiet DEF At, ReadInv

-----------------------------------------------------------------------------
(* What will be, once the calls under way are done, does not change while  *)
(* their goroutines run.                                                   *)

Agrees(s) == Recorded(s) /\ DoneInv(s)

LEMMA AgreesQuiet ==
    ASSUME NEW s \in Stores, Agrees(s),
           Waiting(s)' = Waiting(s), Deferred(s)' = Deferred(s),
           Ended(s)' = Ended(s), Readable(s)' = Readable(s),
           call' = call, held' = held, issued' = issued,
           job'["api"][s].at \in Over <=> job["api"][s].at \in Over,
           \/ job'["client"][s] = job["client"][s] \/ DoneInv(s)'
           \/ Reporting /\ job["client"][s].at \notin {"start", "move"}
    PROVE  Agrees(s)' /\ WillSame(s)
<1>1. Upcoming(s)' = Upcoming(s)
  BY DEF Upcoming, Resting
<1>2. Recorded(s)'
  BY <1>1 DEF Agrees, Recorded
<1>3. DoneInv(s)'
  BY DEF Agrees, DoneInv, Reporting, Postponing
<1>4. Taken(s)' = Taken(s) /\ Postponed(s)' = Postponed(s)
  BY DEF Taken, Postponed, Reporting, Postponing
<1> QED BY <1>1, <1>2, <1>3, <1>4 DEF Agrees, WillSame, WillWait, WillDefer, WillEnd

(* A command is stored: it was coming, and now it waits. *)
LEMMA AgreesStored ==
    ASSUME NEW s \in Stores, Agrees(s), Apart, CallInv,
           call' = call, held' = held, issued' = issued,
           job'["client"][s] = job["client"][s],
           NEW u, u = call["api"].uuid, ~ Resting("api"),
           job["api"][s].at \notin Over, job'["api"][s].at \in Over,
           Waiting(s)' = Waiting(s) \cup {u}, Deferred(s)' = Deferred(s),
           Ended(s)' = Ended(s), Readable(s)' = Readable(s) \cup {u}
    PROVE  Agrees(s)' /\ WillSame(s)
<1>1. Upcoming(s) = {u} /\ Upcoming(s)' = {}
  BY DEF Upcoming
<1>2. Recorded(s)'
  BY <1>1 DEF Agrees, Recorded
<1>3. Reporting => held # u
  BY DEF Apart
<1>4. call["client"].op # "ClearQueue"
  BY DEF CallInv
<1>5. Taken(s)' = Taken(s) /\ Postponed(s)' = Postponed(s)
  BY <1>3, <1>4 DEF Taken, Postponed, Reporting, Postponing
<1>6. DoneInv(s)'
  BY <1>3, <1>4 DEF Agrees, DoneInv, Reporting, Postponing
<1>7. WillWait(s)' = WillWait(s)
  BY <1>1, <1>5 DEF WillWait
<1> QED BY <1>2, <1>5, <1>6, <1>7 DEF Agrees, WillSame, WillDefer, WillEnd

(* A report reaches the storage. *)
LEMMA AgreesReported ==
    ASSUME NEW s \in Stores, Agrees(s), Reporting,
           call' = call, held' = held, issued' = issued,
           job'["api"][s] = job["api"][s], Readable(s)' = Readable(s),
           IF Postponing
           THEN /\ Waiting(s)' = Waiting(s) /\ Ended(s)' = Ended(s)
                /\ Deferred(s)' = Deferred(s) \cup ({held} \cap Waiting(s))
           ELSE /\ Waiting(s)' = Waiting(s) \ {held}
                /\ Ended(s)' = Ended(s) \cup {held}
                /\ Deferred(s)' = Deferred(s) \ {held}
    PROVE  Agrees(s)' /\ WillSame(s)
<1>1. Upcoming(s)' = Upcoming(s)
  BY DEF Upcoming, Resting
<1>2. Recorded(s)'
  BY <1>1 DEF Agrees, Recorded
<1>3. /\ call["client"].op # "ClearQueue" /\ Reporting'
      /\ Postponing' <=> Postponing
  BY DEF Reporting, Postponing
<1>4. DoneInv(s)'
  BY <1>3 DEF DoneInv
<1>5. CASE Postponing
  <2>1. /\ Taken(s) = {} /\ Taken(s)' = {}
        /\ Postponed(s) = {held} \cap Waiting(s) /\ Postponed(s)' = {held} \cap Waiting(s)
    BY <1>3, <1>5 DEF Taken, Postponed
  <2> QED BY <1>1, <1>2, <1>4, <1>5, <2>1 DEF Agrees, WillSame, WillWait, WillDefer, WillEnd
<1>6. CASE ~ Postponing
  <2>1. /\ Taken(s) = {held} /\ Taken(s)' = {held}
        /\ Postponed(s) = {} /\ Postponed(s)' = {}
    BY <1>3, <1>6 DEF Taken, Postponed
  <2>2. WillWait(s)' = WillWait(s)
    BY <1>1, <1>6, <2>1 DEF WillWait
  <2>3. WillDefer(s)' = WillDefer(s)
    BY <1>6, <2>1 DEF WillDefer
  <2>4. WillEnd(s)' = WillEnd(s)
    BY <1>6, <2>1 DEF WillEnd
  <2> QED BY <1>2, <1>4, <2>2, <2>3, <2>4 DEF Agrees, WillSame
<1> QED BY <1>5, <1>6

(* Commands are cleared, one or all. *)
LEMMA AgreesCleared ==
    ASSUME NEW s \in Stores, Agrees(s), CallInv, call["client"].op = "ClearQueue",
           call' = call, held' = held, issued' = issued,
           job'["api"][s] = job["api"][s], Readable(s)' = Readable(s),
           Deferred(s) \subseteq Waiting(s), NEW C \in SUBSET Waiting(s),
           Waiting(s)' = Waiting(s) \ C, Deferred(s)' = Deferred(s) \ C,
           Ended(s)' = Ended(s) \cup C,
           job'["client"][s].at \in Over => Waiting(s)' = {}
    PROVE  Agrees(s)' /\ WillSame(s)
<1>1. Upcoming(s) = {} /\ Upcoming(s)' = {}
  BY DEF Upcoming, Resting, CallInv
<1>2. Recorded(s)'
  BY <1>1 DEF Agrees, Recorded
<1>3. ~ Reporting /\ ~ Reporting'
  BY DEF Reporting
<1>4. DoneInv(s)'
  BY <1>3 DEF DoneInv
<1>5. /\ Taken(s) = Waiting(s) /\ Taken(s)' = Waiting(s)'
      /\ Postponed(s) = {} /\ Postponed(s)' = {}
  BY <1>3 DEF Taken, Postponed
<1>6. WillWait(s)' = WillWait(s)
  BY <1>1, <1>5 DEF WillWait
<1>7. WillDefer(s)' = WillDefer(s)
  BY <1>5 DEF WillDefer
<1>8. WillEnd(s)' = WillEnd(s)
  BY <1>5 DEF WillEnd
<1> QED BY <1>2, <1>4, <1>6, <1>7, <1>8 DEF Agrees, WillSame

LEMMA FileAgrees ==
    ASSUME FirstInv, Apart, NEW k \in Callers, NEW s \in Stores, Run(k, s),
           kind[s] = "file", ReadInv(s), Agrees(s), fails' = fails
    PROVE  Agrees(s)' /\ WillSame(s)
<1>0. TypeOK /\ CallInv /\ StoreInv(s) /\ FileStep(k, s) /\ FilesInv(s) /\ Recorded(s)
      /\ kind[s] # "sql" /\ BlankInv(s)
  BY DEF FirstInv, Run, StoreInv, Agrees, ReadInv
<1>1. /\ call' = call /\ held' = held /\ issued' = issued /\ kind' = kind
      /\ \A l \in Callers, t \in Stores : l # k \/ t # s => job'[l][t] = job[l][t]
  BY <1>0, RunFrame DEF Frame
<1>2. /\ call[k].op = "EnqueueCommand" => k = "api" /\ call[k].uuid \in Commands
      /\ call[k].op \in {"StoreCommandReport", "RetrieveNextCommand", "ClearQueue"} =>
            k = "client"
      /\ k = "client" => job'["api"][s] = job["api"][s]
      /\ k = "api" => job'["client"][s] = job["client"][s]
  BY <1>0, <1>1, CallOf, Constants
<1>3. Reporting => /\ held \in Commands /\ held \in Stored(s) /\ held \notin blank[s]
  BY <1>0, HeldRecorded
<1>4. CASE Create(k, s)
  <2>1. k = "api" /\ call[k].uuid \in Commands /\ call[k].uuid \notin Stored(s)
    BY <1>0, <1>4, CreateStep
  <2>2. /\ Waiting(s)' = Waiting(s) /\ Deferred(s)' = Deferred(s)
        /\ Ended(s)' = Ended(s) /\ Readable(s)' = Readable(s)
    BY <1>0, <1>1, <1>4, <2>1, CreateEffect
  <2>3. job["api"][s].at = "start" /\ job'["api"][s].at = "write"
    BY <1>0, <1>4, <2>1, CreateStep DEF Create, At
  <2> QED BY <1>1, <1>2, <2>1, <2>2, <2>3, AgreesQuiet DEF Over
<1>5. CASE Write(k, s)
  <2>1. /\ k = "api" /\ call[k].uuid \in Commands /\ call[k].uuid \in blank[s]
        /\ Exists(s, "Queue", call[k].uuid) /\ job'["api"][s].at = "done"
        /\ job["api"][s].at = "write" /\ ~ Resting("api")
    BY <1>0, <1>5, WriteStep DEF BlankInv, Write, At, Resting
  <2>2. PICK u : u = call["api"].uuid
    OBVIOUS
  <2>3. /\ Waiting(s)' = Waiting(s) \cup {u} /\ Deferred(s)' = Deferred(s)
        /\ Ended(s)' = Ended(s) /\ Readable(s)' = Readable(s) \cup {u}
    BY <1>0, <1>1, <1>5, <2>1, <2>2, WriteEffect
  <2>4. job["api"][s].at \notin Over /\ job'["api"][s].at \in Over
    BY <2>1 DEF Over
  <2> QED BY <1>0, <1>1, <1>2, <2>1, <2>2, <2>3, <2>4, AgreesStored
<1>6. ASSUME SameStore(s), k = "client",
             DoneInv(s)' \/ (Reporting /\ job["client"][s].at \notin {"start", "move"})
      PROVE  Agrees(s)' /\ WillSame(s)
  <2>1. SameView(s)
    BY <1>1, <1>6, StoreUnchanged
  <2> QED BY <1>1, <1>2, <1>6, <2>1, AgreesQuiet DEF SameView
<1>7. CASE Locate(k, s)
  <2>1. SameStore(s) /\ k = "client" /\ job'["client"][s].at = "move"
    BY <1>0, <1>2, <1>7, LocateStep, LocateJob DEF Locate, At
  <2>2. call'["client"].op = "StoreCommandReport"
    BY <1>1, <1>7, <2>1 DEF Locate, At
  <2>3. DoneInv(s)'
    BY <2>1, <2>2 DEF DoneInv
  <2> QED BY <1>6, <2>1, <2>3
<1>8. CASE Move(k, s)
  <2>1. k = "client" /\ Reporting /\ job["client"][s].at = "move"
    BY <1>2, <1>8 DEF Move, At, Reporting
  <2>2. job["client"][s].src = Source(s, held)
    BY <2>1 DEF ReadInv
  <2>3. PICK from \in {"Queue", "QueueNotNow"}, to \in Dirs :
           /\ from = job[k][s].src
           /\ to = IF Postponing THEN "QueueNotNow" ELSE "QueueDone"
    BY <1>0, <2>1 DEF StoreInv, ReportInv, Dirs
  <2>4. to = Destination(k)
    BY <2>1, <2>3 DEF Destination, Postponing
  <2>5. PICK c \in Commands : c = held
    BY <1>3, <2>1
  <2>6. CASE Exists(s, from, c)
    <3>1. Renamed(s, from, to, c) /\ blank'[s] = blank[s]
      BY <1>0, <1>8, <2>1, <2>3, <2>4, <2>5, <2>6, MoveStep
    <3>2. /\ Waiting(s)' = IF Postponing THEN Waiting(s) ELSE Waiting(s) \ {c}
          /\ Deferred(s)' = IF Postponing THEN Deferred(s) \cup {c} ELSE Deferred(s) \ {c}
          /\ Ended(s)' = IF Postponing THEN Ended(s) ELSE Ended(s) \cup {c}
          /\ Readable(s)' = Readable(s)
      BY <1>0, <1>1, <2>3, <2>6, <3>1, RenamedEffect
    <3>3. c \in Waiting(s)
      BY <1>0, <1>3, <2>1, <2>3, <2>5, <2>6 DEF Waiting
    <3>4. IF Postponing
          THEN /\ Waiting(s)' = Waiting(s) /\ Ended(s)' = Ended(s)
               /\ Deferred(s)' = Deferred(s) \cup ({held} \cap Waiting(s))
          ELSE /\ Waiting(s)' = Waiting(s) \ {held}
               /\ Ended(s)' = Ended(s) \cup {held}
               /\ Deferred(s)' = Deferred(s) \ {held}
      BY <2>5, <3>2, <3>3
    <3> QED BY <1>1, <1>2, <2>1, <3>2, <3>4, AgreesReported
  <2>7. CASE ~ Exists(s, from, c)
    <3>1. SameStore(s)
      BY <1>0, <1>8, <2>1, <2>3, <2>4, <2>5, <2>7, MoveStep
    <3>2. ~ Exists(s, "Queue", c) /\ ~ Exists(s, "QueueNotNow", c)
      BY <2>1, <2>2, <2>3, <2>5, <2>7 DEF Source
    <3>3. c \notin Waiting(s) /\ c \notin Deferred(s) /\ c \in Ended(s)
      <4>1. \E d \in Dirs : Exists(s, d, c)
        BY <1>0, <1>3, <2>1, <2>5 DEF Stored
      <4>2. Exists(s, "QueueDone", c) \/ Exists(s, "QueueInactive", c)
        BY <3>2, <4>1 DEF Dirs
      <4> QED BY <1>0, <3>2, <4>2 DEF Waiting, Deferred, Ended
    <3>4. SameView(s)
      BY <1>1, <3>1, StoreUnchanged
    <3>5. DoneInv(s)'
      BY <1>1, <2>1, <2>5, <3>3, <3>4 DEF DoneInv, SameView, Reporting
    <3> QED BY <1>6, <2>1, <3>1, <3>5
  <2> QED BY <2>6, <2>7
<1>9. CASE RemoveResults(k, s)
  <2>1. k = "client" /\ Reporting /\ job["client"][s].at = "removeResults"
    BY <1>2, <1>9 DEF RemoveResults, At, Reporting
  <2> QED BY <1>0, <1>6, <1>9, <2>1, RemoveResultsStep
<1>10. CASE WriteResults(k, s)
  <2>1. k = "client" /\ Reporting /\ job["client"][s].at = "writeResults"
    BY <1>2, <1>10 DEF WriteResults, At, Reporting
  <2> QED BY <1>0, <1>6, <1>10, <2>1, WriteResultsStep
<1>11. CASE NextNotNow(k, s) \/ NextQueued(k, s)
  <2>1. SameStore(s) /\ k = "client"
    BY <1>0, <1>11, NextStep
  <2>2. call'["client"].op = "RetrieveNextCommand"
    BY <1>1, <1>11, <2>1 DEF NextNotNow, NextQueued, At
  <2>3. DoneInv(s)'
    BY <2>2 DEF DoneInv, Reporting
  <2> QED BY <1>6, <2>1, <2>3
<1>12. CASE ClearQueued(k, s) \/ ClearNotNow(k, s)
  <2>0. /\ k = "client" /\ call["client"].op = "ClearQueue"
        /\ job["client"][s].at \notin Over
    BY <1>2, <1>12 DEF ClearQueued, ClearNotNow, At, Over
  <2>1. Deferred(s) \subseteq Waiting(s)
    BY <1>0 DEF Deferred, Waiting, BlankInv, FilesInv, Dirs
  <2>2. \/ /\ SameStore(s)
           /\ \/ job'["client"][s].at = "notNow"
              \/ dir[s]["Queue"] = {} /\ dir[s]["QueueNotNow"] = {}
        \/ /\ job' = job /\ blank'[s] = blank[s]
           /\ \E d \in {"Queue", "QueueNotNow"}, c \in Commands :
                 /\ Exists(s, d, c) /\ c \notin blank[s]
                 /\ Renamed(s, d, "QueueInactive", c)
    <3>1. ~ \E d \in {"Queue", "QueueNotNow"} : Finds(s, d) = "error"
      <4>1. BlankInv(s)'
        BY <1>0, <1>3, BlankStep
      <4> QED BY <1>12, <4>1, ReadCleared
    <3> QED BY <1>0, <1>12, <3>1, ClearStep
  <2>3. CASE /\ SameStore(s)
             /\ \/ job'["client"][s].at = "notNow"
                \/ dir[s]["Queue"] = {} /\ dir[s]["QueueNotNow"] = {}
    <3>1. job'["client"][s].at \in Over => Waiting(s) = {}
      BY <1>0, <2>3 DEF Waiting, Exists, Over
    <3>2. SameView(s)
      BY <1>1, <2>3, StoreUnchanged
    <3>3. DoneInv(s)'
      BY <1>1, <2>0, <3>1, <3>2 DEF DoneInv, Reporting, SameView
    <3> QED BY <1>6, <2>0, <2>3, <3>3
  <2>4. ASSUME job' = job, blank'[s] = blank[s],
               NEW d \in {"Queue", "QueueNotNow"}, NEW c \in Commands,
               Exists(s, d, c), c \notin blank[s], Renamed(s, d, "QueueInactive", c)
        PROVE  Agrees(s)' /\ WillSame(s)
    <3>0. "QueueInactive" \in Dirs
      BY DEF Dirs
    <3>1. /\ Waiting(s)' = Waiting(s) \ {c} /\ Deferred(s)' = Deferred(s) \ {c}
          /\ Ended(s)' = Ended(s) \cup {c} /\ Readable(s)' = Readable(s)
      BY <1>0, <1>1, <2>4, <3>0, RenamedEffect
    <3>2. PICK C \in SUBSET Waiting(s) : C = {c}
      BY <1>0, <2>4 DEF Waiting
    <3> QED BY <1>0, <1>1, <2>0, <2>1, <2>4, <3>1, <3>2, AgreesCleared
  <2> QED BY <2>2, <2>3, <2>4
<1>13. ~ StepFails(k, s)
  BY <1>0, AllMultiAssumption DEF StepFails, TypeOK
<1> QED BY <1>0, <1>4, <1>5, <1>7, <1>8, <1>9, <1>10, <1>11, <1>12, <1>13 DEF FileStep

LEMMA TableAgrees ==
    ASSUME FirstInv, Apart, NEW k \in Callers, NEW s \in Stores, Run(k, s),
           kind[s] = "sql", Agrees(s), fails' = fails
    PROVE  Agrees(s)' /\ WillSame(s)
<1>0. TypeOK /\ CallInv /\ StoreInv(s) /\ DatabaseStep(k, s) /\ TableInv(s) /\ Recorded(s)
  BY DEF FirstInv, Run, StoreInv, Agrees
<1>1. /\ call' = call /\ held' = held /\ issued' = issued /\ kind' = kind
      /\ \A l \in Callers, t \in Stores : l # k \/ t # s => job'[l][t] = job[l][t]
  BY <1>0, RunFrame DEF Frame
<1>2. /\ k = "client" => job'["api"][s] = job["api"][s]
      /\ k = "api" => job'["client"][s] = job["client"][s]
  BY <1>1, Constants
<1>3. CASE InsertRow(k, s)
  <2>1. /\ k = "api" /\ call[k].uuid \in Commands /\ call[k].uuid \notin Stored(s)
        /\ job'["api"][s].at = "done" /\ job["api"][s].at = "start" /\ ~ Resting("api")
    BY <1>0, <1>3, InsertRowStep DEF InsertRow, At, Resting
  <2>2. PICK u : u = call["api"].uuid
    OBVIOUS
  <2>3. /\ Waiting(s)' = Waiting(s) \cup {u} /\ Deferred(s)' = Deferred(s)
        /\ Ended(s)' = Ended(s) /\ Readable(s)' = Readable(s) \cup {u}
    BY <1>0, <1>1, <1>3, <2>1, <2>2, InsertRowEffect
  <2>4. job["api"][s].at \notin Over /\ job'["api"][s].at \in Over
    BY <2>1 DEF Over
  <2> QED BY <1>0, <1>1, <1>2, <2>1, <2>2, <2>3, <2>4, AgreesStored
<1>4. CASE UpsertResult(k, s)
  <2>1. k = "client" /\ Reporting
    BY <1>0, <1>4, UpsertStep DEF UpsertResult, At, Reporting
  <2>2. held \in Rows(s)
    BY <1>0, <2>1, HeldRecorded DEF Readable
  <2>3. IF Postponing
        THEN /\ Waiting(s)' = Waiting(s) /\ Ended(s)' = Ended(s)
             /\ Deferred(s)' = Deferred(s) \cup ({held} \cap Waiting(s))
        ELSE /\ Waiting(s)' = Waiting(s) \ {held}
             /\ Ended(s)' = Ended(s) \cup {held}
             /\ Deferred(s)' = Deferred(s) \ {held}
    BY <1>0, <1>4, <2>2, UpsertStep
  <2>4. Readable(s)' = Readable(s)
    BY <1>1, <1>4 DEF UpsertResult, Readable, Rows
  <2> QED BY <1>1, <1>2, <2>1, <2>3, <2>4, AgreesReported
<1>5. CASE SelectNext(k, s)
  <2>1. SameStore(s) /\ k = "client"
    BY <1>0, <1>5, SelectStep
  <2>2. SameView(s) /\ call'["client"].op = "RetrieveNextCommand"
    BY <1>1, <1>5, <2>1, StoreUnchanged DEF SelectNext, At
  <2>3. DoneInv(s)'
    BY <2>2 DEF DoneInv, Reporting
  <2> QED BY <1>1, <1>2, <2>1, <2>2, <2>3, AgreesQuiet DEF SameView
<1>6. CASE Deactivate(k, s)
  <2>1. k = "client" /\ call["client"].op = "ClearQueue"
    BY <1>0, <1>6, DeactivateStep DEF Deactivate, At
  <2>2. /\ Waiting(s)' = {} /\ Deferred(s)' = {} /\ Readable(s)' = Readable(s)
        /\ Ended(s)' = Ended(s) \cup Waiting(s)
    BY <1>0, <1>1, <1>6, DeactivateEffect
  <2>3. Deferred(s) \subseteq Waiting(s)
    BY DEF Deferred
  <2>4. PICK C \in SUBSET Waiting(s) : C = Waiting(s)
    OBVIOUS
  <2>5. Waiting(s)' = Waiting(s) \ C /\ Deferred(s)' = Deferred(s) \ C
        /\ Ended(s)' = Ended(s) \cup C
    BY <2>2, <2>3, <2>4
  <2> QED BY <1>0, <1>1, <1>2, <2>1, <2>2, <2>3, <2>5, AgreesCleared
<1>7. ~ StatementFails(k, s)
  BY <1>0, AllMultiAssumption DEF StatementFails, TypeOK
<1> QED BY <1>0, <1>3, <1>4, <1>5, <1>6, <1>7 DEF DatabaseStep

-----------------------------------------------------------------------------
(* All stores agree about what will be. *)

Follows(s) ==
    /\ Agrees(s)
    /\ kind[s] = "file" => ReadInv(s)
    /\ WillWait(s) = WillWait(1) /\ WillDefer(s) = WillDefer(1)
    /\ WillEnd(s) = WillEnd(1)

LEMMA SyncParts ==
    SyncInv <=> FirstInv /\ Apart /\ (fails = 0 => \A s \in Stores : Follows(s))
BY DEF SyncInv, Apart, Follows, Agrees, Recorded

LEMMA SyncPartsNext ==
    SyncInv' <=> FirstInv' /\ Apart' /\ (fails' = 0 => \A s \in Stores : Follows(s)')
BY DEF SyncInv, Apart, Follows, Agrees, Recorded

LEMMA StillFollow ==
    ASSUME \A s \in Stores : /\ Follows(s) /\ Agrees(s)' /\ WillSame(s)
                             /\ kind'[s] = "file" => ReadInv(s)'
    PROVE  \A s \in Stores : Follows(s)'
BY Constants DEF Follows, WillSame

LEMMA RunSync ==
    ASSUME SyncInv, FirstInv', NEW k \in Callers, NEW s \in Stores, Run(k, s)
    PROVE  SyncInv'
<1>0. FirstInv /\ TypeOK /\ CallInv /\ Apart /\ (fails = 0 => \A t \in Stores : Follows(t))
  BY SyncParts DEF FirstInv
<1>1. Frame(s)
  BY <1>0, RunFrame
<1>2. Apart'
  BY <1>0, <1>1 DEF Apart, Reporting, Frame
<1>3. ASSUME fails' = 0
      PROVE  \A t \in Stores : Follows(t)'
  <2>1. fails = 0 /\ fails' = fails
    BY <1>0, <1>1, <1>3, AllMultiAssumption DEF Frame, TypeOK
  <2>2. \A t \in Stores : Follows(t)
    BY <1>0, <2>1
  <2>3. ASSUME NEW t \in Stores
        PROVE  Agrees(t)' /\ WillSame(t) /\ (kind'[t] = "file" => ReadInv(t)')
    <3>0. Agrees(t) /\ Recorded(t) /\ (kind[t] = "file" => ReadInv(t)) /\ kind' = kind
      BY <1>1, <2>2 DEF Follows, Agrees, Frame
    <3>1. CASE t = s /\ kind[t] = "file"
      BY <1>0, <2>1, <3>0, <3>1, FileAgrees, ReadStep
    <3>2. CASE t = s /\ kind[t] # "file"
      <4>1. kind[s] = "sql"
        BY <3>2 DEF Run
      <4> QED BY <1>0, <2>1, <3>0, <3>2, <4>1, TableAgrees
    <3>3. CASE t # s
      <4>1. /\ SameView(t)
            /\ job'["client"][t] = job["client"][t] /\ job'["api"][t] = job["api"][t]
        BY <1>0, <3>3, OtherStore DEF FirstInv
      <4>2. Agrees(t)' /\ WillSame(t)
        BY <1>1, <3>0, <4>1, AgreesQuiet DEF Frame, SameView
      <4> QED BY <1>0, <3>0, <3>3, <4>2, ReadOther
    <3> QED BY <3>1, <3>2, <3>3
  <2> QED BY <2>2, <2>3, StillFollow
<1> QED BY <1>2, <1>3, SyncPartsNext

(* A caller starts or ends a call. *)
LEMMA ReadApiCall ==
    ASSUME NEW s \in Stores, ReadInv(s), dir'[s] = dir[s], blank'[s] = blank[s],
           ~ At("api", s, "EnqueueCommand", "write"), held' = held,
           call'["client"] = call["client"], job'["client"] = job["client"]
    PROVE  ReadInv(s)'
<1>1. blank[s] = {}
  BY DEF ReadInv
<1>2. Source(s, held)' = Source(s, held)
  BY DEF Source, Exists
<1> QED BY <1>1, <1>2 DEF ReadInv, BlankInv, Exists, At, KeepsResult, Reporting, Postponing

LEMMA ReadClientCall ==
    ASSUME NEW s \in Stores, ReadInv(s), dir'[s] = dir[s], blank'[s] = blank[s],
           ~ At("client", s, "StoreCommandReport", "removeResults"),
           job'["client"][s] = Started,
           call'["client"].op = "ClearQueue" => ~ KeepsResult(s),
           call'["api"] = call["api"], job'["api"] = job["api"]
    PROVE  ReadInv(s)'
<1>1. job'["client"][s].at = "start"
  BY StartedJob
<1>2. BlankInv(s)'
  BY DEF ReadInv, BlankInv, Exists
<1>3. KeepsResult(s)' <=> KeepsResult(s)
  BY DEF KeepsResult
<1> QED BY <1>1, <1>2, <1>3 DEF ReadInv, Exists, At

LEMMA EnqueueSync ==
    ASSUME SyncInv, FirstInv', Allowed = {}, NEW c \in Commands, Enqueue(c)
    PROVE  SyncInv'
<1>0. FirstInv /\ TypeOK /\ CallInv /\ HeldInv /\ Apart
      /\ (fails = 0 => \A t \in Stores : Follows(t))
  BY SyncParts DEF FirstInv
<1>1. /\ execStores("api", "EnqueueCommand", c, "Idle") /\ Resting("api")
      /\ c \notin issued /\ issued' = issued \cup {c}
      /\ call["client"].op # "ClearQueue"
      /\ UNCHANGED <<files, fails, kind, tables, held, settled>>
  BY DEF Enqueue
<1>2. /\ call'["api"].op = "EnqueueCommand" /\ call'["api"].uuid = c
      /\ \A s \in Stores : job'["api"][s] = Started
      /\ call'["client"] = call["client"] /\ job'["client"] = job["client"]
  <2>1. "EnqueueCommand" \in Ops /\ c \in Commands \cup {None}
    BY DEF Ops
  <2> QED BY <1>0, <1>1, <2>1, ExecJob, Constants
<1>3. Reporting => held \in issued
  <2>1. FreshInv(1)
    BY <1>0, Constants DEF FirstInv, StoreInv
  <2> QED BY <1>0, <2>1 DEF CallInv, HeldInv, FreshInv, Readable, Stored
<1>4. Apart'
  BY <1>1, <1>2, <1>3 DEF Apart, Reporting
<1>5. ASSUME fails' = 0
      PROVE  \A t \in Stores : Follows(t)'
  <2>0. \A t \in Stores : Follows(t)
    BY <1>0, <1>1, <1>5
  <2>1. ASSUME NEW t \in Stores
        PROVE  /\ Agrees(t)' /\ (kind'[t] = "file" => ReadInv(t)')
               /\ WillWait(t)' = WillWait(t) \cup {c}
               /\ WillDefer(t)' = WillDefer(t) /\ WillEnd(t)' = WillEnd(t)
    <3>1. Follows(t) /\ Agrees(t)
      BY <2>0 DEF Follows
    <3>2. SameView(t) /\ dir'[t] = dir[t] /\ blank'[t] = blank[t] /\ kind' = kind
          /\ held' = held
      BY <1>1, CallerView
    <3>3. Upcoming(t) = {} /\ Upcoming(t)' = {c}
      BY <1>1, <1>2, StartedJob DEF Upcoming, Resting, Over
    <3>4. Recorded(t)'
      BY <1>1, <3>1, <3>2, <3>3 DEF Agrees, Recorded, SameView
    <3>5. /\ Reporting' <=> Reporting
          /\ Postponing' <=> Postponing
      BY <1>2 DEF Reporting, Postponing
    <3>6. DoneInv(t)'
      BY <1>1, <1>2, <3>1, <3>2, <3>5 DEF Agrees, DoneInv, SameView
    <3>7. Taken(t)' = Taken(t) /\ Postponed(t)' = Postponed(t) /\ c \notin Taken(t)
      BY <1>1, <1>2, <1>3, <3>2, <3>5 DEF Taken, Postponed, SameView
    <3>8. kind'[t] = "file" => ReadInv(t)'
      BY <1>1, <1>2, <3>1, <3>2, ReadApiCall DEF Follows, At, Resting
    <3>9. WillWait(t)' = WillWait(t) \cup {c}
      BY <3>2, <3>3, <3>7 DEF WillWait, SameView
    <3> QED BY <3>2, <3>4, <3>6, <3>7, <3>8, <3>9 DEF Agrees, WillDefer, WillEnd, SameView
  <2> QED BY <2>0, <2>1, Constants DEF Follows
<1> QED BY <1>4, <1>5, SyncPartsNext

(* Every call that the client starts, and what it takes or postpones *)
LEMMA ClientCallFollows ==
    ASSUME NEW t \in Stores, Agrees(t), kind[t] = "file" => ReadInv(t),
           UNCHANGED <<files, kind, tables, issued>>,
           ~ At("client", t, "StoreCommandReport", "removeResults"),
           job'["client"][t] = Started,
           call'["client"].op = "ClearQueue" /\ kind[t] = "file" => ~ KeepsResult(t),
           call'["api"] = call["api"], job'["api"] = job["api"]
    PROVE  /\ Agrees(t)' /\ (kind'[t] = "file" => ReadInv(t)')
           /\ SameView(t) /\ Upcoming(t)' = Upcoming(t)
<1>1. SameView(t) /\ dir'[t] = dir[t] /\ blank'[t] = blank[t] /\ kind' = kind
  BY CallerView
<1>2. Upcoming(t)' = Upcoming(t)
  BY DEF Upcoming, Resting
<1>3. Recorded(t)'
  BY <1>1, <1>2 DEF Agrees, Recorded, SameView
<1>4. DoneInv(t)'
  BY StartedJob DEF DoneInv, Over
<1>5. kind'[t] = "file" => ReadInv(t)'
  BY <1>1, ReadClientCall
<1> QED BY <1>1, <1>2, <1>3, <1>4, <1>5 DEF Agrees

LEMMA IdleSync ==
    ASSUME SyncInv, FirstInv', Idle
    PROVE  SyncInv'
<1>0. FirstInv /\ TypeOK /\ (fails = 0 => \A t \in Stores : Follows(t))
  BY SyncParts DEF FirstInv
<1>1. /\ Resting("client") /\ execStores("client", "RetrieveNextCommand", None, "Idle")
      /\ UNCHANGED <<files, fails, kind, tables, settled, issued>>
  BY DEF Idle
<1>2. /\ call'["client"].op = "RetrieveNextCommand"
      /\ \A s \in Stores : job'["client"][s] = Started
      /\ call'["api"] = call["api"] /\ job'["api"] = job["api"]
  <2>1. PICK op \in Ops, c \in Commands \cup {None}, status \in {"Idle", "NotNow", "Acknowledged"} :
           op = "RetrieveNextCommand" /\ c = None /\ status = "Idle"
    BY DEF Ops
  <2>2. execStores("client", op, c, status)
    BY <1>1, <2>1
  <2> QED BY <1>0, <2>1, <2>2, ExecJob, Constants
<1>3. Apart' /\ ~ Reporting /\ ~ Reporting'
  BY <1>1, <1>2 DEF Apart, Reporting, Resting
<1>4. ASSUME fails' = 0
      PROVE  \A t \in Stores : Follows(t)'
  <2>0. \A t \in Stores : Follows(t)
    BY <1>0, <1>1, <1>4
  <2>1. ASSUME NEW t \in Stores
        PROVE  Agrees(t)' /\ (kind'[t] = "file" => ReadInv(t)') /\ WillSame(t)
    <3>1. /\ Agrees(t)' /\ (kind'[t] = "file" => ReadInv(t)')
          /\ SameView(t) /\ Upcoming(t)' = Upcoming(t)
      BY <1>1, <1>2, <1>3, <2>0, ClientCallFollows DEF Follows, At, Reporting
    <3>2. Taken(t) = {} /\ Taken(t)' = {} /\ Postponed(t) = {} /\ Postponed(t)' = {}
      BY <1>1, <1>2, <1>3 DEF Taken, Postponed, Resting
    <3> QED BY <3>1, <3>2 DEF WillSame, WillWait, WillDefer, WillEnd, SameView
  <2> QED BY <2>0, <2>1, StillFollow
<1> QED BY <1>3, <1>4, SyncPartsNext

LEMMA ReportSync ==
    ASSUME SyncInv, FirstInv', Allowed = {}, NEW status \in {"NotNow", "Acknowledged"},
           Report(status)
    PROVE  SyncInv'
<1>0. FirstInv /\ TypeOK /\ CallInv /\ (fails = 0 => \A t \in Stores : Follows(t))
  BY SyncParts DEF FirstInv
<1>1. /\ Resting("client") /\ execStores("client", "StoreCommandReport", held, status)
      /\ held # None /\ call["api"].uuid # held /\ held' = held
      /\ UNCHANGED <<files, fails, kind, tables, issued>>
  BY DEF Report
<1>2. /\ call'["client"].op = "StoreCommandReport" /\ call'["client"].status = status
      /\ \A s \in Stores : job'["client"][s] = Started
      /\ call'["api"] = call["api"] /\ job'["api"] = job["api"]
  <2>1. PICK op \in Ops, c \in Commands \cup {None} : op = "StoreCommandReport" /\ c = held
    BY <1>0 DEF Ops, TypeOK
  <2> QED BY <1>0, <1>1, <2>1, ExecJob, Constants
<1>3. Apart' /\ ~ Reporting /\ Reporting' /\ (Postponing' <=> status = "NotNow")
  BY <1>1, <1>2 DEF Apart, Reporting, Resting, Postponing
<1>4. ASSUME fails' = 0
      PROVE  \A t \in Stores : Follows(t)'
  <2>0. \A t \in Stores : Follows(t)
    BY <1>0, <1>1, <1>4
  <2>1. ASSUME NEW t \in Stores
        PROVE  /\ Agrees(t)' /\ (kind'[t] = "file" => ReadInv(t)')
               /\ IF status = "NotNow"
                  THEN /\ WillWait(t)' = WillWait(t) /\ WillEnd(t)' = WillEnd(t)
                       /\ WillDefer(t)' = WillDefer(t) \cup ({held} \cap WillWait(t))
                  ELSE /\ WillWait(t)' = WillWait(t) \ {held}
                       /\ WillDefer(t)' = WillDefer(t) \ {held}
                       /\ WillEnd(t)' = WillEnd(t) \cup {held}
    <3>1. /\ Agrees(t)' /\ (kind'[t] = "file" => ReadInv(t)')
          /\ SameView(t) /\ Upcoming(t)' = Upcoming(t)
      BY <1>1, <1>2, <1>3, <2>0, ClientCallFollows DEF Follows, At, Reporting
    <3>2. Taken(t) = {} /\ Postponed(t) = {}
      BY <1>1, <1>3 DEF Taken, Postponed, Resting
    <3>3. held \notin Upcoming(t)
      BY <1>1 DEF Upcoming
    <3>4. CASE status = "NotNow"
      <4>1. Taken(t)' = {} /\ Postponed(t)' = {held} \cap Waiting(t)
        BY <1>1, <1>2, <1>3, <3>1, <3>4 DEF Taken, Postponed, SameView
      <4>2. WillWait(t)' = WillWait(t) /\ WillEnd(t)' = WillEnd(t)
        BY <3>1, <3>2, <4>1 DEF WillWait, WillEnd, SameView
      <4>3. {held} \cap WillWait(t) = {held} \cap Waiting(t)
        BY <3>2, <3>3 DEF WillWait
      <4>4. WillDefer(t)' = WillDefer(t) \cup ({held} \cap WillWait(t))
        BY <3>1, <3>2, <4>1, <4>3 DEF WillDefer, SameView
      <4> QED BY <3>1, <3>4, <4>2, <4>4
    <3>5. CASE status # "NotNow"
      <4>1. Taken(t)' = {held} /\ Postponed(t)' = {}
        BY <1>1, <1>2, <1>3, <3>1, <3>5 DEF Taken, Postponed, SameView
      <4>2. WillWait(t)' = WillWait(t) \ {held}
        BY <3>1, <3>2, <4>1 DEF WillWait, SameView
      <4>3. WillDefer(t)' = WillDefer(t) \ {held}
        BY <3>1, <3>2, <4>1 DEF WillDefer, SameView
      <4>4. WillEnd(t)' = WillEnd(t) \cup {held}
        BY <3>1, <3>2, <4>1 DEF WillEnd, SameView
      <4> QED BY <3>1, <3>5, <4>2, <4>3, <4>4
    <3> QED BY <3>4, <3>5
  <2>2. \A t \in Stores : /\ WillWait(t) = WillWait(1) /\ WillDefer(t) = WillDefer(1)
                          /\ WillEnd(t) = WillEnd(1)
    BY <2>0 DEF Follows
  <2> QED BY <2>1, <2>2, Constants DEF Follows
<1> QED BY <1>3, <1>4, SyncPartsNext

LEMMA AuthenticateSync ==
    ASSUME SyncInv, FirstInv', Allowed = {}, Authenticate
    PROVE  SyncInv'
<1>0. FirstInv /\ TypeOK /\ (\A t \in Stores : StoreInv(t))
      /\ (fails = 0 => \A t \in Stores : Follows(t))
  BY SyncParts DEF FirstInv
<1>1. /\ Resting("client") /\ execStores("client", "ClearQueue", None, "Idle")
      /\ Resting("api") /\ (\A s \in Stores : ~ KeepsResult(s))
      /\ UNCHANGED <<files, fails, kind, tables, settled, issued>>
  BY DEF Authenticate
<1>2. /\ call'["client"].op = "ClearQueue"
      /\ \A s \in Stores : job'["client"][s] = Started
      /\ call'["api"] = call["api"] /\ job'["api"] = job["api"]
  <2>1. PICK op \in Ops, c \in Commands \cup {None}, status \in {"Idle", "NotNow", "Acknowledged"} :
           op = "ClearQueue" /\ c = None /\ status = "Idle"
    BY DEF Ops
  <2>2. execStores("client", op, c, status)
    BY <1>1, <2>1
  <2> QED BY <1>0, <2>1, <2>2, ExecJob, Constants
<1>3. Apart' /\ ~ Reporting /\ ~ Reporting'
  BY <1>1, <1>2 DEF Apart, Reporting, Resting
<1>4. ASSUME fails' = 0
      PROVE  \A t \in Stores : Follows(t)'
  <2>0. \A t \in Stores : Follows(t)
    BY <1>0, <1>1, <1>4
  <2>1. ASSUME NEW t \in Stores
        PROVE  /\ Agrees(t)' /\ (kind'[t] = "file" => ReadInv(t)')
               /\ WillWait(t)' = {} /\ WillDefer(t)' = {}
               /\ WillEnd(t)' = WillEnd(t) \cup WillWait(t)
    <3>1. /\ Agrees(t)' /\ (kind'[t] = "file" => ReadInv(t)')
          /\ SameView(t) /\ Upcoming(t)' = Upcoming(t)
      BY <1>1, <1>2, <1>3, <2>0, ClientCallFollows DEF Follows, At, Reporting
    <3>2. Taken(t) = {} /\ Upcoming(t) = {}
      BY <1>1, <1>3 DEF Taken, Upcoming, Resting
    <3>3. Taken(t)' = Waiting(t) /\ Postponed(t)' = {}
      BY <1>2, <1>3, <3>1 DEF Taken, Postponed, SameView
    <3>4. Deferred(t) \subseteq Waiting(t)
      <4>1. CASE kind[t] = "sql"
        BY <4>1 DEF Deferred
      <4>2. CASE kind[t] # "sql"
        <5>1. kind[t] = "file" /\ FilesInv(t) /\ BlankInv(t)
          BY <1>0, <2>0, <4>2, AllMultiAssumption DEF TypeOK, StoreInv, Follows, ReadInv
        <5> QED BY <4>2, <5>1 DEF Deferred, Waiting, BlankInv, FilesInv, Dirs
      <4> QED BY <4>1, <4>2
    <3>5. WillWait(t)' = {} /\ WillWait(t) = Waiting(t)
      BY <3>1, <3>2, <3>3 DEF WillWait, SameView
    <3>6. WillDefer(t)' = {}
      BY <3>1, <3>3, <3>4 DEF WillDefer, SameView
    <3>7. WillEnd(t)' = WillEnd(t) \cup WillWait(t)
      BY <3>1, <3>2, <3>3, <3>5 DEF WillEnd, SameView
    <3> QED BY <3>1, <3>5, <3>6, <3>7
  <2>2. \A t \in Stores : WillWait(t) = WillWait(1) /\ WillEnd(t) = WillEnd(1)
    BY <2>0 DEF Follows
  <2> QED BY <2>1, <2>2, Constants DEF Follows
<1> QED BY <1>3, <1>4, SyncPartsNext

LEMMA ReturnSync ==
    ASSUME SyncInv, FirstInv', NEW k \in Callers, Return(k)
    PROVE  SyncInv'
<1>0. FirstInv /\ TypeOK /\ CallInv /\ Apart /\ (fails = 0 => \A t \in Stores : Follows(t))
  BY SyncParts DEF FirstInv
<1>1. /\ call[k].op # "none" /\ (\A s \in Stores : job[k][s].at \in Over)
      /\ UNCHANGED <<files, fails, kind, tables, settled, issued>>
  BY DEF Return, AllAnswered
<1>2. CASE k = "client"
  <2>1. /\ call'["client"].op \in {"none", "RetrieveNextCommand"}
        /\ \A s \in Stores : job'["client"][s] = Started
        /\ call'["api"] = call["api"] /\ job'["api"] = job["api"]
    <3>1. CASE call[k].op = "StoreCommandReport" /\ Final(k).at = "done"
      <4>1. PICK op \in Ops, c \in Commands \cup {None},
                  status \in {"Idle", "NotNow", "Acknowledged"} :
               op = "RetrieveNextCommand" /\ c = None /\ status = call[k].status
        BY <1>0 DEF TypeOK, Call, Ops
      <4>2. execStores("client", op, c, status)
        BY <1>2, <3>1, <4>1 DEF Return
      <4>3. /\ call'["client"].op = op /\ \A s \in Stores : job'["client"][s] = Started
            /\ \A l \in Callers \ {"client"} : call'[l] = call[l] /\ job'[l] = job[l]
        BY ONLY <1>0, <4>2, ExecJob, Constants, op \in Ops, c \in Commands \cup {None},
           status \in {"Idle", "NotNow", "Acknowledged"}
      <4> QED BY <4>1, <4>3, Constants
    <3>2. CASE ~ (call[k].op = "StoreCommandReport" /\ Final(k).at = "done")
      <4>1. call' = [call EXCEPT !["client"] = NoCall] /\ NoJobs("client")
        BY <1>2, <3>2 DEF Return
      <4> QED BY <1>0, <4>1, NoCallJob, Constants
    <3> QED BY <3>1, <3>2
  <2>2. Apart' /\ ~ Reporting'
    BY <2>1 DEF Apart, Reporting
  <2>3. ASSUME fails' = 0
        PROVE  \A t \in Stores : Follows(t)'
    <3>0. \A t \in Stores : Follows(t)
      BY <1>0, <1>1, <2>3
    <3>1. ASSUME NEW t \in Stores
          PROVE  Agrees(t)' /\ (kind'[t] = "file" => ReadInv(t)') /\ WillSame(t)
      <4>0. job["client"][t].at \in Over /\ DoneInv(t)
        BY <1>1, <1>2, <3>0 DEF Follows, Agrees
      <4>1. ~ At("client", t, "StoreCommandReport", "removeResults")
        BY <4>0 DEF At, Over
      <4>2. /\ Agrees(t)' /\ (kind'[t] = "file" => ReadInv(t)')
            /\ SameView(t) /\ Upcoming(t)' = Upcoming(t)
        BY <1>1, <2>1, <3>0, <4>1, ClientCallFollows DEF Follows
      <4>3. Taken(t)' = {} /\ Postponed(t)' = {}
        BY <2>1, <2>2 DEF Taken, Postponed
      <4>4. CASE call["client"].op = "ClearQueue"
        <5>1. Taken(t) = {} /\ Postponed(t) = {}
          BY <4>0, <4>4 DEF DoneInv, Taken, Postponed, Reporting
        <5> QED BY <4>2, <4>3, <5>1 DEF WillSame, WillWait, WillDefer, WillEnd, SameView
      <4>5. CASE Reporting /\ Postponing
        <5>1. Taken(t) = {} /\ Postponed(t) \subseteq Deferred(t)
          BY <4>0, <4>5 DEF DoneInv, Taken, Postponed, Reporting, Over
        <5>2. Deferred(t) \cup Postponed(t) = Deferred(t)
          BY <5>1
        <5> QED BY <4>2, <4>3, <5>1, <5>2 DEF WillSame, WillWait, WillDefer, WillEnd, SameView
      <4>6. CASE Reporting /\ ~ Postponing
        <5>1. Taken(t) = {held} /\ Postponed(t) = {}
          BY <4>6 DEF Taken, Postponed, Reporting
        <5>2. held \notin Waiting(t) \cup Deferred(t) /\ held \in Ended(t)
          BY <4>0, <4>6 DEF DoneInv, Over
        <5>3. held \notin Upcoming(t)
          BY <1>0, <4>6 DEF Apart, Upcoming
        <5>4. WillWait(t)' = WillWait(t)
          BY <4>2, <4>3, <5>1, <5>2, <5>3 DEF WillWait, SameView
        <5>5. WillDefer(t)' = WillDefer(t)
          BY <4>2, <4>3, <5>1, <5>2 DEF WillDefer, SameView
        <5>6. WillEnd(t)' = WillEnd(t)
          BY <4>2, <4>3, <5>1, <5>2 DEF WillEnd, SameView
        <5> QED BY <4>2, <5>4, <5>5, <5>6 DEF WillSame
      <4>7. CASE ~ Reporting /\ call["client"].op # "ClearQueue"
        <5>1. Taken(t) = {} /\ Postponed(t) = {}
          BY <4>7 DEF Taken, Postponed
        <5> QED BY <4>2, <4>3, <5>1 DEF WillSame, WillWait, WillDefer, WillEnd, SameView
      <4> QED BY <4>4, <4>5, <4>6, <4>7
    <3> QED BY <3>0, <3>1, StillFollow
  <2> QED BY <2>2, <2>3, SyncPartsNext
<1>3. CASE k = "api"
  <2>1. call[k].op = "EnqueueCommand"
    BY <1>0, <1>1, <1>3 DEF CallInv
  <2>2. call' = [call EXCEPT !["api"] = NoCall] /\ NoJobs("api") /\ held' = held
    BY <1>3, <2>1 DEF Return
  <2>3. /\ call'["api"].op = "none" /\ call'["api"].uuid = None
        /\ \A s \in Stores : job'["api"][s] = Started
        /\ call'["client"] = call["client"] /\ job'["client"] = job["client"]
    BY <1>0, <2>2, NoCallJob, Constants
  <2>4. Apart'
    BY <1>0, <2>2, <2>3 DEF Apart, Reporting, CallInv
  <2>5. ASSUME fails' = 0
        PROVE  \A t \in Stores : Follows(t)'
    <3>0. \A t \in Stores : Follows(t)
      BY <1>0, <1>1, <2>5
    <3>1. ASSUME NEW t \in Stores
          PROVE  Agrees(t)' /\ (kind'[t] = "file" => ReadInv(t)') /\ WillSame(t)
      <4>1. SameView(t) /\ dir'[t] = dir[t] /\ blank'[t] = blank[t] /\ kind' = kind
        BY <1>1, CallerView
      <4>2. Upcoming(t) = {} /\ Upcoming(t)' = {} /\ issued' = issued
        BY <1>1, <1>3, <2>3 DEF Upcoming, Resting
      <4>3. /\ Reporting' <=> Reporting
            /\ Postponing' <=> Postponing
        BY <2>3 DEF Reporting, Postponing
      <4>4. Recorded(t)' /\ DoneInv(t)'
        BY <2>2, <2>3, <3>0, <4>1, <4>2, <4>3
           DEF Follows, Agrees, Recorded, DoneInv, SameView
      <4>5. Taken(t)' = Taken(t) /\ Postponed(t)' = Postponed(t)
        BY <2>2, <2>3, <4>1, <4>3 DEF Taken, Postponed, SameView
      <4>6. ~ At("api", t, "EnqueueCommand", "write")
        BY <1>1, <1>3 DEF At, Over
      <4>7. kind'[t] = "file" => ReadInv(t)'
        BY <2>2, <2>3, <3>0, <4>1, <4>6, ReadApiCall DEF Follows
      <4>8. WillSame(t)
        BY <4>1, <4>2, <4>5 DEF WillSame, WillWait, WillDefer, WillEnd, SameView
      <4> QED BY <4>4, <4>7, <4>8 DEF Agrees
    <3> QED BY <3>0, <3>1, StillFollow
  <2> QED BY <2>4, <2>5, SyncPartsNext
<1> QED BY <1>2, <1>3, Constants

LEMMA InitSync ==
    ASSUME Init
    PROVE  SyncInv
<1>0. FirstInv
  BY InitFirst
<1>1. /\ \A k \in Callers : call[k] = NoCall
      /\ \A k \in Callers, s \in Stores : job[k][s] = Started
      /\ \A s \in Stores : blank[s] = {} /\ order[s] = <<>> /\ inactive[s] = {}
      /\ \A s \in Stores : result[s] = [c \in Commands |-> "none"]
      /\ \A s \in Stores, d \in Dirs : dir[s][d] = {}
      /\ issued = {}
  BY DEF Init
<1>2. call["client"].op = "none" /\ call["api"].op = "none"
  BY <1>1, Constants DEF NoCall
<1>3. Apart
  BY <1>2 DEF Apart, Reporting
<1>4. ASSUME NEW s \in Stores
      PROVE  /\ Agrees(s) /\ ReadInv(s)
             /\ WillWait(s) = {} /\ WillDefer(s) = {} /\ WillEnd(s) = {}
  <2>1. Rows(s) = {} /\ Answered(s) = {}
    BY <1>1 DEF Rows, ToSet, Answered
  <2>2. \A d \in Dirs, c \in Commands : ~ Exists(s, d, c)
    BY <1>1 DEF Exists
  <2>3. Waiting(s) = {} /\ Deferred(s) = {} /\ Ended(s) = {}
    BY <1>1, <2>1, <2>2 DEF Waiting, Deferred, Ended, Dirs
  <2>4. Upcoming(s) = {} /\ Taken(s) = {} /\ Postponed(s) = {}
    BY <1>2 DEF Upcoming, Taken, Postponed, Resting, Reporting
  <2>5. Agrees(s)
    BY <1>1, <1>2 DEF Agrees, Recorded, DoneInv, Reporting
  <2>6. ReadInv(s)
    BY <1>1, <1>2 DEF ReadInv, BlankInv, Reporting, Dirs
  <2> QED BY <2>3, <2>4, <2>5, <2>6 DEF WillWait, WillDefer, WillEnd
<1> QED BY <1>0, <1>3, <1>4, Constants, SyncParts DEF Follows

LEMMA StutterSync ==
    ASSUME SyncInv, FirstInv', UNCHANGED vars
    PROVE  SyncInv'
<1>0. Apart /\ (fails = 0 => \A t \in Stores : Follows(t))
  BY SyncParts
<1>1. /\ call' = call /\ job' = job /\ dir' = dir /\ blank' = blank /\ fails' = fails
      /\ kind' = kind /\ order' = order /\ result' = result /\ inactive' = inactive
      /\ held' = held /\ settled' = settled /\ issued' = issued
  BY DEF vars, files, tables
<1>2. Apart'
  BY <1>0, <1>1 DEF Apart, Reporting
<1>3. ASSUME fails' = 0
      PROVE  \A t \in Stores : Follows(t)'
  <2>1. \A t \in Stores : Follows(t)
    BY <1>0, <1>1, <1>3
  <2>2. ASSUME NEW t \in Stores
        PROVE  Agrees(t)' /\ WillSame(t) /\ (kind'[t] = "file" => ReadInv(t)')
    <3>1. Agrees(t) /\ (kind[t] = "file" => ReadInv(t))
      BY <2>1 DEF Follows
    <3>2. SameView(t)
      BY <1>1, CallerView DEF files, tables
    <3>3. Agrees(t)' /\ WillSame(t)
      BY <1>1, <3>1, <3>2, AgreesQuiet DEF SameView
    <3>4. kind'[t] = "file" => ReadInv(t)'
      <4>1. ASSUME kind[t] = "file"
            PROVE  ReadInv(t)'
        BY <1>1, <3>1, <4>1 DEF ReadInv, BlankInv, Exists, At, KeepsResult, Source,
           Reporting, Postponing
      <4> QED BY <1>1, <4>1
    <3> QED BY <3>3, <3>4
  <2> QED BY <2>1, <2>2, StillFollow
<1> QED BY <1>2, <1>3, SyncPartsNext

LEMMA NextSync ==
    ASSUME SyncInv, Allowed = {}, [Next]_vars
    PROVE  SyncInv'
<1>0. FirstInv'
  BY NextFirst DEF SyncInv
<1>1. CASE \E c \in Commands : Enqueue(c)
  BY <1>0, <1>1, EnqueueSync
<1>2. CASE Idle
  BY <1>0, <1>2, IdleSync
<1>3. CASE \E status \in {"NotNow", "Acknowledged"} : Report(status)
  BY <1>0, <1>3, ReportSync
<1>4. CASE Authenticate
  BY <1>0, <1>4, AuthenticateSync
<1>5. CASE \E k \in Callers : Return(k)
  BY <1>0, <1>5, ReturnSync
<1>6. CASE \E k \in Callers, s \in Stores : Run(k, s)
  BY <1>0, <1>6, RunSync
<1>7. CASE UNCHANGED vars
  BY <1>0, <1>7, StutterSync
<1> QED BY <1>1, <1>2, <1>3, <1>4, <1>5, <1>6, <1>7 DEF Next

LEMMA AlwaysSync ==
    ASSUME Allowed = {}
    PROVE  Spec => []SyncInv
<1>1. Init => SyncInv
  BY InitSync
<1>2. SyncInv /\ [Next]_vars => SyncInv'
  BY NextSync
<1> QED BY <1>1, <1>2, PTL DEF Spec

(* storage/allmulti execStores: as long as no store fails, all stores      *)
(* agree about every command whenever no call is under way, for any number *)
(* of stores of either kind.  The hypothesis is that none of the Troubles  *)
(* happens: with any one of them TLC finds stores that disagree.           *)
THEOREM InSyncCorrect ==
    ASSUME Allowed = {}
    PROVE  Spec => []InSync
<1>1. SyncInv => InSync
  <2>1. ASSUME SyncInv, \A k \in Callers : Resting(k), fails = 0, NEW s \in Stores
        PROVE  /\ Waiting(s) = Waiting(1) /\ Deferred(s) = Deferred(1)
               /\ Ended(s) = Ended(1)
    <3>1. Resting("api") /\ Resting("client") /\ Follows(s)
      BY <2>1, SyncParts, Constants
    <3>2. ASSUME NEW t \in Stores
          PROVE  /\ WillWait(t) = Waiting(t) /\ WillDefer(t) = Deferred(t)
                 /\ WillEnd(t) = Ended(t)
      <4>1. Upcoming(t) = {} /\ Taken(t) = {} /\ Postponed(t) = {}
        BY <3>1 DEF Upcoming, Taken, Postponed, Resting, Reporting
      <4> QED BY <4>1 DEF WillWait, WillDefer, WillEnd
    <3> QED BY <3>1, <3>2, Constants DEF Follows
  <2> QED BY <2>1 DEF InSync
<1> QED BY <1>1, AlwaysSync, PTL

(* storage/file queue.go getNext, which decodes the first file it lists:   *)
(* an empty file is seen only between EnqueueCommand's open and write, a   *)
(* result without its command only between StoreCommandReport's rename and *)
(* removal; a request outside of these two windows finds no such file.     *)
THEOREM NextDecodesCorrect ==
    ASSUME Allowed = {}
    PROVE  Spec => []NextDecodes
<1>1. SyncInv => NextDecodes
  <2>1. ASSUME SyncInv, fails = 0, NEW s \in Stores, kind[s] = "file"
        PROVE  /\ blank[s] # {} => At("api", s, "EnqueueCommand", "write")
               /\ Finds(s, "QueueNotNow") = "error" =>
                     At("client", s, "StoreCommandReport", "removeResults")
    <3>1. TypeOK /\ FilesInv(s) /\ ReadInv(s)
      BY <2>1, SyncParts DEF FirstInv, StoreInv, Follows
    <3>2. blank[s] # {} => At("api", s, "EnqueueCommand", "write")
      BY <3>1 DEF ReadInv
    <3>3. ASSUME ~ At("client", s, "StoreCommandReport", "removeResults")
          PROVE  Finds(s, "QueueNotNow") # "error"
      <4>1. ASSUME NEW f \in dir[s]["QueueNotNow"]
            PROVE  Exists(s, "QueueNotNow", f[1]) /\ f[1] \notin blank[s]
        <5>1. Exists(s, "QueueNotNow", f[1])
          BY <3>1, <3>3 DEF ReadInv
        <5>2. f[1] \in Commands
          BY <3>1 DEF TypeOK, Files, Dirs
        <5>3. ~ Exists(s, "Queue", f[1])
          BY <3>1, <5>1, <5>2 DEF FilesInv, Dirs
        <5> QED BY <3>1, <5>1, <5>3 DEF ReadInv, BlankInv
      <4>2. "QueueNotNow" \in Dirs
        BY DEF Dirs
      <4> QED BY <3>1, <4>1, <4>2, FirstDecodes
    <3> QED BY <3>2, <3>3
  <2> QED BY <2>1 DEF NextDecodes
<1> QED BY <1>1, AlwaysSync, PTL

=============================================================================
