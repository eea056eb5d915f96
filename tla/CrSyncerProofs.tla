--------------------------- MODULE CrSyncerProofs ---------------------------
(***************************************************************************)
(* Proofs about the custom resource syncer, for any limit on conflicts,    *)
(* any number of writes, reports and faults, and with restarts of the      *)
(* informers that may overlap.                                             *)
(*                                                                         *)
(* Neither the bound on the count of conflicts nor OrphansOnly is          *)
(* inductive.  The count needs that only the worker that writes to the     *)
(* remote cluster adds to it (BelowLimit).  OrphansOnly needs to know who  *)
(* is responsible for the informers (OneRuns, EndedInHand, ClosedStops,    *)
(* Listed), and that a resource that was created while the upstream cache  *)
(* did not show it is newer than all that the workers or the downstream    *)
(* cluster have (Newer).                                                   *)
(***************************************************************************)
EXTENDS CrSyncer, TLAPS

\* A worker that may yet meet a conflict on the remote cluster has found the count
\* below the limit, or has reset it.
BelowLimit ==
    \A w \in Sides : remote = Other(w) /\ wrk[w].pc \in {"sync", "lookup", "write"}
        => conflictErrors < ConflictErrorLimit

\* Incarnations are numbered by the writes of users.
Incs ==
    /\ \A s \in Sides : obj[s].inc <= user /\ cache[s].inc <= user
    /\ wrk["up"].src.inc <= user

\* The channel is that of the informers that run.
OneRuns == Running => infDone = inf

\* Informers that were stopped are about to be replaced.
EndedInHand == inf = "ended" => \E w \in Sides : wrk[w].pc \in {"clear", "renew"}

\* One worker at most is between the close of the channel and its reset; no informers
\* run meanwhile, and nobody can start any.
ClosedStops ==
    \A w \in Sides : wrk[w].pc = "clear"
        => ~Running /\ infDone # "nil" /\ \A v \in Sides \ {w} : wrk[v].pc # "clear"

\* The upstream informer has listed the cluster, unless the one who runs it waits.
Listed ==
    /\ inf = "main" => synced["up"] \/ \E w \in Sides : wrk[w].pc = "off"
    /\ \A w \in Sides : inf = w => synced["up"] \/ wrk[w].pc = "waitUp"

\* A living upstream resource that a listed cache does not show is a new one.
Newer ==
    synced["up"] /\ obj["up"].st = "alive" /\ cache["up"].st # "alive"
        => /\ obj["down"].inc < obj["up"].inc
           /\ cache["up"].inc < obj["up"].inc
           /\ wrk["up"].src.inc < obj["up"].inc

IndInv ==
    /\ SyncTypeOK /\ BelowLimit /\ Incs /\ OneRuns /\ EndedInHand /\ ClosedStops
    /\ Listed /\ Newer

-----------------------------------------------------------------------------
(* Objects, workers, and a write to a cluster.                             *)

LEMMA GoneTyped == Gone \in Objects /\ Gone.st = "absent" /\ Gone.inc = 0
BY SyncerConstants DEF Gone, Objects

LEMMA WorkerTyped ==
    ASSUME NEW p \in WorkerSteps
    PROVE  Worker(p) \in Workers /\ Worker(p).pc = p /\ Worker(p).src.inc = 0
BY GoneTyped DEF Worker, Workers

LEMMA IdleTyped ==
    ASSUME wrk \in [Sides -> Workers], NEW w \in Sides
    PROVE  /\ Idle(w) \in [Sides -> Workers]
           /\ Idle(w)[w].pc = "idle" /\ Idle(w)[w].src.inc = 0
           /\ \A v \in Sides \ {w} : Idle(w)[v] = wrk[v]
BY WorkerTyped DEF Idle, WorkerSteps

LEMMA GotoTyped ==
    ASSUME wrk \in [Sides -> Workers], NEW w \in Sides, NEW p \in WorkerSteps
    PROVE  /\ Goto(w, p) \in [Sides -> Workers]
           /\ Goto(w, p)[w].pc = p /\ Goto(w, p)[w].src = wrk[w].src
           /\ \A v \in Sides \ {w} : Goto(w, p)[v] = wrk[v]
BY DEF Goto, Workers

\* What a write to cluster s leaves of the workers and of the clusters.
Kept(s, o, wk) ==
    /\ obj' \in [Sides -> Objects] /\ fresh' \in [Sides -> BOOLEAN]
    /\ wrk' \in [Sides -> Workers]
    /\ \A w \in Sides : /\ wrk'[w].pc = wk[w].pc
                        /\ wrk'[w].op = wk[w].op
                        /\ wrk'[w].src.inc = wk[w].src.inc
    /\ obj'[s].st = o.st /\ obj'[s].inc = o.inc
    /\ obj'[Other(s)].st = obj[Other(s)].st /\ obj'[Other(s)].inc = obj[Other(s)].inc

LEMMA StoreKeeps ==
    ASSUME SyncTypeOK, NEW s \in Sides, NEW o \in Objects, NEW wk \in [Sides -> Workers],
           Store(s, o, wk)
    PROVE  Kept(s, o, wk)
<1>1. CASE s = "up"
  <2>1. obj' = [obj EXCEPT !["up"] = o] /\ wrk' = [wk EXCEPT !["down"].cur = FALSE]
    BY <1>1 DEF Store
  <2>2. wrk' \in [Sides -> Workers]
    BY <2>1 DEF Workers, Sides
  <2>3. \A w \in Sides : wrk'[w].pc = wk[w].pc /\ wrk'[w].op = wk[w].op /\ wrk'[w].src.inc = wk[w].src.inc
    BY <2>1
  <2> QED
    BY <1>1, <2>2 DEF Kept, SyncTypeOK, Other, Store
<1>2. CASE s = "down"
  <2>1. /\ obj' = [obj EXCEPT !["down"] = o, !["up"].ann = 0]
        /\ wrk' = [wk EXCEPT !["up"].cur = FALSE, !["down"].src.ann = 0]
    BY <1>2 DEF Store
  <2>2. [wk["down"].src EXCEPT !.ann = 0] \in Objects /\ [obj["up"] EXCEPT !.ann = 0] \in Objects
    BY DEF Objects, Workers, SyncTypeOK, Sides
  <2>3. wrk'["down"] = [wk["down"] EXCEPT !.src = [wk["down"].src EXCEPT !.ann = 0]]
    BY <2>1 DEF Sides
  <2>4. wrk' \in [Sides -> Workers]
    BY <2>1, <2>2, <2>3 DEF Workers, Sides
  <2>5. \A w \in Sides : wrk'[w].pc = wk[w].pc /\ wrk'[w].op = wk[w].op /\ wrk'[w].src.inc = wk[w].src.inc
    BY <2>1 DEF Workers
  <2>6. obj' \in [Sides -> Objects]
    BY <2>1, <2>2 DEF SyncTypeOK, Sides
  <2>7. obj'["down"] = o /\ obj'["up"].st = obj["up"].st /\ obj'["up"].inc = obj["up"].inc
    BY <2>1 DEF SyncTypeOK, Sides
  <2> QED
    BY <1>2, <2>4, <2>5, <2>6, <2>7 DEF Kept, SyncTypeOK, Sides, Other, Store
<1> QED
  BY <1>1, <1>2 DEF Sides

LEMMA PutKeeps ==
    ASSUME SyncTypeOK, NEW s \in Sides, NEW o \in Objects, NEW wk \in [Sides -> Workers],
           Put(s, o, wk)
    PROVE  Kept(s, o, wk)
BY StoreKeeps DEF Put, Kept, SyncTypeOK, Sides

-----------------------------------------------------------------------------
(* What the actions that write to a cluster do, apart from the data.       *)

\* A step that may write to cluster s, for the worker w (or for none: "user").
Writes(s, w) ==
    /\ obj' \in [Sides -> Objects] /\ fresh' \in [Sides -> BOOLEAN]
    /\ wrk' \in [Sides -> Workers]
    /\ \A v \in Sides \ {w} : wrk'[v].pc = wrk[v].pc /\ wrk'[v].src.inc = wrk[v].src.inc
    /\ obj'[Other(s)].st = obj[Other(s)].st /\ obj'[Other(s)].inc = obj[Other(s)].inc

LEMMA ReadUpstreamWrites ==
    ASSUME SyncTypeOK, ReadUpstream
    PROVE  /\ Writes("up", "up")
           /\ wrk'["up"].pc = "lookup" /\ wrk'["up"].src.inc = cache["up"].inc
           /\ obj'["up"].st = obj["up"].st /\ obj'["up"].inc = obj["up"].inc
<1> DEFINE src == cache["up"]
           wk  == [wrk EXCEPT !["up"].pc = "lookup", !["up"].src = [src EXCEPT !.fin = FALSE]]
           o   == [obj["up"] EXCEPT !.fin = FALSE]
<1>1. RemoveFinalizer("up", src, wk)
  BY DEF ReadUpstream
<1>2. [src EXCEPT !.fin = FALSE] \in Objects /\ [src EXCEPT !.fin = FALSE].inc = src.inc
  BY DEF SyncTypeOK, Sides, Objects
<1>3. wk["up"] = [wrk["up"] EXCEPT !.pc = "lookup", !.src = [src EXCEPT !.fin = FALSE]]
  BY DEF SyncTypeOK, Sides
<1>4. wk \in [Sides -> Workers] /\ wk["up"].pc = "lookup" /\ wk["up"].src.inc = src.inc /\ wk["down"] = wrk["down"]
  BY <1>2, <1>3 DEF SyncTypeOK, Sides, Workers, WorkerSteps
<1>5. o \in Objects /\ o.st = obj["up"].st /\ o.inc = obj["up"].inc
  BY DEF SyncTypeOK, Sides, Objects
<1> HIDE DEF wk, o, src
<1>6. CASE Put("up", o, wk)
  BY <1>4, <1>5, <1>6, PutKeeps DEF Kept, Writes, Sides, src
<1>7. CASE UNCHANGED <<obj, fresh>> /\ wrk' = wk
  BY <1>4, <1>7 DEF SyncTypeOK, Writes, Sides, src
<1> QED
  BY <1>1, <1>6, <1>7 DEF RemoveFinalizer, o

LEMMA ReportTyped ==
    ASSUME NEW o \in Objects
    PROVE  Report(o) \in Objects
<1>1. /\ o.st \in {"absent", "alive", "deleting"} /\ o.status \in 0..MaxRobot
      /\ (IF fresh["down"] /\ ~sub THEN 1 ELSE 0) \in 0..1 /\ 0 \in 0..MaxUser
  BY SyncerConstants DEF Objects
<1> QED
  BY <1>1 DEF Report, Objects, Gone

LEMMA ReadDownstreamWrites ==
    ASSUME SyncTypeOK, ReadDownstream
    PROVE  /\ Writes("down", "down")
           /\ wrk'["down"].pc \in {"idle", "lookup"}
           /\ obj'["down"].st = obj["down"].st /\ obj'["down"].inc = obj["down"].inc
           /\ queue' \in [Sides -> BOOLEAN]
<1> DEFINE src == cache["down"]
           r   == Report(src)
           wk  == [wrk EXCEPT !["down"].pc = "lookup", !["down"].src = r]
           o   == [obj["down"] EXCEPT !.fin = FALSE]
<1>1. \/ queue' = AskUpstream(queue) /\ wrk' = Idle("down") /\ UNCHANGED <<obj, fresh>>
      \/ queue' = queue /\ RemoveFinalizer("down", src, wk)
  BY DEF ReadDownstream
<1>2. r \in Objects
  BY ReportTyped DEF SyncTypeOK, Sides
<1> HIDE DEF r
<1>3. wk["down"] = [wrk["down"] EXCEPT !.pc = "lookup", !.src = r]
  BY DEF SyncTypeOK, Sides
<1>4. wk \in [Sides -> Workers] /\ wk["down"].pc = "lookup" /\ wk["up"] = wrk["up"]
  BY <1>2, <1>3 DEF SyncTypeOK, Sides, Workers, WorkerSteps
<1>5. o \in Objects /\ o.st = obj["down"].st /\ o.inc = obj["down"].inc
  BY DEF SyncTypeOK, Sides, Objects
<1>6. queue' \in [Sides -> BOOLEAN]
  BY <1>1 DEF SyncTypeOK, AskUpstream
<1> HIDE DEF wk, o, src
<1>7. CASE wrk' = Idle("down") /\ UNCHANGED <<obj, fresh>>
  BY <1>6, <1>7, IdleTyped DEF SyncTypeOK, Writes, Sides
<1>8. CASE Put("down", o, wk)
  BY <1>4, <1>5, <1>6, <1>8, PutKeeps DEF Kept, Writes, Sides
<1>9. CASE UNCHANGED <<obj, fresh>> /\ wrk' = wk
  BY <1>4, <1>6, <1>9 DEF SyncTypeOK, Writes, Sides
<1> QED
  BY <1>1, <1>7, <1>8, <1>9 DEF RemoveFinalizer, o

LEMMA WriteDeleteWrites ==
    ASSUME SyncTypeOK, NEW w \in Sides, WriteDelete(w)
    PROVE  /\ Writes("down", w)
           /\ wrk'[w].pc = "idle" /\ wrk'[w].src.inc = 0
           /\ obj'["down"].inc = obj["down"].inc
<1> DEFINE o == IF obj["down"].st = "alive" THEN [obj["down"] EXCEPT !.st = "deleting"] ELSE obj["down"]
<1>1. Put("down", o, Idle(w))
  BY DEF WriteDelete
<1>2. o \in Objects /\ o.inc = obj["down"].inc
  BY DEF SyncTypeOK, Sides, Objects
<1> HIDE DEF o
<1> QED
  BY <1>1, <1>2, PutKeeps, IdleTyped DEF Kept, Writes, SyncTypeOK, Sides

LEMMA WriteCreateWrites ==
    ASSUME SyncTypeOK, WriteCreate
    PROVE  /\ Writes("down", "up")
           /\ wrk'["up"].pc = "idle" /\ wrk'["up"].src.inc = 0
           /\ obj'["down"].inc \in {obj["down"].inc, wrk["up"].src.inc}
<1> DEFINE src == wrk["up"].src
           o == [Gone EXCEPT !.st = "alive", !.inc = src.inc, !.spec = src.spec, !.status = src.status]
<1>0. src \in Objects
  BY DEF SyncTypeOK, Sides, Workers
<1>1. o \in Objects /\ o.inc = src.inc
  BY <1>0, GoneTyped DEF Objects, Gone
<1>2. \/ Put("down", o, Idle("up"))
      \/ UNCHANGED <<obj, fresh>> /\ wrk' = Idle("up")
  BY DEF WriteCreate
<1> HIDE DEF o, src
<1>3. CASE Put("down", o, Idle("up"))
  BY <1>1, <1>3, PutKeeps, IdleTyped DEF Kept, Writes, SyncTypeOK, Sides, src
<1>4. CASE UNCHANGED <<obj, fresh>> /\ wrk' = Idle("up")
  BY <1>4, IdleTyped DEF Writes, SyncTypeOK, Sides
<1> QED
  BY <1>2, <1>3, <1>4

LEMMA SpecCopiedTyped ==
    ASSUME NEW d \in Objects, NEW e \in Objects
    PROVE  SpecCopied(d, e) \in Objects /\ SpecCopied(d, e).inc = e.inc
<1>1. e.inc \in 0..MaxUser /\ e.spec \in 0..MaxUser /\ 0 \in 0..1
  BY DEF Objects
<1> QED
  BY <1>1 DEF Objects, SpecCopied

LEMMA WriteUpdateWrites ==
    ASSUME SyncTypeOK, WriteUpdate
    PROVE  /\ Writes("down", "up")
           /\ wrk'["up"].pc = "idle" /\ wrk'["up"].src.inc = 0
           /\ obj'["down"].inc \in {obj["down"].inc, wrk["up"].src.inc}
<1> DEFINE src == wrk["up"].src
           o == SpecCopied(obj["down"], src)
<1>0. src \in Objects /\ obj["down"] \in Objects
  BY DEF SyncTypeOK, Sides, Workers
<1>1. o \in Objects /\ o.inc = src.inc
  BY <1>0, SpecCopiedTyped
<1>2. \/ Put("down", o, Idle("up"))
      \/ UNCHANGED <<obj, fresh>> /\ wrk' = Idle("up")
  BY DEF WriteUpdate, UpdateFails
<1> HIDE DEF o, src
<1>3. CASE Put("down", o, Idle("up"))
  BY <1>1, <1>3, PutKeeps, IdleTyped DEF Kept, Writes, SyncTypeOK, Sides, src
<1>4. CASE UNCHANGED <<obj, fresh>> /\ wrk' = Idle("up")
  BY <1>4, IdleTyped DEF Writes, SyncTypeOK, Sides
<1> QED
  BY <1>2, <1>3, <1>4

LEMMA WriteStatusWrites ==
    ASSUME SyncTypeOK, WriteStatus
    PROVE  /\ Writes("up", "down")
           /\ wrk'["down"].pc = "idle" /\ wrk'["down"].src.inc = 0
           /\ obj'["up"].st = obj["up"].st /\ obj'["up"].inc = obj["up"].inc
<1> DEFINE src == wrk["down"].src
           o == [obj["up"] EXCEPT !.status = src.status, !.ann = src.ann]
<1>1. o \in Objects /\ o.inc = obj["up"].inc /\ o.st = obj["up"].st
  <2>1. obj["up"] \in Objects /\ src \in Objects
    BY DEF SyncTypeOK, Sides, Workers
  <2> HIDE DEF src
  <2> QED
    BY <2>1 DEF Objects
<1>2. \/ Put("up", o, Idle("down")) \/ Store("up", o, Idle("down"))
      \/ UNCHANGED <<obj, fresh>> /\ wrk' = Idle("down")
  BY DEF WriteStatus, UpdateFails, StoreStatus
<1> HIDE DEF o
<1>3. CASE Put("up", o, Idle("down")) \/ Store("up", o, Idle("down"))
  BY <1>1, <1>3, PutKeeps, StoreKeeps, IdleTyped DEF Kept, Writes, SyncTypeOK, Sides
<1>4. CASE UNCHANGED <<obj, fresh>> /\ wrk' = Idle("down")
  BY <1>4, IdleTyped DEF Writes, SyncTypeOK, Sides
<1> QED
  BY <1>2, <1>3, <1>4

LEMMA ApplyWrites ==
    ASSUME SyncTypeOK, Apply
    PROVE  /\ Writes("up", "user")
           /\ \/ obj["up"].st = "alive" /\ obj'["up"].inc = obj["up"].inc
              \/ obj'["up"].inc = user + 1
<1> DEFINE o == IF Exists(obj["up"]) THEN [obj["up"] EXCEPT !.spec = user + 1]
               ELSE [Gone EXCEPT !.st = "alive", !.inc = user + 1, !.spec = user + 1]
<1>1. Put("up", o, wrk)
  BY DEF Apply, UserWrites
<1>2. o \in Objects /\ ((obj["up"].st = "alive" /\ o.inc = obj["up"].inc) \/ o.inc = user + 1)
  <2>1. user + 1 \in 0..MaxUser /\ obj["up"] \in Objects /\ obj["up"].st # "deleting"
    BY SyncerConstants DEF SyncTypeOK, Sides, Apply, UserWrites
  <2>2. CASE Exists(obj["up"])
    BY <2>1, <2>2 DEF Objects, Exists
  <2>3. CASE ~Exists(obj["up"])
    BY <2>1, <2>3, GoneTyped DEF Objects, Gone
  <2> QED
    BY <2>2, <2>3
<1> HIDE DEF o
<1> QED
  BY <1>1, <1>2, PutKeeps DEF Kept, Writes, SyncTypeOK, Sides

LEMMA DeleteUpstreamWrites ==
    ASSUME SyncTypeOK, DeleteUpstream
    PROVE  /\ Writes("up", "user")
           /\ obj'["up"].st # "alive" /\ obj'["up"].inc \in {0, obj["up"].inc}
<1> DEFINE o == IF obj["up"].fin THEN [obj["up"] EXCEPT !.st = "deleting"] ELSE Gone
<1>1. Put("up", o, wrk)
  BY DEF DeleteUpstream, UserWrites
<1>2. o \in Objects /\ o.st # "alive" /\ o.inc \in {0, obj["up"].inc}
  BY SyncerConstants DEF SyncTypeOK, Sides, Objects, Gone
<1> HIDE DEF o
<1> QED
  BY <1>1, <1>2, PutKeeps DEF Kept, Writes, SyncTypeOK, Sides

LEMMA DeleteDownstreamWrites ==
    ASSUME SyncTypeOK, DeleteDownstream
    PROVE  /\ Writes("down", "user")
           /\ obj'["down"].inc = obj["down"].inc
<1> DEFINE o == [obj["down"] EXCEPT !.st = "deleting"]
<1>1. Put("down", o, wrk)
  BY DEF DeleteDownstream, UserWrites
<1>2. o \in Objects /\ o.inc = obj["down"].inc
  BY DEF SyncTypeOK, Sides, Objects
<1> HIDE DEF o
<1> QED
  BY <1>1, <1>2, PutKeeps DEF Kept, Writes, SyncTypeOK, Sides

LEMMA FinalizedWrites ==
    ASSUME SyncTypeOK, NEW s \in Sides, Finalized(s)
    PROVE  /\ Writes(s, "user")
           /\ obj'[s].st = "absent" /\ obj'[s].inc = 0
<1> DEFINE o == Gone
<1>1. Put(s, o, wrk)
  BY DEF Finalized
<1>2. o \in Objects /\ o.st = "absent" /\ o.inc = 0
  BY SyncerConstants DEF Objects, Gone
<1> HIDE DEF o
<1> QED
  BY <1>1, <1>2, PutKeeps DEF Kept, Writes, SyncTypeOK, Sides

LEMMA RobotReportsWrites ==
    ASSUME SyncTypeOK, RobotReports
    PROVE  /\ Writes("down", "user")
           /\ obj'["down"].inc = obj["down"].inc
<1> DEFINE o == [obj["down"] EXCEPT !.status = robot + 1]
<1>1. Put("down", o, wrk)
  BY DEF RobotReports
<1>2. o \in Objects /\ o.inc = obj["down"].inc
  BY SyncerConstants DEF SyncTypeOK, Sides, Objects, RobotReports
<1> HIDE DEF o
<1> QED
  BY <1>1, <1>2, PutKeeps DEF Kept, Writes, SyncTypeOK, Sides

-----------------------------------------------------------------------------
(* The other steps that need a closer look.                                *)

LEMMA ViewTyped ==
    ASSUME SyncTypeOK, NEW s \in Sides, NEW o \in Objects
    PROVE  View(s, o) \in Objects /\ View(s, o).st = o.st /\ View(s, o).inc \in {0, o.inc}
<1>1. o.st \in {"absent", "alive", "deleting"} /\ o.status \in 0..MaxRobot /\ 0 \in 0..MaxRobot /\ 0 \in 0..1
  BY SyncerConstants DEF Objects
<1>2. CASE s = "down"
  BY <1>1, <1>2, GoneTyped DEF View, Objects, Gone
<1>3. CASE s # "down"
  BY <1>1, <1>3 DEF View, Objects
<1> QED
  BY <1>2, <1>3

\* A worker that starts to write.
LEMMA WriterTyped ==
    ASSUME wrk \in [Sides -> Workers], NEW w \in Sides, NEW b \in BOOLEAN, NEW o \in Objects,
           NEW op \in {"delete", "create", "update", "status"},
           wrk' = [wrk EXCEPT ![w] = [pc |-> "write", op |-> op, src |-> o, cur |-> b]]
    PROVE  /\ wrk' \in [Sides -> Workers]
           /\ wrk'[w].pc = "write" /\ wrk'[w].src = o
           /\ \A v \in Sides \ {w} : wrk'[v] = wrk[v]
BY DEF Workers, WorkerSteps

LEMMA LookupMoves ==
    ASSUME SyncTypeOK, LookupDownstream
    PROVE  /\ wrk' \in [Sides -> Workers]
           /\ wrk'["up"].pc \in {"idle", "write"}
           /\ wrk'["up"].src.inc \in {0, wrk["up"].src.inc}
           /\ wrk'["down"] = wrk["down"]
<1> DEFINE src == wrk["up"].src
           dst == cache["down"]
           op == CASE ~Exists(src) /\ ~Exists(dst)        -> "none"
                   [] ~Exists(src) \/ src.st = "deleting" -> "delete"
                   [] src.st = "alive" /\ ~Exists(dst)    -> "create"
                   [] OTHER                               -> "update"
           o == IF op = "delete" THEN Gone ELSE src
           b == op = "update" /\ fresh["down"]
<1>1. wrk \in [Sides -> Workers] /\ src \in Objects /\ fresh["down"] \in BOOLEAN /\ {"up", "down"} = Sides
  BY DEF SyncTypeOK, Workers, Sides
<1>2. op \in {"none", "delete", "create", "update"}
  OBVIOUS
<1>3. wrk' = IF op = "none" THEN Idle("up")
             ELSE [wrk EXCEPT !["up"] = [pc |-> "write", op |-> op, src |-> o, cur |-> b]]
  BY DEF LookupDownstream
<1>4. b \in BOOLEAN
  OBVIOUS
<1>5. o \in Objects /\ o.inc \in {0, src.inc}
  BY <1>1, GoneTyped
<1> HIDE DEF op, o, b
<1>6. CASE op = "none"
  BY <1>1, <1>3, <1>6, IdleTyped
<1>7. CASE op # "none"
  BY <1>1, <1>2, <1>3, <1>4, <1>5, <1>7, WriterTyped
<1> QED
  BY <1>6, <1>7

LEMMA LookupUpstreamMoves ==
    ASSUME SyncTypeOK, LookupUpstream
    PROVE  /\ wrk' \in [Sides -> Workers]
           /\ wrk'["down"].pc \in {"idle", "write"}
           /\ wrk'["up"] = wrk["up"]
<1> DEFINE src == wrk["down"].src
           dst == cache["up"]
           op == CASE Exists(dst)                      -> "status"
                   [] ~Exists(dst) /\ src.st = "alive" -> "delete"
                   [] OTHER                            -> "none"
           o == IF op = "delete" THEN Gone ELSE [src EXCEPT !.st = "absent"]
           b == op = "status" /\ fresh["up"]
<1>1. wrk \in [Sides -> Workers] /\ src \in Objects /\ fresh["up"] \in BOOLEAN /\ {"up", "down"} = Sides
  BY DEF SyncTypeOK, Workers, Sides
<1>2. op \in {"status", "delete", "none"}
  OBVIOUS
<1>3. wrk' = IF op = "none" THEN Idle("down")
             ELSE [wrk EXCEPT !["down"] = [pc |-> "write", op |-> op, src |-> o, cur |-> b]]
  BY DEF LookupUpstream
<1>4. b \in BOOLEAN
  OBVIOUS
<1>5. o \in Objects
  <2>1. [src EXCEPT !.st = "absent"] \in Objects
    BY <1>1 DEF Objects
  <2> QED
    BY <2>1, GoneTyped
<1> HIDE DEF op, o, b
<1>6. CASE op = "none"
  BY <1>1, <1>3, <1>6, IdleTyped
<1>7. CASE op # "none"
  BY <1>1, <1>2, <1>3, <1>4, <1>5, <1>7, WriterTyped
<1> QED
  BY <1>6, <1>7

\* The count of conflicts after an update that fails.
LEMMA UpdateFailsCounts ==
    ASSUME IndInv, NEW w \in Sides, NEW op, Writing(w, op), UpdateFails(w, Other(w))
    PROVE  conflictErrors' \in 0..ConflictErrorLimit /\ queue' \in [Sides -> BOOLEAN]
<1>1. conflictErrors \in 0..ConflictErrorLimit /\ queue \in [Sides -> BOOLEAN]
  BY DEF IndInv, SyncTypeOK
<1>2. remote = Other(w) => conflictErrors < ConflictErrorLimit
  BY DEF IndInv, BelowLimit, Writing
<1>3. \/ UNCHANGED conflictErrors
      \/ remote = Other(w) /\ conflictErrors' = conflictErrors + 1
  BY DEF UpdateFails, CountConflict
<1>4. conflictErrors' \in 0..ConflictErrorLimit
  BY <1>1, <1>2, <1>3, SyncerConstants
<1> QED
  BY <1>1, <1>4 DEF UpdateFails, Returns

LEMMA ProcessStartsTyped ==
    ASSUME ProcessStarts
    PROVE  /\ cache' \in [Sides -> Objects] /\ fresh' \in [Sides -> BOOLEAN]
           /\ synced' \in [Sides -> BOOLEAN] /\ handled' \in BOOLEAN /\ inf' = "main"
           /\ infDone' = "main" /\ stalled' \in BOOLEAN /\ queue' \in [Sides -> BOOLEAN]
           /\ wrk' \in [Sides -> Workers] /\ conflictErrors' \in 0..ConflictErrorLimit
<1>1. cache' \in [Sides -> Objects]
  BY GoneTyped DEF ProcessStarts
<1>2. wrk' \in [Sides -> Workers]
  BY WorkerTyped DEF ProcessStarts, WorkerSteps
<1>3. conflictErrors' \in 0..ConflictErrorLimit
  BY SyncerConstants DEF ProcessStarts
<1> QED
  BY <1>1, <1>2, <1>3 DEF ProcessStarts

-----------------------------------------------------------------------------
(* The conjuncts of the invariant, one by one.                             *)

LEMMA TypesKept ==
    ASSUME IndInv, [Next]_vars
    PROVE  SyncTypeOK'
<1> USE DEF IndInv, SyncTypeOK, Sides, WorkerSteps, RestartSteps
<1>1. ASSUME WorkersStart PROVE SyncTypeOK'
  BY <1>1, WorkerTyped DEF WorkersStart, Cached, cfgVars, countVars, Writes
<1>2. ASSUME NEW w \in Sides, Begin(w) PROVE SyncTypeOK'
  BY <1>2, GotoTyped DEF Begin, cfgVars, infVars, countVars
<1>3. ASSUME NEW w \in Sides, StopInformers(w) PROVE SyncTypeOK'
  BY <1>3, GotoTyped DEF StopInformers, cfgVars, countVars
<1>4. ASSUME NEW w \in Sides, StopPanics(w) PROVE SyncTypeOK'
  BY <1>4, ProcessStartsTyped DEF StopPanics, cfgVars, countVars
<1>5. ASSUME NEW w \in Sides, ForgetChannel(w) PROVE SyncTypeOK'
  BY <1>5, GotoTyped DEF ForgetChannel, cfgVars, countVars
<1>6. ASSUME NEW w \in Sides, RenewInformers(w) PROVE SyncTypeOK'
  BY <1>6, GotoTyped, GoneTyped, SyncerConstants DEF RenewInformers, cfgVars, countVars, Writes
<1>7. ASSUME NEW w \in Sides, StartInformers(w) PROVE SyncTypeOK'
  <2>1. CASE infDone # "nil"
    <3>1. wrk' \in [Sides -> Workers] /\ queue' \in [Sides -> BOOLEAN]
      <4>1. wrk' = Idle(w) /\ queue' = [queue EXCEPT ![w] = queue[w] \/ ~FALSE]
        BY <1>7, <2>1 DEF StartInformers, Returns
      <4> QED
        BY <4>1, IdleTyped
    <3> QED
      BY <1>7, <2>1, <3>1 DEF StartInformers, cfgVars, countVars
  <2>2. CASE infDone = "nil"
    <3>1. wrk' \in [Sides -> Workers]
      BY <1>7, <2>2, GotoTyped DEF StartInformers
    <3> QED
      BY <1>7, <2>2, <3>1 DEF StartInformers, cfgVars, countVars
  <2> QED
    BY <2>1, <2>2
<1>8. ASSUME NEW w \in Sides, SyncedUp(w) PROVE SyncTypeOK'
  BY <1>8, GotoTyped DEF SyncedUp, cfgVars, infVars, countVars, Writes
<1>9. ASSUME NEW w \in Sides, SyncedDown(w) PROVE SyncTypeOK'
  BY <1>9, GotoTyped DEF SyncedDown, Cached, cfgVars, countVars
<1>10. ASSUME NEW w \in Sides, Interrupted(w) PROVE SyncTypeOK'
  BY <1>10, IdleTyped DEF Interrupted, Returns, cfgVars, infVars, countVars, Writes
<1>11. ASSUME NEW w \in Sides, ResetConflicts(w) PROVE SyncTypeOK'
  BY <1>11, GotoTyped, SyncerConstants DEF ResetConflicts, cfgVars, infVars, countVars, Writes
<1>12. ASSUME ReadUpstream PROVE SyncTypeOK'
  BY <1>12, ReadUpstreamWrites DEF ReadUpstream, cfgVars, infVars, countVars, Writes
<1>13. ASSUME LookupDownstream PROVE SyncTypeOK'
  BY <1>13, LookupMoves DEF LookupDownstream, cfgVars, infVars, countVars
<1>14. ASSUME NEW w \in Sides, WriteDelete(w) PROVE SyncTypeOK'
  BY <1>14, WriteDeleteWrites DEF WriteDelete, cfgVars, infVars, countVars, Writes
<1>15. ASSUME WriteCreate PROVE SyncTypeOK'
  <2>1. obj' \in [Sides -> Objects] /\ fresh' \in [Sides -> BOOLEAN] /\ wrk' \in [Sides -> Workers]
    BY <1>15, WriteCreateWrites DEF Writes
  <2>2. conflictErrors' \in 0..ConflictErrorLimit /\ queue' \in [Sides -> BOOLEAN]
    <3>1. CASE Succeeds("down")
      BY <3>1, SyncerConstants DEF Succeeds
    <3>2. CASE Returns("up", FALSE, queue) /\ UNCHANGED conflictErrors
      BY <3>2 DEF Returns
    <3> QED
      BY <1>15, <3>1, <3>2 DEF WriteCreate
  <2>3. UNCHANGED <<cfgVars, infVars, countVars>>
    BY <1>15 DEF WriteCreate
  <2> QED
    BY <2>1, <2>2, <2>3 DEF cfgVars, infVars, countVars
<1>16. ASSUME WriteUpdate PROVE SyncTypeOK'
  <2>1. obj' \in [Sides -> Objects] /\ fresh' \in [Sides -> BOOLEAN] /\ wrk' \in [Sides -> Workers]
    BY <1>16, WriteUpdateWrites DEF Writes
  <2>2. Writing("up", "update") /\ (UpdateFails("up", "down") \/ Succeeds("down"))
    BY <1>16 DEF WriteUpdate
  <2>3. ASSUME UpdateFails("up", "down")
        PROVE  conflictErrors' \in 0..ConflictErrorLimit /\ queue' \in [Sides -> BOOLEAN]
    BY <2>2, <2>3, UpdateFailsCounts DEF Other
  <2>4. ASSUME Succeeds("down")
        PROVE  conflictErrors' \in 0..ConflictErrorLimit /\ queue' \in [Sides -> BOOLEAN]
    BY <2>4, SyncerConstants DEF Succeeds
  <2>5. conflictErrors' \in 0..ConflictErrorLimit /\ queue' \in [Sides -> BOOLEAN]
    BY <2>2, <2>3, <2>4
  <2>6. UNCHANGED <<cfgVars, infVars, countVars>>
    BY <1>16 DEF WriteUpdate
  <2> QED
    BY <2>1, <2>5, <2>6 DEF cfgVars, infVars, countVars
<1>17. ASSUME ReadDownstream PROVE SyncTypeOK'
  BY <1>17, ReadDownstreamWrites DEF ReadDownstream, cfgVars, Writes, Other, infVars, countVars
<1>18. ASSUME LookupUpstream PROVE SyncTypeOK'
  BY <1>18, LookupUpstreamMoves DEF LookupUpstream, cfgVars, infVars, countVars
<1>19. ASSUME WriteStatus PROVE SyncTypeOK'
  <2>1. obj' \in [Sides -> Objects] /\ fresh' \in [Sides -> BOOLEAN] /\ wrk' \in [Sides -> Workers]
    BY <1>19, WriteStatusWrites DEF Writes
  <2>2. Writing("down", "status") /\ (UpdateFails("down", "up") \/ Succeeds("up"))
    BY <1>19 DEF WriteStatus
  <2>3. ASSUME UpdateFails("down", "up")
        PROVE  conflictErrors' \in 0..ConflictErrorLimit /\ queue' \in [Sides -> BOOLEAN]
    BY <2>2, <2>3, UpdateFailsCounts DEF Other
  <2>4. ASSUME Succeeds("up")
        PROVE  conflictErrors' \in 0..ConflictErrorLimit /\ queue' \in [Sides -> BOOLEAN]
    BY <2>4, SyncerConstants DEF Succeeds
  <2>5. conflictErrors' \in 0..ConflictErrorLimit /\ queue' \in [Sides -> BOOLEAN]
    BY <2>2, <2>3, <2>4
  <2>6. UNCHANGED <<cfgVars, infVars, countVars>>
    BY <1>19 DEF WriteStatus
  <2> QED
    BY <2>1, <2>5, <2>6 DEF cfgVars, infVars, countVars
<1>20. ASSUME Apply PROVE SyncTypeOK'
  BY <1>20, ApplyWrites, SyncerConstants DEF Apply, UserWrites, cfgVars, infVars, Writes
<1>21. ASSUME DeleteUpstream PROVE SyncTypeOK'
  BY <1>21, DeleteUpstreamWrites, SyncerConstants DEF DeleteUpstream, UserWrites, cfgVars,
     infVars, Writes
<1>22. ASSUME DeleteDownstream PROVE SyncTypeOK'
  BY <1>22, DeleteDownstreamWrites, SyncerConstants DEF DeleteDownstream, UserWrites, cfgVars,
     infVars, Writes
<1>23. ASSUME NEW s \in Sides, Finalized(s) PROVE SyncTypeOK'
  BY <1>23, FinalizedWrites DEF Finalized, cfgVars, infVars, countVars, Writes
<1>24. ASSUME RobotReports PROVE SyncTypeOK'
  BY <1>24, RobotReportsWrites, SyncerConstants DEF RobotReports, cfgVars, infVars, Writes
<1>25. ASSUME NEW s \in Sides, CacheUpdate(s) PROVE SyncTypeOK'
  <2>1. View(s, obj[s]) \in Objects
    BY ViewTyped
  <2> QED
    BY <1>25, <2>1 DEF CacheUpdate, cfgVars, countVars
<1>26. ASSUME Resync PROVE SyncTypeOK'
  BY <1>26, SyncerConstants DEF Resync, Fault, Cached, cfgVars, infVars
<1>27. ASSUME Stall PROVE SyncTypeOK'
  BY <1>27, SyncerConstants DEF Stall, Fault, cfgVars
<1>28. ASSUME Relist PROVE SyncTypeOK'
  <2>1. CASE ProcessStarts
    BY <1>28, <2>1, ProcessStartsTyped DEF Relist, cfgVars, countVars
  <2>2. CASE ~ProcessStarts
    BY <1>28, <2>2 DEF Relist, cfgVars, countVars
  <2> QED
    BY <2>1, <2>2
<1>29. ASSUME Crash PROVE SyncTypeOK'
  BY <1>29, ProcessStartsTyped, SyncerConstants DEF Crash, Fault, cfgVars
<1>30. ASSUME NEW w \in Sides, CallFails(w) PROVE SyncTypeOK'
  BY <1>30, IdleTyped, SyncerConstants DEF CallFails, Fault, Returns, cfgVars, infVars, Writes
<1>31. ASSUME UNCHANGED vars PROVE SyncTypeOK'
  BY <1>31 DEF vars, infVars, cfgVars, countVars, SyncTypeOK
<1> QED
  BY <1>1, <1>2, <1>3, <1>4, <1>5, <1>6, <1>7, <1>8, <1>9, <1>10, <1>11, <1>12, <1>13, <1>14,
     <1>15, <1>16, <1>17, <1>18, <1>19, <1>20, <1>21, <1>22, <1>23, <1>24, <1>25, <1>26,
     <1>27, <1>28, <1>29, <1>30, <1>31
  DEF Next, Syncer, Restart, SyncUpstream, SyncDownstream, Environment, Informers, Faults

LEMMA BelowLimitKept ==
    ASSUME IndInv, [Next]_vars
    PROVE  BelowLimit'
<1> USE DEF IndInv, SyncTypeOK, BelowLimit, Sides
<1>1. ASSUME WorkersStart PROVE BelowLimit'
  BY <1>1, WorkerTyped DEF WorkersStart, WorkerSteps
<1>2. ASSUME NEW w \in Sides, Begin(w) PROVE BelowLimit'
  BY <1>2, GotoTyped, SyncerConstants DEF Begin, TooManyConflicts, cfgVars, WorkerSteps,
     RestartSteps
<1>3. ASSUME NEW w \in Sides, StopInformers(w) PROVE BelowLimit'
  BY <1>3, GotoTyped DEF StopInformers, cfgVars, WorkerSteps, RestartSteps
<1>4. ASSUME NEW w \in Sides, StopPanics(w) PROVE BelowLimit'
  BY <1>4, SyncerConstants DEF StopPanics, ProcessStarts
<1>5. ASSUME NEW w \in Sides, ForgetChannel(w) PROVE BelowLimit'
  BY <1>5, GotoTyped DEF ForgetChannel, cfgVars, WorkerSteps, RestartSteps
<1>6. ASSUME NEW w \in Sides, RenewInformers(w) PROVE BelowLimit'
  BY <1>6, GotoTyped DEF RenewInformers, cfgVars, WorkerSteps, RestartSteps
<1>7. ASSUME NEW w \in Sides, StartInformers(w) PROVE BelowLimit'
  BY <1>7, IdleTyped, GotoTyped DEF StartInformers, Returns, cfgVars, WorkerSteps, RestartSteps
<1>8. ASSUME NEW w \in Sides, SyncedUp(w) PROVE BelowLimit'
  BY <1>8, GotoTyped DEF SyncedUp, cfgVars, WorkerSteps, RestartSteps
<1>9. ASSUME NEW w \in Sides, SyncedDown(w) PROVE BelowLimit'
  BY <1>9, GotoTyped DEF SyncedDown, cfgVars, WorkerSteps, RestartSteps
<1>10. ASSUME NEW w \in Sides, Interrupted(w) PROVE BelowLimit'
  BY <1>10, IdleTyped DEF Interrupted, cfgVars
<1>11. ASSUME NEW w \in Sides, ResetConflicts(w) PROVE BelowLimit'
  BY <1>11, SyncerConstants DEF ResetConflicts
<1>12. ASSUME ReadUpstream PROVE BelowLimit'
  BY <1>12, ReadUpstreamWrites DEF ReadUpstream, cfgVars, Writes
<1>13. ASSUME LookupDownstream PROVE BelowLimit'
  BY <1>13 DEF LookupDownstream, cfgVars
<1>14. ASSUME NEW w \in Sides, WriteDelete(w) PROVE BelowLimit'
  BY <1>14, WriteDeleteWrites DEF WriteDelete, cfgVars, Writes
<1>15. ASSUME WriteCreate PROVE BelowLimit'
  BY <1>15, WriteCreateWrites, SyncerConstants DEF WriteCreate, Returns, Succeeds, cfgVars,
     Writes
<1>16. ASSUME WriteUpdate PROVE BelowLimit'
  BY <1>16, WriteUpdateWrites DEF WriteUpdate, UpdateFails, Succeeds, cfgVars, CountConflict,
     Returns, Writes, Other, WorkerSteps, RestartSteps
<1>17. ASSUME ReadDownstream PROVE BelowLimit'
  BY <1>17, ReadDownstreamWrites DEF ReadDownstream, cfgVars, Writes, Other
<1>18. ASSUME LookupUpstream PROVE BelowLimit'
  BY <1>18, LookupUpstreamMoves DEF LookupUpstream, cfgVars
<1>19. ASSUME WriteStatus PROVE BelowLimit'
  BY <1>19, WriteStatusWrites DEF WriteStatus, UpdateFails, Succeeds, cfgVars, CountConflict,
     Returns, Writes, Other, WorkerSteps, RestartSteps
<1>20. ASSUME Apply PROVE BelowLimit'
  BY <1>20, ApplyWrites DEF Apply, UserWrites, cfgVars, Writes
<1>21. ASSUME DeleteUpstream PROVE BelowLimit'
  BY <1>21, DeleteUpstreamWrites DEF DeleteUpstream, UserWrites, cfgVars, Writes
<1>22. ASSUME DeleteDownstream PROVE BelowLimit'
  BY <1>22, DeleteDownstreamWrites DEF DeleteDownstream, UserWrites, cfgVars, Writes
<1>23. ASSUME NEW s \in Sides, Finalized(s) PROVE BelowLimit'
  BY <1>23, FinalizedWrites DEF Finalized, cfgVars, Writes
<1>24. ASSUME RobotReports PROVE BelowLimit'
  BY <1>24, RobotReportsWrites DEF RobotReports, cfgVars, Writes
<1>25. ASSUME NEW s \in Sides, CacheUpdate(s) PROVE BelowLimit'
  BY <1>25 DEF CacheUpdate, cfgVars
<1>26. ASSUME Resync PROVE BelowLimit'
  BY <1>26 DEF Resync, cfgVars
<1>27. ASSUME Stall PROVE BelowLimit'
  BY <1>27 DEF Stall, cfgVars
<1>28. ASSUME Relist PROVE BelowLimit'
  BY <1>28, SyncerConstants DEF Relist, ProcessStarts, cfgVars
<1>29. ASSUME Crash PROVE BelowLimit'
  BY <1>29, SyncerConstants DEF Crash, ProcessStarts
<1>30. ASSUME NEW w \in Sides, CallFails(w) PROVE BelowLimit'
  BY <1>30, IdleTyped DEF CallFails, cfgVars
<1>31. ASSUME UNCHANGED vars PROVE BelowLimit'
  BY <1>31 DEF vars, cfgVars
<1> QED
  BY <1>1, <1>2, <1>3, <1>4, <1>5, <1>6, <1>7, <1>8, <1>9, <1>10, <1>11, <1>12, <1>13, <1>14,
     <1>15, <1>16, <1>17, <1>18, <1>19, <1>20, <1>21, <1>22, <1>23, <1>24, <1>25, <1>26,
     <1>27, <1>28, <1>29, <1>30, <1>31
  DEF Next, Syncer, Restart, SyncUpstream, SyncDownstream, Environment, Informers, Faults

LEMMA IncsKept ==
    ASSUME IndInv, [Next]_vars
    PROVE  Incs'
<1> USE DEF IndInv, SyncTypeOK, Incs, Sides
<1>1. ASSUME WorkersStart PROVE Incs'
  BY <1>1, WorkerTyped DEF WorkersStart, countVars, WorkerSteps
<1>2. ASSUME NEW w \in Sides, Begin(w) PROVE Incs'
  BY <1>2, GotoTyped DEF Begin, infVars, countVars, WorkerSteps, RestartSteps
<1>3. ASSUME NEW w \in Sides, StopInformers(w) PROVE Incs'
  BY <1>3, GotoTyped DEF StopInformers, countVars, WorkerSteps, RestartSteps
<1>4. ASSUME NEW w \in Sides, StopPanics(w) PROVE Incs'
  BY <1>4, WorkerTyped, GoneTyped DEF StopPanics, ProcessStarts, countVars, WorkerSteps
<1>5. ASSUME NEW w \in Sides, ForgetChannel(w) PROVE Incs'
  BY <1>5, GotoTyped DEF ForgetChannel, countVars, WorkerSteps, RestartSteps
<1>6. ASSUME NEW w \in Sides, RenewInformers(w) PROVE Incs'
  BY <1>6, GotoTyped, GoneTyped DEF RenewInformers, countVars, WorkerSteps, RestartSteps
<1>7. ASSUME NEW w \in Sides, StartInformers(w) PROVE Incs'
  BY <1>7, IdleTyped, GotoTyped DEF StartInformers, Returns, countVars, WorkerSteps,
     RestartSteps
<1>8. ASSUME NEW w \in Sides, SyncedUp(w) PROVE Incs'
  BY <1>8, GotoTyped DEF SyncedUp, infVars, countVars, WorkerSteps, RestartSteps
<1>9. ASSUME NEW w \in Sides, SyncedDown(w) PROVE Incs'
  BY <1>9, GotoTyped DEF SyncedDown, countVars, WorkerSteps, RestartSteps
<1>10. ASSUME NEW w \in Sides, Interrupted(w) PROVE Incs'
  BY <1>10, IdleTyped DEF Interrupted, infVars, countVars
<1>11. ASSUME NEW w \in Sides, ResetConflicts(w) PROVE Incs'
  BY <1>11, GotoTyped DEF ResetConflicts, infVars, countVars, WorkerSteps
<1>12. ASSUME ReadUpstream PROVE Incs'
  BY <1>12, ReadUpstreamWrites DEF ReadUpstream, infVars, countVars, Writes, Other
<1>13. ASSUME LookupDownstream PROVE Incs'
  BY <1>13, LookupMoves DEF LookupDownstream, infVars, countVars
<1>14. ASSUME NEW w \in Sides, WriteDelete(w) PROVE Incs'
  BY <1>14, WriteDeleteWrites DEF WriteDelete, infVars, countVars, Writes, Other
<1>15. ASSUME WriteCreate PROVE Incs'
  BY <1>15, WriteCreateWrites DEF WriteCreate, Returns, infVars, countVars, Writes, Other
<1>16. ASSUME WriteUpdate PROVE Incs'
  BY <1>16, WriteUpdateWrites DEF WriteUpdate, infVars, countVars, Returns, Writes, Other
<1>17. ASSUME ReadDownstream PROVE Incs'
  BY <1>17, ReadDownstreamWrites DEF ReadDownstream, infVars, Writes, Other, countVars
<1>18. ASSUME LookupUpstream PROVE Incs'
  BY <1>18, LookupUpstreamMoves DEF LookupUpstream, infVars, countVars
<1>19. ASSUME WriteStatus PROVE Incs'
  BY <1>19, WriteStatusWrites DEF WriteStatus, infVars, countVars, Returns, Writes, Other
<1>20. ASSUME Apply PROVE Incs'
  BY <1>20, ApplyWrites DEF Apply, UserWrites, infVars, Writes, Other, Objects, Workers
<1>21. ASSUME DeleteUpstream PROVE Incs'
  BY <1>21, DeleteUpstreamWrites DEF DeleteUpstream, UserWrites, infVars, Writes, Other,
     Objects, Workers
<1>22. ASSUME DeleteDownstream PROVE Incs'
  BY <1>22, DeleteDownstreamWrites DEF DeleteDownstream, UserWrites, infVars, Writes, Other,
     Objects, Workers
<1>23. ASSUME NEW s \in Sides, Finalized(s) PROVE Incs'
  BY <1>23, FinalizedWrites DEF Finalized, infVars, countVars, Writes, Other
<1>24. ASSUME RobotReports PROVE Incs'
  BY <1>24, RobotReportsWrites DEF RobotReports, infVars, Writes, Other
<1>25. ASSUME NEW s \in Sides, CacheUpdate(s) PROVE Incs'
  <2>1. View(s, obj[s]).inc \in {0, obj[s].inc} /\ 0 <= user /\ obj[s].inc <= user
    BY ViewTyped
  <2> QED
    BY <1>25, <2>1 DEF CacheUpdate, countVars
<1>26. ASSUME Resync PROVE Incs'
  BY <1>26 DEF Resync, infVars
<1>27. ASSUME Stall PROVE Incs'
  BY <1>27 DEF Stall
<1>28. ASSUME Relist PROVE Incs'
  BY <1>28, WorkerTyped, GoneTyped DEF Relist, ProcessStarts, countVars, WorkerSteps
<1>29. ASSUME Crash PROVE Incs'
  BY <1>29, WorkerTyped, GoneTyped DEF Crash, ProcessStarts, WorkerSteps
<1>30. ASSUME NEW w \in Sides, CallFails(w) PROVE Incs'
  BY <1>30, IdleTyped DEF CallFails, infVars
<1>31. ASSUME UNCHANGED vars PROVE Incs'
  BY <1>31 DEF vars, infVars, countVars
<1> QED
  BY <1>1, <1>2, <1>3, <1>4, <1>5, <1>6, <1>7, <1>8, <1>9, <1>10, <1>11, <1>12, <1>13, <1>14,
     <1>15, <1>16, <1>17, <1>18, <1>19, <1>20, <1>21, <1>22, <1>23, <1>24, <1>25, <1>26,
     <1>27, <1>28, <1>29, <1>30, <1>31
  DEF Next, Syncer, Restart, SyncUpstream, SyncDownstream, Environment, Informers, Faults

LEMMA OneRunsKept ==
    ASSUME IndInv, [Next]_vars
    PROVE  OneRuns'
<1> USE DEF IndInv, SyncTypeOK, OneRuns, Running, Sides
<1>1. ASSUME WorkersStart PROVE OneRuns'
  BY <1>1 DEF WorkersStart
<1>2. ASSUME NEW w \in Sides, Begin(w) PROVE OneRuns'
  BY <1>2 DEF Begin, infVars
<1>3. ASSUME NEW w \in Sides, StopInformers(w) PROVE OneRuns'
  BY <1>3 DEF StopInformers
<1>4. ASSUME NEW w \in Sides, StopPanics(w) PROVE OneRuns'
  BY <1>4 DEF StopPanics, ProcessStarts
<1>5. ASSUME NEW w \in Sides, ForgetChannel(w) PROVE OneRuns'
  BY <1>5 DEF ForgetChannel, ClosedStops
<1>6. ASSUME NEW w \in Sides, RenewInformers(w) PROVE OneRuns'
  BY <1>6 DEF RenewInformers
<1>7. ASSUME NEW w \in Sides, StartInformers(w) PROVE OneRuns'
  BY <1>7 DEF StartInformers, Returns
<1>8. ASSUME NEW w \in Sides, SyncedUp(w) PROVE OneRuns'
  BY <1>8 DEF SyncedUp, infVars
<1>9. ASSUME NEW w \in Sides, SyncedDown(w) PROVE OneRuns'
  BY <1>9 DEF SyncedDown
<1>10. ASSUME NEW w \in Sides, Interrupted(w) PROVE OneRuns'
  BY <1>10 DEF Interrupted, Closed, infVars
<1>11. ASSUME NEW w \in Sides, ResetConflicts(w) PROVE OneRuns'
  BY <1>11 DEF ResetConflicts, infVars
<1>12. ASSUME ReadUpstream PROVE OneRuns'
  BY <1>12 DEF ReadUpstream, infVars
<1>13. ASSUME LookupDownstream PROVE OneRuns'
  BY <1>13 DEF LookupDownstream, infVars
<1>14. ASSUME NEW w \in Sides, WriteDelete(w) PROVE OneRuns'
  BY <1>14 DEF WriteDelete, infVars
<1>15. ASSUME WriteCreate PROVE OneRuns'
  BY <1>15 DEF WriteCreate, infVars
<1>16. ASSUME WriteUpdate PROVE OneRuns'
  BY <1>16 DEF WriteUpdate, infVars
<1>17. ASSUME ReadDownstream PROVE OneRuns'
  BY <1>17 DEF ReadDownstream, infVars
<1>18. ASSUME LookupUpstream PROVE OneRuns'
  BY <1>18 DEF LookupUpstream, infVars
<1>19. ASSUME WriteStatus PROVE OneRuns'
  BY <1>19 DEF WriteStatus, infVars
<1>20. ASSUME Apply PROVE OneRuns'
  BY <1>20 DEF Apply, UserWrites, infVars
<1>21. ASSUME DeleteUpstream PROVE OneRuns'
  BY <1>21 DEF DeleteUpstream, UserWrites, infVars
<1>22. ASSUME DeleteDownstream PROVE OneRuns'
  BY <1>22 DEF DeleteDownstream, UserWrites, infVars
<1>23. ASSUME NEW s \in Sides, Finalized(s) PROVE OneRuns'
  BY <1>23 DEF Finalized, infVars
<1>24. ASSUME RobotReports PROVE OneRuns'
  BY <1>24 DEF RobotReports, infVars
<1>25. ASSUME NEW s \in Sides, CacheUpdate(s) PROVE OneRuns'
  BY <1>25 DEF CacheUpdate
<1>26. ASSUME Resync PROVE OneRuns'
  BY <1>26 DEF Resync, infVars
<1>27. ASSUME Stall PROVE OneRuns'
  BY <1>27 DEF Stall
<1>28. ASSUME Relist PROVE OneRuns'
  BY <1>28 DEF Relist, ProcessStarts
<1>29. ASSUME Crash PROVE OneRuns'
  BY <1>29 DEF Crash, ProcessStarts
<1>30. ASSUME NEW w \in Sides, CallFails(w) PROVE OneRuns'
  BY <1>30 DEF CallFails, infVars
<1>31. ASSUME UNCHANGED vars PROVE OneRuns'
  BY <1>31 DEF vars, infVars
<1> QED
  BY <1>1, <1>2, <1>3, <1>4, <1>5, <1>6, <1>7, <1>8, <1>9, <1>10, <1>11, <1>12, <1>13, <1>14,
     <1>15, <1>16, <1>17, <1>18, <1>19, <1>20, <1>21, <1>22, <1>23, <1>24, <1>25, <1>26,
     <1>27, <1>28, <1>29, <1>30, <1>31
  DEF Next, Syncer, Restart, SyncUpstream, SyncDownstream, Environment, Informers, Faults

LEMMA EndedInHandKept ==
    ASSUME IndInv, [Next]_vars
    PROVE  EndedInHand'
<1> USE DEF IndInv, SyncTypeOK, EndedInHand, Sides
<1>1. ASSUME WorkersStart PROVE EndedInHand'
  BY <1>1 DEF WorkersStart
<1>2. ASSUME NEW w \in Sides, Begin(w) PROVE EndedInHand'
  BY <1>2, GotoTyped DEF Begin, infVars, WorkerSteps, RestartSteps
<1>3. ASSUME NEW w \in Sides, StopInformers(w) PROVE EndedInHand'
  BY <1>3, GotoTyped DEF StopInformers, WorkerSteps, RestartSteps
<1>4. ASSUME NEW w \in Sides, StopPanics(w) PROVE EndedInHand'
  BY <1>4 DEF StopPanics, ProcessStarts
<1>5. ASSUME NEW w \in Sides, ForgetChannel(w) PROVE EndedInHand'
  BY <1>5, GotoTyped DEF ForgetChannel, WorkerSteps, RestartSteps
<1>6. ASSUME NEW w \in Sides, RenewInformers(w) PROVE EndedInHand'
  BY <1>6 DEF RenewInformers
<1>7. ASSUME NEW w \in Sides, StartInformers(w) PROVE EndedInHand'
  BY <1>7, IdleTyped, GotoTyped DEF StartInformers, Returns, WorkerSteps, RestartSteps
<1>8. ASSUME NEW w \in Sides, SyncedUp(w) PROVE EndedInHand'
  BY <1>8, GotoTyped DEF SyncedUp, infVars, WorkerSteps, RestartSteps
<1>9. ASSUME NEW w \in Sides, SyncedDown(w) PROVE EndedInHand'
  BY <1>9, GotoTyped DEF SyncedDown, WorkerSteps, RestartSteps
<1>10. ASSUME NEW w \in Sides, Interrupted(w) PROVE EndedInHand'
  BY <1>10, IdleTyped DEF Interrupted, Closed, infVars
<1>11. ASSUME NEW w \in Sides, ResetConflicts(w) PROVE EndedInHand'
  BY <1>11, GotoTyped DEF ResetConflicts, infVars, WorkerSteps
<1>12. ASSUME ReadUpstream PROVE EndedInHand'
  BY <1>12, ReadUpstreamWrites DEF ReadUpstream, infVars, Writes
<1>13. ASSUME LookupDownstream PROVE EndedInHand'
  BY <1>13 DEF LookupDownstream, infVars
<1>14. ASSUME NEW w \in Sides, WriteDelete(w) PROVE EndedInHand'
  BY <1>14, WriteDeleteWrites DEF WriteDelete, Writing, infVars, Writes
<1>15. ASSUME WriteCreate PROVE EndedInHand'
  BY <1>15, WriteCreateWrites DEF WriteCreate, Writing, Returns, infVars, Writes
<1>16. ASSUME WriteUpdate PROVE EndedInHand'
  BY <1>16, WriteUpdateWrites DEF WriteUpdate, Writing, infVars, Returns, Writes
<1>17. ASSUME ReadDownstream PROVE EndedInHand'
  BY <1>17, ReadDownstreamWrites DEF ReadDownstream, infVars, Writes, Other
<1>18. ASSUME LookupUpstream PROVE EndedInHand'
  BY <1>18, LookupUpstreamMoves DEF LookupUpstream, infVars
<1>19. ASSUME WriteStatus PROVE EndedInHand'
  BY <1>19, WriteStatusWrites DEF WriteStatus, Writing, infVars, Returns, Writes
<1>20. ASSUME Apply PROVE EndedInHand'
  BY <1>20, ApplyWrites DEF Apply, UserWrites, infVars, Writes
<1>21. ASSUME DeleteUpstream PROVE EndedInHand'
  BY <1>21, DeleteUpstreamWrites DEF DeleteUpstream, UserWrites, infVars, Writes
<1>22. ASSUME DeleteDownstream PROVE EndedInHand'
  BY <1>22, DeleteDownstreamWrites DEF DeleteDownstream, UserWrites, infVars, Writes
<1>23. ASSUME NEW s \in Sides, Finalized(s) PROVE EndedInHand'
  BY <1>23, FinalizedWrites DEF Finalized, infVars, Writes
<1>24. ASSUME RobotReports PROVE EndedInHand'
  BY <1>24, RobotReportsWrites DEF RobotReports, infVars, Writes
<1>25. ASSUME NEW s \in Sides, CacheUpdate(s) PROVE EndedInHand'
  BY <1>25 DEF CacheUpdate
<1>26. ASSUME Resync PROVE EndedInHand'
  BY <1>26 DEF Resync, infVars
<1>27. ASSUME Stall PROVE EndedInHand'
  BY <1>27 DEF Stall
<1>28. ASSUME Relist PROVE EndedInHand'
  BY <1>28 DEF Relist, ProcessStarts
<1>29. ASSUME Crash PROVE EndedInHand'
  BY <1>29 DEF Crash, ProcessStarts
<1>30. ASSUME NEW w \in Sides, CallFails(w) PROVE EndedInHand'
  BY <1>30, IdleTyped DEF CallFails, infVars
<1>31. ASSUME UNCHANGED vars PROVE EndedInHand'
  BY <1>31 DEF vars, infVars
<1> QED
  BY <1>1, <1>2, <1>3, <1>4, <1>5, <1>6, <1>7, <1>8, <1>9, <1>10, <1>11, <1>12, <1>13, <1>14,
     <1>15, <1>16, <1>17, <1>18, <1>19, <1>20, <1>21, <1>22, <1>23, <1>24, <1>25, <1>26,
     <1>27, <1>28, <1>29, <1>30, <1>31
  DEF Next, Syncer, Restart, SyncUpstream, SyncDownstream, Environment, Informers, Faults

LEMMA ClosedStopsKept ==
    ASSUME IndInv, [Next]_vars
    PROVE  ClosedStops'
<1> USE DEF IndInv, SyncTypeOK, ClosedStops, OneRuns, Running, Sides
<1>1. ASSUME WorkersStart PROVE ClosedStops'
  BY <1>1, WorkerTyped DEF WorkersStart, WorkerSteps
<1>2. ASSUME NEW w \in Sides, Begin(w) PROVE ClosedStops'
  BY <1>2, GotoTyped DEF Begin, infVars, WorkerSteps, RestartSteps
<1>3. ASSUME NEW w \in Sides, StopInformers(w) PROVE ClosedStops'
  BY <1>3, GotoTyped DEF StopInformers, Closed, WorkerSteps, RestartSteps
<1>4. ASSUME NEW w \in Sides, StopPanics(w) PROVE ClosedStops'
  BY <1>4, WorkerTyped DEF StopPanics, ProcessStarts, WorkerSteps
<1>5. ASSUME NEW w \in Sides, ForgetChannel(w) PROVE ClosedStops'
  BY <1>5, GotoTyped DEF ForgetChannel, WorkerSteps, RestartSteps
<1>6. ASSUME NEW w \in Sides, RenewInformers(w) PROVE ClosedStops'
  BY <1>6, GotoTyped DEF RenewInformers, WorkerSteps, RestartSteps
<1>7. ASSUME NEW w \in Sides, StartInformers(w) PROVE ClosedStops'
  BY <1>7, IdleTyped, GotoTyped DEF StartInformers, Returns, WorkerSteps, RestartSteps
<1>8. ASSUME NEW w \in Sides, SyncedUp(w) PROVE ClosedStops'
  BY <1>8, GotoTyped DEF SyncedUp, infVars, WorkerSteps, RestartSteps
<1>9. ASSUME NEW w \in Sides, SyncedDown(w) PROVE ClosedStops'
  BY <1>9, GotoTyped DEF SyncedDown, WorkerSteps, RestartSteps
<1>10. ASSUME NEW w \in Sides, Interrupted(w) PROVE ClosedStops'
  BY <1>10, IdleTyped DEF Interrupted, Closed, infVars
<1>11. ASSUME NEW w \in Sides, ResetConflicts(w) PROVE ClosedStops'
  BY <1>11, GotoTyped DEF ResetConflicts, infVars, WorkerSteps
<1>12. ASSUME ReadUpstream PROVE ClosedStops'
  BY <1>12, ReadUpstreamWrites DEF ReadUpstream, infVars, Writes
<1>13. ASSUME LookupDownstream PROVE ClosedStops'
  BY <1>13, LookupMoves DEF LookupDownstream, infVars
<1>14. ASSUME NEW w \in Sides, WriteDelete(w) PROVE ClosedStops'
  BY <1>14, WriteDeleteWrites DEF WriteDelete, Writing, infVars, Writes
<1>15. ASSUME WriteCreate PROVE ClosedStops'
  BY <1>15, WriteCreateWrites DEF WriteCreate, Writing, Returns, infVars, Writes
<1>16. ASSUME WriteUpdate PROVE ClosedStops'
  BY <1>16, WriteUpdateWrites DEF WriteUpdate, Writing, infVars, Returns, Writes
<1>17. ASSUME ReadDownstream PROVE ClosedStops'
  BY <1>17, ReadDownstreamWrites DEF ReadDownstream, infVars, Writes, Other
<1>18. ASSUME LookupUpstream PROVE ClosedStops'
  BY <1>18, LookupUpstreamMoves DEF LookupUpstream, infVars
<1>19. ASSUME WriteStatus PROVE ClosedStops'
  BY <1>19, WriteStatusWrites DEF WriteStatus, Writing, infVars, Returns, Writes
<1>20. ASSUME Apply PROVE ClosedStops'
  BY <1>20, ApplyWrites DEF Apply, UserWrites, infVars, Writes
<1>21. ASSUME DeleteUpstream PROVE ClosedStops'
  BY <1>21, DeleteUpstreamWrites DEF DeleteUpstream, UserWrites, infVars, Writes
<1>22. ASSUME DeleteDownstream PROVE ClosedStops'
  BY <1>22, DeleteDownstreamWrites DEF DeleteDownstream, UserWrites, infVars, Writes
<1>23. ASSUME NEW s \in Sides, Finalized(s) PROVE ClosedStops'
  BY <1>23, FinalizedWrites DEF Finalized, infVars, Writes
<1>24. ASSUME RobotReports PROVE ClosedStops'
  BY <1>24, RobotReportsWrites DEF RobotReports, infVars, Writes
<1>25. ASSUME NEW s \in Sides, CacheUpdate(s) PROVE ClosedStops'
  BY <1>25 DEF CacheUpdate
<1>26. ASSUME Resync PROVE ClosedStops'
  BY <1>26 DEF Resync, infVars
<1>27. ASSUME Stall PROVE ClosedStops'
  BY <1>27 DEF Stall
<1>28. ASSUME Relist PROVE ClosedStops'
  BY <1>28, WorkerTyped DEF Relist, ProcessStarts, WorkerSteps
<1>29. ASSUME Crash PROVE ClosedStops'
  BY <1>29, WorkerTyped DEF Crash, ProcessStarts, WorkerSteps
<1>30. ASSUME NEW w \in Sides, CallFails(w) PROVE ClosedStops'
  BY <1>30, IdleTyped DEF CallFails, infVars
<1>31. ASSUME UNCHANGED vars PROVE ClosedStops'
  BY <1>31 DEF vars, infVars
<1> QED
  BY <1>1, <1>2, <1>3, <1>4, <1>5, <1>6, <1>7, <1>8, <1>9, <1>10, <1>11, <1>12, <1>13, <1>14,
     <1>15, <1>16, <1>17, <1>18, <1>19, <1>20, <1>21, <1>22, <1>23, <1>24, <1>25, <1>26,
     <1>27, <1>28, <1>29, <1>30, <1>31
  DEF Next, Syncer, Restart, SyncUpstream, SyncDownstream, Environment, Informers, Faults

LEMMA ListedKept ==
    ASSUME IndInv, [Next]_vars
    PROVE  Listed'
<1> USE DEF IndInv, SyncTypeOK, Listed, OneRuns, ClosedStops, Running, Sides
<1>1. ASSUME WorkersStart PROVE Listed'
  BY <1>1 DEF WorkersStart
<1>2. ASSUME NEW w \in Sides, Begin(w) PROVE Listed'
  BY <1>2, GotoTyped DEF Begin, infVars, WorkerSteps, RestartSteps
<1>3. ASSUME NEW w \in Sides, StopInformers(w) PROVE Listed'
  BY <1>3 DEF StopInformers
<1>4. ASSUME NEW w \in Sides, StopPanics(w) PROVE Listed'
  BY <1>4, WorkerTyped DEF StopPanics, ProcessStarts, WorkerSteps
<1>5. ASSUME NEW w \in Sides, ForgetChannel(w) PROVE Listed'
  BY <1>5, GotoTyped DEF ForgetChannel, WorkerSteps, RestartSteps
<1>6. ASSUME NEW w \in Sides, RenewInformers(w) PROVE Listed'
  BY <1>6 DEF RenewInformers
<1>7. ASSUME NEW w \in Sides, StartInformers(w) PROVE Listed'
  BY <1>7, IdleTyped, GotoTyped DEF StartInformers, Returns, WorkerSteps, RestartSteps
<1>8. ASSUME NEW w \in Sides, SyncedUp(w) PROVE Listed'
  BY <1>8, GotoTyped DEF SyncedUp, infVars, WorkerSteps, RestartSteps
<1>9. ASSUME NEW w \in Sides, SyncedDown(w) PROVE Listed'
  BY <1>9, GotoTyped DEF SyncedDown, WorkerSteps, RestartSteps
<1>10. ASSUME NEW w \in Sides, Interrupted(w) PROVE Listed'
  BY <1>10, IdleTyped DEF Interrupted, Closed, infVars
<1>11. ASSUME NEW w \in Sides, ResetConflicts(w) PROVE Listed'
  BY <1>11, GotoTyped DEF ResetConflicts, infVars, WorkerSteps
<1>12. ASSUME ReadUpstream PROVE Listed'
  BY <1>12, ReadUpstreamWrites DEF ReadUpstream, infVars, Writes
<1>13. ASSUME LookupDownstream PROVE Listed'
  BY <1>13 DEF LookupDownstream, infVars
<1>14. ASSUME NEW w \in Sides, WriteDelete(w) PROVE Listed'
  BY <1>14, WriteDeleteWrites DEF WriteDelete, Writing, infVars, Writes
<1>15. ASSUME WriteCreate PROVE Listed'
  BY <1>15, WriteCreateWrites DEF WriteCreate, Writing, Returns, infVars, Writes
<1>16. ASSUME WriteUpdate PROVE Listed'
  BY <1>16, WriteUpdateWrites DEF WriteUpdate, Writing, infVars, Returns, Writes
<1>17. ASSUME ReadDownstream PROVE Listed'
  BY <1>17, ReadDownstreamWrites DEF ReadDownstream, infVars, Writes, Other
<1>18. ASSUME LookupUpstream PROVE Listed'
  BY <1>18, LookupUpstreamMoves DEF LookupUpstream, infVars
<1>19. ASSUME WriteStatus PROVE Listed'
  BY <1>19, WriteStatusWrites DEF WriteStatus, Writing, infVars, Returns, Writes
<1>20. ASSUME Apply PROVE Listed'
  BY <1>20, ApplyWrites DEF Apply, UserWrites, infVars, Writes
<1>21. ASSUME DeleteUpstream PROVE Listed'
  BY <1>21, DeleteUpstreamWrites DEF DeleteUpstream, UserWrites, infVars, Writes
<1>22. ASSUME DeleteDownstream PROVE Listed'
  BY <1>22, DeleteDownstreamWrites DEF DeleteDownstream, UserWrites, infVars, Writes
<1>23. ASSUME NEW s \in Sides, Finalized(s) PROVE Listed'
  BY <1>23, FinalizedWrites DEF Finalized, infVars, Writes
<1>24. ASSUME RobotReports PROVE Listed'
  BY <1>24, RobotReportsWrites DEF RobotReports, infVars, Writes
<1>25. ASSUME NEW s \in Sides, CacheUpdate(s) PROVE Listed'
  BY <1>25 DEF CacheUpdate
<1>26. ASSUME Resync PROVE Listed'
  BY <1>26 DEF Resync, infVars
<1>27. ASSUME Stall PROVE Listed'
  BY <1>27 DEF Stall
<1>28. ASSUME Relist PROVE Listed'
  BY <1>28, WorkerTyped DEF Relist, ProcessStarts, WorkerSteps
<1>29. ASSUME Crash PROVE Listed'
  BY <1>29, WorkerTyped DEF Crash, ProcessStarts, WorkerSteps
<1>30. ASSUME NEW w \in Sides, CallFails(w) PROVE Listed'
  BY <1>30, IdleTyped DEF CallFails, infVars
<1>31. ASSUME UNCHANGED vars PROVE Listed'
  BY <1>31 DEF vars, infVars
<1> QED
  BY <1>1, <1>2, <1>3, <1>4, <1>5, <1>6, <1>7, <1>8, <1>9, <1>10, <1>11, <1>12, <1>13, <1>14,
     <1>15, <1>16, <1>17, <1>18, <1>19, <1>20, <1>21, <1>22, <1>23, <1>24, <1>25, <1>26,
     <1>27, <1>28, <1>29, <1>30, <1>31
  DEF Next, Syncer, Restart, SyncUpstream, SyncDownstream, Environment, Informers, Faults

\* Most steps write nothing that is newer than what they have.
LEMMA NothingNewer ==
    ASSUME SyncTypeOK, SyncTypeOK', Newer,
           synced'["up"] => synced["up"], obj'["up"].st = "alive" => obj["up"].st = "alive",
           obj'["up"].st = "alive" => obj'["up"].inc = obj["up"].inc,
           cache'["up"] = cache["up"],
           obj'["down"].inc \in {0, obj["down"].inc, wrk["up"].src.inc},
           wrk'["up"].src.inc \in {0, wrk["up"].src.inc, cache["up"].inc}
    PROVE  Newer'
<1>1. /\ obj["up"].inc \in Nat /\ obj["down"].inc \in Nat /\ cache["up"].inc \in Nat
      /\ wrk["up"].src.inc \in Nat
  BY DEF SyncTypeOK, Objects, Workers, Sides
<1> QED
  BY <1>1 DEF Newer

LEMMA NewerKept ==
    ASSUME IndInv, [Next]_vars
    PROVE  Newer'
<1> USE DEF IndInv, SyncTypeOK, Incs, Newer, Sides
<1>1. ASSUME WorkersStart PROVE Newer'
  BY <1>1, NothingNewer, TypesKept, WorkerTyped DEF WorkersStart, WorkerSteps
<1>2. ASSUME NEW w \in Sides, Begin(w) PROVE Newer'
  BY <1>2, GotoTyped DEF Begin, infVars, WorkerSteps, RestartSteps
<1>3. ASSUME NEW w \in Sides, StopInformers(w) PROVE Newer'
  BY <1>3, GotoTyped DEF StopInformers, WorkerSteps, RestartSteps
<1>4. ASSUME NEW w \in Sides, StopPanics(w) PROVE Newer'
  BY <1>4 DEF StopPanics, ProcessStarts
<1>5. ASSUME NEW w \in Sides, ForgetChannel(w) PROVE Newer'
  BY <1>5, GotoTyped DEF ForgetChannel, WorkerSteps, RestartSteps
<1>6. ASSUME NEW w \in Sides, RenewInformers(w) PROVE Newer'
  BY <1>6 DEF RenewInformers
<1>7. ASSUME NEW w \in Sides, StartInformers(w) PROVE Newer'
  BY <1>7, NothingNewer, TypesKept, IdleTyped, GotoTyped DEF StartInformers, Returns,
     WorkerSteps, RestartSteps
<1>8. ASSUME NEW w \in Sides, SyncedUp(w) PROVE Newer'
  BY <1>8, GotoTyped DEF SyncedUp, infVars, WorkerSteps, RestartSteps
<1>9. ASSUME NEW w \in Sides, SyncedDown(w) PROVE Newer'
  BY <1>9, GotoTyped DEF SyncedDown, WorkerSteps, RestartSteps
<1>10. ASSUME NEW w \in Sides, Interrupted(w) PROVE Newer'
  BY <1>10, NothingNewer, TypesKept, IdleTyped DEF Interrupted, Closed, infVars
<1>11. ASSUME NEW w \in Sides, ResetConflicts(w) PROVE Newer'
  BY <1>11, GotoTyped DEF ResetConflicts, infVars, WorkerSteps
<1>12. ASSUME ReadUpstream PROVE Newer'
  BY <1>12, ReadUpstreamWrites DEF ReadUpstream, infVars, Writes, Other
<1>13. ASSUME LookupDownstream PROVE Newer'
  BY <1>13, NothingNewer, TypesKept, LookupMoves DEF LookupDownstream, infVars, Writes, Other,
     WorkerSteps, RestartSteps
<1>14. ASSUME NEW w \in Sides, WriteDelete(w) PROVE Newer'
  BY <1>14, NothingNewer, TypesKept, WriteDeleteWrites DEF WriteDelete, infVars, Writes, Other
<1>15. ASSUME WriteCreate PROVE Newer'
  BY <1>15, NothingNewer, TypesKept, WriteCreateWrites DEF WriteCreate, Returns, infVars,
     Writes, Other
<1>16. ASSUME WriteUpdate PROVE Newer'
  BY <1>16, NothingNewer, TypesKept, WriteUpdateWrites DEF WriteUpdate, infVars, Returns,
     Writes, Other, WorkerSteps, RestartSteps
<1>17. ASSUME ReadDownstream PROVE Newer'
  BY <1>17, ReadDownstreamWrites DEF ReadDownstream, infVars, Writes, Other, WorkerSteps,
     RestartSteps
<1>18. ASSUME LookupUpstream PROVE Newer'
  BY <1>18, LookupUpstreamMoves DEF LookupUpstream, infVars
<1>19. ASSUME WriteStatus PROVE Newer'
  BY <1>19, WriteStatusWrites DEF WriteStatus, infVars, Returns, Writes, Other, WorkerSteps,
     RestartSteps
<1>20. ASSUME Apply PROVE Newer'
  <2>1. CASE obj["up"].st = "alive" /\ obj'["up"].inc = obj["up"].inc
    BY <1>20, <2>1, ApplyWrites DEF Apply, UserWrites, infVars, Writes, Other
  <2>2. CASE obj'["up"].inc = user + 1
    <3>1. /\ obj'["down"].inc = obj["down"].inc /\ cache' = cache
          /\ wrk'["up"].src.inc = wrk["up"].src.inc
      BY <1>20, ApplyWrites DEF Apply, UserWrites, infVars, Writes, Other
    <3>2. obj["down"].inc \in Nat /\ cache["up"].inc \in Nat /\ wrk["up"].src.inc \in Nat /\ user \in Nat
      BY DEF Objects, Workers
    <3> QED
      BY <2>2, <3>1, <3>2
  <2> QED
    BY <1>20, <2>1, <2>2, ApplyWrites
<1>21. ASSUME DeleteUpstream PROVE Newer'
  BY <1>21, DeleteUpstreamWrites
<1>22. ASSUME DeleteDownstream PROVE Newer'
  BY <1>22, DeleteDownstreamWrites DEF DeleteDownstream, UserWrites, infVars, Writes, Other,
     WorkerSteps, RestartSteps
<1>23. ASSUME NEW s \in Sides, Finalized(s) PROVE Newer'
  <2>1. UNCHANGED <<cache, synced>> /\ wrk'["up"].src.inc = wrk["up"].src.inc
    BY <1>23, FinalizedWrites DEF Finalized, infVars, Writes
  <2>2. CASE s = "up"
    BY <1>23, <2>2, FinalizedWrites
  <2>3. CASE s = "down"
    BY <1>23, <2>1, FinalizedWrites, NothingNewer, TypesKept DEF Writes, Other
  <2> QED
    BY <2>2, <2>3
<1>24. ASSUME RobotReports PROVE Newer'
  BY <1>24, RobotReportsWrites DEF RobotReports, infVars, Writes, Other, WorkerSteps,
     RestartSteps
<1>25. ASSUME NEW s \in Sides, CacheUpdate(s) PROVE Newer'
  <2>1. UNCHANGED <<obj, wrk>> /\ \A v \in Sides \ {s} : UNCHANGED <<cache[v], synced[v]>>
    BY <1>25 DEF CacheUpdate
  <2>2. cache'[s].st = obj[s].st
    BY <1>25, ViewTyped DEF CacheUpdate
  <2>3. CASE s = "up"
    BY <2>1, <2>2
  <2>4. CASE s # "up"
    BY <2>1, <2>4
  <2> QED
    BY <2>3, <2>4
<1>26. ASSUME Resync PROVE Newer'
  BY <1>26 DEF Resync, infVars, Writes, Other, WorkerSteps, RestartSteps
<1>27. ASSUME Stall PROVE Newer'
  BY <1>27 DEF Stall
<1>28. ASSUME Relist PROVE Newer'
  <2>1. CASE ProcessStarts
    BY <2>1 DEF ProcessStarts
  <2>2. CASE ~ProcessStarts
    BY <1>28, <2>2 DEF Relist
  <2> QED
    BY <2>1, <2>2
<1>29. ASSUME Crash PROVE Newer'
  BY <1>29 DEF Crash, ProcessStarts
<1>30. ASSUME NEW w \in Sides, CallFails(w) PROVE Newer'
  BY <1>30, NothingNewer, TypesKept, IdleTyped DEF CallFails, infVars, Writes, Other,
     WorkerSteps, RestartSteps
<1>31. ASSUME UNCHANGED vars PROVE Newer'
  BY <1>31 DEF vars, infVars
<1> QED
  BY <1>1, <1>2, <1>3, <1>4, <1>5, <1>6, <1>7, <1>8, <1>9, <1>10, <1>11, <1>12, <1>13, <1>14,
     <1>15, <1>16, <1>17, <1>18, <1>19, <1>20, <1>21, <1>22, <1>23, <1>24, <1>25, <1>26,
     <1>27, <1>28, <1>29, <1>30, <1>31
  DEF Next, Syncer, Restart, SyncUpstream, SyncDownstream, Environment, Informers, Faults

-----------------------------------------------------------------------------
(* The theorems.                                                           *)

LEMMA InitHolds == ASSUME Init PROVE IndInv
<1>1. PICK c \in Configs :
          /\ remote = c[1] /\ sub = c[2] /\ user = c[4]
          /\ obj = [s \in Sides |-> [Gone EXCEPT !.st = "alive", !.inc = 1, !.fin = (s \in c[3])]]
  BY DEF Init
<1>2. remote \in Sides /\ sub \in BOOLEAN /\ user \in 1..MaxUser
  BY <1>1, SyncerConstants DEF Sides
<1>3. obj \in [Sides -> Objects] /\ \A s \in Sides : obj[s].inc = 1
  <2>1. 1 \in 0..MaxUser /\ 0 \in 0..MaxUser /\ 0 \in 0..MaxRobot /\ 0 \in 0..1
    BY SyncerConstants
  <2>2. ASSUME NEW b \in BOOLEAN
        PROVE  /\ [Gone EXCEPT !.st = "alive", !.inc = 1, !.fin = b] \in Objects
               /\ [Gone EXCEPT !.st = "alive", !.inc = 1, !.fin = b].inc = 1
    BY <2>1 DEF Gone, Objects
  <2>3. ASSUME NEW s \in Sides PROVE obj[s] \in Objects /\ obj[s].inc = 1
    <3> DEFINE b == s \in c[3]
    <3>1. b \in BOOLEAN
      OBVIOUS
    <3>2. obj[s] = [Gone EXCEPT !.st = "alive", !.inc = 1, !.fin = b]
      BY <1>1, <2>3, Zenon
    <3> HIDE DEF b
    <3> QED
      BY <2>2, <3>1, <3>2
  <2>4. obj = [s \in Sides |-> obj[s]]
    BY <1>1
  <2> QED
    BY <2>3, <2>4
<1>4. wrk \in [Sides -> Workers] /\ \A w \in Sides : wrk[w].pc = "off" /\ wrk[w].src.inc = 0
  BY WorkerTyped DEF Init, WorkerSteps
<1>5. cache \in [Sides -> Objects] /\ \A s \in Sides : cache[s].inc = 0
  BY GoneTyped DEF Init
<1>6. SyncTypeOK
  <2>1. conflictErrors \in 0..ConflictErrorLimit /\ robot \in 0..MaxRobot /\ faults \in 0..MaxFaults
    <3>1. conflictErrors = 0 /\ robot = 0 /\ faults = 0
      BY DEF Init
    <3> QED
      BY <3>1, SyncerConstants
  <2>2. user \in 0..MaxUser
    BY <1>2
  <2> QED
    BY <1>2, <1>3, <1>4, <1>5, <2>1, <2>2 DEF Init, SyncTypeOK
<1>7. BelowLimit /\ OneRuns /\ EndedInHand /\ ClosedStops
  BY <1>4 DEF Init, BelowLimit, OneRuns, EndedInHand, ClosedStops
<1>8. Incs
  BY <1>2, <1>3, <1>4, <1>5 DEF Incs, Sides
<1>9. Listed /\ Newer
  BY <1>4 DEF Init, Listed, Newer, Sides
<1> QED
  BY <1>6, <1>7, <1>8, <1>9 DEF IndInv

LEMMA StepHolds == ASSUME IndInv, [Next]_vars PROVE IndInv'
BY TypesKept, BelowLimitKept, IncsKept, OneRunsKept, EndedInHandKept, ClosedStopsKept, ListedKept, NewerKept DEF
   IndInv

\* While the workers run and nobody restarts the informers, the cache has listed the
\* upstream cluster; what it does not show is new, and downstream has nothing of it.
LEMMA OrphansFollow == ASSUME IndInv PROVE OrphansOnly
<1> SUFFICES ASSUME \A w \in Sides : wrk[w].pc # "off" /\ ~Restarting(w), inf # "new",
                    cache["up"].st # "alive"
             PROVE  ~Alive(obj["down"])
  BY DEF OrphansOnly
<1>1. inf # "ended"
  BY DEF IndInv, EndedInHand, Restarting, RestartSteps
<1>2. synced["up"]
  BY <1>1 DEF IndInv, SyncTypeOK, Listed, Restarting, RestartSteps
<1>3. obj["up"].inc \in Nat /\ obj["down"].inc \in Nat
  BY DEF IndInv, SyncTypeOK, Objects, Sides
<1> QED
  BY <1>2, <1>3 DEF IndInv, Newer, Alive

LEMMA Invariant == Spec => []IndInv
<1>1. Init => IndInv
  BY InitHolds
<1>2. IndInv /\ [Next]_vars => IndInv'
  BY StepHolds
<1> QED
  BY <1>1, <1>2, PTL DEF Spec

\* Everything has its type, and the conflicts that processNextWorkItem compares with
\* conflict-error-limit never pass it: of the two workers only one writes to the remote
\* cluster, and it looks at the count before every item.
THEOREM ConflictsStayInLimit == Spec => []SyncTypeOK
<1>1. IndInv => SyncTypeOK
  BY DEF IndInv
<1> QED
  BY <1>1, Invariant, PTL

\* syncUpstream and syncDownstream take no living resource for deleted: outside of
\* restarts of the informers, an upstream cache without the resource means that the
\* downstream one is an orphan, however the two workers' restarts overlapped before.
THEOREM DeletesOrphansOnly == Spec => []OrphansOnly
<1>1. IndInv => OrphansOnly
  BY OrphansFollow
<1> QED
  BY <1>1, Invariant, PTL
=============================================================================
