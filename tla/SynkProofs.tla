----------------------------- MODULE SynkProofs -----------------------------
(***************************************************************************)
(* Proofs about synk, for any resources, charts and number of callers,     *)
(* Applies, Deletes and faults.                                            *)
(*                                                                         *)
(* Kept is not inductive: that a living ResourceSet owns a resource has to *)
(* follow for the resources of an Apply that has not written its status    *)
(* yet, and the owner must be at least as new as the ResourceSet that      *)
(* lists the resource, or a later Apply could prune it (Safe).  An Apply   *)
(* whose own ResourceSet has been pruned still runs; what makes its writes *)
(* harmless is that the one who pruned it, or a newer one, lives and has   *)
(* settled (PrunedBySettled), and that no Apply takes a resource from a    *)
(* newer owner, even if what it has read is out of date (Reads).           *)
(***************************************************************************)
EXTENDS Synk, FiniteSetTheorems, WellFoundedInduction, TLAPS

Results == {"none", "ok", "transient", "permanent", "timeout"}
ApType == [pc : Steps, chart : SUBSET Resources, gen : 0..MaxCalls, uid : 0..MaxCalls,
           ver : 0..MaxCalls, todo : SUBSET Resources, results : [Resources \union {0} -> Results],
           prev : Nat, last : 0..MaxCalls, seen : ResType, versioned : SUBSET Resources,
           old : SUBSET Nat]

Types ==
    /\ kind \in Kinds
    /\ sets \in [UIDs -> SetType]
    /\ res \in [Resources -> ResType]
    /\ doomed \subseteq Resources
    /\ ap \in [Callers -> ApType]
    /\ calls \in 0..MaxCalls /\ deletes \in 0..MaxDeletes /\ faults \in 0..MaxFaults

\* The steps of Apply before and after it has created its ResourceSet.
Early == {"next", "create"}
Late == Steps \ ({"idle"} \union Early)

\* applyAll works on resources of the chart, and has one at hand at each of its steps.
Chosen ==
    \A c \in Callers :
        /\ ap[c].todo \subseteq ap[c].chart /\ ap[c].versioned \subseteq ap[c].chart
        /\ ap[c].pc \in ItemSteps => ap[c].todo # {}
        /\ \A r \in Resources : ap[c].results[r] # "none" => r \in ap[c].chart
        /\ ap[c].pc \in Early => \A r \in Resources : ap[c].results[r] = "none"

OneVersion == \A u, w \in UIDs : Exists(u) /\ Exists(w) /\ sets[u].ver = sets[w].ver => u = w

Created == {u \in UIDs : sets[u].st # "none"}

\* Every call of Apply has its own number, which becomes the UID of its ResourceSet.
Numbered ==
    /\ Created \subseteq 1..calls
    /\ \A c \in Callers :
          /\ ap[c].pc # "idle" => ap[c].gen \in 1..calls
          /\ ap[c].pc \in Early => ap[c].gen \notin Created
          /\ ap[c].pc \in Late => /\ ap[c].uid = ap[c].gen /\ ap[c].uid \in Created
                                  /\ sets[ap[c].uid].ver = ap[c].ver
                                  /\ sets[ap[c].uid].chart = ap[c].chart
    /\ \A c, d \in Callers : ap[c].pc # "idle" /\ ap[d].pc # "idle" /\ ap[c].gen = ap[d].gen => c = d

\* There are at least as many ResourceSets, gone ones included, as there are versions.
Versions ==
    /\ \A u \in Created : sets[u].ver <= Cardinality(Created)
    /\ \A c \in Callers : ap[c].pc = "create" => ap[c].ver <= Cardinality(Created) + 1

\* Every resource of the ResourceSet's chart has been applied.
Settled(u) == sets[u].phase = "Settled" /\ sets[u].applied = sets[u].chart

\* The status is written once, and only an Apply that has settled prunes.
StatusOnce ==
    \A c \in Callers : ap[c].pc \in Late =>
        IF ap[c].pc \in {"list", "prune"} THEN Settled(ap[c].uid)
        ELSE sets[ap[c].uid].phase = "Pending"

\* Owners are ResourceSets that have been created, and the one of the last-applied
\* annotation is among them as long as it lives.
Owned ==
    /\ \A r \in Resources :
          /\ res[r].owners \subseteq Created
          /\ res[r].last # 0 => /\ res[r].last \in Created
                                /\ sets[res[r].last].st = "alive" => res[r].last \in res[r].owners
    /\ \A c \in Callers : /\ ap[c].seen.owners \subseteq Created
                          /\ ap[c].last # 0 => ap[c].last \in Created

\* What applyOne has read was not owned by a newer ResourceSet.
Reads ==
    \A c \in Callers :
        /\ ap[c].pc = "patch" /\ ap[c].last # 0 /\ sets[ap[c].last].st = "alive"
              => sets[ap[c].last].ver <= ap[c].ver
        /\ ap[c].pc = "update"
              => ap[c].seen.st # "absent" /\ \A u \in ap[c].seen.owners : sets[u].ver <= ap[c].ver

\* deleteResourceSets deletes versions that are older than its own.
Outdated ==
    \A c \in Callers : ap[c].pc = "prune" => /\ ap[c].old # {} /\ ap[c].old \subseteq Nat
                                            /\ \A v \in ap[c].old : v < ap[c].ver

\* As long as nobody deletes, a ResourceSet that was pruned has a settled successor.
PrunedBySettled ==
    deletes = 0 => \A u \in UIDs :
        /\ sets[u].st \notin {"deleting", "gone"}
        /\ sets[u].st = "pruned"
              => \E z \in UIDs : sets[z].st = "alive" /\ Settled(z) /\ sets[z].ver > sets[u].ver

\* The resources that the Apply of the ResourceSet has written, as far as its status or
\* its running Apply knows.
Wrote(u) == {r \in Resources : \/ r \in sets[u].applied
                               \/ \E c \in Callers : /\ ap[c].pc \in Late /\ ap[c].uid = u
                                                     /\ ap[c].results[r] = "ok"}

\* The settled ResourceSets that are newer want the resource too.
StillWanted(u, r) ==
    \A z \in UIDs : sets[z].st = "alive" /\ Settled(z) /\ sets[z].ver > sets[u].ver => r \in sets[z].chart

Safe ==
    \A u \in UIDs : sets[u].st = "alive" =>
        \A r \in Wrote(u) \ doomed :
            kind[r] \in {"patch", "large"} /\ StillWanted(u, r)
            => /\ res[r].st = "alive"
               /\ \E w \in res[r].owners : sets[w].st = "alive" /\ sets[w].ver >= sets[u].ver

IndInv ==
    /\ Types /\ Chosen /\ OneVersion /\ Numbered /\ Versions /\ StatusOnce /\ Owned /\ Reads
    /\ Outdated /\ PrunedBySettled /\ Safe

-----------------------------------------------------------------------------
(* Least and Most of sets of numbers.                                      *)

LEMMA LeastIs ==
    ASSUME NEW S, S \subseteq Nat, S # {}
    PROVE  Least(S) \in S /\ \A y \in S : Least(S) <= y
<1>1. PICK x \in S : \A y \in S : ~ (<<y, x>> \in OpToRel(<, Nat))
  BY NatLessThanWellFounded, WFMin
<1>2. ASSUME NEW y \in S PROVE x <= y
  <2>1. <<y, x>> \in Nat \X Nat /\ ~(<<y, x>> \in OpToRel(<, Nat))
    BY <1>1
  <2>2. ~(y < x)
    BY <2>1 DEF OpToRel
  <2> QED
    BY <2>2
<1> QED
  BY <1>2 DEF Least

LEMMA MostIs ==
    ASSUME NEW S, S \subseteq Nat, S # {}, NEW b \in Nat, \A y \in S : y <= b
    PROVE  Most(S) \in S /\ \A y \in S : y <= Most(S)
<1> DEFINE B == {n \in Nat : \A y \in S : y <= n}
           m == Least(B)
<1>1. m \in B /\ \A n \in B : m <= n
  <2>1. B \subseteq Nat /\ B # {}
    OBVIOUS
  <2> HIDE DEF B
  <2> QED
    BY <2>1, LeastIs
<1> HIDE DEF m
<1>2. m \in S
  <2>1. SUFFICES ASSUME m \notin S PROVE FALSE
    OBVIOUS
  <2>2. m \in Nat /\ \A y \in S : y <= m - 1
    BY <1>1, <2>1
  <2>3. PICK y \in S : TRUE
    OBVIOUS
  <2>4. m - 1 \in Nat
    BY <2>2, <2>3
  <2>5. m - 1 \in B
    BY <2>2, <2>4
  <2> QED
    BY <1>1, <2>2, <2>5
<1>3. \A y \in S : y <= m
  BY <1>1
<1> QED
  BY <1>2, <1>3 DEF Most

-----------------------------------------------------------------------------
(* The records.                                                            *)

LEMMA AbsentTyped == Absent \in ResType /\ Absent.owners = {}
BY SynkConstants DEF Absent, ResType

LEMMA NoSetTyped == NoSet \in SetType /\ NoSet.st = "none" /\ NoSet.applied = {}
BY SynkConstants DEF NoSet, SetType

\* Versions and numbers of calls are numbers.
LEMMA Numbers ==
    ASSUME Types
    PROVE  /\ \A u \in UIDs : sets[u].ver \in Nat
           /\ \A c \in Callers : ap[c].ver \in Nat
           /\ calls \in Nat /\ deletes \in Nat /\ faults \in Nat
<1>1. MaxCalls \in Nat /\ MaxDeletes \in Nat /\ MaxFaults \in Nat
  BY SynkConstants
<1>2. \A u \in UIDs : sets[u].ver \in 0..MaxCalls
  BY DEF Types, SetType
<1>3. \A c \in Callers : ap[c].ver \in 0..MaxCalls
  BY DEF Types, ApType
<1>4. calls \in 0..MaxCalls /\ deletes \in 0..MaxDeletes /\ faults \in 0..MaxFaults
  BY DEF Types
<1> QED
  BY <1>1, <1>2, <1>3, <1>4

LEMMA IdleTyped ==
    /\ Idle \in ApType
    /\ Idle.pc = "idle" /\ Idle.todo = {} /\ Idle.chart = {} /\ Idle.versioned = {}
    /\ Idle.last = 0 /\ Idle.seen = Absent
    /\ \A r \in Resources \union {0} : Idle.results[r] = "none"
<1>1. NoResults \in [Resources \union {0} -> Results]
  BY DEF NoResults, Results
<1>2. 0 \in 0..MaxCalls
  BY SynkConstants
<1>3. Idle \in ApType
  BY <1>1, <1>2, AbsentTyped DEF Idle, ApType, Steps
<1> QED
  BY <1>3 DEF Idle, NoResults

LEMMA FailedCount ==
    ASSUME NEW a \in ApType
    PROVE  Cardinality(Failed(a)) \in Nat /\ (Failed(a) = {} => Cardinality(Failed(a)) = 0)
<1>1. Failed(a) \subseteq Resources /\ IsFiniteSet(Resources)
  BY SynkConstants DEF Failed
<1>2. IsFiniteSet(Failed(a))
  BY <1>1, FS_Subset
<1> QED
  BY <1>2, FS_CardinalityType, FS_EmptySet

\* The fields of an Apply that do not change after its beginning.
SameApply(a, b) == a.chart = b.chart /\ a.gen = b.gen /\ a.uid = b.uid /\ a.ver = b.ver

LEMMA RoundTyped ==
    ASSUME NEW a \in ApType
    PROVE  /\ Round(a) \in ApType
           /\ SameApply(Round(a), a)
           /\ Round(a).results = a.results /\ Round(a).last = a.last /\ Round(a).seen = a.seen
           /\ Round(a).versioned = a.versioned
           /\ Round(a).pc \in {"get", "status"}
           /\ Round(a).pc = "get" => Round(a).todo # {}
           /\ Round(a).todo \in {a.todo, Failed(a)}
<1> DEFINE n == Cardinality(Failed(a))
<1>1. n \in Nat /\ (Failed(a) = {} => n = 0)
  BY FailedCount
<1>2. Failed(a) \subseteq Resources
  BY DEF Failed
<1>3. CASE a.todo # {}
  <2>1. Round(a) = [a EXCEPT !.pc = "get"]
    BY <1>3 DEF Round
  <2> QED
    BY <1>3, <2>1 DEF ApType, Steps, ItemSteps, SameApply
<1>4. CASE a.todo = {} /\ n \in {0, a.prev}
  <2>1. Round(a) = [a EXCEPT !.pc = "status"]
    BY <1>4 DEF Round
  <2> QED
    BY <1>4, <2>1 DEF ApType, Steps, SameApply
<1>5. CASE a.todo = {} /\ n \notin {0, a.prev}
  <2>1. Round(a) = [a EXCEPT !.pc = "get", !.todo = Failed(a), !.prev = n]
    BY <1>5 DEF Round
  <2>2. Failed(a) # {}
    BY <1>1, <1>5
  <2> HIDE DEF n
  <2> QED
    BY <1>1, <1>2, <2>1, <2>2 DEF ApType, Steps, ItemSteps, SameApply
<1> QED
  BY <1>3, <1>4, <1>5

\* Nobody but c moves.
Alone(c) == \A d \in Callers \ {c} : ap'[d] = ap[d]

LEMMA CurrentIs ==
    ASSUME Types, Chosen, NEW c \in Callers, ap[c].pc \in ItemSteps
    PROVE  Current(c) \in ap[c].todo /\ Current(c) \in ap[c].chart /\ Current(c) \in Resources
<1>1. ap[c].todo # {} /\ ap[c].todo \subseteq ap[c].chart /\ ap[c].chart \subseteq Resources
  BY DEF Types, Chosen, ApType
<1>2. ap[c].todo \subseteq Nat
  BY <1>1, SynkConstants
<1> QED
  BY <1>1, <1>2, LeastIs DEF Current

\* applyOne is done with the current resource, one way or the other.
LEMMA ResultMoves ==
    ASSUME Types, Chosen, NEW c \in Callers, ap[c].pc \in ItemSteps,
           NEW result \in {"ok", "transient", "permanent"}, Result(c, result)
    PROVE  /\ ap' \in [Callers -> ApType] /\ Alone(c) /\ SameApply(ap'[c], ap[c])
           /\ ap'[c].pc \in {"get", "status"} /\ (ap'[c].pc = "get" => ap'[c].todo # {})
           /\ ap'[c].todo \subseteq ap[c].chart /\ ap'[c].versioned = ap[c].versioned
           /\ ap'[c].last = ap[c].last /\ ap'[c].seen = Absent
           /\ ap'[c].results = [ap[c].results EXCEPT ![Current(c)] = result]
<1> DEFINE a == [ap[c] EXCEPT !.todo = ap[c].todo \ {Current(c)}, !.seen = Absent, !.results[Current(c)] = result]
<1>1. ap' = [ap EXCEPT ![c] = Round(a)]
  BY DEF Result
<1>2. Current(c) \in ap[c].todo /\ Current(c) \in ap[c].chart /\ Current(c) \in Resources
  BY CurrentIs
<1>3. ap[c] \in ApType
  BY DEF Types
<1>4. /\ a.results = [ap[c].results EXCEPT ![Current(c)] = result]
      /\ a.todo = ap[c].todo \ {Current(c)} /\ a.seen = Absent /\ SameApply(a, ap[c])
      /\ a.versioned = ap[c].versioned /\ a.last = ap[c].last
  BY <1>3 DEF ApType, SameApply
<1>5. a.results \in [Resources \union {0} -> Results]
  BY <1>2, <1>3, <1>4 DEF ApType, Results
<1>6. a \in ApType
  BY <1>3, <1>4, <1>5, AbsentTyped DEF ApType, SameApply
<1>7. Failed(a) \subseteq ap[c].chart
  BY <1>2, <1>3, <1>4, <1>5 DEF Failed, Chosen, Errors, ApType
<1>8. ap[c].todo \subseteq ap[c].chart
  BY DEF Chosen
<1> HIDE DEF a
<1>9. ap'[c] = Round(a)
  BY <1>1 DEF Types
<1>10. ap' \in [Callers -> ApType] /\ Alone(c)
  BY <1>1, <1>6, RoundTyped DEF Types, Alone
<1>11. ap'[c].todo \subseteq ap[c].chart
  BY <1>4, <1>6, <1>7, <1>8, <1>9, RoundTyped
<1> QED
  BY <1>4, <1>6, <1>9, <1>10, <1>11, RoundTyped DEF SameApply

LEMMA ResultsTyped == Errors \subseteq {"transient", "permanent"} /\ Errors \subseteq Results
BY DEF Errors, Results

LEMMA GotoMoves ==
    ASSUME Types, NEW c \in Callers, NEW s \in Steps, Goto(c, s)
    PROVE  /\ ap' \in [Callers -> ApType] /\ Alone(c) /\ SameApply(ap'[c], ap[c])
           /\ ap'[c].pc = s /\ ap'[c].todo = ap[c].todo /\ ap'[c].versioned = ap[c].versioned
           /\ ap'[c].last = ap[c].last /\ ap'[c].seen = ap[c].seen
           /\ ap'[c].results = ap[c].results
<1>1. ap[c] \in ApType
  BY DEF Types
<1>2. ap'[c] = [ap[c] EXCEPT !.pc = s]
  BY DEF Goto, Types
<1>3. ap'[c] \in ApType
  BY <1>1, <1>2 DEF ApType
<1>4. ap' \in [Callers -> ApType] /\ Alone(c)
  BY <1>3 DEF Goto, Types, Alone
<1> QED
  BY <1>1, <1>2, <1>4 DEF ApType, SameApply

-----------------------------------------------------------------------------
(* The steps of applyAll.                                                  *)

\* What they have in common: from the CRDs to the status, the Apply goes on with its
\* chart and its ResourceSet, and no ResourceSet changes.
ItemStep(c) ==
    /\ UNCHANGED <<kind, sets, calls, deletes>>
    /\ ap' \in [Callers -> ApType] /\ Alone(c) /\ SameApply(ap'[c], ap[c])
    /\ ap[c].pc \in ItemSteps \union {"crds"} /\ ap'[c].pc \in ItemSteps \union {"status"}
    /\ ap'[c].todo \subseteq ap[c].chart /\ ap'[c].versioned \subseteq ap[c].chart
    /\ ap'[c].pc \in ItemSteps => ap'[c].todo # {}
    /\ \A r \in Resources : ap'[c].results[r] # "none" => r \in ap[c].chart

\* The resources are left alone, and none counts as applied that did not before.
Quiet ==
    /\ UNCHANGED <<res, doomed>>
    /\ \A c \in Callers, r \in Resources : ap'[c].results[r] = "ok" => ap[c].results[r] = "ok"

\* Nothing that has been read is kept.
Forgets(c) == ap'[c].pc \notin {"patch", "update"} /\ ap'[c].last = ap[c].last
              /\ ap'[c].seen \in {ap[c].seen, Absent}

\* A write: o is stored as resource r.
Stores(c, r, o) ==
    /\ res' = [res EXCEPT ![r] = o]
    /\ doomed' = IF o.st = "deleting" \/ (deletes > 0 /\ sets[ap[c].uid].st # "alive")
                 THEN doomed \union {r} ELSE doomed
    /\ r \in ap[c].chart /\ r \in Resources
    /\ ap'[c].results = [ap[c].results EXCEPT ![r] = "ok"]
    /\ Forgets(c)

LEMMA FailedItem ==
    ASSUME Types, Chosen, NEW c \in Callers, NEW result \in Errors, ap[c].pc \in ItemSteps,
           Result(c, result), UNCHANGED <<kind, sets, res, doomed, calls, deletes>>
    PROVE  ItemStep(c) /\ Quiet /\ Forgets(c)
<1>1. /\ ap' \in [Callers -> ApType] /\ Alone(c) /\ SameApply(ap'[c], ap[c])
      /\ ap'[c].pc \in {"get", "status"} /\ (ap'[c].pc = "get" => ap'[c].todo # {})
      /\ ap'[c].todo \subseteq ap[c].chart /\ ap'[c].versioned = ap[c].versioned
      /\ ap'[c].last = ap[c].last /\ ap'[c].seen = Absent
      /\ ap'[c].results = [ap[c].results EXCEPT ![Current(c)] = result]
  BY ResultMoves, ResultsTyped
<1>2. Current(c) \in ap[c].chart /\ ap[c] \in ApType
  BY CurrentIs DEF Types
<1>3. \A r \in Resources : ap'[c].results[r] # "none" => r \in ap[c].chart
  BY <1>1, <1>2 DEF Chosen, ApType
<1>4. ItemStep(c)
  BY <1>1, <1>3 DEF ItemStep, Chosen, ItemSteps
<1>5. Quiet
  BY <1>1, <1>2 DEF Quiet, Alone, ApType, Errors
<1> QED
  BY <1>1, <1>4, <1>5 DEF Forgets

LEMMA StoredItem ==
    ASSUME Types, Chosen, NEW c \in Callers, ap[c].pc \in ItemSteps, NEW o,
           Write(c, Current(c), o), UNCHANGED <<kind, sets, calls, deletes>>
    PROVE  ItemStep(c) /\ Stores(c, Current(c), o)
<1>1. /\ ap' \in [Callers -> ApType] /\ Alone(c) /\ SameApply(ap'[c], ap[c])
      /\ ap'[c].pc \in {"get", "status"} /\ (ap'[c].pc = "get" => ap'[c].todo # {})
      /\ ap'[c].todo \subseteq ap[c].chart /\ ap'[c].versioned = ap[c].versioned
      /\ ap'[c].last = ap[c].last /\ ap'[c].seen = Absent
      /\ ap'[c].results = [ap[c].results EXCEPT ![Current(c)] = "ok"]
  BY ResultMoves DEF Write
<1>2. Current(c) \in ap[c].chart /\ Current(c) \in Resources /\ ap[c] \in ApType
  BY CurrentIs DEF Types
<1>3. \A r \in Resources : ap'[c].results[r] # "none" => r \in ap[c].chart
  BY <1>1, <1>2 DEF Chosen, ApType
<1>4. ItemStep(c)
  BY <1>1, <1>3 DEF ItemStep, Chosen, ItemSteps
<1> QED
  BY <1>1, <1>2, <1>4 DEF Forgets, Stores, Write

LEMMA CRDsMoves ==
    ASSUME Types, Chosen, NEW c \in Callers, NEW result \in Errors \union {"ok"}, ApplyCRDs(c, result)
    PROVE  ItemStep(c) /\ Quiet /\ Forgets(c)
<1> DEFINE a == [ap[c] EXCEPT !.todo = ap[c].chart, !.results[0] = result]
<1>1. ap' = [ap EXCEPT ![c] = Round(a)] /\ ap[c].pc = "crds"
  BY DEF ApplyCRDs
<1>2. ap[c] \in ApType
  BY DEF Types
<1>3. /\ a.results = [ap[c].results EXCEPT ![0] = result] /\ a.todo = ap[c].chart
      /\ SameApply(a, ap[c]) /\ a.versioned = ap[c].versioned /\ a.last = ap[c].last /\ a.seen = ap[c].seen
  BY <1>2 DEF ApType, SameApply
<1>4. a.results \in [Resources \union {0} -> Results]
  BY <1>2, <1>3, ResultsTyped DEF ApType, Results
<1>5. a \in ApType
  BY <1>2, <1>3, <1>4 DEF ApType, SameApply
<1>6. \A r \in Resources : a.results[r] = ap[c].results[r]
  BY <1>2, <1>3, SynkConstants DEF ApType
<1>7. Failed(a) \subseteq ap[c].chart
  BY <1>6 DEF Failed, Chosen, Errors
<1> HIDE DEF a
<1>8. ap'[c] = Round(a)
  BY <1>1 DEF Types
<1>9. ap' \in [Callers -> ApType] /\ Alone(c)
  BY <1>1, <1>5, RoundTyped DEF Types, Alone
<1>10. /\ ap'[c].todo \subseteq ap[c].chart /\ ap'[c].versioned \subseteq ap[c].chart
       /\ SameApply(ap'[c], ap[c]) /\ ap'[c].results = a.results
       /\ ap'[c].pc \in {"get", "status"} /\ (ap'[c].pc = "get" => ap'[c].todo # {})
       /\ ap'[c].last = ap[c].last /\ ap'[c].seen = ap[c].seen
  BY <1>3, <1>5, <1>7, <1>8, RoundTyped DEF SameApply, Chosen
<1>11. UNCHANGED <<kind, sets, res, doomed, calls, deletes>>
  BY DEF ApplyCRDs
<1>12. ItemStep(c)
  BY <1>1, <1>6, <1>9, <1>10, <1>11 DEF ItemStep, Chosen, ItemSteps
<1>13. Quiet
  BY <1>6, <1>9, <1>10, <1>11 DEF Quiet, Alone
<1> QED
  BY <1>10, <1>12, <1>13 DEF Forgets

LEMMA CRDsTimeoutMoves ==
    ASSUME Types, Chosen, NEW c \in Callers, CRDsTimeout(c)
    PROVE  ItemStep(c) /\ Quiet /\ Forgets(c)
<1> DEFINE f == [ap[c].results EXCEPT ![0] = "timeout"]
<1>1. ap[c] \in ApType
  BY DEF Types
<1>2. ap'[c] = [ap[c] EXCEPT !.pc = "status", !.results = f] /\ Alone(c)
  BY <1>1 DEF CRDsTimeout, Types, ApType, Alone
<1>3. f \in [Resources \union {0} -> Results] /\ \A r \in Resources : f[r] = ap[c].results[r]
  BY <1>1, SynkConstants DEF ApType, Results
<1> HIDE DEF f
<1>4. ap'[c] \in ApType
  BY <1>1, <1>2, <1>3 DEF ApType, Steps
<1>5. ap' \in [Callers -> ApType]
  BY <1>4 DEF CRDsTimeout, Types
<1>6. /\ ap'[c].pc = "status" /\ ap'[c].results = f /\ SameApply(ap'[c], ap[c])
      /\ ap'[c].todo = ap[c].todo /\ ap'[c].versioned = ap[c].versioned
      /\ ap'[c].last = ap[c].last /\ ap'[c].seen = ap[c].seen
  BY <1>1, <1>2 DEF ApType, SameApply
<1>7. UNCHANGED <<kind, sets, res, doomed, calls, deletes>> /\ ap[c].pc = "crds"
  BY DEF CRDsTimeout
<1>8. ItemStep(c)
  BY <1>2, <1>3, <1>5, <1>6, <1>7 DEF ItemStep, Chosen, ItemSteps
<1>9. Quiet
  BY <1>2, <1>3, <1>6, <1>7 DEF Quiet, Alone
<1> QED
  BY <1>6, <1>8, <1>9 DEF Forgets

\* The outcome of reading a resource.
GotPatch(c) ==
    \E r \in Resources : /\ ap'[c].pc = "patch" /\ ap'[c].last = res[r].last
                         /\ ap'[c].seen = ap[c].seen /\ ValidateOwnerRefs(c, r)
GotUpdate(c) ==
    \E r \in Resources : /\ ap'[c].pc = "update" /\ ap'[c].last = ap[c].last
                         /\ ap'[c].seen = res[r] /\ res[r].st # "absent" /\ ValidateOwnerRefs(c, r)

LEMMA GetMoves ==
    ASSUME Types, Chosen, NEW c \in Callers, Get(c)
    PROVE  ItemStep(c) /\ Quiet /\ (Forgets(c) \/ GotPatch(c) \/ GotUpdate(c))
<1> DEFINE r == Current(c)
<1>1. ap[c] \in ApType /\ ap[c].pc = "get" /\ ap[c].pc \in ItemSteps
  BY DEF Types, Get, ItemSteps
<1>2. r \in Resources /\ r \in ap[c].chart /\ ap[c].todo # {} /\ res[r] \in ResType
  BY <1>1, CurrentIs DEF Chosen, Types
<1>3. UNCHANGED <<kind, sets, res, doomed, calls, deletes>>
  BY DEF Get, countVars
<1>4. CASE res[r].st = "absent"
  <2>1. Goto(c, "new") /\ "new" \in Steps
    BY <1>4 DEF Get, Steps, ItemSteps
  <2> QED
    BY <1>1, <1>2, <1>3, <2>1, GotoMoves DEF ItemStep, Quiet, Forgets, Chosen, ItemSteps, Alone, SameApply
<1>5. CASE res[r].st # "absent" /\ ~ValidateOwnerRefs(c, r)
  <2>1. Result(c, "permanent")
    BY <1>5 DEF Get
  <2> QED
    BY <1>1, <1>3, <2>1, FailedItem DEF Errors
<1>6. CASE res[r].st # "absent" /\ ValidateOwnerRefs(c, r) /\ kind[r] = "large"
  <2>1. ap' = [ap EXCEPT ![c] = [ap[c] EXCEPT !.pc = "update", !.seen = res[r],
                                               !.versioned = ap[c].versioned \union {r}]]
    BY <1>6 DEF Get
  <2>2. ap'[c] = [ap[c] EXCEPT !.pc = "update", !.seen = res[r], !.versioned = ap[c].versioned \union {r}]
    BY <2>1 DEF Types
  <2>3. ap'[c] \in ApType
    <3>1. ap[c].versioned \union {r} \in SUBSET Resources
      BY <1>1, <1>2 DEF ApType
    <3> HIDE DEF r
    <3> QED
      BY <1>1, <1>2, <2>2, <3>1 DEF ApType, Steps, ItemSteps
  <2>4. ap' \in [Callers -> ApType] /\ Alone(c)
    BY <2>1, <2>2, <2>3 DEF Types, Alone
  <2>5. /\ ap'[c].pc = "update" /\ ap'[c].results = ap[c].results /\ SameApply(ap'[c], ap[c])
        /\ ap'[c].todo = ap[c].todo /\ ap'[c].versioned = ap[c].versioned \union {r}
        /\ ap'[c].last = ap[c].last /\ ap'[c].seen = res[r]
    BY <1>1, <2>2 DEF ApType, SameApply
  <2> HIDE DEF r
  <2>6. ItemStep(c)
    BY <1>1, <1>2, <1>3, <2>4, <2>5 DEF ItemStep, Chosen, ItemSteps
  <2>7. Quiet
    BY <1>3, <2>4, <2>5 DEF Quiet, Alone
  <2>8. GotUpdate(c)
    BY <1>2, <1>6, <2>5 DEF GotUpdate
  <2> QED
    BY <2>6, <2>7, <2>8
<1>7. CASE res[r].st # "absent" /\ ValidateOwnerRefs(c, r) /\ kind[r] # "large"
  <2>1. ap' = [ap EXCEPT ![c] = [ap[c] EXCEPT !.pc = "patch", !.last = res[r].last]]
    BY <1>7 DEF Get
  <2>2. ap'[c] = [ap[c] EXCEPT !.pc = "patch", !.last = res[r].last]
    BY <2>1 DEF Types
  <2>3. ap'[c] \in ApType
    BY <1>1, <1>2, <2>2 DEF ApType, ResType, Steps, ItemSteps
  <2>4. ap' \in [Callers -> ApType] /\ Alone(c)
    BY <2>1, <2>2, <2>3 DEF Types, Alone
  <2>5. /\ ap'[c].pc = "patch" /\ ap'[c].results = ap[c].results /\ SameApply(ap'[c], ap[c])
        /\ ap'[c].todo = ap[c].todo /\ ap'[c].versioned = ap[c].versioned
        /\ ap'[c].last = res[r].last /\ ap'[c].seen = ap[c].seen
    BY <1>1, <2>2 DEF ApType, SameApply
  <2> HIDE DEF r
  <2>6. ItemStep(c)
    BY <1>1, <1>2, <1>3, <2>4, <2>5 DEF ItemStep, Chosen, ItemSteps
  <2>7. Quiet
    BY <1>3, <2>4, <2>5 DEF Quiet, Alone
  <2>8. GotPatch(c)
    BY <1>2, <1>7, <2>5 DEF GotPatch
  <2> QED
    BY <2>6, <2>7, <2>8
<1> QED
  BY <1>4, <1>5, <1>6, <1>7

LEMMA WantedTyped ==
    ASSUME Types, Numbered, NEW c \in Callers, ap[c].pc \in ItemSteps \union {"crds"}
    PROVE  /\ Wanted(c) \in ResType /\ Wanted(c).st = "alive"
           /\ Wanted(c).owners = {ap[c].uid} /\ Wanted(c).last \in {0, ap[c].uid}
           /\ ap[c].uid \in Created
<1>1. ap[c].pc \in Late
  BY DEF ItemSteps, Late, Steps, Early
<1>2. ap[c].uid \in Created /\ ap[c].uid \in UIDs
  BY <1>1 DEF Numbered, Created
<1>3. ap[c].gen \in 0..MaxCalls /\ ap[c].uid \in 0..MaxCalls /\ 0 \in 0..MaxCalls
  BY SynkConstants DEF Types, ApType
<1>4. Annotated(c) \in {0, ap[c].uid}
  BY DEF Annotated
<1> QED
  BY <1>2, <1>3, <1>4 DEF Wanted, ResType

\* The write of a resource: it was not there and is created, or it is patched, or, as a
\* large one that still is what was read, updated.
StoresAt(c, r) ==
    \/ res[r].st = "absent" /\ Stores(c, r, Wanted(c))
    \/ res[r].st # "absent" /\ ap[c].pc = "patch" /\ Stores(c, r, Patched(c, r))
    \/ res[r] = ap[c].seen /\ ap[c].pc = "update" /\ Stores(c, r, [Wanted(c) EXCEPT !.st = res[r].st])
Writes(c) == \E r \in Resources : StoresAt(c, r)

LEMMA CreateResourceMoves ==
    ASSUME Types, Chosen, NEW c \in Callers, CreateResource(c)
    PROVE  ItemStep(c) /\ ((Quiet /\ Forgets(c)) \/ Writes(c))
<1> DEFINE r == Current(c)
<1>1. ap[c].pc \in ItemSteps
  BY DEF CreateResource, ItemSteps
<1>2. r \in Resources
  BY <1>1, CurrentIs
<1>3. UNCHANGED <<kind, sets, calls, deletes>>
  BY DEF CreateResource, countVars
<1>4. CASE res[r].st = "absent" /\ r \notin ap[c].versioned
  <2>1. Write(c, r, Wanted(c))
    BY <1>4 DEF CreateResource
  <2> QED
    BY <1>1, <1>2, <1>3, <1>4, <2>1, StoredItem DEF Writes, StoresAt
<1>5. CASE ~(res[r].st = "absent" /\ r \notin ap[c].versioned)
  <2>1. \E result \in Errors : Result(c, result) /\ UNCHANGED <<res, doomed>>
    BY <1>5 DEF CreateResource, Errors
  <2> QED
    BY <1>1, <1>3, <2>1, FailedItem
<1> QED
  BY <1>4, <1>5

LEMMA PatchMoves ==
    ASSUME Types, Chosen, NEW c \in Callers, Patch(c)
    PROVE  ItemStep(c) /\ ((Quiet /\ Forgets(c)) \/ Writes(c))
<1> DEFINE r == Current(c)
<1>1. ap[c].pc \in ItemSteps /\ ap[c].pc = "patch"
  BY DEF Patch, ItemSteps
<1>2. r \in Resources
  BY <1>1, CurrentIs
<1>3. UNCHANGED <<kind, sets, calls, deletes>>
  BY DEF Patch, countVars
<1>4. CASE Result(c, "transient") /\ UNCHANGED <<res, doomed>>
  BY <1>1, <1>3, <1>4, FailedItem DEF Errors
<1>5. CASE res[r].st # "absent" /\ Write(c, r, Patched(c, r))
  BY <1>1, <1>2, <1>3, <1>5, StoredItem DEF Writes, StoresAt
<1> QED
  BY <1>4, <1>5 DEF Patch

LEMMA UpdateMoves ==
    ASSUME Types, Chosen, NEW c \in Callers, Update(c)
    PROVE  ItemStep(c) /\ ((Quiet /\ Forgets(c)) \/ Writes(c))
<1> DEFINE r == Current(c)
<1>1. ap[c].pc \in ItemSteps /\ ap[c].pc = "update"
  BY DEF Update, ItemSteps
<1>2. r \in Resources
  BY <1>1, CurrentIs
<1>3. UNCHANGED <<kind, sets, calls, deletes>>
  BY DEF Update, countVars
<1>4. CASE res[r] = ap[c].seen
  <2>1. Write(c, r, [Wanted(c) EXCEPT !.st = res[r].st])
    BY <1>4 DEF Update
  <2> QED
    BY <1>1, <1>2, <1>3, <1>4, <2>1, StoredItem DEF Writes, StoresAt
<1>5. CASE res[r] # ap[c].seen
  <2>1. Result(c, "transient") /\ UNCHANGED <<res, doomed>>
    BY <1>5 DEF Update
  <2> QED
    BY <1>1, <1>3, <2>1, FailedItem DEF Errors
<1> QED
  BY <1>4, <1>5

\* A job is deleted in order to be created again.
Replaces(c) ==
    /\ Forgets(c) /\ UNCHANGED doomed
    /\ \A d \in Callers : ap'[d].results = ap[d].results
    /\ \E r \in Resources : kind[r] = "job" /\ res' = [res EXCEPT ![r].st = "deleting"]

LEMMA ReplaceMoves ==
    ASSUME Types, Chosen, NEW c \in Callers, Replace(c)
    PROVE  ItemStep(c) /\ Replaces(c)
<1> DEFINE r == Current(c)
<1>1. ap[c].pc \in ItemSteps /\ "recreate" \in Steps /\ "recreate" \in ItemSteps
  BY DEF Replace, ItemSteps, Steps
<1>2. r \in Resources
  BY <1>1, CurrentIs
<1>3. UNCHANGED <<kind, sets, calls, deletes, doomed>> /\ Goto(c, "recreate")
  BY DEF Replace, countVars
<1>4. /\ ap' \in [Callers -> ApType] /\ Alone(c) /\ SameApply(ap'[c], ap[c])
      /\ ap'[c].pc = "recreate" /\ ap'[c].todo = ap[c].todo /\ ap'[c].versioned = ap[c].versioned
      /\ ap'[c].last = ap[c].last /\ ap'[c].seen = ap[c].seen
      /\ ap'[c].results = ap[c].results
  BY <1>1, <1>3, GotoMoves
<1>5. ItemStep(c)
  BY <1>1, <1>3, <1>4 DEF ItemStep, Chosen
<1>6. kind[r] = "job" /\ res' = [res EXCEPT ![r].st = "deleting"]
  BY DEF Replace
<1> QED
  BY <1>2, <1>3, <1>4, <1>5, <1>6 DEF Replaces, Forgets, Alone

LEMMA CallFailsMoves ==
    ASSUME Types, Chosen, NEW c \in Callers, NEW result \in Errors, CallFails(c, result)
    PROVE  ItemStep(c) /\ Quiet /\ Forgets(c)
<1>1. /\ ap[c].pc \in ItemSteps /\ Result(c, result)
      /\ UNCHANGED <<kind, sets, res, doomed, calls, deletes>>
  BY DEF CallFails, ItemSteps
<1> QED
  BY <1>1, FailedItem

\* All that the steps of applyAll do to the resources.
Effect(c) ==
    \/ Quiet /\ (Forgets(c) \/ GotPatch(c) \/ GotUpdate(c))
    \/ Writes(c) \/ Replaces(c)

Item(c) ==
    \/ \E result \in Errors \union {"ok"} : ApplyCRDs(c, result)
    \/ \E result \in Errors : CallFails(c, result)
    \/ CRDsTimeout(c)
    \/ Get(c) \/ CreateResource(c) \/ Patch(c) \/ Update(c) \/ Replace(c)

LEMMA ItemMoves ==
    ASSUME Types, Chosen, NEW c \in Callers, Item(c)
    PROVE  ItemStep(c) /\ Effect(c) /\ faults' \in 0..MaxFaults
<1>1. ItemStep(c) /\ Effect(c)
  BY CRDsMoves, CRDsTimeoutMoves, GetMoves, CreateResourceMoves, PatchMoves, UpdateMoves,
     ReplaceMoves, CallFailsMoves DEF Item, Effect
<1>2. (faults' = faults) \/ (faults < MaxFaults /\ faults' = faults + 1)
  <2> DEFINE G == (faults' = faults) \/ (faults < MaxFaults /\ faults' = faults + 1)
  <2>1. ASSUME NEW result, ApplyCRDs(c, result) PROVE G
    <3>1. IF result = "ok" THEN faults' = faults ELSE Fault
      BY <2>1 DEF ApplyCRDs
    <3> QED
      BY <3>1 DEF Fault
  <2>2. ASSUME NEW result, CallFails(c, result) PROVE G
    BY <2>2 DEF CallFails, Fault
  <2>3. CRDsTimeout(c) => G
    BY DEF CRDsTimeout, Fault
  <2>4. Get(c) \/ CreateResource(c) \/ Patch(c) \/ Update(c) \/ Replace(c) => faults' = faults
    BY DEF Get, CreateResource, Patch, Update, Replace, countVars
  <2>5. faults' = faults => G
    OBVIOUS
  <2> HIDE DEF G
  <2>6. G
    BY <2>1, <2>2, <2>3, <2>4, <2>5 DEF Item
  <2> QED
    BY <2>6 DEF G
<1>3. faults' \in 0..MaxFaults
  BY <1>2, SynkConstants DEF Types
<1> QED
  BY <1>1, <1>3

\* Every step of the system is one of these.
LEMMA StepKinds ==
    ASSUME Next
    PROVE  \/ \E c \in Callers :
                 \/ Item(c) \/ \E chart \in Charts : Apply(c, chart)
                 \/ NextVersion(c) \/ CreateSet(c) \/ UpdateStatus(c) \/ ListOld(c) \/ DeleteOld(c)
                 \/ Interrupted(c) \/ Delete(c)
           \/ \E r \in Resources : Collect(r) \/ ResourceGone(r)
           \/ \E u \in UIDs : SetGone(u)
<1>1. SUFFICES ASSUME NEW c \in Callers,
                      \/ ApplyStep(c)
                      \/ \E chart \in Charts : Apply(c, chart)
                      \/ Delete(c)
                      \/ \E result \in Errors : ApplyCRDs(c, result) \/ CallFails(c, result)
                      \/ CRDsTimeout(c)
                      \/ Interrupted(c)
               PROVE  \/ Item(c) \/ \E chart \in Charts : Apply(c, chart)
                      \/ NextVersion(c) \/ CreateSet(c) \/ UpdateStatus(c) \/ ListOld(c)
                      \/ DeleteOld(c) \/ Interrupted(c) \/ Delete(c)
  BY Zenon DEF Next
<1>2. ApplyStep(c) => Item(c) \/ NextVersion(c) \/ CreateSet(c) \/ UpdateStatus(c) \/ ListOld(c) \/ DeleteOld(c)
  BY DEF ApplyStep, Item
<1>3. (\E result \in Errors : ApplyCRDs(c, result) \/ CallFails(c, result)) \/ CRDsTimeout(c) => Item(c)
  BY DEF Item
<1> QED
  BY <1>1, <1>2, <1>3

-----------------------------------------------------------------------------
(* The other steps of an Apply, and those of Delete and the API server.    *)

\* The Apply begins anew, with nothing done or read.
Blank(a) ==
    /\ a.todo = {} /\ a.versioned = {} /\ a.last = 0 /\ a.seen = Absent
    /\ \A r \in Resources : a.results[r] = "none"

LEMMA ReturnMoves ==
    ASSUME Types, NEW c \in Callers, Return(c)
    PROVE  /\ ap' \in [Callers -> ApType] /\ Alone(c)
           /\ ap'[c].pc = "idle" /\ Blank(ap'[c])
<1>1. ap'[c] = Idle
  BY DEF Return, Types
<1>2. ap' \in [Callers -> ApType] /\ Alone(c)
  BY IdleTyped DEF Return, Types, Alone
<1> QED
  BY <1>1, <1>2, IdleTyped DEF Blank

LEMMA ApplyMoves ==
    ASSUME Types, NEW c \in Callers, NEW chart \in Charts, Apply(c, chart)
    PROVE  /\ UNCHANGED <<kind, sets, res, doomed, deletes, faults>> /\ ap[c].pc = "idle"
           /\ calls' = calls + 1 /\ calls' \in 0..MaxCalls
           /\ ap' \in [Callers -> ApType] /\ Alone(c)
           /\ ap'[c].pc = "next" /\ ap'[c].gen = calls + 1 /\ Blank(ap'[c])
<1> DEFINE a == [Idle EXCEPT !.pc = "next", !.chart = chart, !.gen = calls + 1]
<1>1. calls + 1 \in 0..MaxCalls /\ calls' = calls + 1
  BY SynkConstants DEF Types, Apply
<1>2. chart \in SUBSET Resources
  BY SynkConstants
<1>3. a \in ApType
  BY <1>1, <1>2, IdleTyped DEF ApType, Steps
<1>4. a.pc = "next" /\ a.gen = calls + 1 /\ Blank(a)
  BY IdleTyped DEF ApType, Blank
<1>5. ap' = [ap EXCEPT ![c] = a]
  BY DEF Apply
<1> HIDE DEF a
<1> QED
  BY <1>1, <1>3, <1>4, <1>5 DEF Apply, Types, Alone

LEMMA CreatedCount ==
    ASSUME Types, Numbered
    PROVE  /\ IsFiniteSet(Created) /\ Cardinality(Created) \in Nat
           /\ \A g \in 1..calls : g \notin Created => Cardinality(Created) + 1 <= calls
<1>1. IsFiniteSet(1..calls) /\ Cardinality(1..calls) = calls
  BY FS_Interval DEF Types
<1>2. Created \subseteq 1..calls
  BY DEF Numbered
<1>3. IsFiniteSet(Created) /\ Cardinality(Created) \in Nat
  BY <1>1, <1>2, FS_Subset, FS_CardinalityType
<1>4. ASSUME NEW g \in 1..calls, g \notin Created
      PROVE  Cardinality(Created) + 1 <= calls
  <2>1. IsFiniteSet(Created \union {g}) /\ Cardinality(Created \union {g}) = Cardinality(Created) + 1
    BY <1>3, <1>4, FS_AddElement
  <2>2. Created \union {g} \subseteq 1..calls
    BY <1>2
  <2>3. Cardinality(Created \union {g}) <= Cardinality(1..calls)
    BY <1>1, <2>2, FS_Subset
  <2> QED
    BY <1>1, <2>1, <2>3
<1> QED
  BY <1>3, <1>4

LEMMA NextVersionMoves ==
    ASSUME Types, Numbered, Versions, NEW c \in Callers, NextVersion(c)
    PROVE  /\ UNCHANGED <<kind, sets, res, doomed, calls, deletes, faults>> /\ ap[c].pc = "next"
           /\ ap' \in [Callers -> ApType] /\ Alone(c)
           /\ ap'[c].pc = "create" /\ ap'[c].gen = ap[c].gen
           /\ ap'[c].ver <= Cardinality(Created) + 1
           /\ ap'[c].todo = ap[c].todo /\ ap'[c].versioned = ap[c].versioned /\ ap'[c].chart = ap[c].chart
           /\ ap'[c].results = ap[c].results /\ ap'[c].last = ap[c].last /\ ap'[c].seen = ap[c].seen
<1> DEFINE S == {0} \union {sets[u].ver : u \in {w \in UIDs : Exists(w)}}
           v == 1 + Most(S)
<1>1. ap[c] \in ApType /\ ap[c].pc = "next" /\ ap[c].gen \in 1..calls /\ ap[c].gen \notin Created
  BY DEF Types, NextVersion, Numbered, Early
<1>2. Cardinality(Created) \in Nat /\ Cardinality(Created) + 1 <= calls
  BY <1>1, CreatedCount
<1>3. S \subseteq Nat /\ S # {} /\ \A y \in S : y <= Cardinality(Created)
  <2>1. ASSUME NEW u \in UIDs, Exists(u) PROVE sets[u].ver \in Nat /\ sets[u].ver <= Cardinality(Created)
    <3>1. u \in Created
      BY <2>1 DEF Exists, Created
    <3> QED
      BY <3>1, Numbers DEF Versions
  <2> QED
    BY <1>2, <2>1
<1>4. Most(S) \in S
  <2> HIDE DEF S
  <2> QED
    BY <1>2, <1>3, MostIs
<1>5. v \in 0..MaxCalls /\ v <= Cardinality(Created) + 1
  <2>1. Most(S) \in Nat /\ Most(S) <= Cardinality(Created)
    BY <1>3, <1>4
  <2>2. calls \in 0..MaxCalls
    BY DEF Types
  <2> QED
    BY <1>2, <2>1, <2>2, SynkConstants
<1>6. ap' = [ap EXCEPT ![c].pc = "create", ![c].ver = v]
  BY DEF NextVersion
<1> HIDE DEF v
<1>7. ap'[c] = [ap[c] EXCEPT !.pc = "create", !.ver = v]
  BY <1>6 DEF Types
<1>8. ap'[c] \in ApType
  BY <1>1, <1>5, <1>7 DEF ApType, Steps
<1>9. ap' \in [Callers -> ApType] /\ Alone(c)
  BY <1>6, <1>8 DEF Types, Alone
<1>10. UNCHANGED <<kind, sets, res, doomed, calls, deletes, faults>>
  BY DEF NextVersion, countVars
<1> QED
  BY <1>1, <1>5, <1>7, <1>9, <1>10 DEF ApType

\* The new ResourceSet of the Apply.
Creation(c) ==
    LET g == ap[c].gen IN
    /\ g \in UIDs /\ \A w \in UIDs : Exists(w) => sets[w].ver # ap[c].ver
    /\ sets' \in [UIDs -> SetType]
    /\ \A w \in UIDs \ {g} : sets'[w] = sets[w]
    /\ sets'[g].st = "alive" /\ sets'[g].ver = ap[c].ver /\ sets'[g].chart = ap[c].chart
    /\ sets'[g].phase = "Pending" /\ sets'[g].applied = {}
    /\ ap'[c].pc = "crds" /\ ap'[c].uid = g /\ ap'[c].gen = g /\ ap'[c].ver = ap[c].ver
    /\ ap'[c].todo = ap[c].todo /\ ap'[c].versioned = ap[c].versioned /\ ap'[c].chart = ap[c].chart
    /\ ap'[c].results = ap[c].results /\ ap'[c].last = ap[c].last /\ ap'[c].seen = ap[c].seen

LEMMA CreateSetMoves ==
    ASSUME Types, Numbered, NEW c \in Callers, CreateSet(c)
    PROVE  /\ UNCHANGED <<kind, res, doomed, calls, deletes, faults>> /\ ap[c].pc = "create"
           /\ ap' \in [Callers -> ApType] /\ Alone(c)
           /\ \/ sets' = sets /\ ap'[c].pc = "idle" /\ Blank(ap'[c])
              \/ Creation(c)
<1>1. UNCHANGED <<kind, res, doomed, calls, deletes, faults>> /\ ap[c].pc = "create"
  BY DEF CreateSet, countVars
<1>2. CASE \E u \in UIDs : Exists(u) /\ sets[u].ver = ap[c].ver
  <2>1. Return(c) /\ sets' = sets
    BY <1>2 DEF CreateSet
  <2> QED
    BY <1>1, <2>1, ReturnMoves
<1>3. CASE ~\E u \in UIDs : Exists(u) /\ sets[u].ver = ap[c].ver
  <2> DEFINE g == ap[c].gen
             n == NewSet(c)
  <2>1. ap[c] \in ApType /\ g \in 1..calls /\ g \in UIDs
    BY <1>1, SynkConstants DEF Types, Numbered, UIDs
  <2>2. /\ n \in SetType /\ n.st = "alive" /\ n.ver = ap[c].ver /\ n.chart = ap[c].chart
        /\ n.phase = "Pending" /\ n.applied = {}
    BY <2>1 DEF NewSet, NoSet, ApType, SetType
  <2>3. sets' = [sets EXCEPT ![g] = n] /\ ap' = [ap EXCEPT ![c].pc = "crds", ![c].uid = g]
    BY <1>3 DEF CreateSet
  <2> HIDE DEF n
  <2>4. ap'[c] = [ap[c] EXCEPT !.pc = "crds", !.uid = g]
    BY <2>3 DEF Types
  <2>5. ap'[c] \in ApType
    BY <2>1, <2>4 DEF ApType, Steps
  <2>6. ap' \in [Callers -> ApType] /\ Alone(c)
    BY <2>3, <2>5 DEF Types, Alone
  <2>7. /\ sets' \in [UIDs -> SetType] /\ sets'[g] = n
        /\ \A w \in UIDs \ {g} : sets'[w] = sets[w]
    BY <2>1, <2>2, <2>3 DEF Types
  <2>8. /\ ap'[c].pc = "crds" /\ ap'[c].uid = g /\ ap'[c].gen = g /\ ap'[c].ver = ap[c].ver
        /\ ap'[c].todo = ap[c].todo /\ ap'[c].versioned = ap[c].versioned /\ ap'[c].chart = ap[c].chart
        /\ ap'[c].results = ap[c].results /\ ap'[c].last = ap[c].last /\ ap'[c].seen = ap[c].seen
    BY <2>1, <2>4 DEF ApType
  <2>9. Creation(c)
    BY <1>3, <2>1, <2>2, <2>7, <2>8 DEF Creation
  <2> QED
    BY <1>1, <2>6, <2>9
<1> QED
  BY <1>2, <1>3

\* The step changes nothing of the ResourceSets but whether they are there, and makes
\* none come.
SetsFade ==
    /\ sets' \in [UIDs -> SetType]
    /\ \A u \in UIDs :
          /\ sets'[u].ver = sets[u].ver /\ sets'[u].chart = sets[u].chart
          /\ sets'[u].phase = sets[u].phase /\ sets'[u].applied = sets[u].applied
          /\ \/ sets'[u].st = sets[u].st
             \/ sets[u].st = "alive" /\ sets'[u].st \in {"deleting", "pruned"}
             \/ sets[u].st = "deleting" /\ sets'[u].st = "gone"

\* The step writes the status of the Apply's ResourceSet.
StatusWritten(c) ==
    LET u == ap[c].uid IN
    /\ sets' \in [UIDs -> SetType]
    /\ \A w \in UIDs \ {u} : sets'[w] = sets[w]
    /\ sets'[u].st = sets[u].st /\ sets'[u].ver = sets[u].ver /\ sets'[u].chart = sets[u].chart
    /\ sets'[u].applied = Ok(c)

LEMMA UpdateStatusMoves ==
    ASSUME Types, Chosen, Numbered, NEW c \in Callers, UpdateStatus(c)
    PROVE  /\ UNCHANGED <<kind, res, doomed, calls, deletes, faults>> /\ ap[c].pc = "status"
           /\ ap' \in [Callers -> ApType] /\ Alone(c)
           /\ \/ ap'[c].pc = "idle" /\ Blank(ap'[c]) /\ (sets' = sets \/ StatusWritten(c))
              \/ /\ StatusWritten(c) /\ Settled(ap[c].uid)' /\ ap'[c].pc = "list"
                 /\ SameApply(ap'[c], ap[c]) /\ ap'[c].todo = ap[c].todo
                 /\ ap'[c].versioned = ap[c].versioned /\ ap'[c].results = ap[c].results
                 /\ ap'[c].last = ap[c].last /\ ap'[c].seen = ap[c].seen
<1> DEFINE u == ap[c].uid
           ph == IF ap[c].results[0] \in Errors \/ Failed(ap[c]) # {} THEN "Failed" ELSE "Settled"
<1>1. UNCHANGED <<kind, res, doomed, calls, deletes, faults>> /\ ap[c].pc = "status"
  BY DEF UpdateStatus, countVars
<1>2. u \in UIDs /\ ap[c].pc \in Late
  BY <1>1 DEF Numbered, Late, Steps, Early, Created
<1>3. CASE sets[u].st # "alive"
  <2>1. sets' = sets /\ Return(c)
    BY <1>3 DEF UpdateStatus
  <2> QED
    BY <1>1, <2>1, ReturnMoves
<1>4. CASE sets[u].st = "alive"
  <2>1. /\ sets' = [sets EXCEPT ![u].applied = Ok(c), ![u].phase = ph]
        /\ IF AllOk(c) THEN Goto(c, "list") ELSE Return(c)
    BY <1>4 DEF UpdateStatus
  <2>2. ph \in {"Failed", "Settled"} /\ Ok(c) \in SUBSET Resources
    BY DEF Ok
  <2>3. AllOk(c) => ph = "Settled" /\ Ok(c) = ap[c].chart
    BY DEF AllOk, Failed, Errors, Ok, Chosen, Types, ApType
  <2> HIDE DEF ph
  <2>4. sets'[u] = [sets[u] EXCEPT !.applied = Ok(c), !.phase = ph] /\ sets[u] \in SetType
    BY <1>2, <2>1 DEF Types
  <2>5. sets'[u] \in SetType
    BY <2>2, <2>4 DEF SetType
  <2>6. sets' \in [UIDs -> SetType] /\ \A w \in UIDs \ {u} : sets'[w] = sets[w]
    BY <1>2, <2>1, <2>5 DEF Types
  <2>7. /\ sets'[u].st = sets[u].st /\ sets'[u].ver = sets[u].ver /\ sets'[u].chart = sets[u].chart
        /\ sets'[u].applied = Ok(c) /\ sets'[u].phase = ph
    BY <2>4 DEF SetType
  <2>8. StatusWritten(c)
    BY <2>6, <2>7 DEF StatusWritten
  <2>9. CASE AllOk(c)
    <3>1. "list" \in Steps /\ Goto(c, "list")
      BY <2>1, <2>9 DEF Steps
    <3>2. sets'[u].phase = "Settled" /\ sets'[u].applied = sets'[u].chart
      BY <1>2, <2>3, <2>7, <2>9 DEF Numbered
    <3>3. ap'[c].uid = u
      BY <3>1, GotoMoves DEF SameApply
    <3>4. Settled(ap[c].uid)'
      BY <3>2, <3>3 DEF Settled
    <3> QED
      BY <1>1, <2>8, <3>1, <3>4, GotoMoves
  <2>10. CASE ~AllOk(c)
    BY <1>1, <2>1, <2>8, <2>10, ReturnMoves
  <2> QED
    BY <2>9, <2>10
<1> QED
  BY <1>3, <1>4

\* Nothing that the Apply knows changes.
Carries(c) ==
    /\ SameApply(ap'[c], ap[c]) /\ ap'[c].todo = ap[c].todo /\ ap'[c].versioned = ap[c].versioned
    /\ ap'[c].results = ap[c].results /\ ap'[c].last = ap[c].last /\ ap'[c].seen = ap[c].seen

LEMMA ListOldMoves ==
    ASSUME Types, NEW c \in Callers, ListOld(c)
    PROVE  /\ UNCHANGED <<kind, sets, res, doomed, calls, deletes, faults>> /\ ap[c].pc = "list"
           /\ ap' \in [Callers -> ApType] /\ Alone(c)
           /\ \/ ap'[c].pc = "idle" /\ Blank(ap'[c])
              \/ /\ ap'[c].pc = "prune" /\ Carries(c)
                 /\ ap'[c].old # {} /\ ap'[c].old \subseteq Nat /\ \A v \in ap'[c].old : v < ap[c].ver
<1>1. UNCHANGED <<kind, sets, res, doomed, calls, deletes, faults>> /\ ap[c].pc = "list"
  BY DEF ListOld, countVars
<1>2. CASE Older(c) = {}
  BY <1>1, <1>2, ReturnMoves DEF ListOld
<1>3. CASE Older(c) # {}
  <2>1. Older(c) \subseteq Nat /\ \A v \in Older(c) : v < ap[c].ver
    BY Numbers DEF Older
  <2>2. ap[c] \in ApType
    BY DEF Types
  <2>3. ap' = [ap EXCEPT ![c].pc = "prune", ![c].old = Older(c)]
    BY <1>3 DEF ListOld
  <2>4. ap'[c] = [ap[c] EXCEPT !.pc = "prune", !.old = Older(c)]
    BY <2>3 DEF Types
  <2>5. ap'[c] \in ApType
    BY <2>1, <2>2, <2>4 DEF ApType, Steps
  <2>6. ap' \in [Callers -> ApType] /\ Alone(c)
    BY <2>3, <2>5 DEF Types, Alone
  <2>7. ap'[c].pc = "prune" /\ Carries(c) /\ ap'[c].old = Older(c)
    BY <2>2, <2>4 DEF ApType, Carries, SameApply
  <2> QED
    BY <1>1, <1>3, <2>1, <2>6, <2>7
<1> QED
  BY <1>2, <1>3

\* The step marks ResourceSets as pruned that are older than v, and if the one of c
\* does not live after a Delete, nothing is promised any more.
Prunes(c) ==
    /\ SetsFade
    /\ \A u \in UIDs : sets'[u].st # sets[u].st =>
          /\ sets[u].st = "alive" /\ sets'[u].st = "pruned" /\ sets[u].ver < ap[c].ver
          /\ doomed' = Resources \/ deletes = 0 \/ sets[ap[c].uid].st = "alive"
    /\ doomed \subseteq doomed' /\ doomed' \subseteq Resources

LEMMA DeleteOldMoves ==
    ASSUME Types, Outdated, NEW c \in Callers, DeleteOld(c)
    PROVE  /\ UNCHANGED <<kind, res, calls, deletes, faults>> /\ ap[c].pc = "prune"
           /\ ap' \in [Callers -> ApType] /\ Alone(c) /\ Prunes(c)
           /\ \/ ap'[c].pc = "idle" /\ Blank(ap'[c])
              \/ /\ ap'[c].pc = "prune" /\ Carries(c)
                 /\ ap'[c].old # {} /\ ap'[c].old \subseteq Nat /\ \A v \in ap'[c].old : v < ap[c].ver
<1> DEFINE v == Least(ap[c].old)
           named == {u \in UIDs : Exists(u) /\ sets[u].ver = v}
<1>1. UNCHANGED <<kind, res, calls, deletes, faults>> /\ ap[c].pc = "prune"
  BY DEF DeleteOld, countVars
<1>2. /\ ap[c].old # {} /\ ap[c].old \subseteq Nat /\ (\A x \in ap[c].old : x < ap[c].ver)
  BY <1>1 DEF Outdated
<1>3. v \in ap[c].old /\ v < ap[c].ver
  BY <1>2, LeastIs
<1>4. /\ sets' = [u \in UIDs |-> IF u \in named /\ sets[u].st = "alive"
                                  THEN [sets[u] EXCEPT !.st = "pruned"] ELSE sets[u]]
      /\ doomed' = IF deletes > 0 /\ sets[ap[c].uid].st # "alive" /\ \E u \in named : sets[u].st = "alive"
                   THEN Resources ELSE doomed
      /\ IF named = {} \/ ap[c].old = {v} THEN Return(c) ELSE ap' = [ap EXCEPT ![c].old = @ \ {v}]
  BY DEF DeleteOld
<1> HIDE DEF v
<1>5. ASSUME NEW u \in UIDs
      PROVE  /\ sets'[u] \in SetType
             /\ sets'[u].ver = sets[u].ver /\ sets'[u].chart = sets[u].chart
             /\ sets'[u].phase = sets[u].phase /\ sets'[u].applied = sets[u].applied
             /\ \/ sets'[u] = sets[u]
                \/ u \in named /\ sets[u].st = "alive" /\ sets'[u].st = "pruned"
  <2>1. sets[u] \in SetType
    BY DEF Types
  <2>2. CASE u \in named /\ sets[u].st = "alive"
    <3>1. sets'[u] = [sets[u] EXCEPT !.st = "pruned"]
      BY <1>4, <2>2
    <3> QED
      BY <2>1, <2>2, <3>1 DEF SetType
  <2>3. CASE ~(u \in named /\ sets[u].st = "alive")
    BY <1>4, <2>1, <2>3
  <2> QED
    BY <2>2, <2>3
<1>6. SetsFade
  <2>1. sets' \in [UIDs -> SetType]
    BY <1>4, <1>5
  <2> QED
    BY <1>5, <2>1 DEF SetsFade
<1>7. doomed \subseteq doomed' /\ doomed' \subseteq Resources
  BY <1>4 DEF Types
<1>8. ASSUME NEW u \in UIDs, sets'[u].st # sets[u].st
      PROVE  /\ sets[u].st = "alive" /\ sets'[u].st = "pruned" /\ sets[u].ver < ap[c].ver
             /\ doomed' = Resources \/ deletes = 0 \/ sets[ap[c].uid].st = "alive"
  <2>1. u \in named /\ sets[u].st = "alive" /\ sets'[u].st = "pruned"
    BY <1>5, <1>8
  <2>2. deletes > 0 \/ deletes = 0
    BY Numbers
  <2> QED
    BY <1>3, <1>4, <2>1, <2>2
<1>9. Prunes(c)
  BY <1>6, <1>7, <1>8 DEF Prunes
<1>10. CASE named = {} \/ ap[c].old = {v}
  BY <1>1, <1>4, <1>9, <1>10, ReturnMoves
<1>11. CASE ~(named = {} \/ ap[c].old = {v})
  <2>1. ap[c] \in ApType
    BY DEF Types
  <2>2. ap' = [ap EXCEPT ![c].old = ap[c].old \ {v}]
    BY <1>4, <1>11
  <2>3. ap'[c] = [ap[c] EXCEPT !.old = ap[c].old \ {v}]
    BY <2>2 DEF Types
  <2>4. ap[c].old \ {v} # {} /\ ap[c].old \ {v} \subseteq Nat /\ \A x \in ap[c].old \ {v} : x < ap[c].ver
    BY <1>2, <1>3, <1>11
  <2>5. ap'[c] \in ApType
    BY <2>1, <2>3, <2>4 DEF ApType
  <2>6. ap' \in [Callers -> ApType] /\ Alone(c)
    BY <2>2, <2>5 DEF Types, Alone
  <2>7. ap'[c].pc = "prune" /\ Carries(c) /\ ap'[c].old = ap[c].old \ {v}
    BY <1>1, <2>1, <2>3 DEF ApType, Carries, SameApply
  <2> QED
    BY <1>1, <1>9, <2>4, <2>6, <2>7
<1> QED
  BY <1>10, <1>11

LEMMA InterruptedMoves ==
    ASSUME Types, NEW c \in Callers, Interrupted(c)
    PROVE  /\ UNCHANGED <<kind, sets, res, doomed, calls, deletes>> /\ faults' \in 0..MaxFaults
           /\ ap' \in [Callers -> ApType] /\ Alone(c) /\ ap'[c].pc = "idle" /\ Blank(ap'[c])
<1>1. faults' \in 0..MaxFaults
  BY SynkConstants DEF Interrupted, Fault, Types
<1> QED
  BY <1>1, ReturnMoves DEF Interrupted

LEMMA DeleteMoves ==
    ASSUME Types, NEW c \in Callers, Delete(c)
    PROVE  /\ UNCHANGED <<kind, res, doomed, ap, calls, faults>> /\ SetsFade
           /\ deletes' \in 0..MaxDeletes /\ deletes' # 0
           /\ \A u \in UIDs : sets'[u].st # "alive"
<1>1. deletes' \in 0..MaxDeletes /\ deletes' # 0
  BY SynkConstants DEF Delete, Types
<1>2. sets' = [u \in UIDs |-> IF sets[u].st = "alive" THEN [sets[u] EXCEPT !.st = "deleting"]
                              ELSE sets[u]]
  BY DEF Delete
<1>3. ASSUME NEW u \in UIDs
      PROVE  /\ sets'[u] \in SetType /\ sets'[u].st # "alive"
             /\ sets'[u].ver = sets[u].ver /\ sets'[u].chart = sets[u].chart
             /\ sets'[u].phase = sets[u].phase /\ sets'[u].applied = sets[u].applied
             /\ \/ sets'[u] = sets[u]
                \/ sets[u].st = "alive" /\ sets'[u].st = "deleting"
  <2>1. sets[u] \in SetType
    BY DEF Types
  <2>2. CASE sets[u].st = "alive"
    <3>1. sets'[u] = [sets[u] EXCEPT !.st = "deleting"]
      BY <1>2, <2>2
    <3> QED
      BY <2>1, <2>2, <3>1 DEF SetType
  <2>3. CASE sets[u].st # "alive"
    BY <1>2, <2>1, <2>3
  <2> QED
    BY <2>2, <2>3
<1>4. sets' \in [UIDs -> SetType]
  BY <1>2, <1>3
<1> QED
  BY <1>1, <1>3, <1>4 DEF Delete, SetsFade

\* The garbage collector's step: a resource goes only if no living ResourceSet owns it.
Collects(r) ==
    /\ res' \in [Resources -> ResType] /\ \A q \in Resources \ {r} : res'[q] = res[q]
    /\ res'[r].last = res[r].last /\ res[r].st = "alive"
    /\ \/ res'[r].owners = res[r].owners /\ Solid(r) = {}
       \/ res'[r].owners = Solid(r) /\ res'[r].st = "alive"

LEMMA CollectMoves ==
    ASSUME Types, NEW r \in Resources, Collect(r)
    PROVE  UNCHANGED <<kind, sets, doomed, ap, calls, deletes, faults>> /\ Collects(r)
<1>1. res[r] \in ResType /\ Solid(r) \subseteq res[r].owners
  BY DEF Types, Solid
<1>2. UNCHANGED <<kind, sets, doomed, ap, calls, deletes, faults>> /\ res[r].st = "alive"
  BY DEF Collect, countVars
<1>3. CASE Solid(r) = {}
  <2>1. res' = [res EXCEPT ![r] = [res[r] EXCEPT !.st = "deleting"]]
    BY <1>3 DEF Collect
  <2>2. res'[r] = [res[r] EXCEPT !.st = "deleting"]
    BY <2>1 DEF Types
  <2>3. res'[r] \in ResType /\ res'[r].last = res[r].last /\ res'[r].owners = res[r].owners
    BY <1>1, <2>2 DEF ResType
  <2>4. res' \in [Resources -> ResType] /\ \A q \in Resources \ {r} : res'[q] = res[q]
    BY <2>1, <2>3 DEF Types
  <2> QED
    BY <1>2, <1>3, <2>3, <2>4 DEF Collects
<1>4. CASE Solid(r) # {}
  <2>1. res' = [res EXCEPT ![r] = [res[r] EXCEPT !.owners = Solid(r)]]
    BY <1>4 DEF Collect
  <2>2. res'[r] = [res[r] EXCEPT !.owners = Solid(r)]
    BY <2>1 DEF Types
  <2>3. /\ res'[r] \in ResType /\ res'[r].last = res[r].last /\ res'[r].owners = Solid(r)
        /\ res'[r].st = "alive"
    BY <1>1, <1>2, <2>2 DEF ResType
  <2>4. res' \in [Resources -> ResType] /\ \A q \in Resources \ {r} : res'[q] = res[q]
    BY <2>1, <2>3 DEF Types
  <2> QED
    BY <1>2, <2>3, <2>4 DEF Collects
<1> QED
  BY <1>3, <1>4

LEMMA ResourceGoneMoves ==
    ASSUME Types, NEW r \in Resources, ResourceGone(r)
    PROVE  /\ UNCHANGED <<kind, sets, doomed, ap, calls, deletes, faults>>
           /\ res' \in [Resources -> ResType] /\ \A q \in Resources \ {r} : res'[q] = res[q]
           /\ res[r].st = "deleting" /\ res'[r] = Absent
<1>1. res[r].st = "deleting" /\ res' = [res EXCEPT ![r] = Absent]
  BY DEF ResourceGone
<1>2. UNCHANGED <<kind, sets, doomed, ap, calls, deletes, faults>>
  BY DEF ResourceGone, countVars
<1> QED
  BY <1>1, <1>2, AbsentTyped DEF Types

LEMMA SetGoneMoves ==
    ASSUME Types, NEW u \in UIDs, SetGone(u)
    PROVE  /\ UNCHANGED <<kind, res, doomed, ap, calls, deletes, faults>> /\ SetsFade
           /\ sets[u].st = "deleting"
           /\ \A w \in UIDs : sets'[w].st = "alive" <=> sets[w].st = "alive"
<1>1. UNCHANGED <<kind, res, doomed, ap, calls, deletes, faults>> /\ sets[u].st = "deleting"
  BY DEF SetGone, countVars
<1>2. sets' = [sets EXCEPT ![u].st = "gone"]
  BY DEF SetGone
<1>3. sets'[u] = [sets[u] EXCEPT !.st = "gone"] /\ sets[u] \in SetType
  BY <1>2 DEF Types
<1>4. /\ sets'[u] \in SetType /\ sets'[u].st = "gone"
      /\ sets'[u].ver = sets[u].ver /\ sets'[u].chart = sets[u].chart
      /\ sets'[u].phase = sets[u].phase /\ sets'[u].applied = sets[u].applied
  BY <1>3 DEF SetType
<1>5. sets' \in [UIDs -> SetType] /\ \A w \in UIDs \ {u} : sets'[w] = sets[w]
  BY <1>2, <1>4 DEF Types
<1> QED
  BY <1>1, <1>4, <1>5 DEF SetsFade

-----------------------------------------------------------------------------
(* The invariant, one conjunct after the other.                            *)

LEMMA PatchedIs ==
    ASSUME Types, Numbered, NEW c \in Callers, ap[c].pc \in ItemSteps, NEW r \in Resources
    PROVE  /\ Patched(c, r) \in ResType
           /\ Patched(c, r).st = res[r].st /\ Patched(c, r).last \in {0, ap[c].uid}
           /\ ap[c].uid \in Patched(c, r).owners
           /\ Patched(c, r).owners \subseteq res[r].owners \union {ap[c].uid}
           /\ kind[r] # "merge" => res[r].owners \ {ap[c].last} \subseteq Patched(c, r).owners
<1> DEFINE w == Wanted(c)
           own == IF kind[r] = "merge" THEN w.owners ELSE (res[r].owners \ {ap[c].last}) \union w.owners
<1>1. w \in ResType /\ w.owners = {ap[c].uid} /\ w.last \in {0, ap[c].uid} /\ ap[c].uid \in UIDs
  BY WantedTyped DEF Created
<1>2. Patched(c, r) = [w EXCEPT !.st = res[r].st, !.owners = own]
  BY <1>1 DEF Patched, ResType
<1>3. res[r] \in ResType
  BY DEF Types
<1>4. own \in SUBSET UIDs
  BY <1>1, <1>3 DEF ResType
<1> HIDE DEF w
<1>5. own \subseteq res[r].owners \union {ap[c].uid} /\ ap[c].uid \in own
  BY <1>1
<1>6. kind[r] # "merge" => res[r].owners \ {ap[c].last} \subseteq own
  OBVIOUS
<1> HIDE DEF own
<1> QED
  BY <1>1, <1>2, <1>3, <1>4, <1>5, <1>6 DEF ResType

\* What a write stores: it is owned by the Apply's ResourceSet, and no living owner that
\* is newer is lost, unless the patch replaces the owners as a whole.
LEMMA StoredIs ==
    ASSUME Types, Numbered, Reads, NEW c \in Callers, NEW r \in Resources, ItemStep(c), StoresAt(c, r)
    PROVE  \E o \in ResType :
              /\ Stores(c, r, o)
              /\ ap[c].uid \in o.owners /\ o.owners \subseteq res[r].owners \union {ap[c].uid}
              /\ o.last \in {0, ap[c].uid} /\ o.st \in {"alive", "deleting"}
              /\ kind[r] # "merge" /\ res[r].st # "absent" =>
                    \A w \in res[r].owners : sets[w].st = "alive" /\ sets[w].ver > ap[c].ver => w \in o.owners
<1>1. /\ Wanted(c) \in ResType /\ Wanted(c).st = "alive" /\ ap[c].uid \in Created
      /\ Wanted(c).owners = {ap[c].uid} /\ Wanted(c).last \in {0, ap[c].uid}
  BY WantedTyped DEF ItemStep
<1>2. res[r] \in ResType
  BY DEF Types
<1>3. \A w \in res[r].owners : w \in UIDs /\ w # 0 /\ sets[w].ver \in Nat
  BY <1>2, Numbers DEF ResType, UIDs
<1>4. ap[c].ver \in Nat
  BY Numbers
<1>5. CASE res[r].st = "absent" /\ Stores(c, r, Wanted(c))
  BY <1>1, <1>5
<1>6. CASE res[r].st # "absent" /\ ap[c].pc = "patch" /\ Stores(c, r, Patched(c, r))
  <2> DEFINE o == Patched(c, r)
  <2>1. /\ o \in ResType /\ o.st = res[r].st /\ o.last \in {0, ap[c].uid} /\ ap[c].uid \in o.owners
        /\ o.owners \subseteq res[r].owners \union {ap[c].uid}
        /\ kind[r] # "merge" => res[r].owners \ {ap[c].last} \subseteq o.owners
    BY <1>6, PatchedIs DEF ItemSteps
  <2>2. Stores(c, r, o)
    BY <1>6
  <2> HIDE DEF o
  <2>3. o.st \in {"alive", "deleting"}
    BY <1>2, <1>6, <2>1 DEF ResType
  <2>4. ASSUME kind[r] # "merge", NEW w \in res[r].owners, sets[w].st = "alive", sets[w].ver > ap[c].ver
        PROVE  w \in o.owners
    <3>1. ap[c].last = w => sets[w].ver <= ap[c].ver
      BY <1>3, <1>6, <2>4 DEF Reads
    <3>2. ap[c].last # w
      BY <1>3, <1>4, <2>4, <3>1
    <3> QED
      BY <2>1, <2>4, <3>2
  <2> QED
    BY <2>1, <2>2, <2>3, <2>4
<1>7. CASE /\ res[r] = ap[c].seen /\ ap[c].pc = "update"
           /\ Stores(c, r, [Wanted(c) EXCEPT !.st = res[r].st])
  <2> DEFINE o == [Wanted(c) EXCEPT !.st = res[r].st]
  <2>1. /\ o \in ResType /\ o.st = res[r].st /\ o.last \in {0, ap[c].uid} /\ o.owners = {ap[c].uid}
    BY <1>1, <1>2 DEF ResType
  <2>2. Stores(c, r, o)
    BY <1>7
  <2> HIDE DEF o
  <2>3. res[r].st # "absent" /\ \A w \in res[r].owners : sets[w].ver <= ap[c].ver
    BY <1>7 DEF Reads
  <2>4. \A w \in res[r].owners : ~(sets[w].ver > ap[c].ver)
    BY <1>3, <1>4, <2>3
  <2>5. o.st \in {"alive", "deleting"}
    BY <1>2, <2>1, <2>3 DEF ResType
  <2> QED
    BY <2>1, <2>2, <2>4, <2>5
<1> QED
  BY <1>5, <1>6, <1>7 DEF StoresAt

LEMMA TypesStep ==
    ASSUME Types, Chosen, Numbered, Versions, Reads, Outdated, Next
    PROVE  Types'
<1>1. ASSUME NEW c \in Callers, Item(c) PROVE Types'
  <2>1. ItemStep(c) /\ Effect(c) /\ faults' \in 0..MaxFaults
    BY <1>1, ItemMoves
  <2>2. UNCHANGED <<kind, sets, calls, deletes>> /\ ap' \in [Callers -> ApType]
    BY <2>1 DEF ItemStep
  <2>3. res' \in [Resources -> ResType] /\ doomed' \subseteq Resources
    <3>1. CASE Quiet
      BY <3>1 DEF Quiet, Types
    <3>2. CASE Writes(c)
      <4>1. PICK r \in Resources : StoresAt(c, r)
        BY <3>2 DEF Writes
      <4>2. PICK o \in ResType : Stores(c, r, o)
        BY <2>1, <4>1, StoredIs
      <4> QED
        BY <4>2 DEF Stores, Types
    <3>3. CASE Replaces(c)
      <4>1. PICK r \in Resources : res' = [res EXCEPT ![r].st = "deleting"]
        BY <3>3 DEF Replaces
      <4>2. res[r] \in ResType /\ res' = [res EXCEPT ![r] = [res[r] EXCEPT !.st = "deleting"]]
        BY <4>1 DEF Types
      <4>3. [res[r] EXCEPT !.st = "deleting"] \in ResType
        BY <4>2 DEF ResType
      <4> QED
        BY <3>3, <4>2, <4>3 DEF Replaces, Types
    <3> QED
      BY <2>1, <3>1, <3>2, <3>3 DEF Effect
  <2> QED
    BY <2>1, <2>2, <2>3 DEF Types
<1>2. ASSUME NEW c \in Callers, NEW chart \in Charts, Apply(c, chart) PROVE Types'
  BY <1>2, ApplyMoves DEF Types
<1>3. ASSUME NEW c \in Callers, NextVersion(c) PROVE Types'
  BY <1>3, NextVersionMoves DEF Types
<1>4. ASSUME NEW c \in Callers, CreateSet(c) PROVE Types'
  BY <1>4, CreateSetMoves DEF Types, Creation
<1>5. ASSUME NEW c \in Callers, UpdateStatus(c) PROVE Types'
  BY <1>5, UpdateStatusMoves DEF Types, StatusWritten
<1>6. ASSUME NEW c \in Callers, ListOld(c) PROVE Types'
  BY <1>6, ListOldMoves DEF Types
<1>7. ASSUME NEW c \in Callers, DeleteOld(c) PROVE Types'
  BY <1>7, DeleteOldMoves DEF Types, Prunes, SetsFade
<1>8. ASSUME NEW c \in Callers, Interrupted(c) PROVE Types'
  BY <1>8, InterruptedMoves DEF Types
<1>9. ASSUME NEW c \in Callers, Delete(c) PROVE Types'
  BY <1>9, DeleteMoves DEF Types, SetsFade
<1>10. ASSUME NEW r \in Resources, Collect(r) PROVE Types'
  BY <1>10, CollectMoves DEF Types, Collects
<1>11. ASSUME NEW r \in Resources, ResourceGone(r) PROVE Types'
  BY <1>11, ResourceGoneMoves DEF Types
<1>12. ASSUME NEW u \in UIDs, SetGone(u) PROVE Types'
  BY <1>12, SetGoneMoves DEF Types, SetsFade
<1> QED
  BY <1>1, <1>2, <1>3, <1>4, <1>5, <1>6, <1>7, <1>8, <1>9, <1>10, <1>11, <1>12, StepKinds

LEMMA ChosenStep ==
    ASSUME Types, Chosen, Numbered, Versions, Outdated, Next
    PROVE  Chosen'
<1>1. ASSUME NEW c \in Callers, Item(c) PROVE Chosen'
  BY <1>1, ItemMoves DEF ItemStep, SameApply, Chosen, Alone, Blank, Early, ItemSteps
<1>2. ASSUME NEW c \in Callers, NEW chart \in Charts, Apply(c, chart) PROVE Chosen'
  BY <1>2, ApplyMoves DEF Chosen, Alone, Blank, Early, ItemSteps
<1>3. ASSUME NEW c \in Callers, NextVersion(c) PROVE Chosen'
  BY <1>3, NextVersionMoves DEF Chosen, Alone, Blank, Early, ItemSteps
<1>4. ASSUME NEW c \in Callers, CreateSet(c) PROVE Chosen'
  BY <1>4, CreateSetMoves DEF Creation, Chosen, Alone, Blank, Early, ItemSteps
<1>5. ASSUME NEW c \in Callers, UpdateStatus(c) PROVE Chosen'
  BY <1>5, UpdateStatusMoves DEF SameApply, Chosen, Alone, Blank, Early, ItemSteps
<1>6. ASSUME NEW c \in Callers, ListOld(c) PROVE Chosen'
  BY <1>6, ListOldMoves DEF Carries, SameApply, Chosen, Alone, Blank, Early, ItemSteps
<1>7. ASSUME NEW c \in Callers, DeleteOld(c) PROVE Chosen'
  BY <1>7, DeleteOldMoves DEF Carries, SameApply, Chosen, Alone, Blank, Early, ItemSteps
<1>8. ASSUME NEW c \in Callers, Interrupted(c) PROVE Chosen'
  BY <1>8, InterruptedMoves DEF Chosen, Alone, Blank, Early, ItemSteps
<1>9. ASSUME NEW c \in Callers, Delete(c) PROVE Chosen'
  BY <1>9, DeleteMoves DEF Chosen
<1>10. ASSUME NEW r \in Resources, Collect(r) PROVE Chosen'
  BY <1>10, CollectMoves DEF Chosen
<1>11. ASSUME NEW r \in Resources, ResourceGone(r) PROVE Chosen'
  BY <1>11, ResourceGoneMoves DEF Chosen
<1>12. ASSUME NEW u \in UIDs, SetGone(u) PROVE Chosen'
  BY <1>12, SetGoneMoves DEF Chosen
<1> QED
  BY <1>1, <1>2, <1>3, <1>4, <1>5, <1>6, <1>7, <1>8, <1>9, <1>10, <1>11, <1>12, StepKinds

LEMMA OneVersionStep ==
    ASSUME Types, Chosen, Numbered, Versions, Outdated, OneVersion, Next
    PROVE  OneVersion'
<1>1. ASSUME NEW c \in Callers, Item(c) PROVE OneVersion'
  BY <1>1, ItemMoves DEF ItemStep, OneVersion, Exists
<1>2. ASSUME NEW c \in Callers, NEW chart \in Charts, Apply(c, chart) PROVE OneVersion'
  BY <1>2, ApplyMoves DEF OneVersion, Exists
<1>3. ASSUME NEW c \in Callers, NextVersion(c) PROVE OneVersion'
  BY <1>3, NextVersionMoves DEF OneVersion, Exists
<1>4. ASSUME NEW c \in Callers, CreateSet(c) PROVE OneVersion'
  BY <1>4, CreateSetMoves DEF Creation, OneVersion, Exists
<1>5. ASSUME NEW c \in Callers, UpdateStatus(c) PROVE OneVersion'
  BY <1>5, UpdateStatusMoves DEF StatusWritten, OneVersion, Exists
<1>6. ASSUME NEW c \in Callers, ListOld(c) PROVE OneVersion'
  BY <1>6, ListOldMoves DEF OneVersion, Exists
<1>7. ASSUME NEW c \in Callers, DeleteOld(c) PROVE OneVersion'
  BY <1>7, DeleteOldMoves DEF Prunes, SetsFade, OneVersion, Exists
<1>8. ASSUME NEW c \in Callers, Interrupted(c) PROVE OneVersion'
  BY <1>8, InterruptedMoves DEF OneVersion, Exists
<1>9. ASSUME NEW c \in Callers, Delete(c) PROVE OneVersion'
  BY <1>9, DeleteMoves DEF SetsFade, OneVersion, Exists
<1>10. ASSUME NEW r \in Resources, Collect(r) PROVE OneVersion'
  BY <1>10, CollectMoves DEF OneVersion, Exists
<1>11. ASSUME NEW r \in Resources, ResourceGone(r) PROVE OneVersion'
  BY <1>11, ResourceGoneMoves DEF OneVersion, Exists
<1>12. ASSUME NEW u \in UIDs, SetGone(u) PROVE OneVersion'
  BY <1>12, SetGoneMoves DEF SetsFade, OneVersion, Exists
<1> QED
  BY <1>1, <1>2, <1>3, <1>4, <1>5, <1>6, <1>7, <1>8, <1>9, <1>10, <1>11, <1>12, StepKinds

LEMMA CreatedMoves ==
    /\ SetsFade => Created' = Created
    /\ \A c \in Callers : ap[c].uid \in UIDs /\ StatusWritten(c) => Created' = Created
    /\ \A c \in Callers : Creation(c) => Created' = Created \union {ap[c].gen}
    /\ sets' = sets => Created' = Created
<1>1. SetsFade => Created' = Created
  BY DEF SetsFade, Created
<1>2. ASSUME NEW c \in Callers, ap[c].uid \in UIDs, StatusWritten(c) PROVE Created' = Created
  BY <1>2 DEF StatusWritten, Created
<1>3. ASSUME NEW c \in Callers, Creation(c) PROVE Created' = Created \union {ap[c].gen}
  BY <1>3 DEF Creation, Created
<1>4. sets' = sets => Created' = Created
  BY DEF Created
<1> QED
  BY <1>1, <1>2, <1>3, <1>4

LEMMA LateIs ==
    /\ "idle" \notin Late /\ "next" \notin Late /\ "create" \notin Late
    /\ ItemSteps \subseteq Late /\ {"crds", "status", "list", "prune"} \subseteq Late
    /\ \A s \in Late : s # "idle" /\ s \notin Early
BY DEF Late, Early, Steps, ItemSteps

LEMMA UidIs ==
    ASSUME Numbered, NEW c \in Callers, ap[c].pc \in Late
    PROVE  ap[c].uid \in UIDs /\ ap[c].uid \in Created /\ sets[ap[c].uid].ver = ap[c].ver
BY DEF Numbered, Created

LEMMA NumberedReturn ==
    ASSUME Numbered, NEW c \in Callers, Alone(c), ap'[c].pc = "idle", sets' = sets, calls' = calls
    PROVE  Numbered'
<1>1. Created' = Created
  BY CreatedMoves
<1>2. "idle" \notin Early /\ "idle" \notin Late
  BY LateIs DEF Early
<1> QED
  BY <1>1, <1>2 DEF Numbered, Alone

LEMMA NumberedStep ==
    ASSUME Types, Chosen, Numbered, Versions, Outdated, Next
    PROVE  Numbered'
<1>1. ASSUME NEW c \in Callers, Item(c) PROVE Numbered'
  <2>1. ItemStep(c)
    BY <1>1, ItemMoves
  <2>2. ap[c].pc \in Late /\ ap'[c].pc \in Late /\ ap[c].pc # "idle" /\ ap'[c].pc \notin Early
    BY <2>1, LateIs DEF ItemStep
  <2>3. Created' = Created /\ sets' = sets /\ calls' = calls
    BY <2>1, CreatedMoves DEF ItemStep
  <2>4. SameApply(ap'[c], ap[c]) /\ Alone(c)
    BY <2>1 DEF ItemStep
  <2> QED
    BY <2>2, <2>3, <2>4 DEF Numbered, Alone, SameApply
<1>2. ASSUME NEW c \in Callers, NEW chart \in Charts, Apply(c, chart) PROVE Numbered'
  <2>1. /\ sets' = sets /\ calls' = calls + 1 /\ calls \in Nat /\ Alone(c)
        /\ ap'[c].pc = "next" /\ ap'[c].gen = calls + 1
    BY <1>2, ApplyMoves, Numbers
  <2>2. Created' = Created
    BY <2>1, CreatedMoves
  <2>3. calls + 1 \notin 1..calls /\ calls + 1 \in 1..(calls + 1) /\ 1..calls \subseteq 1..(calls + 1)
    BY <2>1
  <2> QED
    BY <2>1, <2>2, <2>3, LateIs DEF Numbered, Alone
<1>3. ASSUME NEW c \in Callers, NextVersion(c) PROVE Numbered'
  <2>1. /\ sets' = sets /\ calls' = calls /\ Alone(c) /\ ap[c].pc = "next" /\ ap'[c].pc = "create"
        /\ ap'[c].gen = ap[c].gen
    BY <1>3, NextVersionMoves
  <2>2. Created' = Created /\ ap[c].pc \in Early
    BY <2>1, CreatedMoves DEF Early
  <2> QED
    BY <2>1, <2>2, LateIs DEF Numbered, Alone
<1>4. ASSUME NEW c \in Callers, CreateSet(c) PROVE Numbered'
  <2>1. calls' = calls /\ Alone(c) /\ ap[c].pc = "create"
    BY <1>4, CreateSetMoves
  <2>2. CASE sets' = sets /\ ap'[c].pc = "idle"
    BY <2>1, <2>2, NumberedReturn
  <2>3. CASE Creation(c)
    <3>1. Created' = Created \union {ap[c].gen}
      BY <2>3, CreatedMoves
    <3>2. ap[c].gen \in 1..calls /\ ap[c].gen \notin Created
      BY <2>1 DEF Numbered, Early
    <3>3. Created' \subseteq 1..calls'
      BY <2>1, <3>1, <3>2 DEF Numbered
    <3>4. ASSUME NEW d \in Callers
          PROVE  /\ ap'[d].pc # "idle" => ap'[d].gen \in 1..calls'
                 /\ ap'[d].pc \in Early => ap'[d].gen \notin Created'
                 /\ ap'[d].pc \in Late => /\ ap'[d].uid = ap'[d].gen /\ ap'[d].uid \in Created'
                                          /\ sets'[ap'[d].uid].ver = ap'[d].ver
                                          /\ sets'[ap'[d].uid].chart = ap'[d].chart
      <4>1. CASE d = c
        BY <2>1, <2>3, <3>1, <3>2, <4>1, LateIs DEF Creation
      <4>2. CASE d # c
        <5>1. ap'[d] = ap[d]
          BY <2>1, <4>2 DEF Alone
        <5>2. ap[d].pc # "idle" => ap[d].gen # ap[c].gen
          BY <2>1, <4>2 DEF Numbered
        <5>3. ap[d].pc \in Early => ap[d].pc # "idle"
          BY DEF Early
        <5>4. ap[d].pc \in Late => ap[d].uid \in UIDs \ {ap[c].gen}
          BY <5>2, LateIs, UidIs DEF Numbered
        <5> QED
          BY <2>1, <2>3, <3>1, <5>1, <5>2, <5>3, <5>4 DEF Creation, Numbered
      <4> QED
        BY <4>1, <4>2
    <3>5. \A d, e \in Callers : ap'[d].pc # "idle" /\ ap'[e].pc # "idle" /\ ap'[d].gen = ap'[e].gen => d = e
      BY <2>1, <2>3 DEF Creation, Numbered, Alone
    <3> QED
      BY <3>3, <3>4, <3>5 DEF Numbered
  <2> QED
    BY <1>4, <2>2, <2>3, CreateSetMoves
<1>5. ASSUME NEW c \in Callers, UpdateStatus(c) PROVE Numbered'
  <2>1. calls' = calls /\ Alone(c) /\ ap[c].pc \in Late /\ ap[c].pc # "idle"
    BY <1>5, UpdateStatusMoves, LateIs
  <2>2. ap[c].uid \in UIDs
    BY <2>1, UidIs
  <2>3. /\ Created' = Created
        /\ \A w \in UIDs : sets'[w].ver = sets[w].ver /\ sets'[w].chart = sets[w].chart
    BY <1>5, <2>2, UpdateStatusMoves, CreatedMoves DEF StatusWritten
  <2>4. ap'[c].pc = "idle" \/ (ap'[c].pc = "list" /\ SameApply(ap'[c], ap[c]))
    BY <1>5, UpdateStatusMoves
  <2>5. Created \subseteq UIDs
    BY DEF Created
  <2> QED
    BY <2>1, <2>3, <2>4, <2>5, LateIs DEF Numbered, Alone, SameApply, Early
<1>6. ASSUME NEW c \in Callers, ListOld(c) PROVE Numbered'
  <2>1. calls' = calls /\ Alone(c) /\ ap[c].pc \in Late /\ ap[c].pc # "idle" /\ sets' = sets
    BY <1>6, ListOldMoves, LateIs
  <2>2. ap'[c].pc = "idle" \/ (ap'[c].pc = "prune" /\ SameApply(ap'[c], ap[c]))
    BY <1>6, ListOldMoves DEF Carries
  <2> QED
    BY <2>1, <2>2, CreatedMoves, LateIs DEF Numbered, Alone, SameApply, Early
<1>7. ASSUME NEW c \in Callers, DeleteOld(c) PROVE Numbered'
  <2>1. calls' = calls /\ Alone(c) /\ ap[c].pc \in Late /\ ap[c].pc # "idle" /\ SetsFade
    BY <1>7, DeleteOldMoves, LateIs DEF Prunes
  <2>2. ap'[c].pc = "idle" \/ (ap'[c].pc = "prune" /\ SameApply(ap'[c], ap[c]))
    BY <1>7, DeleteOldMoves DEF Carries
  <2>3. /\ Created' = Created /\ Created \subseteq UIDs
        /\ \A w \in UIDs : sets'[w].ver = sets[w].ver /\ sets'[w].chart = sets[w].chart
    BY <2>1, CreatedMoves DEF SetsFade, Created
  <2> QED
    BY <2>1, <2>2, <2>3, LateIs DEF Numbered, Alone, SameApply, Early
<1>8. ASSUME NEW c \in Callers, Interrupted(c) PROVE Numbered'
  BY <1>8, InterruptedMoves, NumberedReturn
<1>9. ASSUME NEW c \in Callers, Delete(c) PROVE Numbered'
  <2>1. calls' = calls /\ ap' = ap /\ SetsFade
    BY <1>9, DeleteMoves
  <2>2. /\ Created' = Created /\ Created \subseteq UIDs
        /\ \A w \in UIDs : sets'[w].ver = sets[w].ver /\ sets'[w].chart = sets[w].chart
    BY <2>1, CreatedMoves DEF SetsFade, Created
  <2> QED
    BY <2>1, <2>2 DEF Numbered
<1>10. ASSUME NEW r \in Resources, Collect(r) PROVE Numbered'
  BY <1>10, CollectMoves, CreatedMoves DEF Numbered
<1>11. ASSUME NEW r \in Resources, ResourceGone(r) PROVE Numbered'
  BY <1>11, ResourceGoneMoves, CreatedMoves DEF Numbered
<1>12. ASSUME NEW u \in UIDs, SetGone(u) PROVE Numbered'
  <2>1. calls' = calls /\ ap' = ap /\ SetsFade
    BY <1>12, SetGoneMoves
  <2>2. /\ Created' = Created /\ Created \subseteq UIDs
        /\ \A w \in UIDs : sets'[w].ver = sets[w].ver /\ sets'[w].chart = sets[w].chart
    BY <2>1, CreatedMoves DEF SetsFade, Created
  <2> QED
    BY <2>1, <2>2 DEF Numbered
<1> QED
  BY <1>1, <1>2, <1>3, <1>4, <1>5, <1>6, <1>7, <1>8, <1>9, <1>10, <1>11, <1>12, StepKinds

LEMMA VersionsStep ==
    ASSUME Types, Chosen, Numbered, Versions, Outdated, Next
    PROVE  Versions'
<1>1. ASSUME NEW c \in Callers, Item(c) PROVE Versions'
  <2>1. Created' = Created /\ (\A w \in UIDs : sets'[w].ver = sets[w].ver)
    BY <1>1, ItemMoves, CreatedMoves DEF ItemStep
  <2>2. \A d \in Callers : ap'[d].pc = "create" => ap'[d] = ap[d]
    BY <1>1, ItemMoves DEF ItemStep, Alone, ItemSteps
  <2> QED
    BY <2>1, <2>2 DEF Versions, Created
<1>2. ASSUME NEW c \in Callers, NEW chart \in Charts, Apply(c, chart) PROVE Versions'
  <2>1. Created' = Created /\ (\A w \in UIDs : sets'[w].ver = sets[w].ver)
    BY <1>2, ApplyMoves, CreatedMoves
  <2>2. \A d \in Callers : ap'[d].pc = "create" => ap'[d] = ap[d]
    BY <1>2, ApplyMoves DEF Alone
  <2> QED
    BY <2>1, <2>2 DEF Versions, Created
<1>3. ASSUME NEW c \in Callers, NextVersion(c) PROVE Versions'
  <2>1. Created' = Created /\ sets' = sets /\ Alone(c) /\ ap'[c].ver <= Cardinality(Created) + 1
    BY <1>3, NextVersionMoves, CreatedMoves
  <2> QED
    BY <2>1 DEF Versions, Alone
<1>4. ASSUME NEW c \in Callers, CreateSet(c) PROVE Versions'
  <2>1. Alone(c) /\ ap[c].pc = "create"
    BY <1>4, CreateSetMoves
  <2>2. CASE sets' = sets /\ ap'[c].pc = "idle"
    BY <2>1, <2>2, CreatedMoves DEF Versions, Alone
  <2>3. CASE Creation(c)
    <3>1. Created' = Created \union {ap[c].gen} /\ ap[c].gen \notin Created
      BY <2>1, <2>3, CreatedMoves DEF Numbered, Early
    <3>2. IsFiniteSet(Created) /\ Cardinality(Created) \in Nat
      BY CreatedCount
    <3>3. Cardinality(Created') = Cardinality(Created) + 1
      BY <3>1, <3>2, FS_AddElement
    <3>4. ASSUME NEW u \in Created' PROVE sets'[u].ver <= Cardinality(Created')
      <4>1. CASE u = ap[c].gen
        <5>1. sets'[u].ver = ap[c].ver /\ ap[c].ver <= Cardinality(Created) + 1
          BY <2>1, <2>3, <4>1 DEF Creation, Versions
        <5> QED
          BY <3>3, <5>1
      <4>2. CASE u # ap[c].gen
        <5>1. u \in Created /\ u \in UIDs /\ sets'[u] = sets[u]
          BY <2>3, <3>1, <4>2 DEF Creation, Created
        <5>2. sets[u].ver <= Cardinality(Created) /\ sets[u].ver \in Nat
          BY <5>1, Numbers DEF Versions
        <5> QED
          BY <3>2, <3>3, <5>1, <5>2
      <4> QED
        BY <4>1, <4>2
    <3>5. ASSUME NEW d \in Callers, ap'[d].pc = "create" PROVE ap'[d].ver <= Cardinality(Created') + 1
      <4>1. ap'[d] = ap[d] /\ ap[d].ver \in Nat
        BY <2>1, <2>3, <3>5, Numbers DEF Creation, Alone
      <4>2. ap[d].ver <= Cardinality(Created) + 1
        BY <3>5, <4>1 DEF Versions
      <4> QED
        BY <3>2, <3>3, <4>1, <4>2
    <3> QED
      BY <3>4, <3>5 DEF Versions
  <2> QED
    BY <1>4, <2>2, <2>3, CreateSetMoves
<1>5. ASSUME NEW c \in Callers, UpdateStatus(c) PROVE Versions'
  <2>1. ap[c].uid \in UIDs
    BY <1>5, UpdateStatusMoves, LateIs, UidIs
  <2>2. Created' = Created /\ (\A w \in UIDs : sets'[w].ver = sets[w].ver)
    BY <1>5, <2>1, UpdateStatusMoves, CreatedMoves DEF StatusWritten
  <2>3. \A d \in Callers : ap'[d].pc = "create" => ap'[d] = ap[d]
    BY <1>5, UpdateStatusMoves DEF Alone
  <2> QED
    BY <2>2, <2>3 DEF Versions, Created
<1>6. ASSUME NEW c \in Callers, ListOld(c) PROVE Versions'
  <2>1. Created' = Created /\ (\A w \in UIDs : sets'[w].ver = sets[w].ver)
    BY <1>6, ListOldMoves, CreatedMoves
  <2>2. \A d \in Callers : ap'[d].pc = "create" => ap'[d] = ap[d]
    BY <1>6, ListOldMoves DEF Alone
  <2> QED
    BY <2>1, <2>2 DEF Versions, Created
<1>7. ASSUME NEW c \in Callers, DeleteOld(c) PROVE Versions'
  <2>1. Created' = Created /\ (\A w \in UIDs : sets'[w].ver = sets[w].ver)
    BY <1>7, DeleteOldMoves, CreatedMoves DEF Prunes, SetsFade
  <2>2. \A d \in Callers : ap'[d].pc = "create" => ap'[d] = ap[d]
    BY <1>7, DeleteOldMoves DEF Alone
  <2> QED
    BY <2>1, <2>2 DEF Versions, Created
<1>8. ASSUME NEW c \in Callers, Interrupted(c) PROVE Versions'
  <2>1. Created' = Created /\ (\A w \in UIDs : sets'[w].ver = sets[w].ver)
    BY <1>8, InterruptedMoves, CreatedMoves
  <2>2. \A d \in Callers : ap'[d].pc = "create" => ap'[d] = ap[d]
    BY <1>8, InterruptedMoves DEF Alone
  <2> QED
    BY <2>1, <2>2 DEF Versions, Created
<1>9. ASSUME NEW c \in Callers, Delete(c) PROVE Versions'
  <2>1. Created' = Created /\ (\A w \in UIDs : sets'[w].ver = sets[w].ver)
    BY <1>9, DeleteMoves, CreatedMoves DEF SetsFade
  <2>2. \A d \in Callers : ap'[d].pc = "create" => ap'[d] = ap[d]
    BY <1>9, DeleteMoves
  <2> QED
    BY <2>1, <2>2 DEF Versions, Created
<1>10. ASSUME NEW r \in Resources, Collect(r) PROVE Versions'
  <2>1. Created' = Created /\ (\A w \in UIDs : sets'[w].ver = sets[w].ver)
    BY <1>10, CollectMoves, CreatedMoves
  <2>2. \A d \in Callers : ap'[d].pc = "create" => ap'[d] = ap[d]
    BY <1>10, CollectMoves DEF Alone
  <2> QED
    BY <2>1, <2>2 DEF Versions, Created
<1>11. ASSUME NEW r \in Resources, ResourceGone(r) PROVE Versions'
  <2>1. Created' = Created /\ (\A w \in UIDs : sets'[w].ver = sets[w].ver)
    BY <1>11, ResourceGoneMoves, CreatedMoves
  <2>2. \A d \in Callers : ap'[d].pc = "create" => ap'[d] = ap[d]
    BY <1>11, ResourceGoneMoves DEF Alone
  <2> QED
    BY <2>1, <2>2 DEF Versions, Created
<1>12. ASSUME NEW u \in UIDs, SetGone(u) PROVE Versions'
  <2>1. Created' = Created /\ (\A w \in UIDs : sets'[w].ver = sets[w].ver)
    BY <1>12, SetGoneMoves, CreatedMoves DEF SetsFade
  <2>2. \A d \in Callers : ap'[d].pc = "create" => ap'[d] = ap[d]
    BY <1>12, SetGoneMoves
  <2> QED
    BY <2>1, <2>2 DEF Versions, Created
<1> QED
  BY <1>1, <1>2, <1>3, <1>4, <1>5, <1>6, <1>7, <1>8, <1>9, <1>10, <1>11, <1>12, StepKinds

\* A step that leaves the status of the ResourceSets alone, and the others' Applies.
SameStatus ==
    \A u \in UIDs : /\ sets'[u].phase = sets[u].phase /\ sets'[u].applied = sets[u].applied
                    /\ sets'[u].chart = sets[u].chart

LEMMA StatusKept ==
    ASSUME Numbered, StatusOnce, SameStatus, NEW c \in Callers, Alone(c),
           \/ ap'[c].pc \notin Late
           \/ /\ ap[c].pc \in Late /\ ap'[c].uid = ap[c].uid
              /\ (ap[c].pc \in {"list", "prune"}) = (ap'[c].pc \in {"list", "prune"})
    PROVE  StatusOnce'
<1>1. \A d \in Callers : ap[d].pc \in Late => ap[d].uid \in UIDs
  BY UidIs
<1> QED
  BY <1>1 DEF StatusOnce, Settled, SameStatus, Alone

LEMMA StatusOnceStep ==
    ASSUME Types, Chosen, Numbered, Versions, Outdated, StatusOnce, Next
    PROVE  StatusOnce'
<1>1. ASSUME NEW c \in Callers, Item(c) PROVE StatusOnce'
  <2>1. /\ sets' = sets /\ Alone(c) /\ ap[c].pc \in Late /\ ap'[c].uid = ap[c].uid
        /\ ap[c].pc \notin {"list", "prune"} /\ ap'[c].pc \notin {"list", "prune"}
    BY <1>1, ItemMoves, LateIs DEF ItemStep, SameApply, ItemSteps
  <2> QED
    BY <2>1, StatusKept DEF SameStatus
<1>2. ASSUME NEW c \in Callers, NEW chart \in Charts, Apply(c, chart) PROVE StatusOnce'
  <2>1. sets' = sets /\ Alone(c) /\ ap'[c].pc \notin Late
    BY <1>2, ApplyMoves, LateIs
  <2> QED
    BY <2>1, StatusKept DEF SameStatus
<1>3. ASSUME NEW c \in Callers, NextVersion(c) PROVE StatusOnce'
  <2>1. sets' = sets /\ Alone(c) /\ ap'[c].pc \notin Late
    BY <1>3, NextVersionMoves, LateIs
  <2> QED
    BY <2>1, StatusKept DEF SameStatus
<1>4. ASSUME NEW c \in Callers, CreateSet(c) PROVE StatusOnce'
  <2>1. Alone(c) /\ ap[c].pc = "create"
    BY <1>4, CreateSetMoves
  <2>2. CASE sets' = sets /\ ap'[c].pc = "idle"
    BY <2>1, <2>2, LateIs, StatusKept DEF SameStatus
  <2>3. CASE Creation(c)
    <3>1. ap[c].gen \notin Created /\ ap[c].gen \in UIDs
      BY <2>1, <2>3 DEF Numbered, Early, Creation
    <3>2. ASSUME NEW d \in Callers, d # c, ap[d].pc \in Late PROVE sets'[ap[d].uid] = sets[ap[d].uid]
      BY <2>3, <3>1, <3>2, UidIs DEF Creation
    <3> QED
      BY <2>1, <2>3, <3>2 DEF StatusOnce, Settled, Alone, Creation
  <2> QED
    BY <1>4, <2>2, <2>3, CreateSetMoves
<1>5. ASSUME NEW c \in Callers, UpdateStatus(c) PROVE StatusOnce'
  <2>1. Alone(c) /\ ap[c].pc = "status" /\ ap[c].pc \in Late
    BY <1>5, UpdateStatusMoves, LateIs
  <2>2. CASE sets' = sets /\ ap'[c].pc = "idle"
    BY <2>1, <2>2, LateIs, StatusKept DEF SameStatus
  <2>3. CASE StatusWritten(c)
    <3>1. ASSUME NEW d \in Callers, d # c, ap[d].pc \in Late PROVE sets'[ap[d].uid] = sets[ap[d].uid]
      <4>1. ap[d].uid \in UIDs /\ ap[d].uid # ap[c].uid
        BY <2>1, <3>1, LateIs, UidIs DEF Numbered
      <4> QED
        BY <2>3, <4>1 DEF StatusWritten
    <3>2. ap'[c].pc \in Late => ap'[c].pc = "list" /\ Settled(ap[c].uid)'
      BY <1>5, UpdateStatusMoves, LateIs
    <3> QED
      BY <2>1, <3>1, <3>2 DEF StatusOnce, Settled, Alone
  <2> QED
    BY <1>5, <2>2, <2>3, UpdateStatusMoves
<1>6. ASSUME NEW c \in Callers, ListOld(c) PROVE StatusOnce'
  <2>1. /\ sets' = sets /\ Alone(c) /\ ap[c].pc = "list" /\ ap[c].pc \in Late
        /\ ap'[c].pc = "idle" \/ (ap'[c].pc = "prune" /\ ap'[c].uid = ap[c].uid)
    BY <1>6, ListOldMoves, LateIs DEF Carries, SameApply
  <2> QED
    BY <2>1, StatusKept, LateIs DEF SameStatus
<1>7. ASSUME NEW c \in Callers, DeleteOld(c) PROVE StatusOnce'
  <2>1. /\ SameStatus /\ Alone(c) /\ ap[c].pc = "prune" /\ ap[c].pc \in Late
        /\ ap'[c].pc = "idle" \/ (ap'[c].pc = "prune" /\ ap'[c].uid = ap[c].uid)
    BY <1>7, DeleteOldMoves, LateIs DEF Carries, SameApply, Prunes, SetsFade, SameStatus
  <2> QED
    BY <2>1, StatusKept, LateIs
<1>8. ASSUME NEW c \in Callers, Interrupted(c) PROVE StatusOnce'
  <2>1. sets' = sets /\ Alone(c) /\ ap'[c].pc \notin Late
    BY <1>8, InterruptedMoves, LateIs
  <2> QED
    BY <2>1, StatusKept DEF SameStatus
<1>9. ASSUME NEW c \in Callers, Delete(c) PROVE StatusOnce'
  <2>1. SameStatus /\ ap' = ap
    BY <1>9, DeleteMoves DEF SetsFade, SameStatus
  <2> QED
    BY <2>1, UidIs DEF StatusOnce, Settled, SameStatus
<1>10. ASSUME NEW r \in Resources, Collect(r) PROVE StatusOnce'
  <2>1. SameStatus /\ ap' = ap
    BY <1>10, CollectMoves DEF SameStatus
  <2> QED
    BY <2>1, UidIs DEF StatusOnce, Settled, SameStatus
<1>11. ASSUME NEW r \in Resources, ResourceGone(r) PROVE StatusOnce'
  <2>1. SameStatus /\ ap' = ap
    BY <1>11, ResourceGoneMoves DEF SameStatus
  <2> QED
    BY <2>1, UidIs DEF StatusOnce, Settled, SameStatus
<1>12. ASSUME NEW u \in UIDs, SetGone(u) PROVE StatusOnce'
  <2>1. SameStatus /\ ap' = ap
    BY <1>12, SetGoneMoves DEF SetsFade, SameStatus
  <2> QED
    BY <2>1, UidIs DEF StatusOnce, Settled, SameStatus
<1> QED
  BY <1>1, <1>2, <1>3, <1>4, <1>5, <1>6, <1>7, <1>8, <1>9, <1>10, <1>11, <1>12, StepKinds

LEMMA OwnedStep ==
    ASSUME Types, Chosen, Numbered, Versions, Reads, Outdated, Owned, Next
    PROVE  Owned'
<1>1. ASSUME NEW c \in Callers, Item(c) PROVE Owned'
  <2>1. ItemStep(c) /\ Effect(c) /\ ap[c].pc \in Late
    BY <1>1, ItemMoves, LateIs DEF ItemStep
  <2>2. sets' = sets /\ Created' = Created /\ Alone(c) /\ ap[c].uid \in Created
    BY <2>1, CreatedMoves, UidIs DEF ItemStep
  <2>3. ASSUME NEW d \in Callers
        PROVE  ap'[d].seen.owners \subseteq Created /\ (ap'[d].last # 0 => ap'[d].last \in Created)
    <3>1. CASE d # c
      BY <2>2, <3>1 DEF Alone, Owned
    <3>2. CASE d = c /\ Forgets(c)
      BY <3>2, AbsentTyped DEF Forgets, Owned
    <3>3. CASE d = c /\ (GotPatch(c) \/ GotUpdate(c))
      BY <3>3 DEF GotPatch, GotUpdate, Owned
    <3>4. Writes(c) \/ Replaces(c) => Forgets(c)
      BY DEF Writes, StoresAt, Stores, Replaces
    <3> QED
      BY <2>1, <3>1, <3>2, <3>3, <3>4 DEF Effect
  <2>4. ASSUME NEW r \in Resources
        PROVE  /\ res'[r].owners \subseteq Created
               /\ res'[r].last # 0 => /\ res'[r].last \in Created
                                      /\ sets[res'[r].last].st = "alive" => res'[r].last \in res'[r].owners
    <3>1. CASE res'[r] = res[r]
      BY <3>1 DEF Owned
    <3>2. CASE Writes(c)
      <4>1. PICK q \in Resources : StoresAt(c, q)
        BY <3>2 DEF Writes
      <4>2. PICK o \in ResType : /\ Stores(c, q, o) /\ ap[c].uid \in o.owners
                                 /\ o.owners \subseteq res[q].owners \union {ap[c].uid}
                                 /\ o.last \in {0, ap[c].uid}
        BY <2>1, <4>1, StoredIs
      <4>3. res'[q] = o /\ (r # q => res'[r] = res[r])
        BY <4>2 DEF Stores, Types
      <4>4. o.owners \subseteq Created
        BY <2>2, <4>2 DEF Owned
      <4> QED
        BY <2>2, <3>1, <4>2, <4>3, <4>4
    <3>3. CASE Replaces(c)
      <4>1. PICK q \in Resources : res' = [res EXCEPT ![q].st = "deleting"]
        BY <3>3 DEF Replaces
      <4>2. res[r] \in ResType /\ (r # q => res'[r] = res[r])
        BY <4>1 DEF Types
      <4>3. r = q => res'[r] = [res[r] EXCEPT !.st = "deleting"]
        BY <4>1 DEF Types
      <4>4. res'[r].owners = res[r].owners /\ res'[r].last = res[r].last
        BY <4>2, <4>3 DEF ResType
      <4> QED
        BY <4>4 DEF Owned
    <3>4. CASE Quiet
      BY <3>1, <3>4 DEF Quiet
    <3> QED
      BY <2>1, <3>2, <3>3, <3>4 DEF Effect
  <2> QED
    BY <2>2, <2>3, <2>4 DEF Owned
<1>2. ASSUME NEW c \in Callers, NEW chart \in Charts, Apply(c, chart) PROVE Owned'
  <2>1. Created' = Created /\ res' = res /\ sets' = sets
    BY <1>2, ApplyMoves, CreatedMoves
  <2>2. \A d \in Callers : /\ ap'[d].seen = ap[d].seen \/ ap'[d].seen.owners \subseteq Created'
                           /\ ap'[d].last = ap[d].last \/ ap'[d].last \in Created' \union {0}
    BY <1>2, ApplyMoves, AbsentTyped DEF Alone, Blank
  <2> QED
    BY <2>1, <2>2 DEF Owned
<1>3. ASSUME NEW c \in Callers, NextVersion(c) PROVE Owned'
  <2>1. Created' = Created /\ res' = res /\ sets' = sets
    BY <1>3, NextVersionMoves, CreatedMoves
  <2>2. \A d \in Callers : /\ ap'[d].seen = ap[d].seen \/ ap'[d].seen.owners \subseteq Created'
                           /\ ap'[d].last = ap[d].last \/ ap'[d].last \in Created' \union {0}
    BY <1>3, NextVersionMoves, AbsentTyped DEF Alone, Blank
  <2> QED
    BY <2>1, <2>2 DEF Owned
<1>4. ASSUME NEW c \in Callers, CreateSet(c) PROVE Owned'
  <2>1. Alone(c) /\ ap[c].pc = "create" /\ res' = res
    BY <1>4, CreateSetMoves
  <2>2. \A d \in Callers : /\ ap'[d].seen.owners \subseteq ap[d].seen.owners
                           /\ ap'[d].last \in {0, ap[d].last}
    BY <1>4, CreateSetMoves, AbsentTyped DEF Alone, Blank, Creation
  <2>3. CASE sets' = sets
    <3>1. Created' = Created
      BY <2>3, CreatedMoves
    <3> QED
      BY <2>1, <2>2, <2>3, <3>1 DEF Owned
  <2>4. CASE Creation(c)
    <3>1. Created' = Created \union {ap[c].gen} /\ ap[c].gen \notin Created
      BY <2>1, <2>4, CreatedMoves DEF Numbered, Early
    <3>2. \A u \in Created : sets'[u] = sets[u]
      BY <2>4, <3>1 DEF Creation, Created
    <3> QED
      BY <2>1, <2>2, <3>1, <3>2 DEF Owned
  <2> QED
    BY <1>4, <2>3, <2>4, CreateSetMoves
<1>5. ASSUME NEW c \in Callers, UpdateStatus(c) PROVE Owned'
  <2>1. ap[c].uid \in UIDs
    BY <1>5, UpdateStatusMoves, LateIs, UidIs
  <2>2. Created' = Created /\ Created \subseteq UIDs /\ res' = res
    BY <1>5, <2>1, UpdateStatusMoves, CreatedMoves DEF Created
  <2>3. \A u \in UIDs : sets'[u].st = sets[u].st
    BY <1>5, <2>1, UpdateStatusMoves DEF StatusWritten
  <2>4. \A d \in Callers : /\ ap'[d].seen.owners \subseteq ap[d].seen.owners
                           /\ ap'[d].last \in {0, ap[d].last}
    BY <1>5, UpdateStatusMoves, AbsentTyped DEF Alone, Blank
  <2> QED
    BY <2>2, <2>3, <2>4 DEF Owned
<1>6. ASSUME NEW c \in Callers, ListOld(c) PROVE Owned'
  <2>1. Created' = Created /\ res' = res /\ sets' = sets
    BY <1>6, ListOldMoves, CreatedMoves
  <2>2. \A d \in Callers : /\ ap'[d].seen = ap[d].seen \/ ap'[d].seen.owners \subseteq Created'
                           /\ ap'[d].last = ap[d].last \/ ap'[d].last \in Created' \union {0}
    BY <1>6, ListOldMoves, AbsentTyped DEF Alone, Blank, Carries
  <2> QED
    BY <2>1, <2>2 DEF Owned
<1>7. ASSUME NEW c \in Callers, DeleteOld(c) PROVE Owned'
  <2>1. Created' = Created /\ Created \subseteq UIDs /\ res' = res
    BY <1>7, DeleteOldMoves, CreatedMoves DEF Created, Prunes
  <2>2. \A u \in UIDs : sets'[u].st = "alive" => sets[u].st = "alive"
    BY <1>7, DeleteOldMoves DEF Prunes, SetsFade
  <2>3. \A d \in Callers : /\ ap'[d].seen.owners \subseteq ap[d].seen.owners
                           /\ ap'[d].last \in {0, ap[d].last}
    BY <1>7, DeleteOldMoves, AbsentTyped DEF Alone, Blank, Carries
  <2> QED
    BY <2>1, <2>2, <2>3 DEF Owned
<1>8. ASSUME NEW c \in Callers, Interrupted(c) PROVE Owned'
  <2>1. Created' = Created /\ res' = res /\ sets' = sets
    BY <1>8, InterruptedMoves, CreatedMoves
  <2>2. \A d \in Callers : /\ ap'[d].seen = ap[d].seen \/ ap'[d].seen.owners \subseteq Created'
                           /\ ap'[d].last = ap[d].last \/ ap'[d].last \in Created' \union {0}
    BY <1>8, InterruptedMoves, AbsentTyped DEF Alone, Blank
  <2> QED
    BY <2>1, <2>2 DEF Owned
<1>9. ASSUME NEW c \in Callers, Delete(c) PROVE Owned'
  <2>1. Created' = Created /\ Created \subseteq UIDs /\ res' = res /\ ap' = ap
    BY <1>9, DeleteMoves, CreatedMoves DEF Created
  <2>2. \A w \in UIDs : sets'[w].st = "alive" => sets[w].st = "alive"
    BY <1>9, DeleteMoves DEF SetsFade
  <2> QED
    BY <2>1, <2>2 DEF Owned
<1>10. ASSUME NEW r \in Resources, Collect(r) PROVE Owned'
  <2>1. Created' = Created /\ sets' = sets /\ ap' = ap /\ Collects(r)
    BY <1>10, CollectMoves, CreatedMoves
  <2>2. ASSUME NEW q \in Resources
        PROVE  /\ res'[q].owners \subseteq res[q].owners /\ res'[q].last = res[q].last
               /\ \A w \in res[q].owners : sets[w].st = "alive" => w \in res'[q].owners
    BY <2>1 DEF Collects, Solid
  <2> QED
    BY <2>1, <2>2 DEF Owned
<1>11. ASSUME NEW r \in Resources, ResourceGone(r) PROVE Owned'
  <2>1. /\ Created' = Created /\ sets' = sets /\ ap' = ap
        /\ res'[r] = Absent /\ \A q \in Resources \ {r} : res'[q] = res[q]
    BY <1>11, ResourceGoneMoves, CreatedMoves
  <2>2. Absent.owners = {} /\ Absent.last = 0
    BY DEF Absent
  <2> QED
    BY <2>1, <2>2 DEF Owned
<1>12. ASSUME NEW u \in UIDs, SetGone(u) PROVE Owned'
  <2>1. Created' = Created /\ Created \subseteq UIDs /\ res' = res /\ ap' = ap
    BY <1>12, SetGoneMoves, CreatedMoves DEF Created
  <2>2. \A w \in UIDs : sets'[w].st = "alive" => sets[w].st = "alive"
    BY <1>12, SetGoneMoves DEF SetsFade
  <2> QED
    BY <2>1, <2>2 DEF Owned
<1> QED
  BY <1>1, <1>2, <1>3, <1>4, <1>5, <1>6, <1>7, <1>8, <1>9, <1>10, <1>11, <1>12, StepKinds

\* A step that changes neither versions nor what the Applies that are about to write
\* have read, and makes no ResourceSet come alive that they know.
LEMMA ReadsKept ==
    ASSUME Owned, Reads,
           \A u \in Created : sets'[u].ver = sets[u].ver /\ (sets'[u].st = "alive" => sets[u].st = "alive"),
           \A c \in Callers : ap'[c].pc \in {"patch", "update"} => ap'[c] = ap[c]
    PROVE  Reads'
BY DEF Owned, Reads

LEMMA ReadsStep ==
    ASSUME Types, Chosen, Numbered, Versions, Outdated, Owned, Reads, Next
    PROVE  Reads'
<1>1. ASSUME NEW c \in Callers, Item(c) PROVE Reads'
  <2>1. ItemStep(c) /\ Effect(c)
    BY <1>1, ItemMoves
  <2>2. sets' = sets /\ Alone(c) /\ ap'[c].ver = ap[c].ver
    BY <2>1 DEF ItemStep, SameApply
  <2>3. CASE Forgets(c)
    <3>1. \A d \in Callers : ap'[d].pc \in {"patch", "update"} => ap'[d] = ap[d]
      BY <2>2, <2>3 DEF Forgets, Alone
    <3> QED
      BY <2>2, <3>1, ReadsKept
  <2>4. CASE GotPatch(c)
    <3>1. PICK r \in Resources : /\ ap'[c].pc = "patch" /\ ap'[c].last = res[r].last
                                 /\ ValidateOwnerRefs(c, r)
      BY <2>4 DEF GotPatch
    <3>2. res[r].last # 0 /\ sets[res[r].last].st = "alive" => sets[res[r].last].ver <= ap[c].ver
      BY <3>1 DEF Owned, ValidateOwnerRefs
    <3> QED
      BY <2>2, <3>1, <3>2 DEF Reads, Alone
  <2>5. CASE GotUpdate(c)
    BY <2>2, <2>5 DEF GotUpdate, ValidateOwnerRefs, Reads, Alone
  <2>6. Writes(c) \/ Replaces(c) => Forgets(c)
    BY DEF Writes, StoresAt, Stores, Replaces
  <2> QED
    BY <2>1, <2>3, <2>4, <2>5, <2>6 DEF Effect
<1>2. ASSUME NEW c \in Callers, NEW chart \in Charts, Apply(c, chart) PROVE Reads'
  <2>1. \A w \in Created : sets'[w].ver = sets[w].ver /\ (sets'[w].st = "alive" => sets[w].st = "alive")
    BY <1>2, ApplyMoves
  <2>2. \A d \in Callers : ap'[d].pc \in {"patch", "update"} => ap'[d] = ap[d]
    BY <1>2, ApplyMoves DEF Alone
  <2> QED
    BY <2>1, <2>2, ReadsKept
<1>3. ASSUME NEW c \in Callers, NextVersion(c) PROVE Reads'
  <2>1. \A w \in Created : sets'[w].ver = sets[w].ver /\ (sets'[w].st = "alive" => sets[w].st = "alive")
    BY <1>3, NextVersionMoves
  <2>2. \A d \in Callers : ap'[d].pc \in {"patch", "update"} => ap'[d] = ap[d]
    BY <1>3, NextVersionMoves DEF Alone
  <2> QED
    BY <2>1, <2>2, ReadsKept
<1>4. ASSUME NEW c \in Callers, CreateSet(c) PROVE Reads'
  <2>1. ap[c].gen \notin Created
    BY <1>4, CreateSetMoves DEF Numbered, Early
  <2>2. \A w \in Created : sets'[w].ver = sets[w].ver /\ (sets'[w].st = "alive" => sets[w].st = "alive")
    BY <1>4, <2>1, CreateSetMoves DEF Creation, Created
  <2>3. \A d \in Callers : ap'[d].pc \in {"patch", "update"} => ap'[d] = ap[d]
    BY <1>4, CreateSetMoves DEF Alone, Creation
  <2> QED
    BY <2>2, <2>3, ReadsKept
<1>5. ASSUME NEW c \in Callers, UpdateStatus(c) PROVE Reads'
  <2>1. ap[c].uid \in UIDs
    BY <1>5, UpdateStatusMoves, LateIs, UidIs
  <2>2. \A w \in Created : sets'[w].ver = sets[w].ver /\ (sets'[w].st = "alive" => sets[w].st = "alive")
    BY <1>5, <2>1, UpdateStatusMoves DEF StatusWritten, Created
  <2>3. \A d \in Callers : ap'[d].pc \in {"patch", "update"} => ap'[d] = ap[d]
    BY <1>5, UpdateStatusMoves DEF Alone
  <2> QED
    BY <2>2, <2>3, ReadsKept
<1>6. ASSUME NEW c \in Callers, ListOld(c) PROVE Reads'
  <2>1. \A w \in Created : sets'[w].ver = sets[w].ver /\ (sets'[w].st = "alive" => sets[w].st = "alive")
    BY <1>6, ListOldMoves
  <2>2. \A d \in Callers : ap'[d].pc \in {"patch", "update"} => ap'[d] = ap[d]
    BY <1>6, ListOldMoves DEF Alone
  <2> QED
    BY <2>1, <2>2, ReadsKept
<1>7. ASSUME NEW c \in Callers, DeleteOld(c) PROVE Reads'
  <2>1. \A w \in Created : sets'[w].ver = sets[w].ver /\ (sets'[w].st = "alive" => sets[w].st = "alive")
    BY <1>7, DeleteOldMoves DEF Prunes, SetsFade, Created
  <2>2. \A d \in Callers : ap'[d].pc \in {"patch", "update"} => ap'[d] = ap[d]
    BY <1>7, DeleteOldMoves DEF Alone
  <2> QED
    BY <2>1, <2>2, ReadsKept
<1>8. ASSUME NEW c \in Callers, Interrupted(c) PROVE Reads'
  <2>1. \A w \in Created : sets'[w].ver = sets[w].ver /\ (sets'[w].st = "alive" => sets[w].st = "alive")
    BY <1>8, InterruptedMoves
  <2>2. \A d \in Callers : ap'[d].pc \in {"patch", "update"} => ap'[d] = ap[d]
    BY <1>8, InterruptedMoves DEF Alone
  <2> QED
    BY <2>1, <2>2, ReadsKept
<1>9. ASSUME NEW c \in Callers, Delete(c) PROVE Reads'
  <2>1. \A w \in Created : sets'[w].ver = sets[w].ver /\ (sets'[w].st = "alive" => sets[w].st = "alive")
    BY <1>9, DeleteMoves DEF SetsFade, Created
  <2>2. \A d \in Callers : ap'[d].pc \in {"patch", "update"} => ap'[d] = ap[d]
    BY <1>9, DeleteMoves
  <2> QED
    BY <2>1, <2>2, ReadsKept
<1>10. ASSUME NEW r \in Resources, Collect(r) PROVE Reads'
  <2>1. \A w \in Created : sets'[w].ver = sets[w].ver /\ (sets'[w].st = "alive" => sets[w].st = "alive")
    BY <1>10, CollectMoves
  <2>2. \A d \in Callers : ap'[d].pc \in {"patch", "update"} => ap'[d] = ap[d]
    BY <1>10, CollectMoves
  <2> QED
    BY <2>1, <2>2, ReadsKept
<1>11. ASSUME NEW r \in Resources, ResourceGone(r) PROVE Reads'
  <2>1. \A w \in Created : sets'[w].ver = sets[w].ver /\ (sets'[w].st = "alive" => sets[w].st = "alive")
    BY <1>11, ResourceGoneMoves
  <2>2. \A d \in Callers : ap'[d].pc \in {"patch", "update"} => ap'[d] = ap[d]
    BY <1>11, ResourceGoneMoves
  <2> QED
    BY <2>1, <2>2, ReadsKept
<1>12. ASSUME NEW u \in UIDs, SetGone(u) PROVE Reads'
  <2>1. \A w \in Created : sets'[w].ver = sets[w].ver /\ (sets'[w].st = "alive" => sets[w].st = "alive")
    BY <1>12, SetGoneMoves DEF SetsFade, Created
  <2>2. \A d \in Callers : ap'[d].pc \in {"patch", "update"} => ap'[d] = ap[d]
    BY <1>12, SetGoneMoves
  <2> QED
    BY <2>1, <2>2, ReadsKept
<1> QED
  BY <1>1, <1>2, <1>3, <1>4, <1>5, <1>6, <1>7, <1>8, <1>9, <1>10, <1>11, <1>12, StepKinds

LEMMA OutdatedStep ==
    ASSUME Types, Chosen, Numbered, Versions, Outdated, Next
    PROVE  Outdated'
<1>1. ASSUME NEW c \in Callers, Item(c) PROVE Outdated'
  BY <1>1, ItemMoves DEF ItemStep, ItemSteps, Outdated, Alone
<1>2. ASSUME NEW c \in Callers, NEW chart \in Charts, Apply(c, chart) PROVE Outdated'
  BY <1>2, ApplyMoves DEF Outdated, Alone
<1>3. ASSUME NEW c \in Callers, NextVersion(c) PROVE Outdated'
  BY <1>3, NextVersionMoves DEF Outdated, Alone
<1>4. ASSUME NEW c \in Callers, CreateSet(c) PROVE Outdated'
  BY <1>4, CreateSetMoves DEF Creation, Outdated, Alone
<1>5. ASSUME NEW c \in Callers, UpdateStatus(c) PROVE Outdated'
  BY <1>5, UpdateStatusMoves DEF Outdated, Alone
<1>6. ASSUME NEW c \in Callers, ListOld(c) PROVE Outdated'
  BY <1>6, ListOldMoves DEF Carries, SameApply, Outdated, Alone
<1>7. ASSUME NEW c \in Callers, DeleteOld(c) PROVE Outdated'
  BY <1>7, DeleteOldMoves DEF Carries, SameApply, Outdated, Alone
<1>8. ASSUME NEW c \in Callers, Interrupted(c) PROVE Outdated'
  BY <1>8, InterruptedMoves DEF Outdated, Alone
<1>9. ASSUME NEW c \in Callers, Delete(c) PROVE Outdated'
  BY <1>9, DeleteMoves DEF Outdated
<1>10. ASSUME NEW r \in Resources, Collect(r) PROVE Outdated'
  BY <1>10, CollectMoves DEF Outdated
<1>11. ASSUME NEW r \in Resources, ResourceGone(r) PROVE Outdated'
  BY <1>11, ResourceGoneMoves DEF Outdated
<1>12. ASSUME NEW u \in UIDs, SetGone(u) PROVE Outdated'
  BY <1>12, SetGoneMoves DEF Outdated
<1> QED
  BY <1>1, <1>2, <1>3, <1>4, <1>5, <1>6, <1>7, <1>8, <1>9, <1>10, <1>11, <1>12, StepKinds

\* Of the settled ResourceSets that are at least as new as the one that prunes, one
\* lives, and goes on living.
LEMMA PrunerLives ==
    ASSUME Types, Numbered, StatusOnce, PrunedBySettled, NEW c \in Callers, ap[c].pc = "prune",
           Prunes(c), deletes = 0 \/ sets[ap[c].uid].st = "alive"
    PROVE  \E z \in UIDs : /\ sets[z].st = "alive" /\ sets'[z].st = "alive"
                           /\ Settled(z) /\ sets[z].ver >= ap[c].ver
<1> DEFINE v == ap[c].uid
<1>1. v \in UIDs /\ v \in Created /\ sets[v].ver = ap[c].ver /\ Settled(v)
  BY UidIs, LateIs DEF StatusOnce
<1>2. ap[c].ver \in Nat /\ \A z \in UIDs : sets[z].ver \in Nat
  BY Numbers
<1>3. \A z \in UIDs : sets[z].st = "alive" /\ sets[z].ver >= ap[c].ver => sets'[z].st = "alive"
  BY <1>2 DEF Prunes
<1>4. CASE sets[v].st = "alive"
  BY <1>1, <1>2, <1>3, <1>4
<1>5. CASE sets[v].st # "alive" /\ deletes = 0
  <2>1. sets[v].st = "pruned"
    BY <1>1, <1>5 DEF PrunedBySettled, Created, Types, SetType
  <2>2. PICK z \in UIDs : sets[z].st = "alive" /\ Settled(z) /\ sets[z].ver > sets[v].ver
    BY <1>1, <1>5, <2>1 DEF PrunedBySettled
  <2>3. sets[z].ver >= ap[c].ver
    BY <1>1, <1>2, <2>2
  <2> QED
    BY <1>3, <2>2, <2>3
<1> QED
  BY <1>4, <1>5

\* A step that prunes nothing: the settled ones that live stay so.
LEMMA PrunedKept ==
    ASSUME PrunedBySettled, deletes' = deletes,
           \A u \in UIDs : /\ sets'[u].st \in {"deleting", "gone", "pruned"} => sets[u].st = sets'[u].st
                           /\ sets[u].st \in {"alive", "pruned"} => sets'[u].ver = sets[u].ver
                           /\ sets[u].st = "alive" /\ Settled(u) => sets'[u] = sets[u]
    PROVE  PrunedBySettled'
BY DEF PrunedBySettled, Settled

LEMMA PrunedBySettledStep ==
    ASSUME Types, Chosen, Numbered, Versions, Outdated, StatusOnce, PrunedBySettled, Next
    PROVE  PrunedBySettled'
<1>1. ASSUME NEW c \in Callers, Item(c) PROVE PrunedBySettled'
  BY <1>1, ItemMoves, PrunedKept DEF ItemStep
<1>2. ASSUME NEW c \in Callers, NEW chart \in Charts, Apply(c, chart) PROVE PrunedBySettled'
  BY <1>2, ApplyMoves, PrunedKept
<1>3. ASSUME NEW c \in Callers, NextVersion(c) PROVE PrunedBySettled'
  BY <1>3, NextVersionMoves, PrunedKept
<1>4. ASSUME NEW c \in Callers, CreateSet(c) PROVE PrunedBySettled'
  <2>1. ap[c].gen \notin Created
    BY <1>4, CreateSetMoves DEF Numbered, Early
  <2>2. sets' = sets \/ Creation(c)
    BY <1>4, CreateSetMoves
  <2>3. \A w \in Created : sets'[w] = sets[w]
    BY <2>1, <2>2 DEF Creation, Created
  <2>4. \A w \in UIDs \ Created : sets[w].st = "none" /\ sets'[w].st \in {"none", "alive"}
    BY <2>1, <2>2 DEF Creation, Created
  <2>5. deletes' = deletes
    BY <1>4, CreateSetMoves
  <2> QED
    BY <2>3, <2>4, <2>5, PrunedKept
<1>5. ASSUME NEW c \in Callers, UpdateStatus(c) PROVE PrunedBySettled'
  <2>1. ap[c].uid \in UIDs /\ sets[ap[c].uid].phase = "Pending" /\ deletes' = deletes
    BY <1>5, UpdateStatusMoves, LateIs, UidIs DEF StatusOnce
  <2>2. ~Settled(ap[c].uid)
    BY <2>1 DEF Settled
  <2>3. \A w \in UIDs : /\ sets'[w].st = sets[w].st /\ sets'[w].ver = sets[w].ver
                        /\ Settled(w) => sets'[w] = sets[w]
    BY <1>5, <2>1, <2>2, UpdateStatusMoves DEF StatusWritten
  <2> QED
    BY <2>1, <2>3, PrunedKept
<1>6. ASSUME NEW c \in Callers, ListOld(c) PROVE PrunedBySettled'
  BY <1>6, ListOldMoves, PrunedKept
<1>7. ASSUME NEW c \in Callers, DeleteOld(c) PROVE PrunedBySettled'
  <2>1. Prunes(c) /\ ap[c].pc = "prune" /\ deletes' = deletes
    BY <1>7, DeleteOldMoves
  <2>2. SUFFICES ASSUME deletes = 0
                 PROVE  \A u \in UIDs :
                           /\ sets'[u].st \notin {"deleting", "gone"}
                           /\ sets'[u].st = "pruned" =>
                                 \E z \in UIDs : /\ sets'[z].st = "alive" /\ Settled(z)'
                                                 /\ sets'[z].ver > sets'[u].ver
    BY <2>1 DEF PrunedBySettled
  <2>3. PICK zz \in UIDs : /\ sets[zz].st = "alive" /\ sets'[zz].st = "alive" /\ Settled(zz)
                           /\ sets[zz].ver >= ap[c].ver
    BY <2>1, <2>2, PrunerLives
  <2>4. ap[c].ver \in Nat /\ \A w \in UIDs : sets[w].ver \in Nat
    BY Numbers
  <2>5. \A w \in UIDs : sets'[w].ver = sets[w].ver /\ (Settled(w) <=> Settled(w)')
    BY <2>1 DEF Prunes, SetsFade, Settled
  <2>6. ASSUME NEW u \in UIDs, sets'[u].st = "pruned"
        PROVE  \E z \in UIDs : sets'[z].st = "alive" /\ Settled(z)' /\ sets'[z].ver > sets'[u].ver
    <3>1. CASE sets[u].st # "pruned"
      <4>1. sets[u].ver < ap[c].ver
        BY <2>1, <2>6, <3>1 DEF Prunes
      <4>2. sets[zz].ver > sets[u].ver
        BY <2>3, <2>4, <4>1
      <4> QED
        BY <2>3, <2>5, <4>2
    <3>2. CASE sets[u].st = "pruned"
      <4>1. PICK z \in UIDs : sets[z].st = "alive" /\ Settled(z) /\ sets[z].ver > sets[u].ver
        BY <2>2, <3>2 DEF PrunedBySettled
      <4>2. CASE sets'[z].st = "alive"
        BY <2>5, <4>1, <4>2
      <4>3. CASE sets'[z].st # "alive"
        <5>1. sets[z].ver < ap[c].ver
          BY <2>1, <4>1, <4>3 DEF Prunes
        <5>2. sets[zz].ver > sets[u].ver
          BY <2>3, <2>4, <4>1, <5>1
        <5> QED
          BY <2>3, <2>5, <5>2
      <4> QED
        BY <4>2, <4>3
    <3> QED
      BY <3>1, <3>2
  <2>7. \A u \in UIDs : sets'[u].st \notin {"deleting", "gone"}
    BY <2>1, <2>2 DEF Prunes, PrunedBySettled
  <2> QED
    BY <2>6, <2>7
<1>8. ASSUME NEW c \in Callers, Interrupted(c) PROVE PrunedBySettled'
  BY <1>8, InterruptedMoves, PrunedKept
<1>9. ASSUME NEW c \in Callers, Delete(c) PROVE PrunedBySettled'
  BY <1>9, DeleteMoves DEF PrunedBySettled
<1>10. ASSUME NEW r \in Resources, Collect(r) PROVE PrunedBySettled'
  BY <1>10, CollectMoves, PrunedKept
<1>11. ASSUME NEW r \in Resources, ResourceGone(r) PROVE PrunedBySettled'
  BY <1>11, ResourceGoneMoves, PrunedKept
<1>12. ASSUME NEW u \in UIDs, SetGone(u) PROVE PrunedBySettled'
  BY <1>12, SetGoneMoves DEF PrunedBySettled
<1> QED
  BY <1>1, <1>2, <1>3, <1>4, <1>5, <1>6, <1>7, <1>8, <1>9, <1>10, <1>11, <1>12, StepKinds

\* No Apply but that of c changes, and that of c counts nothing more as applied.
NoMore(c) ==
    /\ Alone(c)
    /\ \/ ap'[c].pc \notin Late
       \/ /\ ap[c].pc \in Late /\ ap'[c].uid = ap[c].uid
          /\ \A r \in Resources : ap'[c].results[r] = "ok" => ap[c].results[r] = "ok"

LEMMA WroteLess ==
    ASSUME NEW c \in Callers, NoMore(c), NEW u \in UIDs, sets'[u].applied \subseteq Wrote(u)
    PROVE  Wrote(u)' \subseteq Wrote(u)
BY DEF Wrote, NoMore, Alone

LEMMA AppliedWrote ==
    ASSUME Types
    PROVE  \A u \in UIDs : sets[u].applied \subseteq Wrote(u) /\ Wrote(u) \subseteq Resources
BY DEF Wrote, Types, SetType

\* A step that leaves the resources and the ResourceSets that live and have settled alone.
LEMMA SafeKept ==
    ASSUME Types, Owned, Safe, UNCHANGED <<kind, res>>, doomed \subseteq doomed',
           \A u \in UIDs : \A r \in Wrote(u)' :
              sets'[u].st = "alive" => r \in Wrote(u) /\ sets[u].st = "alive",
           \A u \in UIDs : sets[u].st = "alive" =>
              /\ sets'[u].st = "alive" /\ sets'[u].ver = sets[u].ver
              /\ Settled(u) => Settled(u)' /\ sets'[u].chart = sets[u].chart
    PROVE  Safe'
<1> SUFFICES ASSUME NEW u \in UIDs, sets'[u].st = "alive", NEW r \in Wrote(u)', r \notin doomed',
                    kind[r] \in {"patch", "large"}, StillWanted(u, r)'
             PROVE  /\ res[r].st = "alive"
                    /\ \E w \in res[r].owners : sets'[w].st = "alive" /\ sets'[w].ver >= sets'[u].ver
  BY DEF Safe
<1>1. r \in Wrote(u) /\ r \notin doomed /\ sets[u].st = "alive" /\ r \in Resources
  BY AppliedWrote
<1>2. StillWanted(u, r)
  BY <1>1 DEF StillWanted
<1>3. res[r].st = "alive" /\ \E w \in res[r].owners : sets[w].st = "alive" /\ sets[w].ver >= sets[u].ver
  BY <1>1, <1>2 DEF Safe
<1>4. res[r].owners \subseteq UIDs
  BY <1>1 DEF Owned, Created
<1> QED
  BY <1>1, <1>3, <1>4

\* A write of resource r by the Apply of v.  If a living ResourceSet newer than v owns r,
\* it goes on doing so; if none does, v must be alive, and newer than all that list r.
LEMMA SafeWrite ==
    ASSUME Types, Numbered, Reads, PrunedBySettled, Safe, NEW c \in Callers, NEW r \in Resources,
           ItemStep(c), StoresAt(c, r)
    PROVE  Safe'
<1> DEFINE v == ap[c].uid
<1>1. PICK o \in ResType :
         /\ Stores(c, r, o) /\ v \in o.owners /\ o.st \in {"alive", "deleting"}
         /\ kind[r] # "merge" /\ res[r].st # "absent" =>
               \A w \in res[r].owners : sets[w].st = "alive" /\ sets[w].ver > ap[c].ver => w \in o.owners
  BY StoredIs
<1>2. /\ UNCHANGED <<kind, sets, deletes>> /\ Alone(c)
      /\ ap[c].pc \in Late /\ ap'[c].pc \in Late /\ ap'[c].uid = v
  BY LateIs DEF ItemStep, SameApply
<1>3. /\ v \in UIDs /\ v \in Created /\ sets[v].ver = ap[c].ver
      /\ sets[v].ver \in Nat /\ \A u \in UIDs : sets[u].ver \in Nat
  BY <1>2, UidIs, Numbers
<1>4. /\ res'[r] = o /\ \A q \in Resources \ {r} : res'[q] = res[q]
      /\ \A q \in Resources \ {r} : ap'[c].results[q] = ap[c].results[q]
  BY <1>1 DEF Stores, Types, ApType
<1>5. ASSUME NEW u \in UIDs, NEW q \in Wrote(u)' PROVE q \in Resources /\ (q \in Wrote(u) \/ (q = r /\ u = v))
  BY <1>2, <1>4 DEF Wrote, Alone
<1>6. \A u \in UIDs : \A q \in Resources : StillWanted(u, q)' = StillWanted(u, q)
  BY <1>2 DEF StillWanted, Settled
<1>7. doomed \subseteq doomed' /\ (r \notin doomed' => o.st # "deleting" /\ (deletes = 0 \/ sets[v].st = "alive"))
  <2>1. deletes > 0 \/ deletes = 0
    BY Numbers
  <2> QED
    BY <1>1, <2>1 DEF Stores
<1> HIDE DEF v
<1>8. ASSUME NEW u \in UIDs, sets[u].st = "alive", NEW q \in Wrote(u)', q \notin doomed',
             kind[q] \in {"patch", "large"}, StillWanted(u, q)
      PROVE  /\ res'[q].st = "alive"
             /\ \E w \in res'[q].owners : sets[w].st = "alive" /\ sets[w].ver >= sets[u].ver
  <2>1. CASE q # r
    <3>1. q \in Wrote(u) /\ q \notin doomed /\ res'[q] = res[q]
      BY <1>4, <1>5, <1>7, <1>8, <2>1
    <3> QED
      BY <1>8, <3>1 DEF Safe
  <2>2. CASE q = r
    <3>1. o.st = "alive" /\ r \notin doomed /\ (deletes = 0 \/ sets[v].st = "alive")
      BY <1>1, <1>7, <1>8, <2>2
    <3>2. CASE sets[v].st = "alive" /\ sets[v].ver >= sets[u].ver
      BY <1>1, <1>4, <2>2, <3>1, <3>2
    <3>3. CASE ~(sets[v].st = "alive" /\ sets[v].ver >= sets[u].ver)
      <4>1. u # v /\ r \in Wrote(u)
        BY <1>3, <1>5, <1>8, <2>2, <3>3
      <4>2. \E x \in UIDs : /\ sets[x].st = "alive" /\ sets[x].ver >= sets[u].ver /\ sets[x].ver > sets[v].ver
                            /\ r \in Wrote(x) /\ StillWanted(x, r)
        <5>1. CASE sets[u].ver > sets[v].ver
          BY <1>3, <1>8, <2>2, <4>1, <5>1
        <5>2. CASE ~(sets[u].ver > sets[v].ver)
          <6>1. sets[v].ver >= sets[u].ver
            BY <1>3, <5>2
          <6>2. sets[v].st = "pruned" /\ deletes = 0
            BY <1>3, <3>1, <3>3, <6>1 DEF PrunedBySettled, Created, Types, SetType
          <6>3. PICK z \in UIDs : sets[z].st = "alive" /\ Settled(z) /\ sets[z].ver > sets[v].ver
            BY <1>3, <6>2 DEF PrunedBySettled
          <6>4. sets[z].ver > sets[u].ver
            BY <1>3, <6>1, <6>3
          <6>5. r \in sets[z].chart /\ r \in sets[z].applied
            BY <1>8, <2>2, <6>3, <6>4 DEF StillWanted, Settled
          <6>6. StillWanted(z, r)
            <7>1. \A y \in UIDs : sets[y].ver > sets[z].ver => sets[y].ver > sets[u].ver
              BY <1>3, <6>4
            <7> QED
              BY <1>8, <2>2, <7>1 DEF StillWanted
          <6>7. r \in Wrote(z) /\ sets[z].ver >= sets[u].ver
            BY <1>3, <6>4, <6>5, AppliedWrote
          <6> QED
            BY <6>3, <6>6, <6>7
        <5> QED
          BY <5>1, <5>2
      <4>3. PICK x \in UIDs : /\ sets[x].st = "alive" /\ sets[x].ver >= sets[u].ver /\ sets[x].ver > sets[v].ver
                              /\ r \in Wrote(x) /\ StillWanted(x, r)
        BY <4>2
      <4>4. /\ res[r].st = "alive"
            /\ \E w \in res[r].owners : sets[w].st = "alive" /\ sets[w].ver >= sets[x].ver
        BY <1>8, <2>2, <3>1, <4>3 DEF Safe
      <4>5. PICK w \in res[r].owners : sets[w].st = "alive" /\ sets[w].ver >= sets[x].ver
        BY <4>4
      <4>6. w \in UIDs
        BY DEF Types, ResType
      <4>7. sets[w].ver > ap[c].ver /\ sets[w].ver >= sets[u].ver
        BY <1>3, <4>3, <4>5, <4>6
      <4>8. w \in o.owners
        BY <1>1, <1>8, <2>2, <4>4, <4>5, <4>7
      <4> QED
        BY <1>4, <2>2, <3>1, <4>5, <4>7, <4>8
    <3> QED
      BY <3>2, <3>3
  <2> QED
    BY <2>1, <2>2
<1>9. \A u \in UIDs : \A q \in Wrote(u)' : q \in Resources
  BY <1>5
<1> QED
  BY <1>2, <1>6, <1>8, <1>9 DEF Safe

\* The Apply of v deletes older ResourceSets: v itself, or a newer one that has settled,
\* lives and takes over what they owned and what is still wanted.
LEMMA SafePrune ==
    ASSUME Types, Numbered, Owned, StatusOnce, PrunedBySettled, Safe, NEW c \in Callers,
           UNCHANGED <<kind, res, deletes>>, Prunes(c), ap[c].pc = "prune",
           \A u \in UIDs : Wrote(u)' \subseteq Wrote(u), \E u \in UIDs : sets'[u].st # sets[u].st
    PROVE  Safe'
<1> SUFFICES ASSUME NEW u \in UIDs, sets'[u].st = "alive", NEW r \in Wrote(u)', r \notin doomed',
                    kind[r] \in {"patch", "large"}, StillWanted(u, r)'
             PROVE  /\ res[r].st = "alive"
                    /\ \E w \in res[r].owners : sets'[w].st = "alive" /\ sets'[w].ver >= sets'[u].ver
  BY DEF Safe
<1>1. /\ \A x \in UIDs : /\ sets'[x].ver = sets[x].ver /\ sets'[x].chart = sets[x].chart
                          /\ (Settled(x) <=> Settled(x)') /\ (sets'[x].st = "alive" => sets[x].st = "alive")
      /\ doomed \subseteq doomed'
  BY DEF Prunes, SetsFade, Settled
<1>2. r \in Resources /\ r \in Wrote(u) /\ r \notin doomed /\ sets[u].st = "alive"
  BY <1>1, AppliedWrote
<1>3. deletes = 0 \/ sets[ap[c].uid].st = "alive"
  BY <1>2 DEF Prunes
<1>4. PICK z \in UIDs : /\ sets[z].st = "alive" /\ sets'[z].st = "alive" /\ Settled(z)
                        /\ sets[z].ver >= ap[c].ver
  BY <1>3, PrunerLives
<1>5. ap[c].ver \in Nat /\ \A x \in UIDs : sets[x].ver \in Nat
  BY Numbers
<1>6. \A x \in UIDs : sets[x].st = "alive" /\ sets[x].ver >= ap[c].ver => sets'[x].st = "alive"
  BY <1>5 DEF Prunes
<1>7. \A y \in UIDs : sets[y].st = "alive" /\ Settled(y) /\ sets[y].ver >= ap[c].ver /\ sets[y].ver > sets[u].ver
                       => r \in sets[y].chart
  BY <1>1, <1>6 DEF StillWanted
<1>8. \E x \in UIDs : /\ sets[x].st = "alive" /\ r \in Wrote(x) /\ StillWanted(x, r)
                      /\ sets[x].ver >= ap[c].ver /\ sets[x].ver >= sets[u].ver
  <2>1. CASE sets[z].ver > sets[u].ver
    <3>1. r \in Wrote(z)
      BY <1>4, <1>7, <2>1, AppliedWrote DEF Settled
    <3>2. \A y \in UIDs : sets[y].ver > sets[z].ver => sets[y].ver >= ap[c].ver /\ sets[y].ver > sets[u].ver
      BY <1>4, <1>5, <2>1
    <3>3. StillWanted(z, r)
      BY <1>7, <3>2 DEF StillWanted
    <3>4. sets[z].ver >= sets[u].ver
      BY <1>5, <2>1
    <3> QED
      BY <1>4, <3>1, <3>3, <3>4
  <2>2. CASE ~(sets[z].ver > sets[u].ver)
    <3>1. sets[u].ver >= ap[c].ver /\ sets[u].ver >= sets[u].ver
      BY <1>4, <1>5, <2>2
    <3>2. \A y \in UIDs : sets[y].ver > sets[u].ver => sets[y].ver >= ap[c].ver
      BY <1>5, <3>1
    <3>3. StillWanted(u, r)
      BY <1>7, <3>2 DEF StillWanted
    <3> QED
      BY <1>2, <3>1, <3>3
  <2> QED
    BY <2>1, <2>2
<1>9. PICK x \in UIDs : /\ sets[x].st = "alive" /\ r \in Wrote(x) /\ StillWanted(x, r)
                        /\ sets[x].ver >= ap[c].ver /\ sets[x].ver >= sets[u].ver
  BY <1>8
<1>10. /\ res[r].st = "alive"
       /\ \E w \in res[r].owners : sets[w].st = "alive" /\ sets[w].ver >= sets[x].ver
  BY <1>2, <1>9 DEF Safe
<1>11. PICK w \in res[r].owners : sets[w].st = "alive" /\ sets[w].ver >= sets[x].ver
  BY <1>10
<1>12. w \in UIDs
  BY <1>2 DEF Owned, Created
<1>13. sets[w].ver >= ap[c].ver /\ sets[w].ver >= sets[u].ver
  BY <1>5, <1>9, <1>11, <1>12
<1> QED
  BY <1>1, <1>6, <1>10, <1>11, <1>12, <1>13

LEMMA SafeStep ==
    ASSUME Types, Chosen, Numbered, Versions, StatusOnce, Owned, Reads, Outdated,
           PrunedBySettled, Safe, Next
    PROVE  Safe'
<1>1. ASSUME NEW c \in Callers, Item(c) PROVE Safe'
  <2>1. ItemStep(c) /\ Effect(c)
    BY <1>1, ItemMoves
  <2>2. /\ UNCHANGED <<kind, sets, deletes>> /\ Alone(c)
        /\ ap[c].pc \in Late /\ ap'[c].pc \in Late /\ ap'[c].uid = ap[c].uid
    BY <2>1, LateIs DEF ItemStep, SameApply
  <2>3. CASE Quiet
    <3>1. UNCHANGED <<res, doomed>> /\ NoMore(c)
      BY <2>2, <2>3 DEF Quiet, NoMore
    <3>2. \A u \in UIDs : Wrote(u)' \subseteq Wrote(u)
      BY <2>2, <3>1, WroteLess, AppliedWrote
    <3> QED
      BY <2>2, <3>1, <3>2, SafeKept DEF Settled
  <2>4. CASE Replaces(c)
    <3>1. doomed' = doomed /\ NoMore(c)
      BY <2>2, <2>4 DEF Replaces, NoMore
    <3>2. \A u \in UIDs : Wrote(u)' \subseteq Wrote(u) /\ Wrote(u) \subseteq Resources
      BY <2>2, <3>1, WroteLess, AppliedWrote
    <3>3. PICK q \in Resources : kind[q] = "job" /\ res' = [res EXCEPT ![q].st = "deleting"]
      BY <2>4 DEF Replaces
    <3>4. \A r \in Resources : kind[r] \in {"patch", "large"} => res'[r] = res[r]
      BY <3>3 DEF Types
    <3>5. \A u \in UIDs : \A r \in Resources : StillWanted(u, r)' = StillWanted(u, r)
      BY <2>2 DEF StillWanted, Settled
    <3> QED
      BY <2>2, <3>1, <3>2, <3>4, <3>5 DEF Safe
  <2>5. CASE Writes(c)
    BY <2>1, <2>5, SafeWrite DEF Writes
  <2> QED
    BY <2>1, <2>3, <2>4, <2>5 DEF Effect
<1>2. ASSUME NEW c \in Callers, NEW chart \in Charts, Apply(c, chart) PROVE Safe'
  <2>1. UNCHANGED <<kind, sets, res, doomed>> /\ NoMore(c)
    BY <1>2, ApplyMoves, LateIs DEF NoMore
  <2>2. \A u \in UIDs : Wrote(u)' \subseteq Wrote(u)
    BY <2>1, WroteLess, AppliedWrote
  <2> QED
    BY <2>1, <2>2, SafeKept DEF Settled
<1>3. ASSUME NEW c \in Callers, NextVersion(c) PROVE Safe'
  <2>1. UNCHANGED <<kind, sets, res, doomed>> /\ NoMore(c)
    BY <1>3, NextVersionMoves, LateIs DEF NoMore
  <2>2. \A u \in UIDs : Wrote(u)' \subseteq Wrote(u)
    BY <2>1, WroteLess, AppliedWrote
  <2> QED
    BY <2>1, <2>2, SafeKept DEF Settled
<1>4. ASSUME NEW c \in Callers, CreateSet(c) PROVE Safe'
  <2>1. UNCHANGED <<kind, res, doomed>> /\ Alone(c) /\ ap[c].pc = "create"
    BY <1>4, CreateSetMoves
  <2>2. CASE sets' = sets /\ ap'[c].pc = "idle"
    <3>1. NoMore(c)
      BY <2>1, <2>2, LateIs DEF NoMore
    <3>2. \A u \in UIDs : Wrote(u)' \subseteq Wrote(u)
      BY <2>2, <3>1, WroteLess, AppliedWrote
    <3> QED
      BY <2>1, <2>2, <3>2, SafeKept DEF Settled
  <2>3. CASE Creation(c)
    <3>0. PICK g \in UIDs : g = ap[c].gen
      BY <2>3 DEF Creation
    <3>1. g \notin Created /\ g \in UIDs /\ \A r \in Resources : ap[c].results[r] = "none"
      BY <2>1, <3>0 DEF Numbered, Early, Chosen
    <3>2. /\ \A w \in UIDs \ {g} : sets'[w] = sets[w]
          /\ sets'[g].applied = {} /\ ap'[c].uid = g /\ ap'[c].results = ap[c].results
      BY <2>3, <3>0 DEF Creation
    <3>3. sets[g].st = "none"
      BY <3>1 DEF Created
    <3>4. \A d \in Callers : ap[d].pc \in Late => ap[d].uid # g
      BY <3>1, UidIs
    <3>5. Wrote(g)' = {}
      BY <2>1, <3>1, <3>2, <3>4 DEF Wrote, Alone
    <3>6. \A w \in UIDs \ {g} : Wrote(w)' \subseteq Wrote(w)
      BY <2>1, <3>2 DEF Wrote, Alone
    <3>7. \A w \in UIDs : sets[w].st = "alive" => sets'[w] = sets[w]
      BY <3>2, <3>3
    <3>8. \A w \in UIDs : \A r \in Wrote(w)' : sets'[w].st = "alive" => r \in Wrote(w) /\ sets[w].st = "alive"
      BY <3>2, <3>5, <3>6
    <3> QED
      BY <2>1, <3>7, <3>8, SafeKept DEF Settled
  <2> QED
    BY <1>4, <2>2, <2>3, CreateSetMoves
<1>5. ASSUME NEW c \in Callers, UpdateStatus(c) PROVE Safe'
  <2>1. UNCHANGED <<kind, res, doomed>> /\ Alone(c) /\ ap[c].pc = "status" /\ ap[c].pc \in Late
    BY <1>5, UpdateStatusMoves, LateIs
  <2>2. ap[c].uid \in UIDs /\ ~Settled(ap[c].uid)
    BY <2>1, UidIs DEF StatusOnce, Settled
  <2>3. NoMore(c)
    BY <1>5, <2>1, UpdateStatusMoves, LateIs DEF NoMore, SameApply
  <2>4. \A u \in UIDs : /\ sets'[u].st = sets[u].st /\ sets'[u].ver = sets[u].ver
                        /\ sets'[u].chart = sets[u].chart /\ (Settled(u) => sets'[u] = sets[u])
                        /\ sets'[u].applied = sets[u].applied \/ (u = ap[c].uid /\ sets'[u].applied = Ok(c))
    BY <1>5, <2>2, UpdateStatusMoves DEF StatusWritten
  <2>5. Ok(c) \subseteq Wrote(ap[c].uid)
    BY <2>1 DEF Ok, Wrote
  <2>6. \A u \in UIDs : sets'[u].applied \subseteq Wrote(u)
    BY <2>4, <2>5, AppliedWrote
  <2>7. \A u \in UIDs : Wrote(u)' \subseteq Wrote(u)
    BY <2>3, <2>6, WroteLess
  <2>8. \A u \in UIDs : Settled(u) => Settled(u)'
    BY <2>4 DEF Settled
  <2> QED
    BY <2>1, <2>4, <2>7, <2>8, SafeKept
<1>6. ASSUME NEW c \in Callers, ListOld(c) PROVE Safe'
  <2>1. UNCHANGED <<kind, sets, res, doomed>> /\ NoMore(c)
    BY <1>6, ListOldMoves, LateIs DEF NoMore, Carries, SameApply
  <2>2. \A u \in UIDs : Wrote(u)' \subseteq Wrote(u)
    BY <2>1, WroteLess, AppliedWrote
  <2> QED
    BY <2>1, <2>2, SafeKept DEF Settled
<1>7. ASSUME NEW c \in Callers, DeleteOld(c) PROVE Safe'
  <2>1. UNCHANGED <<kind, res, deletes>> /\ Prunes(c) /\ ap[c].pc = "prune" /\ NoMore(c)
    BY <1>7, DeleteOldMoves, LateIs DEF NoMore, Carries, SameApply
  <2>2. /\ doomed \subseteq doomed'
        /\ \A u \in UIDs : /\ sets'[u].ver = sets[u].ver /\ sets'[u].chart = sets[u].chart
                            /\ sets'[u].applied = sets[u].applied /\ sets'[u].phase = sets[u].phase
    BY <2>1 DEF Prunes, SetsFade
  <2>3. \A u \in UIDs : sets'[u].applied \subseteq Wrote(u)
    BY <2>2, AppliedWrote
  <2>4. \A u \in UIDs : Wrote(u)' \subseteq Wrote(u)
    BY <2>1, <2>3, WroteLess
  <2>5. CASE \A u \in UIDs : sets'[u].st = sets[u].st
    <3>1. \A u \in UIDs : sets[u].st = "alive" =>
             /\ sets'[u].st = "alive" /\ sets'[u].ver = sets[u].ver
             /\ Settled(u) => Settled(u)' /\ sets'[u].chart = sets[u].chart
      BY <2>2, <2>5 DEF Settled
    <3>2. \A u \in UIDs : \A r \in Wrote(u)' :
             sets'[u].st = "alive" => r \in Wrote(u) /\ sets[u].st = "alive"
      BY <2>4, <2>5
    <3>3. UNCHANGED <<kind, res>> /\ doomed \subseteq doomed'
      BY <2>1, <2>2
    <3> QED
      BY <3>1, <3>2, <3>3, SafeKept
  <2>6. CASE \E u \in UIDs : sets'[u].st # sets[u].st
    BY <2>1, <2>4, <2>6, SafePrune
  <2> QED
    BY <2>5, <2>6
<1>8. ASSUME NEW c \in Callers, Interrupted(c) PROVE Safe'
  <2>1. UNCHANGED <<kind, sets, res, doomed>> /\ NoMore(c)
    BY <1>8, InterruptedMoves, LateIs DEF NoMore
  <2>2. \A u \in UIDs : Wrote(u)' \subseteq Wrote(u)
    BY <2>1, WroteLess, AppliedWrote
  <2> QED
    BY <2>1, <2>2, SafeKept DEF Settled
<1>9. ASSUME NEW c \in Callers, Delete(c) PROVE Safe'
  BY <1>9, DeleteMoves DEF Safe
<1>10. ASSUME NEW r \in Resources, Collect(r) PROVE Safe'
  <2>1. UNCHANGED <<kind, sets, doomed, ap>> /\ Collects(r)
    BY <1>10, CollectMoves
  <2>2. \A u \in UIDs : /\ Wrote(u)' = Wrote(u) /\ Wrote(u) \subseteq Resources
                        /\ \A q \in Resources : StillWanted(u, q)' = StillWanted(u, q)
    BY <2>1, AppliedWrote DEF Wrote, StillWanted, Settled
  <2>3. ASSUME NEW u \in UIDs, sets[u].st = "alive", NEW q \in Wrote(u), q \notin doomed,
               kind[q] \in {"patch", "large"}, StillWanted(u, q)
        PROVE  /\ res'[q].st = "alive"
               /\ \E w \in res'[q].owners : sets[w].st = "alive" /\ sets[w].ver >= sets[u].ver
    <3>1. q \in Resources /\ res[q].st = "alive"
      BY <2>2, <2>3 DEF Safe
    <3>2. PICK w \in res[q].owners : sets[w].st = "alive" /\ sets[w].ver >= sets[u].ver
      BY <2>3 DEF Safe
    <3> QED
      BY <2>1, <3>1, <3>2 DEF Collects, Solid
  <2> QED
    BY <2>1, <2>2, <2>3 DEF Safe
<1>11. ASSUME NEW r \in Resources, ResourceGone(r) PROVE Safe'
  <2>1. /\ UNCHANGED <<kind, sets, doomed, ap>> /\ res[r].st = "deleting"
        /\ \A x \in Resources \ {r} : res'[x] = res[x]
    BY <1>11, ResourceGoneMoves
  <2>2. \A u \in UIDs : /\ Wrote(u)' = Wrote(u) /\ Wrote(u) \subseteq Resources
                        /\ \A q \in Resources : StillWanted(u, q)' = StillWanted(u, q)
    BY <2>1, AppliedWrote DEF Wrote, StillWanted, Settled
  <2>3. ASSUME NEW u \in UIDs, sets[u].st = "alive", NEW q \in Wrote(u), q \notin doomed,
               kind[q] \in {"patch", "large"}, StillWanted(u, q)
        PROVE  /\ res'[q].st = "alive"
               /\ \E w \in res'[q].owners : sets[w].st = "alive" /\ sets[w].ver >= sets[u].ver
    <3>1. q \in Resources /\ res[q].st = "alive"
      BY <2>2, <2>3 DEF Safe
    <3>2. PICK w \in res[q].owners : sets[w].st = "alive" /\ sets[w].ver >= sets[u].ver
      BY <2>3 DEF Safe
    <3> QED
      BY <2>1, <3>1, <3>2
  <2> QED
    BY <2>1, <2>2, <2>3 DEF Safe
<1>12. ASSUME NEW u \in UIDs, SetGone(u) PROVE Safe'
  <2>1. UNCHANGED <<kind, res, doomed, ap>> /\ SetsFade
    BY <1>12, SetGoneMoves
  <2>2. \A w \in UIDs : sets'[w].st = "alive" <=> sets[w].st = "alive"
    BY <1>12, SetGoneMoves
  <2>3. \A w \in UIDs : /\ sets'[w].ver = sets[w].ver /\ sets'[w].chart = sets[w].chart
                        /\ Wrote(w)' \subseteq Wrote(w) /\ (Settled(w) => Settled(w)')
    BY <2>1 DEF SetsFade, Wrote, Settled
  <2> QED
    BY <2>1, <2>2, <2>3, SafeKept
<1> QED
  BY <1>1, <1>2, <1>3, <1>4, <1>5, <1>6, <1>7, <1>8, <1>9, <1>10, <1>11, <1>12, StepKinds

-----------------------------------------------------------------------------
(* The theorems.                                                           *)

LEMMA SynkInit == Init => IndInv
<1> SUFFICES ASSUME Init PROVE IndInv
  OBVIOUS
<1>1. /\ \A u \in UIDs : sets[u] = NoSet
      /\ \A r \in Resources : res[r] = Absent
      /\ \A c \in Callers : ap[c] = Idle
      /\ calls = 0 /\ deletes = 0 /\ faults = 0
  BY DEF Init
<1>2. Types
  BY SynkConstants, NoSetTyped, AbsentTyped, IdleTyped DEF Init, Types
<1>3. Created = {}
  BY <1>1, NoSetTyped DEF Created
<1>4. \A c \in Callers : ap[c].pc = "idle" /\ ap[c].pc \notin Late /\ ap[c].pc \notin Early
  BY <1>1, IdleTyped, LateIs DEF Early
<1>5. Chosen /\ Outdated
  BY <1>1, <1>4, IdleTyped DEF Chosen, ItemSteps, Outdated
<1>6. OneVersion /\ Numbered /\ Versions /\ StatusOnce
  BY <1>1, <1>3, <1>4, NoSetTyped DEF OneVersion, Exists, Numbered, Versions, StatusOnce
<1>7. Owned /\ Reads
  BY <1>1, <1>3, <1>4, IdleTyped, AbsentTyped DEF Owned, Reads, Absent
<1>8. PrunedBySettled /\ Safe
  BY <1>1, NoSetTyped DEF PrunedBySettled, Safe
<1> QED
  BY <1>2, <1>5, <1>6, <1>7, <1>8 DEF IndInv

LEMMA SynkStutter == IndInv /\ UNCHANGED vars => IndInv'
<1> SUFFICES ASSUME IndInv, UNCHANGED vars PROVE IndInv'
  OBVIOUS
<1>1. UNCHANGED <<kind, sets, res, doomed, ap, calls, deletes, faults>>
  BY DEF vars, countVars
<1>2. Created' = Created /\ \A u \in UIDs : Settled(u)' = Settled(u) /\ Wrote(u)' = Wrote(u)
  BY <1>1 DEF Created, Settled, Wrote
<1>3. Types' /\ Chosen' /\ OneVersion' /\ Outdated'
  BY <1>1 DEF IndInv, Types, Chosen, OneVersion, Exists, Outdated
<1>4. Numbered' /\ Versions' /\ Owned' /\ Reads'
  BY <1>1, <1>2 DEF IndInv, Numbered, Versions, Owned, Reads
<1>5. StatusOnce'
  BY <1>1 DEF IndInv, StatusOnce, Settled
<1>6. PrunedBySettled' /\ Safe'
  BY <1>1, <1>2 DEF IndInv, PrunedBySettled, Safe, StillWanted
<1> QED
  BY <1>3, <1>4, <1>5, <1>6 DEF IndInv

LEMMA SynkStep == IndInv /\ [Next]_vars => IndInv'
BY TypesStep, ChosenStep, OneVersionStep, NumberedStep, VersionsStep, StatusOnceStep, OwnedStep,
   ReadsStep, OutdatedStep, PrunedBySettledStep, SafeStep, SynkStutter DEF IndInv

LEMMA SynkImplies == IndInv => SynkTypeOK /\ Kept
<1> SUFFICES ASSUME IndInv PROVE SynkTypeOK /\ Kept
  OBVIOUS
<1>1. SynkTypeOK
  BY DEF IndInv, Types, Chosen, OneVersion, SynkTypeOK, ApType
<1>2. \A u \in UIDs : \A r \in Resources :
         (\A w \in UIDs : sets[w].st = "alive" /\ sets[w].ver > sets[u].ver => r \in sets[w].chart)
         => StillWanted(u, r)
  BY DEF StillWanted
<1>3. \A u \in UIDs : sets[u].applied \subseteq Wrote(u) /\ Wrote(u) \subseteq Resources
  BY AppliedWrote DEF IndInv
<1>4. Kept
  BY <1>2, <1>3 DEF IndInv, Safe, Kept
<1> QED
  BY <1>1, <1>4

\* Whatever number of Applies run, overlap, fail or crash, applyAll never loses track of
\* its resources, and two ResourceSets of the same name and version never exist at once
\* (createResourceSet against deleteResourceSets and Delete).
THEOREM SynkTyped == Spec => []SynkTypeOK
BY SynkInit, SynkStep, SynkImplies, PTL DEF Spec

\* What the status of a living ResourceSet lists as applied is in the cluster and has a
\* living owner for as long as the newer ResourceSets want it too: no sequence of Applies
\* leaves it to the garbage collector.
THEOREM AppliedIsKept == Spec => []Kept
BY SynkInit, SynkStep, SynkImplies, PTL DEF Spec

=============================================================================
