---------------------------- MODULE AccessProofs ----------------------------
(***************************************************************************)
(* Proofs about the two components that stand between callers and what     *)
(* they may use: the metadata server, from which a robot's pods get their  *)
(* tokens, for any number of instances, changes of the file, signals, lost *)
(* listeners and faults; and app-auth-proxy, through which users get to    *)
(* the web applications, for any browsers, tabs, routes, groups and number *)
(* of failures.                                                            *)
(*                                                                         *)
(* Neither MetadataInv nor Routed is inductive.  A rule that is still      *)
(* there has to be traced to an instance that has yet to remove it (Owing),*)
(* and the entry in the Corefile to one of which no thread has gone past   *)
(* it (Responsible).  While no listener has failed the port singles out    *)
(* the one instance that is past Bind, and nobody else removes anything.   *)
(*                                                                         *)
(* AuthInv is not inductive: it says nothing of the copies of the session  *)
(* that handlers hold while others save theirs.  Copies does, and Resumable*)
(* says that, without a failure, a login that is under way always finds a  *)
(* page to return to.                                                      *)
(***************************************************************************)
EXTENDS MetadataServer, AppAuthProxy, FiniteSetTheorems, TLAPS

-----------------------------------------------------------------------------
(* The metadata server.                                                    *)

Places == {"off", "bind", "deprecated", "rule", "getcore", "putcore", "go", "notify", "wait"}
ProcType == [pc : Places, ver : 0..MaxFile, listen : BOOLEAN, watch : BOOLEAN,
             missed : BOOLEAN, event : BOOLEAN]
CleanSteps == {"idle", "get", "put", "rule", "exit"}
CleanType == [Threads -> CleanSteps]

\* MetadataTypeOK without the port.
Types ==
    /\ proc \in [Instances -> ProcType]
    /\ clean \in [Instances -> CleanType]
    /\ fresh \subseteq Instances \X (Threads \union {"main"})
    /\ rules \in Nat /\ deprecated \in 0..1 /\ patched \in BOOLEAN
    /\ file \in 1..MaxFile /\ answer \in 0..MaxFile
    /\ signals \in 0..MaxSignals /\ lost \in 0..MaxLost /\ faults \in 0..MaxFaults

\* The port has one owner.
OnePort == \A p, q \in Instances : proc[p].listen /\ proc[q].listen => p = q

\* Only the threads of an instance that runs end it, and only such a one watches.
OnlyRunning ==
    \A p \in Instances :
        /\ proc[p].watch \/ proc[p].event => Running(p)
        /\ \A th \in Threads : clean[p][th] # "idle" => Running(p)

\* The instance has added a rule, and none of its threads has removed one.
Owing(p) == Added(p) /\ \A th \in Threads : clean[p][th] # "exit"

OwingSet == {p \in Instances : Owing(p)}

RulesOwed == rules <= faults + Cardinality(OwingSet)

\* The instance has found or put the entry in the Corefile, and each thread that
\* ends it has yet to read the file, or to write what it has read of it last.
Patching(p) == proc[p].pc \in {"go", "notify", "wait"}
Responsible(p) ==
    /\ Patching(p)
    /\ \A th \in Threads : \/ clean[p][th] \in {"idle", "get"}
                           \/ clean[p][th] = "put" /\ <<p, th>> \in fresh

EntryOwed == faults = 0 /\ patched => \E p \in Instances : Responsible(p)

\* Until a listener fails: past Bind an instance has the port, and until something
\* begins to end it, it has its rule and its entry.
PortGuards ==
    lost = 0 => \A p \in Instances :
        /\ proc[p].pc \notin {"off", "bind"} => proc[p].listen
        /\ Added(p) /\ clean[p] = Idle => rules > 0
        /\ Patching(p) /\ clean[p] = Idle => patched

IndInv == Types /\ OnePort /\ OnlyRunning /\ RulesOwed /\ EntryOwed /\ PortGuards

-----------------------------------------------------------------------------
(* Records, and the steps that most actions are made of.                   *)

LEMMA OffTyped == Off \in ProcType /\ Off.pc = "off" /\ ~Off.listen /\ ~Off.watch /\ ~Off.event
BY MetadataConstants DEF Off, ProcType, Places

LEMMA IdleTyped == Idle \in CleanType /\ \A th \in Threads : Idle[th] = "idle"
BY DEF Idle, CleanType, CleanSteps

LEMMA ProcRecords ==
    ASSUME NEW r \in ProcType
    PROVE  /\ r.ver \in 0..MaxFile
           /\ \A s \in Places : [r EXCEPT !.pc = s] \in ProcType
           /\ \A s \in Places, v \in 0..MaxFile : [r EXCEPT !.pc = s, !.ver = v] \in ProcType
           /\ \A s \in Places, b \in BOOLEAN : [r EXCEPT !.pc = s, !.listen = b] \in ProcType
           /\ \A b \in BOOLEAN : [r EXCEPT !.listen = b] \in ProcType
           /\ \A b \in BOOLEAN : [r EXCEPT !.watch = b] \in ProcType
           /\ [r EXCEPT !.event = r.watch, !.missed = ~r.watch] \in ProcType
BY DEF ProcType

ThreadsTyped ==
    /\ proc \in [Instances -> ProcType]
    /\ clean \in [Instances -> CleanType]
    /\ fresh \subseteq Instances \X (Threads \union {"main"})

LEMMA ExitTyped == ASSUME Types, NEW p \in Instances, Exit(p) PROVE ThreadsTyped'
BY OffTyped, IdleTyped DEF Types, Exit, ThreadsTyped

LEMMA GotoTyped ==
    ASSUME Types, NEW p \in Instances, NEW s \in Places, Goto(p, s)
    PROVE  proc' \in [Instances -> ProcType] /\ clean' \in [Instances -> CleanType]
BY ProcRecords DEF Types, Goto

LEMMA BeginTyped ==
    ASSUME Types, NEW p \in Instances, NEW th \in Threads, Begin(p, th)
    PROVE  clean' \in [Instances -> CleanType]
BY DEF Types, Begin, CleanType, CleanSteps

LEMMA FaultTyped == ASSUME Types, Fault PROVE faults' \in 0..MaxFaults /\ faults' = faults + 1
BY MetadataConstants DEF Types, Fault

LEMMA OneLessTyped == ASSUME NEW n \in Nat PROVE OneLess(n) \in Nat
BY DEF OneLess

\* A change of the file moves no instance.
LEMMA ChangeFileMovesNobody ==
    ASSUME Types, ChangeFile
    PROVE  /\ UNCHANGED <<clean, fresh, rules, patched, lost, faults>>
           /\ \A p \in Instances :
                 /\ proc'[p].pc = proc[p].pc /\ proc'[p].listen = proc[p].listen
                 /\ proc'[p].watch = proc[p].watch
                 /\ proc'[p].event => proc[p].event \/ proc[p].watch
<1>1. UNCHANGED <<clean, fresh, rules, patched, lost, faults>>
  BY DEF ChangeFile, bounds
<1>2. ASSUME NEW p \in Instances
      PROVE  /\ proc'[p].pc = proc[p].pc /\ proc'[p].listen = proc[p].listen
             /\ proc'[p].watch = proc[p].watch
             /\ proc'[p].event => proc[p].event \/ proc[p].watch
  <2>1. \/ proc'[p] = proc[p]
        \/ proc'[p] = [proc[p] EXCEPT !.event = proc[p].watch, !.missed = ~proc[p].watch]
    BY DEF ChangeFile
  <2>2. proc[p] \in ProcType
    BY DEF Types
  <2> QED
    BY <2>1, <2>2 DEF ProcType
<1> QED
  BY <1>1, <1>2

-----------------------------------------------------------------------------
(* Every step keeps the invariant.                                         *)

LEMMA TypesKept == ASSUME IndInv, [Next]_vars PROVE Types'
<1> USE DEF IndInv
<1>1. ASSUME NEW p \in Instances, Start(p) PROVE Types'
  <2>1. file \in 0..MaxFile /\ "bind" \in Places
    BY MetadataConstants DEF Types, Places
  <2>2. [Off EXCEPT !.pc = "bind", !.ver = file] \in ProcType
    BY <2>1, OffTyped, ProcRecords
  <2> QED
    BY <1>1, <2>2 DEF Start, LoadFromFile, Types, bounds
<1>2. ASSUME NEW p \in Instances, Bind(p) PROVE Types'
  <2>1. CASE \E q \in Instances : proc[q].listen
    BY <1>2, <2>1, ExitTyped DEF Bind, ThreadsTyped, Types, bounds
  <2>2. CASE ~\E q \in Instances : proc[q].listen
    <3>1. proc' \in [Instances -> ProcType]
      <4>1. proc' = [proc EXCEPT ![p].pc = "deprecated", ![p].listen = TRUE]
        BY <1>2, <2>2 DEF Bind
      <4>2. proc'[p] = [proc[p] EXCEPT !.pc = "deprecated", !.listen = TRUE]
        BY <4>1 DEF Types
      <4>3. proc'[p] \in ProcType
        BY <4>2, ProcRecords DEF Types, Places
      <4> QED
        BY <4>1, <4>3 DEF Types
    <3> QED
      BY <1>2, <2>2, <3>1 DEF Bind, Types, bounds
  <2> QED
    BY <2>1, <2>2
<1>3. ASSUME NEW p \in Instances, removeDeprecatedIPTablesRule(p) PROVE Types'
  BY <1>3, GotoTyped DEF removeDeprecatedIPTablesRule, Types, bounds, Places, OneLess
<1>4. ASSUME NEW p \in Instances, addIPTablesRule(p) PROVE Types'
  BY <1>4, GotoTyped DEF addIPTablesRule, Types, bounds, Places
<1>5. ASSUME NEW p \in Instances, getCorefile(p) PROVE Types'
  BY <1>5, GotoTyped DEF getCorefile, Types, bounds, Places, Threads
<1>6. ASSUME NEW p \in Instances, PatchCorefile(p) PROVE Types'
  <2>1. CASE <<p, "main">> \in fresh
    BY <1>6, <2>1, GotoTyped DEF PatchCorefile, Types, bounds, Places
  <2>2. CASE <<p, "main">> \notin fresh
    BY <1>6, <2>2, ExitTyped, OneLessTyped DEF PatchCorefile, ThreadsTyped, Types, bounds
  <2> QED
    BY <2>1, <2>2
<1>7. ASSUME NEW p \in Instances, StartThreads(p) PROVE Types'
  BY <1>7, GotoTyped DEF StartThreads, Types, bounds, Places
<1>8. ASSUME NEW p \in Instances, Notify(p) PROVE Types'
  BY <1>8, GotoTyped DEF Notify, Types, bounds, Places
<1>9. ASSUME NEW p \in Instances, AddWatch(p) PROVE Types'
  <2>1. proc' \in [Instances -> ProcType]
    BY <1>9, ProcRecords DEF AddWatch, Types
  <2> QED
    BY <1>9, <2>1 DEF AddWatch, Types, bounds
<1>10. ASSUME NEW p \in Instances, FileChanged(p) PROVE Types'
  BY <1>10, BeginTyped DEF FileChanged, Types, bounds, Threads
<1>11. ASSUME NEW p \in Instances, Stop(p) PROVE Types'
  BY <1>11, BeginTyped, MetadataConstants DEF Stop, Types, bounds, Threads
<1>12. ASSUME NEW p \in Instances, Kill(p) PROVE Types'
  BY <1>12, ExitTyped, FaultTyped DEF Kill, ThreadsTyped, Types
<1>13. ASSUME NEW p \in Instances, ServeFails(p) PROVE Types'
  <2>1. proc' \in [Instances -> ProcType]
    BY <1>13, ProcRecords DEF ServeFails, Types
  <2>2. lost' \in 0..MaxLost
    BY <1>13, MetadataConstants DEF ServeFails, Types
  <2> QED
    BY <1>13, <2>1, <2>2, BeginTyped DEF ServeFails, Types, Threads
<1>14. ASSUME NEW p \in Instances, PatchFails(p) PROVE Types'
  BY <1>14, ExitTyped, FaultTyped, OneLessTyped DEF PatchFails, ThreadsTyped, Types
<1>15. ASSUME NEW p \in Instances, NEW th \in Threads, RevertGet(p, th) PROVE Types'
  BY <1>15 DEF RevertGet, Types, CleanType, CleanSteps, bounds
<1>16. ASSUME NEW p \in Instances, NEW th \in Threads, RevertCorefile(p, th) PROVE Types'
  BY <1>16 DEF RevertCorefile, Types, CleanType, CleanSteps, bounds
<1>17. ASSUME NEW p \in Instances, NEW th \in Threads, removeIPTablesRule(p, th) PROVE Types'
  BY <1>17, OneLessTyped DEF removeIPTablesRule, Types, CleanType, CleanSteps, bounds
<1>18. ASSUME NEW p \in Instances, NEW th \in Threads, Leave(p, th) PROVE Types'
  BY <1>18, ExitTyped DEF Leave, ThreadsTyped, Types, bounds
<1>19. ASSUME NEW p \in Instances, NEW th \in Threads, RevertFails(p, th) PROVE Types'
  BY <1>19, FaultTyped DEF RevertFails, Types, CleanType, CleanSteps
<1>20. ASSUME ChangeFile PROVE Types'
  <2>1. proc' \in [Instances -> ProcType]
    BY <1>20, ProcRecords DEF ChangeFile, Types
  <2>2. file' \in 1..MaxFile
    <3>1. file \in 1..MaxFile /\ file < MaxFile /\ file' = file + 1
      BY <1>20 DEF ChangeFile, Types
    <3> QED
      BY <3>1, MetadataConstants
  <2> QED
    BY <1>20, <2>1, <2>2 DEF ChangeFile, Types, bounds
<1>21. ASSUME Request PROVE Types'
  <2>1. \A p \in Instances : Token(p) \in 0..MaxFile
    BY ProcRecords DEF Token, Types
  <2>2. answer' \in 0..MaxFile
    BY <1>21, <2>1, MetadataConstants DEF Request
  <2> QED
    BY <1>21, <2>2 DEF Request, Types, bounds
<1>22. ASSUME UNCHANGED vars PROVE Types'
  BY <1>22 DEF vars, Types
<1>23. ASSUME NEW p \in Instances, NEW th \in Threads, RemoveFails(p, th) PROVE Types'
  BY <1>23, FaultTyped DEF RemoveFails, Types, CleanType, CleanSteps
<1> QED
  BY <1>1, <1>2, <1>3, <1>4, <1>5, <1>6, <1>7, <1>8, <1>9, <1>10, <1>11, <1>12, <1>13,
     <1>14, <1>15, <1>16, <1>17, <1>18, <1>19, <1>20, <1>21, <1>22, <1>23 DEF Next, Main, Cleanup

LEMMA OnePortKept == ASSUME IndInv, [Next]_vars PROVE OnePort'
<1> USE DEF IndInv, Types, ProcType, OnePort
<1>1. ASSUME NEW p \in Instances, Start(p) PROVE OnePort'
  BY <1>1 DEF Start, Off
<1>2. ASSUME NEW p \in Instances, Bind(p) PROVE OnePort'
  BY <1>2 DEF Bind, Exit, Off
<1>3. ASSUME NEW p \in Instances, removeDeprecatedIPTablesRule(p) PROVE OnePort'
  BY <1>3 DEF removeDeprecatedIPTablesRule, Goto
<1>4. ASSUME NEW p \in Instances, addIPTablesRule(p) PROVE OnePort'
  BY <1>4 DEF addIPTablesRule, Goto
<1>5. ASSUME NEW p \in Instances, getCorefile(p) PROVE OnePort'
  BY <1>5 DEF getCorefile, Goto
<1>6. ASSUME NEW p \in Instances, PatchCorefile(p) PROVE OnePort'
  BY <1>6 DEF PatchCorefile, Goto, Exit, Off
<1>7. ASSUME NEW p \in Instances, StartThreads(p) PROVE OnePort'
  BY <1>7 DEF StartThreads, Goto
<1>8. ASSUME NEW p \in Instances, Notify(p) PROVE OnePort'
  BY <1>8 DEF Notify, Goto
<1>9. ASSUME NEW p \in Instances, AddWatch(p) PROVE OnePort'
  BY <1>9 DEF AddWatch
<1>10. ASSUME NEW p \in Instances, FileChanged(p) PROVE OnePort'
  BY <1>10 DEF FileChanged
<1>11. ASSUME NEW p \in Instances, Stop(p) PROVE OnePort'
  BY <1>11 DEF Stop
<1>12. ASSUME NEW p \in Instances, Kill(p) PROVE OnePort'
  BY <1>12 DEF Kill, Exit, Off
<1>13. ASSUME NEW p \in Instances, ServeFails(p) PROVE OnePort'
  BY <1>13 DEF ServeFails
<1>14. ASSUME NEW p \in Instances, PatchFails(p) PROVE OnePort'
  BY <1>14 DEF PatchFails, Exit, Off
<1>15. ASSUME NEW p \in Instances, NEW th \in Threads, RevertGet(p, th) PROVE OnePort'
  BY <1>15 DEF RevertGet
<1>16. ASSUME NEW p \in Instances, NEW th \in Threads, RevertCorefile(p, th) PROVE OnePort'
  BY <1>16 DEF RevertCorefile
<1>17. ASSUME NEW p \in Instances, NEW th \in Threads, removeIPTablesRule(p, th) PROVE OnePort'
  BY <1>17 DEF removeIPTablesRule
<1>18. ASSUME NEW p \in Instances, NEW th \in Threads, Leave(p, th) PROVE OnePort'
  BY <1>18 DEF Leave, Exit, Off
<1>19. ASSUME NEW p \in Instances, NEW th \in Threads, RevertFails(p, th) PROVE OnePort'
  BY <1>19 DEF RevertFails
<1>20. ASSUME ChangeFile PROVE OnePort'
  BY <1>20 DEF ChangeFile
<1>21. ASSUME Request PROVE OnePort'
  BY <1>21 DEF Request
<1>22. ASSUME UNCHANGED vars PROVE OnePort'
  BY <1>22 DEF vars
<1>23. ASSUME NEW p \in Instances, NEW th \in Threads, RemoveFails(p, th) PROVE OnePort'
  BY <1>23 DEF RemoveFails
<1> QED
  BY <1>1, <1>2, <1>3, <1>4, <1>5, <1>6, <1>7, <1>8, <1>9, <1>10, <1>11, <1>12, <1>13,
     <1>14, <1>15, <1>16, <1>17, <1>18, <1>19, <1>20, <1>21, <1>22, <1>23 DEF Next, Main, Cleanup

LEMMA OnlyRunningKept == ASSUME IndInv, [Next]_vars PROVE OnlyRunning'
<1> USE DEF IndInv, Types, ProcType, CleanType, CleanSteps, Threads, OnlyRunning, Running
<1>1. ASSUME NEW p \in Instances, Start(p) PROVE OnlyRunning'
  BY <1>1 DEF Start, Off
<1>2. ASSUME NEW p \in Instances, Bind(p) PROVE OnlyRunning'
  <2>1. CASE Exit(p)
    BY <2>1, OffTyped, IdleTyped DEF Exit
  <2>2. CASE proc' = [proc EXCEPT ![p].pc = "deprecated", ![p].listen = TRUE] /\ UNCHANGED clean
    BY <1>2, <2>2 DEF Bind
  <2> QED
    BY <1>2, <2>1, <2>2 DEF Bind
<1>3. ASSUME NEW p \in Instances, removeDeprecatedIPTablesRule(p) PROVE OnlyRunning'
  BY <1>3 DEF removeDeprecatedIPTablesRule, Goto
<1>4. ASSUME NEW p \in Instances, addIPTablesRule(p) PROVE OnlyRunning'
  BY <1>4 DEF addIPTablesRule, Goto
<1>5. ASSUME NEW p \in Instances, getCorefile(p) PROVE OnlyRunning'
  BY <1>5 DEF getCorefile, Goto
<1>6. ASSUME NEW p \in Instances, PatchCorefile(p) PROVE OnlyRunning'
  <2>1. CASE Exit(p)
    BY <2>1, OffTyped, IdleTyped DEF Exit
  <2>2. CASE Goto(p, "go")
    BY <1>6, <2>2 DEF PatchCorefile, Goto
  <2> QED
    BY <1>6, <2>1, <2>2 DEF PatchCorefile
<1>7. ASSUME NEW p \in Instances, StartThreads(p) PROVE OnlyRunning'
  BY <1>7 DEF StartThreads, Goto
<1>8. ASSUME NEW p \in Instances, Notify(p) PROVE OnlyRunning'
  BY <1>8 DEF Notify, Goto
<1>9. ASSUME NEW p \in Instances, AddWatch(p) PROVE OnlyRunning'
  BY <1>9 DEF AddWatch
<1>10. ASSUME NEW p \in Instances, FileChanged(p) PROVE OnlyRunning'
  BY <1>10 DEF FileChanged, NoticeChange, Begin
<1>11. ASSUME NEW p \in Instances, Stop(p) PROVE OnlyRunning'
  BY <1>11 DEF Stop, Begin
<1>12. ASSUME NEW p \in Instances, Kill(p) PROVE OnlyRunning'
  BY <1>12 DEF Kill, Exit, Off, Idle
<1>13. ASSUME NEW p \in Instances, ServeFails(p) PROVE OnlyRunning'
  BY <1>13 DEF ServeFails, Begin
<1>14. ASSUME NEW p \in Instances, PatchFails(p) PROVE OnlyRunning'
  BY <1>14 DEF PatchFails, Exit, Off, Idle
<1>15. ASSUME NEW p \in Instances, NEW th \in Threads, RevertGet(p, th) PROVE OnlyRunning'
  BY <1>15 DEF RevertGet
<1>16. ASSUME NEW p \in Instances, NEW th \in Threads, RevertCorefile(p, th) PROVE OnlyRunning'
  BY <1>16 DEF RevertCorefile
<1>17. ASSUME NEW p \in Instances, NEW th \in Threads, removeIPTablesRule(p, th) PROVE OnlyRunning'
  BY <1>17 DEF removeIPTablesRule
<1>18. ASSUME NEW p \in Instances, NEW th \in Threads, Leave(p, th) PROVE OnlyRunning'
  BY <1>18 DEF Leave, Exit, Off, Idle
<1>19. ASSUME NEW p \in Instances, NEW th \in Threads, RevertFails(p, th) PROVE OnlyRunning'
  BY <1>19 DEF RevertFails
<1>20. ASSUME ChangeFile PROVE OnlyRunning'
  BY <1>20, ChangeFileMovesNobody
<1>21. ASSUME Request PROVE OnlyRunning'
  BY <1>21 DEF Request
<1>22. ASSUME UNCHANGED vars PROVE OnlyRunning'
  BY <1>22 DEF vars
<1>23. ASSUME NEW p \in Instances, NEW th \in Threads, RemoveFails(p, th) PROVE OnlyRunning'
  BY <1>23 DEF RemoveFails
<1> QED
  BY <1>1, <1>2, <1>3, <1>4, <1>5, <1>6, <1>7, <1>8, <1>9, <1>10, <1>11, <1>12, <1>13,
     <1>14, <1>15, <1>16, <1>17, <1>18, <1>19, <1>20, <1>21, <1>22, <1>23 DEF Next, Main, Cleanup

LEMMA EntryOwedKept == ASSUME IndInv, [Next]_vars PROVE EntryOwed'
<1> USE DEF IndInv, Types, ProcType, CleanType, CleanSteps, Threads, OnlyRunning, Running,
   EntryOwed, Responsible, Patching
<1>1. ASSUME NEW p \in Instances, Start(p) PROVE EntryOwed'
  BY <1>1 DEF Start, Off, bounds
<1>2. ASSUME NEW p \in Instances, Bind(p) PROVE EntryOwed'
  <2>1. UNCHANGED <<patched, faults>>
    BY <1>2 DEF Bind, bounds
  <2>2. \A q \in Instances : Responsible(q) => q # p /\ Responsible(q)'
    BY <1>2 DEF Bind, Exit
  <2> QED
    BY <2>1, <2>2
<1>3. ASSUME NEW p \in Instances, removeDeprecatedIPTablesRule(p) PROVE EntryOwed'
  BY <1>3 DEF removeDeprecatedIPTablesRule, Goto, bounds
<1>4. ASSUME NEW p \in Instances, addIPTablesRule(p) PROVE EntryOwed'
  BY <1>4 DEF addIPTablesRule, Goto, bounds
<1>5. ASSUME NEW p \in Instances, getCorefile(p) PROVE EntryOwed'
  BY <1>5 DEF getCorefile, Goto, bounds
<1>6. ASSUME NEW p \in Instances, PatchCorefile(p) PROVE EntryOwed'
  <2>1. UNCHANGED faults
    BY <1>6 DEF PatchCorefile, bounds
  <2>2. CASE <<p, "main">> \in fresh
    <3>1. \A th \in Threads : clean[p][th] = "idle"
      BY <1>6 DEF PatchCorefile
    <3>2. Responsible(p)'
      BY <1>6, <2>2, <3>1 DEF PatchCorefile, Goto
    <3> QED
      BY <3>2
  <2>3. CASE <<p, "main">> \notin fresh
    <3>1. UNCHANGED patched
      BY <1>6, <2>3 DEF PatchCorefile
    <3>2. \A q \in Instances : Responsible(q) => Responsible(q)'
      BY <1>6, <2>3 DEF PatchCorefile, Exit
    <3> QED
      BY <2>1, <3>1, <3>2
  <2> QED
    BY <2>2, <2>3
<1>7. ASSUME NEW p \in Instances, StartThreads(p) PROVE EntryOwed'
  BY <1>7 DEF StartThreads, Goto, bounds
<1>8. ASSUME NEW p \in Instances, Notify(p) PROVE EntryOwed'
  <2>1. UNCHANGED <<patched, faults>>
    BY <1>8 DEF Notify, bounds
  <2>2. \A q \in Instances : Responsible(q) => Responsible(q)'
    BY <1>8 DEF Notify, Goto
  <2> QED
    BY <2>1, <2>2
<1>9. ASSUME NEW p \in Instances, AddWatch(p) PROVE EntryOwed'
  <2>1. UNCHANGED <<patched, faults>>
    BY <1>9 DEF AddWatch, bounds
  <2>2. \A q \in Instances : Responsible(q) => Responsible(q)'
    BY <1>9 DEF AddWatch
  <2> QED
    BY <2>1, <2>2
<1>10. ASSUME NEW p \in Instances, FileChanged(p) PROVE EntryOwed'
  <2>1. UNCHANGED <<patched, faults>>
    BY <1>10 DEF FileChanged, bounds
  <2>2. \A q \in Instances : Responsible(q) => Responsible(q)'
    BY <1>10 DEF FileChanged, Begin
  <2> QED
    BY <2>1, <2>2
<1>11. ASSUME NEW p \in Instances, Stop(p) PROVE EntryOwed'
  BY <1>11 DEF Stop, Begin
<1>12. ASSUME NEW p \in Instances, Kill(p) PROVE EntryOwed'
  BY <1>12 DEF Kill, Fault, Exit, Off, Idle
<1>13. ASSUME NEW p \in Instances, ServeFails(p) PROVE EntryOwed'
  <2>1. UNCHANGED <<patched, faults>>
    BY <1>13 DEF ServeFails
  <2>2. \A q \in Instances : Responsible(q) => Responsible(q)'
    BY <1>13 DEF ServeFails, Begin
  <2> QED
    BY <2>1, <2>2
<1>14. ASSUME NEW p \in Instances, PatchFails(p) PROVE EntryOwed'
  BY <1>14 DEF PatchFails, Fault, Exit, Off, Idle
<1>15. ASSUME NEW p \in Instances, NEW th \in Threads, RevertGet(p, th) PROVE EntryOwed'
  <2>1. UNCHANGED <<patched, faults>>
    BY <1>15 DEF RevertGet, bounds
  <2>2. CASE patched
    <3>1. \A q \in Instances : Responsible(q) => Responsible(q)'
      BY <1>15, <2>2 DEF RevertGet
    <3> QED
      BY <2>1, <3>1
  <2>3. CASE ~patched
    BY <2>1, <2>3
  <2> QED
    BY <2>2, <2>3
<1>16. ASSUME NEW p \in Instances, NEW th \in Threads, RevertCorefile(p, th) PROVE EntryOwed'
  BY <1>16 DEF RevertCorefile, bounds
<1>17. ASSUME NEW p \in Instances, NEW th \in Threads, removeIPTablesRule(p, th) PROVE EntryOwed'
  BY <1>17 DEF removeIPTablesRule, bounds
<1>18. ASSUME NEW p \in Instances, NEW th \in Threads, Leave(p, th) PROVE EntryOwed'
  BY <1>18 DEF Leave, Exit, bounds, Off, Idle
<1>19. ASSUME NEW p \in Instances, NEW th \in Threads, RevertFails(p, th) PROVE EntryOwed'
  BY <1>19 DEF RevertFails, Fault
<1>20. ASSUME ChangeFile PROVE EntryOwed'
  BY <1>20 DEF ChangeFile, bounds
<1>21. ASSUME Request PROVE EntryOwed'
  BY <1>21 DEF Request, bounds
<1>22. ASSUME UNCHANGED vars PROVE EntryOwed'
  BY <1>22 DEF vars
<1>23. ASSUME NEW p \in Instances, NEW th \in Threads, RemoveFails(p, th) PROVE EntryOwed'
  BY <1>23 DEF RemoveFails, Fault
<1> QED
  BY <1>1, <1>2, <1>3, <1>4, <1>5, <1>6, <1>7, <1>8, <1>9, <1>10, <1>11, <1>12, <1>13,
     <1>14, <1>15, <1>16, <1>17, <1>18, <1>19, <1>20, <1>21, <1>22, <1>23 DEF Next, Main, Cleanup

LEMMA PortGuardsKept == ASSUME IndInv, [Next]_vars PROVE PortGuards'
<1> USE DEF IndInv, Types, ProcType, CleanType, CleanSteps, Threads, OnePort, OnlyRunning,
   Running, PortGuards, Patching, Added
<1>1. ASSUME NEW p \in Instances, Start(p) PROVE PortGuards'
  BY <1>1 DEF Start, Off, bounds
<1>2. ASSUME NEW p \in Instances, Bind(p) PROVE PortGuards'
  BY <1>2 DEF Bind, Exit, bounds, Off, Idle
<1>3. ASSUME NEW p \in Instances, removeDeprecatedIPTablesRule(p) PROVE PortGuards'
  BY <1>3 DEF removeDeprecatedIPTablesRule, OneLess, Goto, bounds
<1>4. ASSUME NEW p \in Instances, addIPTablesRule(p) PROVE PortGuards'
  BY <1>4 DEF addIPTablesRule, Goto, bounds
<1>5. ASSUME NEW p \in Instances, getCorefile(p) PROVE PortGuards'
  BY <1>5 DEF getCorefile, Goto, bounds
<1>6. ASSUME NEW p \in Instances, PatchCorefile(p) PROVE PortGuards'
  BY <1>6 DEF PatchCorefile, Goto, OneLess, Exit, bounds, Off, Idle
<1>7. ASSUME NEW p \in Instances, StartThreads(p) PROVE PortGuards'
  BY <1>7 DEF StartThreads, Goto, bounds
<1>8. ASSUME NEW p \in Instances, Notify(p) PROVE PortGuards'
  BY <1>8 DEF Notify, Goto, bounds
<1>9. ASSUME NEW p \in Instances, AddWatch(p) PROVE PortGuards'
  BY <1>9 DEF AddWatch, bounds
<1>10. ASSUME NEW p \in Instances, FileChanged(p) PROVE PortGuards'
  <2>1. clean'[p] # Idle /\ \A q \in Instances \ {p} : clean'[q] = clean[q]
    BY <1>10, IdleTyped DEF FileChanged, Begin
  <2> QED
    BY <1>10, <2>1 DEF FileChanged, bounds
<1>11. ASSUME NEW p \in Instances, Stop(p) PROVE PortGuards'
  <2>1. clean'[p] # Idle /\ \A q \in Instances \ {p} : clean'[q] = clean[q]
    BY <1>11, IdleTyped DEF Stop, Begin
  <2> QED
    BY <1>11, <2>1 DEF Stop
<1>12. ASSUME NEW p \in Instances, Kill(p) PROVE PortGuards'
  BY <1>12 DEF Kill, Fault, Exit, Off, Idle
<1>13. ASSUME NEW p \in Instances, ServeFails(p) PROVE PortGuards'
  BY <1>13 DEF ServeFails, Begin
<1>14. ASSUME NEW p \in Instances, PatchFails(p) PROVE PortGuards'
  BY <1>14 DEF PatchFails, Fault, OneLess, Exit, Off, Idle
<1>15. ASSUME NEW p \in Instances, NEW th \in Threads, RevertGet(p, th) PROVE PortGuards'
  <2>1. clean'[p] # Idle /\ \A q \in Instances \ {p} : clean'[q] = clean[q]
    BY <1>15, IdleTyped DEF RevertGet
  <2>2. Running(p) /\ (lost = 0 => \A q \in Instances \ {p} : ~Added(q))
    BY <1>15 DEF RevertGet
  <2> QED
    BY <1>15, <2>1, <2>2 DEF RevertGet, bounds
<1>16. ASSUME NEW p \in Instances, NEW th \in Threads, RevertCorefile(p, th) PROVE PortGuards'
  <2>1. clean'[p] # Idle /\ \A q \in Instances \ {p} : clean'[q] = clean[q]
    BY <1>16, IdleTyped DEF RevertCorefile
  <2>2. Running(p) /\ (lost = 0 => \A q \in Instances \ {p} : ~Added(q))
    BY <1>16 DEF RevertCorefile
  <2> QED
    BY <1>16, <2>1, <2>2 DEF RevertCorefile, bounds
<1>17. ASSUME NEW p \in Instances, NEW th \in Threads, removeIPTablesRule(p, th) PROVE PortGuards'
  <2>1. clean'[p] # Idle /\ \A q \in Instances \ {p} : clean'[q] = clean[q]
    BY <1>17, IdleTyped DEF removeIPTablesRule
  <2>2. Running(p) /\ (lost = 0 => \A q \in Instances \ {p} : ~Added(q))
    BY <1>17 DEF removeIPTablesRule
  <2> QED
    BY <1>17, <2>1, <2>2 DEF removeIPTablesRule, bounds
<1>18. ASSUME NEW p \in Instances, NEW th \in Threads, Leave(p, th) PROVE PortGuards'
  BY <1>18 DEF Leave, Exit, bounds, Off, Idle
<1>19. ASSUME NEW p \in Instances, NEW th \in Threads, RevertFails(p, th) PROVE PortGuards'
  <2>1. clean'[p] # Idle /\ \A q \in Instances \ {p} : clean'[q] = clean[q]
    BY <1>19, IdleTyped DEF RevertFails
  <2>2. Running(p) /\ (lost = 0 => \A q \in Instances \ {p} : ~Added(q))
    BY <1>19 DEF RevertFails
  <2> QED
    BY <1>19, <2>1, <2>2 DEF RevertFails
<1>20. ASSUME ChangeFile PROVE PortGuards'
  BY <1>20, ChangeFileMovesNobody
<1>21. ASSUME Request PROVE PortGuards'
  BY <1>21 DEF Request, bounds
<1>22. ASSUME UNCHANGED vars PROVE PortGuards'
  BY <1>22 DEF vars
<1>23. ASSUME NEW p \in Instances, NEW th \in Threads, RemoveFails(p, th) PROVE PortGuards'
  <2>1. clean'[p] # Idle /\ \A q \in Instances \ {p} : clean'[q] = clean[q]
    BY <1>23, IdleTyped DEF RemoveFails
  <2>2. Running(p) /\ (lost = 0 => \A q \in Instances \ {p} : ~Added(q))
    BY <1>23 DEF RemoveFails
  <2> QED
    BY <1>23, <2>1, <2>2 DEF RemoveFails
<1> QED
  BY <1>1, <1>2, <1>3, <1>4, <1>5, <1>6, <1>7, <1>8, <1>9, <1>10, <1>11, <1>12, <1>13,
     <1>14, <1>15, <1>16, <1>17, <1>18, <1>19, <1>20, <1>21, <1>22, <1>23 DEF Next, Main, Cleanup

\* How many elements a set can have less or must have more than another.
LEMMA Counting ==
    ASSUME NEW A, NEW B, IsFiniteSet(A), IsFiniteSet(B)
    PROVE  /\ Cardinality(A) \in Nat /\ Cardinality(B) \in Nat
           /\ A \subseteq B => Cardinality(A) <= Cardinality(B)
           /\ \A x : A \ {x} \subseteq B => Cardinality(A) <= Cardinality(B) + 1
           /\ \A x : x \notin A /\ A \union {x} \subseteq B => Cardinality(A) + 1 <= Cardinality(B)
<1>1. Cardinality(A) \in Nat /\ Cardinality(B) \in Nat
  BY FS_CardinalityType
<1>2. ASSUME A \subseteq B PROVE Cardinality(A) <= Cardinality(B)
  BY <1>2, FS_Subset
<1>3. ASSUME NEW x, A \ {x} \subseteq B PROVE Cardinality(A) <= Cardinality(B) + 1
  <2>1. Cardinality(A \ {x}) <= Cardinality(B)
    BY <1>3, FS_Subset
  <2>2. IsFiniteSet(A \ {x})
        /\ Cardinality(A \ {x}) = IF x \in A THEN Cardinality(A) - 1 ELSE Cardinality(A)
    BY FS_RemoveElement
  <2> QED
    BY <1>1, <2>1, <2>2
<1>4. ASSUME NEW x, x \notin A, A \union {x} \subseteq B PROVE Cardinality(A) + 1 <= Cardinality(B)
  <2>1. Cardinality(A \union {x}) <= Cardinality(B)
    BY <1>4, FS_Subset
  <2>2. Cardinality(A \union {x}) = Cardinality(A) + 1
    BY <1>4, FS_AddElement
  <2> QED
    BY <2>1, <2>2
<1> QED
  BY <1>1, <1>2, <1>3, <1>4

LEMMA FiniteOwing == IsFiniteSet(OwingSet)
BY FS_Subset, MetadataConstants DEF OwingSet

\* The number of rules stays within what is owed when no instance stops owing, when
\* one does and a rule goes or a fault is noted, and when one begins to and a rule comes.
LEMMA StillOwed ==
    ASSUME Types, Types', RulesOwed
    PROVE  /\ OwingSet \subseteq OwingSet' /\ rules' <= rules /\ faults <= faults' => RulesOwed'
           /\ \A p : /\ OwingSet \ {p} \subseteq OwingSet' /\ faults <= faults'
                     /\ rules' = OneLess(rules) \/ (rules' = rules /\ faults' = faults + 1)
                     => RulesOwed'
           /\ \A p : p \notin OwingSet /\ OwingSet \union {p} \subseteq OwingSet'
                     /\ rules' = rules + 1 /\ faults' = faults => RulesOwed'
<1>1. IsFiniteSet(OwingSet) /\ IsFiniteSet(OwingSet')
  <2>1. IsFiniteSet(OwingSet)'
    BY FiniteOwing, PTL
  <2> QED
    BY <2>1, FiniteOwing
<1>2. /\ Cardinality(OwingSet) \in Nat /\ Cardinality(OwingSet') \in Nat
      /\ OwingSet \subseteq OwingSet' => Cardinality(OwingSet) <= Cardinality(OwingSet')
      /\ \A p : OwingSet \ {p} \subseteq OwingSet'
                => Cardinality(OwingSet) <= Cardinality(OwingSet') + 1
      /\ \A p : p \notin OwingSet /\ OwingSet \union {p} \subseteq OwingSet'
                => Cardinality(OwingSet) + 1 <= Cardinality(OwingSet')
  BY <1>1, Counting
<1>3. rules \in Nat /\ rules' \in Nat /\ faults \in Nat /\ faults' \in Nat
  BY MetadataConstants DEF Types
<1> QED
  BY <1>2, <1>3 DEF RulesOwed, OneLess

LEMMA NatCounters ==
    ASSUME Types
    PROVE  /\ rules \in Nat /\ rules <= rules /\ OneLess(rules) <= rules
           /\ faults \in Nat /\ faults <= faults /\ faults <= faults + 1
BY MetadataConstants DEF Types, OneLess

LEMMA RulesOwedKept == ASSUME IndInv, [Next]_vars PROVE RulesOwed'
<1> USE DEF IndInv
<1>1. ASSUME NEW p \in Instances, Start(p) PROVE RulesOwed'
  <2>1. OwingSet \subseteq OwingSet'
    BY <1>1 DEF Start, Off, bounds, OwingSet, Owing, Added, Types, ProcType, CleanType
  <2> QED
    BY <1>1, <2>1, StillOwed, TypesKept, NatCounters DEF Start, bounds
<1>2. ASSUME NEW p \in Instances, Bind(p) PROVE RulesOwed'
  <2>1. OwingSet \subseteq OwingSet'
    BY <1>2 DEF Bind, Exit, bounds, Off, Idle, OwingSet, Owing, Added, Types, ProcType,
       CleanType
  <2> QED
    BY <1>2, <2>1, StillOwed, TypesKept, NatCounters DEF Bind, bounds
<1>3. ASSUME NEW p \in Instances, removeDeprecatedIPTablesRule(p) PROVE RulesOwed'
  <2>1. OwingSet \subseteq OwingSet'
    BY <1>3 DEF removeDeprecatedIPTablesRule, Goto, bounds, OwingSet, Owing, Added, Types,
       ProcType, CleanType
  <2> QED
    BY <1>3, <2>1, StillOwed, TypesKept, NatCounters DEF removeDeprecatedIPTablesRule, bounds
<1>4. ASSUME NEW p \in Instances, addIPTablesRule(p) PROVE RulesOwed'
  <2>1. p \notin OwingSet /\ OwingSet \union {p} \subseteq OwingSet'
    BY <1>4 DEF addIPTablesRule, Goto, bounds, OwingSet, Owing, Added, OnlyRunning, Running,
       Types, ProcType, CleanType
  <2> QED
    BY <1>4, <2>1, StillOwed, TypesKept, NatCounters DEF addIPTablesRule, bounds
<1>5. ASSUME NEW p \in Instances, getCorefile(p) PROVE RulesOwed'
  <2>1. OwingSet \subseteq OwingSet'
    BY <1>5 DEF getCorefile, Goto, bounds, OwingSet, Owing, Added, Types, ProcType, CleanType
  <2> QED
    BY <1>5, <2>1, StillOwed, TypesKept, NatCounters DEF getCorefile, bounds
<1>6. ASSUME NEW p \in Instances, PatchCorefile(p) PROVE RulesOwed'
  <2>1. CASE <<p, "main">> \in fresh
    <3>1. OwingSet \subseteq OwingSet'
      BY <1>6, <2>1 DEF PatchCorefile, Goto, OwingSet, Owing, Added, Types, ProcType, CleanType
    <3> QED
      BY <1>6, <2>1, <3>1, StillOwed, TypesKept, NatCounters DEF PatchCorefile, bounds
  <2>2. CASE <<p, "main">> \notin fresh
    <3>1. OwingSet \ {p} \subseteq OwingSet'
      BY <1>6, <2>2 DEF PatchCorefile, Exit, OwingSet, Owing, Added, Types, ProcType, CleanType
    <3> QED
      BY <1>6, <2>2, <3>1, StillOwed, TypesKept, NatCounters DEF PatchCorefile, bounds
  <2> QED
    BY <2>1, <2>2
<1>7. ASSUME NEW p \in Instances, StartThreads(p) PROVE RulesOwed'
  <2>1. OwingSet \subseteq OwingSet'
    BY <1>7 DEF StartThreads, Goto, bounds, OwingSet, Owing, Added, Types, ProcType, CleanType
  <2> QED
    BY <1>7, <2>1, StillOwed, TypesKept, NatCounters DEF StartThreads, bounds
<1>8. ASSUME NEW p \in Instances, Notify(p) PROVE RulesOwed'
  <2>1. OwingSet \subseteq OwingSet'
    BY <1>8 DEF Notify, Goto, bounds, OwingSet, Owing, Added, Types, ProcType, CleanType
  <2> QED
    BY <1>8, <2>1, StillOwed, TypesKept, NatCounters DEF Notify, bounds
<1>9. ASSUME NEW p \in Instances, AddWatch(p) PROVE RulesOwed'
  <2>1. OwingSet \subseteq OwingSet'
    BY <1>9 DEF AddWatch, Running, bounds, OwingSet, Owing, Added, Types, ProcType, CleanType
  <2> QED
    BY <1>9, <2>1, StillOwed, TypesKept, NatCounters DEF AddWatch, bounds
<1>10. ASSUME NEW p \in Instances, FileChanged(p) PROVE RulesOwed'
  <2>1. OwingSet \subseteq OwingSet'
    BY <1>10 DEF FileChanged, Begin, bounds, OwingSet, Owing, Added, Types, ProcType, CleanType
  <2> QED
    BY <1>10, <2>1, StillOwed, TypesKept, NatCounters DEF FileChanged, bounds
<1>11. ASSUME NEW p \in Instances, Stop(p) PROVE RulesOwed'
  <2>1. OwingSet \subseteq OwingSet'
    BY <1>11 DEF Stop, Begin, OwingSet, Owing, Added, Types, ProcType, CleanType
  <2> QED
    BY <1>11, <2>1, StillOwed, TypesKept, NatCounters DEF Stop
<1>12. ASSUME NEW p \in Instances, Kill(p) PROVE RulesOwed'
  <2>1. OwingSet \ {p} \subseteq OwingSet'
    BY <1>12 DEF Kill, Exit, Off, Idle, OwingSet, Owing, Added, Types, ProcType, CleanType
  <2> QED
    BY <1>12, <2>1, StillOwed, TypesKept, NatCounters, FaultTyped DEF Kill
<1>13. ASSUME NEW p \in Instances, ServeFails(p) PROVE RulesOwed'
  <2>1. OwingSet \subseteq OwingSet'
    BY <1>13 DEF ServeFails, Running, Begin, OwingSet, Owing, Added, Types, ProcType, CleanType
  <2> QED
    BY <1>13, <2>1, StillOwed, TypesKept, NatCounters DEF ServeFails
<1>14. ASSUME NEW p \in Instances, PatchFails(p) PROVE RulesOwed'
  <2>1. OwingSet \ {p} \subseteq OwingSet'
    BY <1>14 DEF PatchFails, Exit, Off, Idle, OwingSet, Owing, Added, Types, ProcType, CleanType
  <2> QED
    BY <1>14, <2>1, StillOwed, TypesKept, NatCounters, FaultTyped DEF PatchFails
<1>15. ASSUME NEW p \in Instances, NEW th \in Threads, RevertGet(p, th) PROVE RulesOwed'
  <2>1. OwingSet \subseteq OwingSet'
    BY <1>15 DEF RevertGet, bounds, OwingSet, Owing, Added, Types, ProcType, CleanType
  <2> QED
    BY <1>15, <2>1, StillOwed, TypesKept, NatCounters DEF RevertGet, bounds
<1>16. ASSUME NEW p \in Instances, NEW th \in Threads, RevertCorefile(p, th) PROVE RulesOwed'
  <2>1. OwingSet \subseteq OwingSet'
    BY <1>16 DEF RevertCorefile, bounds, OwingSet, Owing, Added, Types, ProcType, CleanType
  <2> QED
    BY <1>16, <2>1, StillOwed, TypesKept, NatCounters DEF RevertCorefile, bounds
<1>17. ASSUME NEW p \in Instances, NEW th \in Threads, removeIPTablesRule(p, th) PROVE RulesOwed'
  <2>1. OwingSet \ {p} \subseteq OwingSet'
    BY <1>17 DEF removeIPTablesRule, bounds, OwingSet, Owing, Added, Types, ProcType, CleanType
  <2> QED
    BY <1>17, <2>1, StillOwed, TypesKept, NatCounters, FaultTyped DEF removeIPTablesRule, bounds
<1>18. ASSUME NEW p \in Instances, NEW th \in Threads, Leave(p, th) PROVE RulesOwed'
  <2>1. OwingSet \subseteq OwingSet'
    BY <1>18 DEF Leave, Exit, bounds, Off, Idle, OwingSet, Owing, Added, Types, ProcType,
       CleanType
  <2> QED
    BY <1>18, <2>1, StillOwed, TypesKept, NatCounters DEF Leave, bounds
<1>19. ASSUME NEW p \in Instances, NEW th \in Threads, RevertFails(p, th) PROVE RulesOwed'
  <2>1. OwingSet \subseteq OwingSet'
    BY <1>19 DEF RevertFails, OwingSet, Owing, Added, Types, ProcType, CleanType
  <2> QED
    BY <1>19, <2>1, StillOwed, TypesKept, NatCounters, FaultTyped DEF RevertFails
<1>20. ASSUME ChangeFile PROVE RulesOwed'
  <2>1. OwingSet \subseteq OwingSet'
    BY <1>20, ChangeFileMovesNobody DEF OwingSet, Owing, Added
  <2> QED
    BY <1>20, <2>1, StillOwed, TypesKept, NatCounters, ChangeFileMovesNobody
<1>21. ASSUME Request PROVE RulesOwed'
  <2>1. OwingSet \subseteq OwingSet'
    BY <1>21 DEF Request, bounds, OwingSet, Owing, Added, Types, ProcType, CleanType
  <2> QED
    BY <1>21, <2>1, StillOwed, TypesKept, NatCounters DEF Request, bounds
<1>22. ASSUME UNCHANGED vars PROVE RulesOwed'
  <2>1. OwingSet \subseteq OwingSet'
    BY <1>22 DEF vars, OwingSet, Owing, Added
  <2> QED
    BY <1>22, <2>1, StillOwed, TypesKept, NatCounters DEF vars, bounds
<1>23. ASSUME NEW p \in Instances, NEW th \in Threads, RemoveFails(p, th) PROVE RulesOwed'
  <2>1. OwingSet \ {p} \subseteq OwingSet'
    BY <1>23 DEF RemoveFails, OwingSet, Owing, Added, Types, ProcType, CleanType
  <2> QED
    BY <1>23, <2>1, StillOwed, TypesKept, NatCounters DEF RemoveFails, Fault
<1> QED
  BY <1>1, <1>2, <1>3, <1>4, <1>5, <1>6, <1>7, <1>8, <1>9, <1>10, <1>11, <1>12, <1>13,
     <1>14, <1>15, <1>16, <1>17, <1>18, <1>19, <1>20, <1>21, <1>22, <1>23 DEF Next, Main, Cleanup

-----------------------------------------------------------------------------
(* The theorems.                                                           *)

LEMMA Invariant == Spec => []IndInv
<1>1. Init => IndInv
  <2> SUFFICES ASSUME Init PROVE IndInv
    OBVIOUS
  <2>1. \A p \in Instances : /\ proc[p].pc = "off" /\ ~proc[p].listen
                             /\ ~proc[p].watch /\ ~proc[p].event
                             /\ \A th \in Threads : clean[p][th] = "idle"
    BY OffTyped, IdleTyped DEF Init
  <2>2. Types
    <3>1. proc \in [Instances -> ProcType] /\ clean \in [Instances -> CleanType]
      BY OffTyped, IdleTyped DEF Init
    <3>2. /\ 1 \in 1..MaxFile /\ 0 \in 0..MaxFile
          /\ 0 \in 0..MaxSignals /\ 0 \in 0..MaxLost /\ 0 \in 0..MaxFaults
      BY MetadataConstants
    <3>3. /\ file \in 1..MaxFile /\ answer \in 0..MaxFile
          /\ signals \in 0..MaxSignals /\ lost \in 0..MaxLost /\ faults \in 0..MaxFaults
      BY <3>2 DEF Init
    <3>4. rules \in Nat /\ deprecated \in 0..1
      BY DEF Init
    <3>5. patched \in BOOLEAN /\ fresh \subseteq Instances \X (Threads \union {"main"})
      BY DEF Init
    <3> QED
      BY <3>1, <3>3, <3>4, <3>5 DEF Types
  <2>3. OnePort /\ OnlyRunning
    BY <2>1 DEF OnePort, OnlyRunning
  <2>4. EntryOwed /\ PortGuards
    BY <2>1 DEF Init, EntryOwed, PortGuards, Added, Patching
  <2>5. RulesOwed
    BY FiniteOwing, FS_CardinalityType DEF Init, RulesOwed
  <2> QED
    BY <2>2, <2>3, <2>4, <2>5 DEF IndInv
<1>2. IndInv /\ [Next]_vars => IndInv'
  BY TypesKept, OnePortKept, OnlyRunningKept, RulesOwedKept, EntryOwedKept, PortGuardsKept
     DEF IndInv
<1> QED
  BY <1>1, <1>2, PTL DEF Spec

\* However many instances start, end, fail and are killed: one at most has the port;
\* when none is left, and none was killed, no rule and no entry of the Corefile is;
\* and a rule without an instance that will remove it is one of an instance that was
\* killed (addIPTablesRule, removeIPTablesRule, PatchCorefile, RevertCorefile).
THEOREM InstancesLeaveNothing == Spec => []MetadataInv
<1>1. ASSUME IndInv PROVE MetadataTypeOK
  <2>1. Cardinality({p \in Instances : proc[p].listen}) <= 1
    <3> DEFINE L == {p \in Instances : proc[p].listen}
    <3>1. CASE L = {}
      BY <3>1, FS_EmptySet
    <3>2. CASE \E p \in Instances : p \in L
      <4>1. PICK p \in Instances : p \in L
        BY <3>2
      <4>2. L = {p}
        BY <1>1, <4>1 DEF IndInv, OnePort
      <4> QED
        BY <4>2, FS_Singleton
    <3> QED
      BY <3>1, <3>2
  <2> QED
    BY <1>1, <2>1 DEF IndInv, Types, MetadataTypeOK, ProcType, Places, CleanType, CleanSteps
<1>2. ASSUME IndInv PROVE RulesAccounted
  <2>1. IsFiniteSet({p \in Instances : Added(p)}) /\ OwingSet \subseteq {p \in Instances : Added(p)}
    BY FS_Subset, MetadataConstants DEF OwingSet, Owing
  <2>2. Cardinality(OwingSet) <= Cardinality({p \in Instances : Added(p)})
    BY <2>1, FS_Subset
  <2>3. Cardinality(OwingSet) \in Nat /\ Cardinality({p \in Instances : Added(p)}) \in Nat
    BY <2>1, FiniteOwing, FS_CardinalityType
  <2>4. rules \in Nat /\ faults \in Nat
    BY <1>2, MetadataConstants DEF IndInv, Types
  <2> QED
    BY <1>2, <2>2, <2>3, <2>4 DEF IndInv, RulesOwed, RulesAccounted
<1>3. ASSUME IndInv PROVE LeavesNothing
  <2> SUFFICES ASSUME \A p \in Instances : proc[p].pc \in {"off", "bind"}, faults = 0
               PROVE  rules = 0 /\ ~patched
    BY DEF LeavesNothing
  <2>1. OwingSet = {}
    BY DEF OwingSet, Owing, Added
  <2>2. rules = 0
    BY <1>3, <2>1, FS_EmptySet DEF IndInv, RulesOwed, Types
  <2>3. ~patched
    BY <1>3 DEF IndInv, EntryOwed, Responsible, Patching
  <2> QED
    BY <2>2, <2>3
<1> QED
  BY <1>1, <1>2, <1>3, Invariant, PTL DEF MetadataInv

\* Until a listener fails, an instance that serves is found by clients, whatever
\* earlier and later instances on the node do (Bind comes before addIPTablesRule).
THEOREM ServingIsRouted == Spec => []Routed
<1>1. IndInv => Routed
  BY DEF IndInv, PortGuards, Routed, Serving, Running, Added, Patching
<1> QED
  BY <1>1, Invariant, PTL

-----------------------------------------------------------------------------
(* app-auth-proxy.                                                         *)

ReqSteps == Over \union {"sent", "keep", "draw", "url", "idp", "callback", "exchange", "groups", "store"}
ReqType == [pc : ReqSteps, page : Pages \union {NoPage}, meth : Methods, held : States,
            snap : SessionType]

\* AuthTypeOK, with names for the types.
AuthTypes ==
    /\ browser \in Owners
    /\ sess \in [Browsers -> SessionType]
    /\ state \in States /\ redrawn \subseteq States
    /\ req \in [Requests -> ReqType]
    /\ expiries \in 0..MaxExpiries /\ authFaults \in 0..MaxAuthFaults

\* Groups are those that the IdP has given for the user, none of them, or nil.
OwnGroups(s, b) == s.groups # NoGroups => s.groups \subseteq Granted[b]

Honest ==
    /\ \A b \in Browsers : OwnGroups(sess[b], b)
    /\ \A r \in Requests : OwnGroups(req[r].snap, browser[r])

\* A session that holds groups holds a token.
TokenFirst == \A b \in Browsers : sess[b].groups # NoGroups => sess[b].info # "none"

\* The copy that notes a page was taken of a session without a token, and the copy
\* that a callback saves has one.  A request that is handled is for some page.
Copies ==
    \A r \in Requests :
        /\ At(r, "keep") => req[r].snap.info = "none" /\ req[r].snap.groups = NoGroups
        /\ req[r].pc \in {"groups", "store"} => req[r].snap.info # "none"
        /\ req[r].pc \in {"sent", "keep"} => req[r].page \in Pages

\* Without a failure a session with a token has groups and a page, and so has the
\* session of a login that is under way, and its copy.
LoginSteps == {"draw", "url", "idp", "callback", "exchange", "groups", "store"}

Resumable ==
    authFaults = 0 =>
        /\ \A b \in Browsers : sess[b].info # "none" =>
              sess[b].groups # NoGroups /\ sess[b].path # NoPage
        /\ \A r \in Requests :
              /\ req[r].pc \in LoginSteps => sess[browser[r]].path # NoPage
              /\ req[r].pc \in {"keep", "groups", "store"} => req[r].snap.path # NoPage
              /\ At(r, "store") => req[r].snap.groups # NoGroups

AuthIndInv == AuthTypes /\ Honest /\ TokenFirst /\ Copies /\ Resumable /\ OnlyGranted /\ NoPanic

-----------------------------------------------------------------------------
(* Records, and the steps that most actions are made of.                   *)

LEMMA Constants ==
    /\ 0 \in States /\ "GET" \in Methods
    /\ NoSession \in SessionType /\ NoRequest \in ReqType
    /\ NoPage \notin Pages
    /\ \A b \in Browsers : Granted[b] \in SUBSET Scopes /\ Granted[b] # NoGroups /\ NoGroups # {}
<1>1. 0 \in States /\ "GET" \in Methods
  BY AuthConstants, FS_CardinalityType DEF States, Methods
<1>2. NoSession \in SessionType
  BY DEF NoSession, SessionType
<1>3. NoRequest \in ReqType
  BY <1>1, <1>2 DEF NoRequest, ReqType, ReqSteps, Over
<1> QED
  BY <1>1, <1>2, <1>3, AuthConstants DEF NoGroups

LEMMA Owner == ASSUME AuthTypes, NEW r \in Requests PROVE browser[r] \in Browsers
BY AuthConstants DEF AuthTypes

LEMMA SessionRecords ==
    ASSUME NEW s \in SessionType
    PROVE  /\ s.path \in Pages \union {NoPage}
           /\ \A i \in {"none", "live", "old"} : [s EXCEPT !.info = i] \in SessionType
           /\ \A p \in Pages \union {NoPage} : [s EXCEPT !.path = p] \in SessionType
           /\ \A g \in (SUBSET Scopes) \union {NoGroups} : [s EXCEPT !.groups = g] \in SessionType
BY DEF SessionType

LEMMA ReqRecords ==
    ASSUME NEW q \in ReqType, NEW c \in ReqSteps
    PROVE  /\ q.page \in Pages \union {NoPage} /\ q.held \in States /\ q.snap \in SessionType
           /\ [q EXCEPT !.pc = c] \in ReqType
           /\ \A p \in Pages \union {NoPage} : [q EXCEPT !.pc = c, !.page = p] \in ReqType
           /\ \A p \in Pages \union {NoPage}, m \in Methods :
                 [q EXCEPT !.pc = c, !.page = p, !.meth = m] \in ReqType
BY DEF ReqType

\* The handler goes on to its next step.
LEMMA GoMoves ==
    ASSUME AuthTypes, NEW r \in Requests, NEW c \in ReqSteps, Go(r, c)
    PROVE  /\ req' \in [Requests -> ReqType]
           /\ \A q \in Requests \ {r} : req'[q] = req[q]
           /\ req'[r].pc = c /\ req'[r].page = req[r].page /\ req'[r].meth = req[r].meth
           /\ req'[r].snap = req[r].snap
<1>1. req'[r] = [req[r] EXCEPT !.pc = c] /\ req[r] \in ReqType
  BY DEF Go, AuthTypes
<1>2. req'[r] \in ReqType
  BY <1>1, ReqRecords
<1>3. req' \in [Requests -> ReqType] /\ \A q \in Requests \ {r} : req'[q] = req[q]
  BY <1>2 DEF Go, AuthTypes
<1> QED
  BY <1>1, <1>3 DEF ReqType

\* The request ends; only one that is served keeps what it was for.
LEMMA EndMoves ==
    ASSUME AuthTypes, NEW r \in Requests, NEW c \in Over, End(r, c)
    PROVE  /\ req' \in [Requests -> ReqType]
           /\ \A q \in Requests \ {r} : req'[q] = req[q]
           /\ req'[r].pc = c
           /\ c = "served" => req'[r].page = req[r].page /\ req'[r].meth = req[r].meth
           /\ req'[r].snap \in {NoSession, req[r].snap}
<1>1. c \in ReqSteps /\ req[r] \in ReqType
  BY DEF ReqSteps, AuthTypes
<1>2. CASE c = "served"
  <2>1. req' = [req EXCEPT ![r] = [req[r] EXCEPT !.pc = c]]
    BY <1>2 DEF End, AuthTypes
  <2>2. [req[r] EXCEPT !.pc = c] \in ReqType
    BY <1>1, ReqRecords
  <2>3. /\ [req[r] EXCEPT !.pc = c].pc = c /\ [req[r] EXCEPT !.pc = c].page = req[r].page
        /\ [req[r] EXCEPT !.pc = c].meth = req[r].meth /\ [req[r] EXCEPT !.pc = c].snap = req[r].snap
    BY <1>1 DEF ReqType
  <2> QED
    BY <2>1, <2>2, <2>3 DEF AuthTypes
<1>3. CASE c # "served"
  <2>1. req' = [req EXCEPT ![r] = [NoRequest EXCEPT !.pc = c]]
    BY <1>3 DEF End, AuthTypes
  <2>2. [NoRequest EXCEPT !.pc = c] \in ReqType
    BY <1>1, Constants, ReqRecords
  <2>3. [NoRequest EXCEPT !.pc = c].pc = c /\ [NoRequest EXCEPT !.pc = c].snap = NoSession
    BY DEF NoRequest
  <2> QED
    BY <1>3, <2>1, <2>2, <2>3 DEF AuthTypes
<1> QED
  BY <1>2, <1>3

\* AuthZ_Handler ends the request, and more groups allow no less.
LEMMA AuthZEnds == ASSUME NEW rt, NEW m, NEW g PROVE AuthZ(rt, m, g) \in Over
BY DEF AuthZ, Over

LEMMA AuthZMonotone ==
    ASSUME NEW rt, NEW m, NEW g, NEW h, g # NoGroups => g \subseteq h, h # NoGroups,
           AuthZ(rt, m, g) = "served"
    PROVE  AuthZ(rt, m, h) = "served"
BY DEF AuthZ

LEMMA EnterMoves ==
    ASSUME AuthTypes, NEW r \in Requests, NEW rt \in Routes, Enter(r, rt)
    PROVE  /\ UNCHANGED <<browser, sess, authFaults>>
           /\ \A q \in Requests \ {r} : req'[q] = req[q]
           /\ req'[r].pc = AuthZ(rt, req[r].meth, sess[browser[r]].groups)
           /\ req'[r].pc = "served" => req'[r].page = req[r].page /\ req'[r].meth = req[r].meth
           /\ req'[r].pc \in Over /\ req'[r].snap \in {NoSession, req[r].snap}
<1> DEFINE c == AuthZ(rt, req[r].meth, sess[browser[r]].groups)
<1>1. c \in Over /\ End(r, c)
  BY AuthZEnds DEF Enter
<1> HIDE DEF c
<1>2. /\ \A q \in Requests \ {r} : req'[q] = req[q]
      /\ req'[r].pc = c /\ req'[r].snap \in {NoSession, req[r].snap}
      /\ c = "served" => req'[r].page = req[r].page /\ req'[r].meth = req[r].meth
  BY <1>1, EndMoves
<1> QED
  BY <1>1, <1>2 DEF Enter, c

LEMMA CallbackMoves ==
    ASSUME AuthTypes, NEW r \in Requests, Callback(r)
    PROVE  /\ UNCHANGED <<browser, sess, authFaults>> /\ At(r, "callback")
           /\ \A q \in Requests \ {r} : req'[q] = req[q]
           /\ req'[r].pc \in {"exchange", "refused"} /\ req'[r].snap \in {NoSession, req[r].snap}
<1>1. CASE req[r].held = state
  <2>1. req'[r] = [req[r] EXCEPT !.pc = "exchange", !.held = 0] /\ req[r] \in ReqType
    BY <1>1 DEF Callback, AuthTypes
  <2>2. req'[r].pc = "exchange" /\ req'[r].snap = req[r].snap
    BY <2>1 DEF ReqType
  <2> QED
    BY <1>1, <2>2 DEF Callback, AuthTypes
<1>2. CASE req[r].held # state
  <2>1. End(r, "refused") /\ "refused" \in Over
    BY <1>2 DEF Callback, Over
  <2> QED
    BY <2>1, EndMoves DEF Callback
<1> QED
  BY <1>1, <1>2

LEMMA FinishMoves ==
    ASSUME AuthTypes, NEW r \in Requests, Finish(r)
    PROVE  /\ UNCHANGED <<browser, authFaults>> /\ At(r, "store")
           /\ sess'[browser[r]] = req[r].snap
           /\ \A b \in Browsers \ {browser[r]} : sess'[b] = sess[b]
           /\ \A q \in Requests \ {r} : req'[q] = req[q]
           /\ req'[r].snap \in {NoSession, req[r].snap}
           /\ \/ req[r].snap.path = NoPage /\ req'[r].pc = "panic"
              \/ req[r].snap.path # NoPage /\ req'[r].pc = "sent" /\ req'[r].page \in Pages
<1>1. /\ UNCHANGED <<browser, authFaults>> /\ At(r, "store")
      /\ sess'[browser[r]] = req[r].snap
      /\ \A b \in Browsers \ {browser[r]} : sess'[b] = sess[b]
  BY Owner DEF Finish, AuthTypes
<1>2. CASE req[r].snap.path = NoPage
  <2>1. End(r, "panic") /\ "panic" \in Over
    BY <1>2 DEF Finish, Over
  <2> QED
    BY <1>1, <1>2, <2>1, EndMoves
<1>3. CASE req[r].snap.path # NoPage
  <2>1. req[r].snap.path \in Pages
    BY <1>3 DEF AuthTypes, ReqType, SessionType
  <2>2. req' = [req EXCEPT ![r] = [NoRequest EXCEPT !.pc = "sent", !.page = req[r].snap.path]]
    BY <1>3 DEF Finish
  <2>3. ASSUME NEW p PROVE LET i == [NoRequest EXCEPT !.pc = "sent", !.page = p]
                           IN  i.pc = "sent" /\ i.page = p /\ i.snap = NoSession
    BY DEF NoRequest
  <2>4. req'[r].pc = "sent" /\ req'[r].page = req[r].snap.path /\ req'[r].snap = NoSession
    BY <2>2, <2>3 DEF AuthTypes
  <2>5. \A q \in Requests \ {r} : req'[q] = req[q]
    BY <2>2 DEF AuthTypes
  <2> QED
    BY <1>1, <1>3, <2>1, <2>4, <2>5
<1> QED
  BY <1>2, <1>3

LEMMA AuthFaultTyped == ASSUME AuthTypes, AuthFault PROVE authFaults' \in 0..MaxAuthFaults /\ authFaults' # 0
BY AuthConstants DEF AuthTypes, AuthFault

-----------------------------------------------------------------------------
(* Every step keeps the invariant.                                         *)

LEMMA AuthTypesKept == ASSUME AuthIndInv, [AuthNext]_authVars PROVE AuthTypes'
<1> USE DEF AuthIndInv
<1>1. ASSUME NEW r \in Requests, NEW p \in Pages, NEW m \in Methods, Ask(r, p, m) PROVE AuthTypes'
  <2>1. [NoRequest EXCEPT !.pc = "sent", !.page = p, !.meth = m] \in ReqType
    BY Constants, ReqRecords DEF ReqSteps
  <2> QED
    BY <1>1, <2>1 DEF Ask, AuthTypes
<1>2. ASSUME NEW r \in Requests, NEW rt \in Routes, EnterOpen(r, rt) PROVE AuthTypes'
  BY <1>2, EndMoves DEF EnterOpen, AuthTypes, Over
<1>3. ASSUME NEW r \in Requests, NEW rt \in Routes, EnterNew(r, rt) PROVE AuthTypes'
  <2>1. [sess[browser[r]] EXCEPT !.path = req[r].page] \in SessionType
    BY Owner, SessionRecords, ReqRecords DEF AuthTypes, ReqSteps
  <2>2. req'[r] = [req[r] EXCEPT !.pc = "keep", !.snap = [sess[browser[r]] EXCEPT !.path = req[r].page]] /\ req[r] \in ReqType
    BY <1>3 DEF EnterNew, AuthTypes
  <2>3. req'[r] \in ReqType
    BY <2>1, <2>2 DEF ReqType, ReqSteps
  <2>4. req' \in [Requests -> ReqType]
    BY <1>3, <2>3 DEF EnterNew, AuthTypes
  <2> QED
    BY <1>3, <2>4 DEF EnterNew, AuthTypes
<1>4. ASSUME NEW r \in Requests, NEW rt \in Routes, EnterOld(r, rt) PROVE AuthTypes'
  BY <1>4, GoMoves DEF EnterOld, AuthTypes, ReqSteps
<1>5. ASSUME NEW r \in Requests, NEW rt \in Routes, Enter(r, rt) PROVE AuthTypes'
  BY <1>5, EndMoves, AuthZEnds DEF Enter, AuthTypes
<1>6. ASSUME NEW r \in Requests, Keep(r) PROVE AuthTypes'
  <2>1. req'[r] = [req[r] EXCEPT !.pc = "draw", !.snap = NoSession] /\ req[r] \in ReqType
    BY <1>6 DEF Keep, AuthTypes
  <2>2. req'[r] \in ReqType /\ req[r].snap \in SessionType
    BY <2>1, Constants DEF ReqType, ReqSteps
  <2>3. req' \in [Requests -> ReqType]
    BY <1>6, <2>2 DEF Keep, AuthTypes
  <2>4. sess' \in [Browsers -> SessionType]
    BY <1>6, <2>2 DEF Keep, AuthTypes
  <2> QED
    BY <1>6, <2>3, <2>4 DEF Keep, AuthTypes
<1>7. ASSUME NEW r \in Requests, StoreFails(r) PROVE AuthTypes'
  BY <1>7, EndMoves, AuthFaultTyped DEF StoreFails, AuthTypes, Over
<1>8. ASSUME NEW r \in Requests, NEW s \in States, Draw(r, s) PROVE AuthTypes'
  BY <1>8, GoMoves DEF Draw, AuthTypes, ReqSteps
<1>9. ASSUME NEW r \in Requests, Redirect(r) PROVE AuthTypes'
  <2>1. req'[r] = [req[r] EXCEPT !.pc = "idp", !.held = state] /\ req[r] \in ReqType
    BY <1>9 DEF Redirect, AuthTypes
  <2>2. req'[r] \in ReqType
    BY <2>1 DEF AuthTypes, ReqType, ReqSteps
  <2>3. req' \in [Requests -> ReqType]
    BY <1>9, <2>2 DEF Redirect, AuthTypes
  <2> QED
    BY <1>9, <2>3 DEF Redirect, AuthTypes
<1>10. ASSUME NEW r \in Requests, SignIn(r) PROVE AuthTypes'
  BY <1>10, GoMoves DEF SignIn, AuthTypes, ReqSteps
<1>11. ASSUME NEW r \in Requests, LeaveIdP(r) PROVE AuthTypes'
  BY <1>11, Constants DEF LeaveIdP, AuthTypes
<1>12. ASSUME NEW r \in Requests, Callback(r) PROVE AuthTypes'
  <2>1. CASE req[r].held = state
    <3>1. req'[r] = [req[r] EXCEPT !.pc = "exchange", !.held = 0] /\ req[r] \in ReqType
      BY <1>12, <2>1 DEF Callback, AuthTypes
    <3>2. req'[r] \in ReqType
      BY <3>1, Constants DEF ReqType, ReqSteps
    <3>3. req' \in [Requests -> ReqType]
      BY <1>12, <2>1, <3>2 DEF Callback, AuthTypes
    <3> QED
      BY <1>12, <3>3 DEF Callback, AuthTypes
  <2>2. CASE req[r].held # state
    BY <1>12, <2>2, EndMoves DEF Callback, AuthTypes, Over
  <2> QED
    BY <2>1, <2>2
<1>13. ASSUME NEW r \in Requests, Exchange(r) PROVE AuthTypes'
  <2>1. [sess[browser[r]] EXCEPT !.info = "live"] \in SessionType
    BY Owner, SessionRecords DEF AuthTypes
  <2>2. req'[r] = [req[r] EXCEPT !.pc = "groups", !.snap = [sess[browser[r]] EXCEPT !.info = "live"]] /\ req[r] \in ReqType
    BY <1>13 DEF Exchange, AuthTypes
  <2>3. req'[r] \in ReqType
    BY <2>1, <2>2 DEF ReqType, ReqSteps
  <2>4. req' \in [Requests -> ReqType]
    BY <1>13, <2>3 DEF Exchange, AuthTypes
  <2> QED
    BY <1>13, <2>4 DEF Exchange, AuthTypes
<1>14. ASSUME NEW r \in Requests, ExchangeBlind(r) PROVE AuthTypes'
  <2>1. [NoSession EXCEPT !.info = "live"] \in SessionType
    BY Constants, SessionRecords
  <2>2. req'[r] = [req[r] EXCEPT !.pc = "groups", !.snap = [NoSession EXCEPT !.info = "live"]] /\ req[r] \in ReqType
    BY <1>14 DEF ExchangeBlind, AuthTypes
  <2>3. req'[r] \in ReqType
    BY <2>1, <2>2 DEF ReqType, ReqSteps
  <2>4. req' \in [Requests -> ReqType]
    BY <1>14, <2>3 DEF ExchangeBlind, AuthTypes
  <2> QED
    BY <1>14, <2>4, AuthFaultTyped DEF ExchangeBlind, AuthTypes
<1>15. ASSUME NEW r \in Requests, ExchangeFails(r) PROVE AuthTypes'
  BY <1>15, EndMoves, AuthFaultTyped DEF ExchangeFails, AuthTypes, Over
<1>16. ASSUME NEW r \in Requests, SetUserGroups(r) PROVE AuthTypes'
  <2>1. req[r] \in ReqType /\ req[r].snap \in SessionType
    BY ReqRecords DEF AuthTypes, ReqSteps, Over
  <2>2. [req[r].snap EXCEPT !.groups = Granted[browser[r]]] \in SessionType
    BY <2>1, Owner, Constants, SessionRecords
  <2>3. req'[r] = [req[r] EXCEPT !.pc = "store", !.snap = [req[r].snap EXCEPT !.groups = Granted[browser[r]]]] /\ req[r] \in ReqType
    BY <1>16 DEF SetUserGroups, AuthTypes
  <2>4. req'[r] \in ReqType
    BY <2>2, <2>3 DEF ReqType, ReqSteps
  <2>5. req' \in [Requests -> ReqType]
    BY <1>16, <2>4 DEF SetUserGroups, AuthTypes
  <2> QED
    BY <1>16, <2>5 DEF SetUserGroups, AuthTypes
<1>17. ASSUME NEW r \in Requests, SetUserGroupsFails(r) PROVE AuthTypes'
  <2>1. PICK g \in {req[r].snap.groups, {}} :
           req' = [req EXCEPT ![r].pc = "store", ![r].snap.groups = g]
    BY <1>17 DEF SetUserGroupsFails
  <2>2. req[r] \in ReqType /\ req[r].snap \in SessionType
    BY ReqRecords DEF AuthTypes, ReqSteps, Over
  <2>3. [req[r].snap EXCEPT !.groups = g] \in SessionType
    BY <2>2 DEF SessionType
  <2>4. req'[r] = [req[r] EXCEPT !.pc = "store", !.snap = [req[r].snap EXCEPT !.groups = g]]
    BY <2>1, <2>2 DEF AuthTypes, ReqType
  <2>5. req'[r] \in ReqType
    BY <2>2, <2>3, <2>4 DEF ReqType, ReqSteps
  <2>6. req' \in [Requests -> ReqType]
    BY <2>1, <2>5 DEF AuthTypes
  <2> QED
    BY <1>17, <2>6, AuthFaultTyped DEF SetUserGroupsFails, AuthTypes
<1>18. ASSUME NEW r \in Requests, Finish(r) PROVE AuthTypes'
  <2>1. req[r].snap \in SessionType
    BY ReqRecords DEF AuthTypes, ReqSteps, Over
  <2>2. sess' \in [Browsers -> SessionType]
    BY <1>18, <2>1 DEF Finish, AuthTypes
  <2>3. CASE req[r].snap.path = NoPage
    BY <1>18, <2>2, <2>3, EndMoves DEF Finish, AuthTypes, Over
  <2>4. CASE req[r].snap.path # NoPage
    <3>1. [NoRequest EXCEPT !.pc = "sent", !.page = req[r].snap.path] \in ReqType
      BY <2>1, Constants, SessionRecords, ReqRecords DEF ReqSteps
    <3> QED
      BY <1>18, <2>2, <2>4, <3>1 DEF Finish, AuthTypes
  <2> QED
    BY <2>3, <2>4
<1>19. ASSUME NEW b \in Browsers, Expire(b) PROVE AuthTypes'
  <2>1. [sess[b] EXCEPT !.info = "old"] \in SessionType
    BY SessionRecords DEF AuthTypes
  <2>2. sess' \in [Browsers -> SessionType]
    BY <1>19, <2>1 DEF Expire, AuthTypes
  <2>3. expiries' \in 0..MaxExpiries
    BY <1>19, AuthConstants DEF Expire, AuthTypes
  <2> QED
    BY <1>19, <2>2, <2>3 DEF Expire, AuthTypes
<1>20. ASSUME NEW b \in Browsers, Forget(b) PROVE AuthTypes'
  BY <1>20, Constants, AuthFaultTyped DEF Forget, AuthTypes
<1>21. ASSUME NEW store \in Stores, Restart(store) PROVE AuthTypes'
  <2>1. [NoRequest EXCEPT !.pc = "failed"] \in ReqType
    BY Constants, ReqRecords DEF ReqSteps, Over
  <2>2. req' \in [Requests -> ReqType]
    BY <1>21, <2>1 DEF Restart, AuthTypes
  <2>3. redrawn' \subseteq States
    BY <1>21, ReqRecords DEF Restart, AuthTypes, ReqSteps, Over
  <2>4. sess' \in [Browsers -> SessionType] /\ state' \in States
    BY <1>21, Constants DEF Restart, AuthTypes
  <2> QED
    BY <1>21, <2>2, <2>3, <2>4, AuthFaultTyped DEF Restart, AuthTypes
<1>22. ASSUME UNCHANGED authVars PROVE AuthTypes'
  BY <1>22 DEF authVars, AuthTypes
<1>23. ASSUME NEW r \in Requests, ExchangeUndated(r) PROVE AuthTypes'
  <2>1. [sess[browser[r]] EXCEPT !.info = "old"] \in SessionType
    BY Owner, SessionRecords DEF AuthTypes
  <2>2. req'[r] = [req[r] EXCEPT !.pc = "groups", !.snap = [sess[browser[r]] EXCEPT !.info = "old"]] /\ req[r] \in ReqType
    BY <1>23 DEF ExchangeUndated, AuthTypes
  <2>3. req'[r] \in ReqType
    BY <2>1, <2>2 DEF ReqType, ReqSteps
  <2>4. req' \in [Requests -> ReqType]
    BY <1>23, <2>3 DEF ExchangeUndated, AuthTypes
  <2> QED
    BY <1>23, AuthFaultTyped, <2>4 DEF ExchangeUndated, AuthTypes
<1> QED
  BY <1>1, <1>2, <1>3, <1>4, <1>5, <1>6, <1>7, <1>8, <1>9, <1>10, <1>11, <1>12, <1>13,
     <1>14, <1>15, <1>16, <1>17, <1>18, <1>19, <1>20, <1>21, <1>22, <1>23 DEF AuthNext

\* A handler that goes on with the copy of the session that it has, or without one.
LEMMA HonestMoves ==
    ASSUME AuthTypes, Honest, NEW r \in Requests, UNCHANGED <<browser, sess>>,
           \A q \in Requests \ {r} : req'[q] = req[q], req'[r].snap \in {NoSession, req[r].snap}
    PROVE  Honest'
<1>1. NoSession.groups = NoGroups
  BY DEF NoSession
<1>2. \A b \in Browsers : OwnGroups(sess'[b], b)
  BY DEF Honest
<1>3. \A q \in Requests : OwnGroups(req'[q].snap, browser[q])
  BY <1>1 DEF Honest, OwnGroups
<1> QED
  BY <1>2, <1>3 DEF Honest, OwnGroups

LEMMA HonestKept == ASSUME AuthIndInv, [AuthNext]_authVars PROVE Honest'
<1> USE DEF AuthIndInv, AuthTypes, ReqType, SessionType, Honest, OwnGroups
<1>1. ASSUME NEW r \in Requests, NEW p \in Pages, NEW m \in Methods, Ask(r, p, m) PROVE Honest'
  BY <1>1 DEF Ask, Rest, NoRequest, Over, NoSession
<1>2. ASSUME NEW r \in Requests, NEW rt \in Routes, EnterOpen(r, rt) PROVE Honest'
  BY <1>2, EndMoves DEF EnterOpen, At, Over, NoSession
<1>3. ASSUME NEW r \in Requests, NEW rt \in Routes, EnterNew(r, rt) PROVE Honest'
  BY <1>3, Owner DEF EnterNew, At
<1>4. ASSUME NEW r \in Requests, NEW rt \in Routes, EnterOld(r, rt) PROVE Honest'
  BY <1>4, GoMoves, Owner DEF EnterOld, At, ReqSteps
<1>5. ASSUME NEW r \in Requests, NEW rt \in Routes, Enter(r, rt) PROVE Honest'
  <2>1. /\ UNCHANGED <<browser, sess>> /\ \A q \in Requests \ {r} : req'[q] = req[q]
        /\ req'[r].snap \in {NoSession, req[r].snap}
    BY <1>5, EnterMoves
  <2> QED
    BY <2>1, HonestMoves
<1>6. ASSUME NEW r \in Requests, Keep(r) PROVE Honest'
  BY <1>6, Owner DEF Keep, At, NoSession
<1>7. ASSUME NEW r \in Requests, StoreFails(r) PROVE Honest'
  BY <1>7, EndMoves, AuthFaultTyped DEF StoreFails, Over, NoSession
<1>8. ASSUME NEW r \in Requests, NEW s \in States, Draw(r, s) PROVE Honest'
  BY <1>8, GoMoves DEF Draw, At, ReqSteps
<1>9. ASSUME NEW r \in Requests, Redirect(r) PROVE Honest'
  BY <1>9 DEF Redirect, At
<1>10. ASSUME NEW r \in Requests, SignIn(r) PROVE Honest'
  BY <1>10, GoMoves DEF SignIn, At, ReqSteps
<1>11. ASSUME NEW r \in Requests, LeaveIdP(r) PROVE Honest'
  BY <1>11 DEF LeaveIdP, At, NoRequest, NoSession
<1>12. ASSUME NEW r \in Requests, Callback(r) PROVE Honest'
  BY <1>12, CallbackMoves, Owner, Constants DEF NoSession
<1>13. ASSUME NEW r \in Requests, Exchange(r) PROVE Honest'
  BY <1>13, Owner DEF Exchange, At
<1>14. ASSUME NEW r \in Requests, ExchangeBlind(r) PROVE Honest'
  BY <1>14, AuthFaultTyped DEF ExchangeBlind, At, NoSession
<1>15. ASSUME NEW r \in Requests, ExchangeFails(r) PROVE Honest'
  BY <1>15, EndMoves, AuthFaultTyped DEF ExchangeFails, At, Over, NoSession
<1>16. ASSUME NEW r \in Requests, SetUserGroups(r) PROVE Honest'
  BY <1>16, Owner, Constants DEF SetUserGroups, At
<1>17. ASSUME NEW r \in Requests, SetUserGroupsFails(r) PROVE Honest'
  BY <1>17, AuthFaultTyped, Constants DEF SetUserGroupsFails, At
<1>18. ASSUME NEW r \in Requests, Finish(r) PROVE Honest'
  BY <1>18, FinishMoves, Owner, Constants DEF NoSession
<1>19. ASSUME NEW b \in Browsers, Expire(b) PROVE Honest'
  BY <1>19 DEF Expire
<1>20. ASSUME NEW b \in Browsers, Forget(b) PROVE Honest'
  BY <1>20, AuthFaultTyped DEF Forget, NoSession
<1>21. ASSUME NEW store \in Stores, Restart(store) PROVE Honest'
  BY <1>21, AuthFaultTyped DEF Restart, NoSession, Rest, NoRequest, Over
<1>22. ASSUME UNCHANGED authVars PROVE Honest'
  BY <1>22 DEF authVars
<1>23. ASSUME NEW r \in Requests, ExchangeUndated(r) PROVE Honest'
  BY <1>23, AuthFaultTyped, Owner DEF ExchangeUndated, At
<1> QED
  BY <1>1, <1>2, <1>3, <1>4, <1>5, <1>6, <1>7, <1>8, <1>9, <1>10, <1>11, <1>12, <1>13,
     <1>14, <1>15, <1>16, <1>17, <1>18, <1>19, <1>20, <1>21, <1>22, <1>23 DEF AuthNext

LEMMA TokenFirstKept == ASSUME AuthIndInv, [AuthNext]_authVars PROVE TokenFirst'
<1> USE DEF AuthIndInv, AuthTypes, ReqType, SessionType, TokenFirst, Copies
<1>1. ASSUME NEW r \in Requests, NEW p \in Pages, NEW m \in Methods, Ask(r, p, m) PROVE TokenFirst'
  BY <1>1 DEF Ask, Rest, NoRequest, Over, NoSession
<1>2. ASSUME NEW r \in Requests, NEW rt \in Routes, EnterOpen(r, rt) PROVE TokenFirst'
  BY <1>2 DEF EnterOpen, At, Over
<1>3. ASSUME NEW r \in Requests, NEW rt \in Routes, EnterNew(r, rt) PROVE TokenFirst'
  BY <1>3, Owner DEF EnterNew, At
<1>4. ASSUME NEW r \in Requests, NEW rt \in Routes, EnterOld(r, rt) PROVE TokenFirst'
  BY <1>4, Owner DEF EnterOld, At, ReqSteps
<1>5. ASSUME NEW r \in Requests, NEW rt \in Routes, Enter(r, rt) PROVE TokenFirst'
  BY <1>5, Owner DEF Enter, At, Over
<1>6. ASSUME NEW r \in Requests, Keep(r) PROVE TokenFirst'
  BY <1>6, Owner DEF Keep, At, NoSession
<1>7. ASSUME NEW r \in Requests, StoreFails(r) PROVE TokenFirst'
  BY <1>7 DEF StoreFails, Over
<1>8. ASSUME NEW r \in Requests, NEW s \in States, Draw(r, s) PROVE TokenFirst'
  BY <1>8 DEF Draw, At, ReqSteps
<1>9. ASSUME NEW r \in Requests, Redirect(r) PROVE TokenFirst'
  BY <1>9 DEF Redirect, At
<1>10. ASSUME NEW r \in Requests, SignIn(r) PROVE TokenFirst'
  BY <1>10 DEF SignIn, At, ReqSteps
<1>11. ASSUME NEW r \in Requests, LeaveIdP(r) PROVE TokenFirst'
  BY <1>11 DEF LeaveIdP, At, NoRequest, NoSession
<1>12. ASSUME NEW r \in Requests, Callback(r) PROVE TokenFirst'
  BY <1>12 DEF Callback, At, Over
<1>13. ASSUME NEW r \in Requests, Exchange(r) PROVE TokenFirst'
  BY <1>13, Owner DEF Exchange, At
<1>14. ASSUME NEW r \in Requests, ExchangeBlind(r) PROVE TokenFirst'
  BY <1>14 DEF ExchangeBlind, At, NoSession
<1>15. ASSUME NEW r \in Requests, ExchangeFails(r) PROVE TokenFirst'
  BY <1>15 DEF ExchangeFails, At, Over
<1>16. ASSUME NEW r \in Requests, SetUserGroups(r) PROVE TokenFirst'
  BY <1>16, Owner DEF SetUserGroups, At
<1>17. ASSUME NEW r \in Requests, SetUserGroupsFails(r) PROVE TokenFirst'
  BY <1>17 DEF SetUserGroupsFails, At
<1>18. ASSUME NEW r \in Requests, Finish(r) PROVE TokenFirst'
  BY <1>18, Owner DEF Finish, At, NoRequest, NoSession, Over
<1>19. ASSUME NEW b \in Browsers, Expire(b) PROVE TokenFirst'
  BY <1>19 DEF Expire
<1>20. ASSUME NEW b \in Browsers, Forget(b) PROVE TokenFirst'
  BY <1>20 DEF Forget, NoSession
<1>21. ASSUME NEW store \in Stores, Restart(store) PROVE TokenFirst'
  BY <1>21 DEF Restart, NoSession, Rest, NoRequest, Over
<1>22. ASSUME UNCHANGED authVars PROVE TokenFirst'
  BY <1>22 DEF authVars
<1>23. ASSUME NEW r \in Requests, ExchangeUndated(r) PROVE TokenFirst'
  BY <1>23, AuthFaultTyped, Owner DEF ExchangeUndated, At
<1> QED
  BY <1>1, <1>2, <1>3, <1>4, <1>5, <1>6, <1>7, <1>8, <1>9, <1>10, <1>11, <1>12, <1>13,
     <1>14, <1>15, <1>16, <1>17, <1>18, <1>19, <1>20, <1>21, <1>22, <1>23 DEF AuthNext

LEMMA CopiesKept == ASSUME AuthIndInv, [AuthNext]_authVars PROVE Copies'
<1> USE DEF AuthIndInv, AuthTypes, ReqType, SessionType, TokenFirst, Copies, At
<1>1. ASSUME NEW r \in Requests, NEW p \in Pages, NEW m \in Methods, Ask(r, p, m) PROVE Copies'
  BY <1>1 DEF Ask, Rest, NoRequest, Over, NoSession
<1>2. ASSUME NEW r \in Requests, NEW rt \in Routes, EnterOpen(r, rt) PROVE Copies'
  BY <1>2, EndMoves DEF EnterOpen, At, Over
<1>3. ASSUME NEW r \in Requests, NEW rt \in Routes, EnterNew(r, rt) PROVE Copies'
  BY <1>3, Owner DEF EnterNew, At
<1>4. ASSUME NEW r \in Requests, NEW rt \in Routes, EnterOld(r, rt) PROVE Copies'
  BY <1>4, GoMoves, Owner DEF EnterOld, At, ReqSteps
<1>5. ASSUME NEW r \in Requests, NEW rt \in Routes, Enter(r, rt) PROVE Copies'
  BY <1>5, EnterMoves, Owner DEF Over
<1>6. ASSUME NEW r \in Requests, Keep(r) PROVE Copies'
  BY <1>6, Owner DEF Keep, At, NoSession
<1>7. ASSUME NEW r \in Requests, StoreFails(r) PROVE Copies'
  BY <1>7, EndMoves, AuthFaultTyped DEF StoreFails, Over
<1>8. ASSUME NEW r \in Requests, NEW s \in States, Draw(r, s) PROVE Copies'
  BY <1>8, GoMoves DEF Draw, At, ReqSteps
<1>9. ASSUME NEW r \in Requests, Redirect(r) PROVE Copies'
  BY <1>9 DEF Redirect, At
<1>10. ASSUME NEW r \in Requests, SignIn(r) PROVE Copies'
  BY <1>10, GoMoves DEF SignIn, At, ReqSteps
<1>11. ASSUME NEW r \in Requests, LeaveIdP(r) PROVE Copies'
  BY <1>11 DEF LeaveIdP, At, NoRequest, NoSession
<1>12. ASSUME NEW r \in Requests, Callback(r) PROVE Copies'
  BY <1>12, CallbackMoves, Owner
<1>13. ASSUME NEW r \in Requests, Exchange(r) PROVE Copies'
  BY <1>13, Owner DEF Exchange, At
<1>14. ASSUME NEW r \in Requests, ExchangeBlind(r) PROVE Copies'
  BY <1>14, AuthFaultTyped DEF ExchangeBlind, At, NoSession
<1>15. ASSUME NEW r \in Requests, ExchangeFails(r) PROVE Copies'
  BY <1>15, EndMoves, AuthFaultTyped DEF ExchangeFails, At, Over
<1>16. ASSUME NEW r \in Requests, SetUserGroups(r) PROVE Copies'
  BY <1>16, Owner DEF SetUserGroups, At
<1>17. ASSUME NEW r \in Requests, SetUserGroupsFails(r) PROVE Copies'
  BY <1>17, AuthFaultTyped DEF SetUserGroupsFails, At
<1>18. ASSUME NEW r \in Requests, Finish(r) PROVE Copies'
  BY <1>18, FinishMoves, Owner
<1>19. ASSUME NEW b \in Browsers, Expire(b) PROVE Copies'
  BY <1>19 DEF Expire
<1>20. ASSUME NEW b \in Browsers, Forget(b) PROVE Copies'
  BY <1>20, AuthFaultTyped DEF Forget, NoSession
<1>21. ASSUME NEW store \in Stores, Restart(store) PROVE Copies'
  BY <1>21, AuthFaultTyped DEF Restart, NoSession, Rest, NoRequest, Over
<1>22. ASSUME UNCHANGED authVars PROVE Copies'
  BY <1>22 DEF authVars
<1>23. ASSUME NEW r \in Requests, ExchangeUndated(r) PROVE Copies'
  BY <1>23, AuthFaultTyped, Owner DEF ExchangeUndated, At
<1> QED
  BY <1>1, <1>2, <1>3, <1>4, <1>5, <1>6, <1>7, <1>8, <1>9, <1>10, <1>11, <1>12, <1>13,
     <1>14, <1>15, <1>16, <1>17, <1>18, <1>19, <1>20, <1>21, <1>22, <1>23 DEF AuthNext

LEMMA ResumableKept == ASSUME AuthIndInv, [AuthNext]_authVars PROVE Resumable'
<1> USE DEF AuthIndInv, AuthTypes, ReqType, SessionType, TokenFirst, Copies, Resumable, LoginSteps, At
<1>1. ASSUME NEW r \in Requests, NEW p \in Pages, NEW m \in Methods, Ask(r, p, m) PROVE Resumable'
  BY <1>1, Constants DEF Ask, Rest, NoRequest, Over, NoSession
<1>2. ASSUME NEW r \in Requests, NEW rt \in Routes, EnterOpen(r, rt) PROVE Resumable'
  <2>1. /\ UNCHANGED <<browser, sess, authFaults>> /\ req'[r].pc = "served"
        /\ \A q \in Requests \ {r} : req'[q] = req[q]
    BY <1>2, EndMoves DEF EnterOpen, Over
  <2> QED
    BY <2>1, Constants
<1>3. ASSUME NEW r \in Requests, NEW rt \in Routes, EnterNew(r, rt) PROVE Resumable'
  BY <1>3, Owner, Constants DEF EnterNew, At
<1>4. ASSUME NEW r \in Requests, NEW rt \in Routes, EnterOld(r, rt) PROVE Resumable'
  <2>1. /\ UNCHANGED <<browser, sess, authFaults>> /\ req'[r].pc = "draw"
        /\ \A q \in Requests \ {r} : req'[q] = req[q]
    BY <1>4, GoMoves DEF EnterOld, ReqSteps
  <2>2. sess[browser[r]].info = "old" /\ browser[r] \in Browsers
    BY <1>4, Owner DEF EnterOld
  <2> QED
    BY <2>1, <2>2
<1>5. ASSUME NEW r \in Requests, NEW rt \in Routes, Enter(r, rt) PROVE Resumable'
  <2>1. /\ UNCHANGED <<browser, sess, authFaults>> /\ req'[r].pc \in Over
        /\ \A q \in Requests \ {r} : req'[q] = req[q]
    BY <1>5, EnterMoves
  <2> QED
    BY <2>1 DEF Over
<1>6. ASSUME NEW r \in Requests, Keep(r) PROVE Resumable'
  BY <1>6, Owner, Constants DEF Keep, At, NoSession
<1>7. ASSUME NEW r \in Requests, StoreFails(r) PROVE Resumable'
  BY <1>7, EndMoves, AuthFaultTyped, Constants DEF StoreFails, Over
<1>8. ASSUME NEW r \in Requests, NEW s \in States, Draw(r, s) PROVE Resumable'
  BY <1>8, GoMoves, Constants DEF Draw, At, ReqSteps
<1>9. ASSUME NEW r \in Requests, Redirect(r) PROVE Resumable'
  BY <1>9, Constants DEF Redirect, At
<1>10. ASSUME NEW r \in Requests, SignIn(r) PROVE Resumable'
  BY <1>10, GoMoves, Constants DEF SignIn, At, ReqSteps
<1>11. ASSUME NEW r \in Requests, LeaveIdP(r) PROVE Resumable'
  BY <1>11, Constants DEF LeaveIdP, At, NoRequest, NoSession
<1>12. ASSUME NEW r \in Requests, Callback(r) PROVE Resumable'
  BY <1>12, CallbackMoves, Owner, Constants
<1>13. ASSUME NEW r \in Requests, Exchange(r) PROVE Resumable'
  BY <1>13, Owner, Constants DEF Exchange, At
<1>14. ASSUME NEW r \in Requests, ExchangeBlind(r) PROVE Resumable'
  BY <1>14, AuthFaultTyped, Constants DEF ExchangeBlind, At, NoSession
<1>15. ASSUME NEW r \in Requests, ExchangeFails(r) PROVE Resumable'
  BY <1>15, EndMoves, AuthFaultTyped, Constants DEF ExchangeFails, At, Over
<1>16. ASSUME NEW r \in Requests, SetUserGroups(r) PROVE Resumable'
  BY <1>16, Owner, Constants DEF SetUserGroups, At
<1>17. ASSUME NEW r \in Requests, SetUserGroupsFails(r) PROVE Resumable'
  BY <1>17, AuthFaultTyped, Constants DEF SetUserGroupsFails, At
<1>18. ASSUME NEW r \in Requests, Finish(r) PROVE Resumable'
  <2>1. SUFFICES ASSUME authFaults = 0 PROVE Resumable'
    BY <1>18, FinishMoves
  <2>2. /\ UNCHANGED <<browser, authFaults>> /\ At(r, "store")
        /\ sess'[browser[r]] = req[r].snap
        /\ \A b \in Browsers \ {browser[r]} : sess'[b] = sess[b]
        /\ \A q \in Requests \ {r} : req'[q] = req[q]
    BY <1>18, FinishMoves
  <2>3. req[r].snap.path # NoPage /\ req[r].snap.groups # NoGroups
    BY <2>1, <2>2
  <2>4. req'[r].pc = "sent"
    BY <1>18, <2>3, FinishMoves
  <2>5. \A b \in Browsers : sess'[b] = sess[b] \/ sess'[b] = req[r].snap
    BY <2>2
  <2>6. \A b \in Browsers : sess'[b].info # "none" => sess'[b].groups # NoGroups /\ sess'[b].path # NoPage
    BY <2>1, <2>3, <2>5
  <2>7. \A q \in Requests : req[q].pc \in LoginSteps => sess'[browser[q]].path # NoPage
    BY <2>1, <2>3, <2>5, Owner
  <2>8. \A q \in Requests : req'[q] = req[q] \/ req'[q].pc = "sent"
    BY <2>2, <2>4
  <2> QED
    BY <2>1, <2>2, <2>6, <2>7, <2>8
<1>19. ASSUME NEW b \in Browsers, Expire(b) PROVE Resumable'
  BY <1>19, Constants DEF Expire
<1>20. ASSUME NEW b \in Browsers, Forget(b) PROVE Resumable'
  BY <1>20, AuthFaultTyped, Constants DEF Forget, NoSession
<1>21. ASSUME NEW store \in Stores, Restart(store) PROVE Resumable'
  BY <1>21, AuthFaultTyped, Constants DEF Restart, NoSession, Rest, NoRequest, Over
<1>22. ASSUME UNCHANGED authVars PROVE Resumable'
  BY <1>22 DEF authVars
<1>23. ASSUME NEW r \in Requests, ExchangeUndated(r) PROVE Resumable'
  BY <1>23, AuthFaultTyped, Owner, Constants DEF ExchangeUndated, At
<1> QED
  BY <1>1, <1>2, <1>3, <1>4, <1>5, <1>6, <1>7, <1>8, <1>9, <1>10, <1>11, <1>12, <1>13,
     <1>14, <1>15, <1>16, <1>17, <1>18, <1>19, <1>20, <1>21, <1>22, <1>23 DEF AuthNext

LEMMA ServedStays ==
    ASSUME OnlyGranted, UNCHANGED browser,
           \A q \in Requests : At(q, "served")' =>
              At(q, "served") /\ req'[q].page = req[q].page /\ req'[q].meth = req[q].meth
    PROVE  OnlyGranted'
BY DEF OnlyGranted, At

LEMMA OnlyGrantedKept == ASSUME AuthIndInv, [AuthNext]_authVars PROVE OnlyGranted'
<1> USE DEF AuthIndInv, AuthTypes, ReqType
<1>1. ASSUME NEW r \in Requests, NEW p \in Pages, NEW m \in Methods, Ask(r, p, m) PROVE OnlyGranted'
  <2>1. \A q \in Requests : At(q, "served")' =>
           At(q, "served") /\ req'[q].page = req[q].page /\ req'[q].meth = req[q].meth
    BY <1>1 DEF Ask, Rest, NoRequest, Over, NoSession, At
  <2> QED
    BY <1>1, <2>1, ServedStays DEF Ask
<1>2. ASSUME NEW r \in Requests, NEW rt \in Routes, EnterOpen(r, rt) PROVE OnlyGranted'
  <2>1. /\ \A q \in Requests \ {r} : req'[q] = req[q]
        /\ req'[r].pc = "served" => req'[r].page = req[r].page /\ req'[r].meth = req[r].meth
        /\ UNCHANGED browser
    BY <1>2, EndMoves DEF EnterOpen, Over
  <2>2. rt \in RouteOf(req[r].page) /\ ~rt.protected
    BY <1>2 DEF EnterOpen
  <2> QED
    BY <2>1, <2>2 DEF OnlyGranted, At
<1>3. ASSUME NEW r \in Requests, NEW rt \in Routes, EnterNew(r, rt) PROVE OnlyGranted'
  <2>1. \A q \in Requests : At(q, "served")' =>
           At(q, "served") /\ req'[q].page = req[q].page /\ req'[q].meth = req[q].meth
    BY <1>3 DEF EnterNew, At
  <2> QED
    BY <1>3, <2>1, ServedStays DEF EnterNew
<1>4. ASSUME NEW r \in Requests, NEW rt \in Routes, EnterOld(r, rt) PROVE OnlyGranted'
  <2>1. \A q \in Requests : At(q, "served")' =>
           At(q, "served") /\ req'[q].page = req[q].page /\ req'[q].meth = req[q].meth
    BY <1>4, GoMoves DEF EnterOld, ReqSteps, At
  <2> QED
    BY <1>4, <2>1, ServedStays DEF EnterOld
<1>5. ASSUME NEW r \in Requests, NEW rt \in Routes, Enter(r, rt) PROVE OnlyGranted'
  <2>1. ASSUME req'[r].pc = "served"
        PROVE  AuthZ(rt, req[r].meth, Granted[browser[r]]) = "served"
    <3>1. AuthZ(rt, req[r].meth, sess[browser[r]].groups) = "served"
      BY <1>5, <2>1, EnterMoves
    <3>2. /\ sess[browser[r]].groups # NoGroups => sess[browser[r]].groups \subseteq Granted[browser[r]]
          /\ Granted[browser[r]] # NoGroups
      BY Owner, Constants DEF Honest, OwnGroups
    <3> QED
      BY <3>1, <3>2, AuthZMonotone
  <2>2. rt \in RouteOf(req[r].page)
    BY <1>5 DEF Enter
  <2> QED
    BY <1>5, <2>1, <2>2, EnterMoves DEF OnlyGranted, At
<1>6. ASSUME NEW r \in Requests, Keep(r) PROVE OnlyGranted'
  <2>1. \A q \in Requests : At(q, "served")' =>
           At(q, "served") /\ req'[q].page = req[q].page /\ req'[q].meth = req[q].meth
    BY <1>6 DEF Keep, NoSession, At
  <2> QED
    BY <1>6, <2>1, ServedStays DEF Keep
<1>7. ASSUME NEW r \in Requests, StoreFails(r) PROVE OnlyGranted'
  <2>1. \A q \in Requests : At(q, "served")' =>
           At(q, "served") /\ req'[q].page = req[q].page /\ req'[q].meth = req[q].meth
    BY <1>7, EndMoves DEF StoreFails, Over, At
  <2> QED
    BY <1>7, <2>1, ServedStays DEF StoreFails
<1>8. ASSUME NEW r \in Requests, NEW s \in States, Draw(r, s) PROVE OnlyGranted'
  <2>1. \A q \in Requests : At(q, "served")' =>
           At(q, "served") /\ req'[q].page = req[q].page /\ req'[q].meth = req[q].meth
    BY <1>8, GoMoves DEF Draw, ReqSteps, At
  <2> QED
    BY <1>8, <2>1, ServedStays DEF Draw
<1>9. ASSUME NEW r \in Requests, Redirect(r) PROVE OnlyGranted'
  <2>1. \A q \in Requests : At(q, "served")' =>
           At(q, "served") /\ req'[q].page = req[q].page /\ req'[q].meth = req[q].meth
    BY <1>9 DEF Redirect, At
  <2> QED
    BY <1>9, <2>1, ServedStays DEF Redirect
<1>10. ASSUME NEW r \in Requests, SignIn(r) PROVE OnlyGranted'
  <2>1. \A q \in Requests : At(q, "served")' =>
           At(q, "served") /\ req'[q].page = req[q].page /\ req'[q].meth = req[q].meth
    BY <1>10, GoMoves DEF SignIn, ReqSteps, At
  <2> QED
    BY <1>10, <2>1, ServedStays DEF SignIn
<1>11. ASSUME NEW r \in Requests, LeaveIdP(r) PROVE OnlyGranted'
  <2>1. \A q \in Requests : At(q, "served")' =>
           At(q, "served") /\ req'[q].page = req[q].page /\ req'[q].meth = req[q].meth
    BY <1>11 DEF LeaveIdP, NoRequest, NoSession, At
  <2> QED
    BY <1>11, <2>1, ServedStays DEF LeaveIdP
<1>12. ASSUME NEW r \in Requests, Callback(r) PROVE OnlyGranted'
  <2>1. \A q \in Requests : At(q, "served")' =>
           At(q, "served") /\ req'[q].page = req[q].page /\ req'[q].meth = req[q].meth
    BY <1>12, CallbackMoves DEF At
  <2> QED
    BY <1>12, <2>1, ServedStays DEF Callback
<1>13. ASSUME NEW r \in Requests, Exchange(r) PROVE OnlyGranted'
  <2>1. \A q \in Requests : At(q, "served")' =>
           At(q, "served") /\ req'[q].page = req[q].page /\ req'[q].meth = req[q].meth
    BY <1>13 DEF Exchange, At
  <2> QED
    BY <1>13, <2>1, ServedStays DEF Exchange
<1>14. ASSUME NEW r \in Requests, ExchangeBlind(r) PROVE OnlyGranted'
  <2>1. \A q \in Requests : At(q, "served")' =>
           At(q, "served") /\ req'[q].page = req[q].page /\ req'[q].meth = req[q].meth
    BY <1>14 DEF ExchangeBlind, NoSession, At
  <2> QED
    BY <1>14, <2>1, ServedStays DEF ExchangeBlind
<1>15. ASSUME NEW r \in Requests, ExchangeFails(r) PROVE OnlyGranted'
  <2>1. \A q \in Requests : At(q, "served")' =>
           At(q, "served") /\ req'[q].page = req[q].page /\ req'[q].meth = req[q].meth
    BY <1>15, EndMoves DEF ExchangeFails, Over, At
  <2> QED
    BY <1>15, <2>1, ServedStays DEF ExchangeFails
<1>16. ASSUME NEW r \in Requests, SetUserGroups(r) PROVE OnlyGranted'
  <2>1. \A q \in Requests : At(q, "served")' =>
           At(q, "served") /\ req'[q].page = req[q].page /\ req'[q].meth = req[q].meth
    BY <1>16 DEF SetUserGroups, At
  <2> QED
    BY <1>16, <2>1, ServedStays DEF SetUserGroups
<1>17. ASSUME NEW r \in Requests, SetUserGroupsFails(r) PROVE OnlyGranted'
  <2>1. \A q \in Requests : At(q, "served")' =>
           At(q, "served") /\ req'[q].page = req[q].page /\ req'[q].meth = req[q].meth
    BY <1>17 DEF SetUserGroupsFails, At
  <2> QED
    BY <1>17, <2>1, ServedStays DEF SetUserGroupsFails
<1>18. ASSUME NEW r \in Requests, Finish(r) PROVE OnlyGranted'
  <2>1. \A q \in Requests : At(q, "served")' =>
           At(q, "served") /\ req'[q].page = req[q].page /\ req'[q].meth = req[q].meth
    BY <1>18, FinishMoves DEF At
  <2> QED
    BY <1>18, <2>1, ServedStays DEF Finish
<1>19. ASSUME NEW b \in Browsers, Expire(b) PROVE OnlyGranted'
  <2>1. \A q \in Requests : At(q, "served")' =>
           At(q, "served") /\ req'[q].page = req[q].page /\ req'[q].meth = req[q].meth
    BY <1>19 DEF Expire, At
  <2> QED
    BY <1>19, <2>1, ServedStays DEF Expire
<1>20. ASSUME NEW b \in Browsers, Forget(b) PROVE OnlyGranted'
  <2>1. \A q \in Requests : At(q, "served")' =>
           At(q, "served") /\ req'[q].page = req[q].page /\ req'[q].meth = req[q].meth
    BY <1>20 DEF Forget, NoSession, At
  <2> QED
    BY <1>20, <2>1, ServedStays DEF Forget
<1>21. ASSUME NEW store \in Stores, Restart(store) PROVE OnlyGranted'
  <2>1. \A q \in Requests : At(q, "served")' =>
           At(q, "served") /\ req'[q].page = req[q].page /\ req'[q].meth = req[q].meth
    BY <1>21 DEF Restart, NoSession, Rest, NoRequest, Over, At
  <2> QED
    BY <1>21, <2>1, ServedStays DEF Restart
<1>22. ASSUME UNCHANGED authVars PROVE OnlyGranted'
  BY <1>22 DEF authVars, OnlyGranted, At, RouteOf
<1>23. ASSUME NEW r \in Requests, ExchangeUndated(r) PROVE OnlyGranted'
  <2>1. \A q \in Requests : At(q, "served")' =>
           At(q, "served") /\ req'[q].page = req[q].page /\ req'[q].meth = req[q].meth
    BY <1>23 DEF ExchangeUndated, At
  <2> QED
    BY <1>23, AuthFaultTyped, <2>1, ServedStays DEF ExchangeUndated
<1> QED
  BY <1>1, <1>2, <1>3, <1>4, <1>5, <1>6, <1>7, <1>8, <1>9, <1>10, <1>11, <1>12, <1>13,
     <1>14, <1>15, <1>16, <1>17, <1>18, <1>19, <1>20, <1>21, <1>22, <1>23 DEF AuthNext

LEMMA NoPanicKept == ASSUME AuthIndInv, [AuthNext]_authVars PROVE NoPanic'
<1> USE DEF AuthIndInv, AuthTypes, ReqType, NoPanic, At
<1>1. ASSUME NEW r \in Requests, NEW p \in Pages, NEW m \in Methods, Ask(r, p, m) PROVE NoPanic'
  BY <1>1 DEF Ask, Rest, NoRequest, Over, NoSession
<1>2. ASSUME NEW r \in Requests, NEW rt \in Routes, EnterOpen(r, rt) PROVE NoPanic'
  BY <1>2, EndMoves DEF EnterOpen, At, Over
<1>3. ASSUME NEW r \in Requests, NEW rt \in Routes, EnterNew(r, rt) PROVE NoPanic'
  BY <1>3 DEF EnterNew, At
<1>4. ASSUME NEW r \in Requests, NEW rt \in Routes, EnterOld(r, rt) PROVE NoPanic'
  BY <1>4, GoMoves DEF EnterOld, At, ReqSteps
<1>5. ASSUME NEW r \in Requests, NEW rt \in Routes, Enter(r, rt) PROVE NoPanic'
  <2>1. authFaults = 0 => AuthZ(rt, req[r].meth, sess[browser[r]].groups) # "panic"
    BY <1>5, Owner DEF Enter, AuthZ, Resumable
  <2> QED
    BY <1>5, <2>1, EnterMoves
<1>6. ASSUME NEW r \in Requests, Keep(r) PROVE NoPanic'
  BY <1>6 DEF Keep, At, NoSession
<1>7. ASSUME NEW r \in Requests, StoreFails(r) PROVE NoPanic'
  BY <1>7, EndMoves, AuthFaultTyped DEF StoreFails, Over
<1>8. ASSUME NEW r \in Requests, NEW s \in States, Draw(r, s) PROVE NoPanic'
  BY <1>8, GoMoves DEF Draw, At, ReqSteps
<1>9. ASSUME NEW r \in Requests, Redirect(r) PROVE NoPanic'
  BY <1>9 DEF Redirect, At
<1>10. ASSUME NEW r \in Requests, SignIn(r) PROVE NoPanic'
  BY <1>10, GoMoves DEF SignIn, At, ReqSteps
<1>11. ASSUME NEW r \in Requests, LeaveIdP(r) PROVE NoPanic'
  BY <1>11 DEF LeaveIdP, At, NoRequest, NoSession
<1>12. ASSUME NEW r \in Requests, Callback(r) PROVE NoPanic'
  BY <1>12, CallbackMoves
<1>13. ASSUME NEW r \in Requests, Exchange(r) PROVE NoPanic'
  BY <1>13 DEF Exchange, At
<1>14. ASSUME NEW r \in Requests, ExchangeBlind(r) PROVE NoPanic'
  BY <1>14, AuthFaultTyped DEF ExchangeBlind, At, NoSession
<1>15. ASSUME NEW r \in Requests, ExchangeFails(r) PROVE NoPanic'
  BY <1>15, EndMoves, AuthFaultTyped DEF ExchangeFails, At, Over
<1>16. ASSUME NEW r \in Requests, SetUserGroups(r) PROVE NoPanic'
  BY <1>16 DEF SetUserGroups, At
<1>17. ASSUME NEW r \in Requests, SetUserGroupsFails(r) PROVE NoPanic'
  BY <1>17, AuthFaultTyped DEF SetUserGroupsFails, At
<1>18. ASSUME NEW r \in Requests, Finish(r) PROVE NoPanic'
  BY <1>18, FinishMoves DEF Resumable
<1>19. ASSUME NEW b \in Browsers, Expire(b) PROVE NoPanic'
  BY <1>19 DEF Expire
<1>20. ASSUME NEW b \in Browsers, Forget(b) PROVE NoPanic'
  BY <1>20, AuthFaultTyped DEF Forget, NoSession
<1>21. ASSUME NEW store \in Stores, Restart(store) PROVE NoPanic'
  BY <1>21, AuthFaultTyped DEF Restart, NoSession, Rest, NoRequest, Over
<1>22. ASSUME UNCHANGED authVars PROVE NoPanic'
  BY <1>22 DEF authVars
<1>23. ASSUME NEW r \in Requests, ExchangeUndated(r) PROVE NoPanic'
  BY <1>23, AuthFaultTyped DEF ExchangeUndated, At
<1> QED
  BY <1>1, <1>2, <1>3, <1>4, <1>5, <1>6, <1>7, <1>8, <1>9, <1>10, <1>11, <1>12, <1>13,
     <1>14, <1>15, <1>16, <1>17, <1>18, <1>19, <1>20, <1>21, <1>22, <1>23 DEF AuthNext

-----------------------------------------------------------------------------
(* The theorem.                                                            *)

\* Whatever the tabs of a browser save over each other, whatever fails and however
\* often the process restarts: a page is served only to users with a group for it,
\* a session with groups has a token, and without a failure no handler panics
\* (AuthN_Handler, AuthZ_Handler and HandleCallback on their copies of the session).
THEOREM SessionsAreSafe == AuthSpec => []AuthInv
<1>1. AuthInit => AuthIndInv
  <2> SUFFICES ASSUME AuthInit PROVE AuthIndInv
    OBVIOUS
  <2>1. AuthTypes
    <3>1. 0 \in 0..MaxExpiries /\ 0 \in 0..MaxAuthFaults
      BY AuthConstants
    <3> QED
      BY <3>1, Constants DEF AuthInit, AuthTypes
  <2>2. /\ \A b \in Browsers : sess[b].info = "none" /\ sess[b].groups = NoGroups
        /\ \A r \in Requests : req[r].pc = "idle" /\ req[r].snap.groups = NoGroups
    BY DEF AuthInit, NoSession, NoRequest
  <2>3. Honest /\ TokenFirst
    BY <2>2 DEF Honest, OwnGroups, TokenFirst
  <2>4. Copies /\ Resumable
    BY <2>2 DEF Copies, Resumable, LoginSteps, At
  <2>5. OnlyGranted /\ NoPanic
    BY <2>2 DEF OnlyGranted, NoPanic, At
  <2> QED
    BY <2>1, <2>3, <2>4, <2>5 DEF AuthIndInv
<1>2. AuthIndInv /\ [AuthNext]_authVars => AuthIndInv'
  BY AuthTypesKept, HonestKept, TokenFirstKept, CopiesKept, ResumableKept, OnlyGrantedKept,
     NoPanicKept
     DEF AuthIndInv
<1>3. AuthIndInv => AuthInv
  BY DEF AuthIndInv, AuthTypes, AuthInv, AuthTypeOK, TokenFirst, ReqType, ReqSteps
<1> QED
  BY <1>1, <1>2, <1>3, PTL DEF AuthSpec
=============================================================================
