--------------------------- MODULE MetadataServer ---------------------------
(***************************************************************************)
(* cmd/metadata-server: instances of the server on one node that start,    *)
(* end and follow each other.  They share the port, the iptables rules of  *)
(* the node, the Corefile of CoreDNS and the mounted robot-id file.        *)
(*                                                                         *)
(* A client reaches an instance if CoreDNS resolves the name, a rule sends *)
(* the address to the port, and the instance accepts on the port.  An      *)
(* instance has three threads that may end it: main waits for SIGTERM,     *)
(* one goroutine serves, one waits for a change of the file.  Each of them *)
(* reverts the Corefile, removes one rule, and exits.                      *)
(***************************************************************************)
EXTENDS Integers, FiniteSets

CONSTANTS
    Instances,    \* containers that run the server
    MaxFile,      \* bound: versions of the robot-id file
    MaxSignals,   \* bound: signals to terminate
    MaxLost,      \* bound: listeners that fail
    MaxFaults     \* bound: instances that are killed, calls that fail

ASSUME MetadataConstants ==
    /\ IsFiniteSet(Instances)
    /\ MaxFile \in Nat \ {0} /\ MaxSignals \in Nat /\ MaxLost \in Nat /\ MaxFaults \in Nat

Threads == {"stop", "serve", "watch"}

VARIABLES
    proc,       \* the instances
    clean,      \* what each thread of them has still to do to end it
    fresh,      \* threads that hold the current version of the Corefile
    rules,      \* iptables rules to the port
    deprecated, \* iptables rules to the port of earlier versions
    patched,    \* the Corefile resolves the name of the server
    file,       \* the version of the robot-id file
    answer,     \* what a client got last: a version of the token, or 0
    signals,
    lost,
    faults

vars == <<proc, clean, fresh, rules, deprecated, patched, file, answer, signals, lost, faults>>
bounds == <<signals, lost, faults>>

\* pc is where main is, ver the version of the file that was loaded; missed says
\* that the file was changed between its loading and the beginning of the watch.
Off == [pc |-> "off", ver |-> 0, listen |-> FALSE, watch |-> FALSE, missed |-> FALSE, event |-> FALSE]
Idle == [th \in Threads |-> "idle"]

Init ==
    /\ proc = [p \in Instances |-> Off]
    /\ clean = [p \in Instances |-> Idle]
    /\ fresh = {}
    /\ rules = 0
    /\ deprecated = 1
    /\ patched = FALSE
    /\ file = 1
    /\ answer = 0
    /\ signals = 0
    /\ lost = 0
    /\ faults = 0

Fault == faults < MaxFaults /\ faults' = faults + 1

\* The process ends, with all its threads.
Exit(p) ==
    /\ proc' = [proc EXCEPT ![p] = Off]
    /\ clean' = [clean EXCEPT ![p] = Idle]
    /\ fresh' = {c \in fresh : c[1] # p}

Goto(p, step) ==
    /\ proc' = [proc EXCEPT ![p].pc = step]
    /\ UNCHANGED clean

\* iptables -D fails if there is no rule.
OneLess(n) == IF n = 0 THEN 0 ELSE n - 1

\* The goroutines have been started.
Running(p) == proc[p].pc \in {"notify", "wait"}

-----------------------------------------------------------------------------
(* main                                                                    *)

\* robotauth.LoadFromFile reads the file once, and the token source that
\* CreateRobotTokenSource makes of it never changes.
LoadFromFile == file
Token(p) == proc[p].ver

\* The kubelet starts a container, and main loads the file.
Start(p) ==
    /\ proc[p].pc = "off"
    /\ proc' = [proc EXCEPT ![p] = [Off EXCEPT !.pc = "bind", !.ver = LoadFromFile]]
    /\ UNCHANGED <<clean, fresh, rules, deprecated, patched, file, answer, bounds>>

\* Mutant of Bind: the port is taken after the rule is added.
BindLater(p) ==
    /\ proc[p].pc = "bind"
    /\ Goto(p, "deprecated")
    /\ UNCHANGED <<fresh, rules, deprecated, patched, file, answer, bounds>>

\* net.Listen fails while another instance has the port.
Bind(p) ==
    /\ proc[p].pc = "bind"
    /\ IF \E q \in Instances : proc[q].listen
       THEN Exit(p)
       ELSE /\ proc' = [proc EXCEPT ![p].pc = "deprecated", ![p].listen = TRUE]
            /\ UNCHANGED <<clean, fresh>>
    /\ UNCHANGED <<rules, deprecated, patched, file, answer, bounds>>

removeDeprecatedIPTablesRule(p) ==
    /\ proc[p].pc = "deprecated"
    /\ deprecated' = OneLess(deprecated)
    /\ Goto(p, IF deprecated = 0 THEN "rule" ELSE "deprecated")
    /\ UNCHANGED <<fresh, rules, patched, file, answer, bounds>>

addIPTablesRule(p) ==
    /\ proc[p].pc = "rule"
    /\ rules' = rules + 1
    /\ Goto(p, "getcore")
    /\ UNCHANGED <<fresh, deprecated, patched, file, answer, bounds>>

\* PatchCorefile reads, and writes what it has read unless it was written since.
getCorefile(p) ==
    /\ proc[p].pc = "getcore"
    /\ Goto(p, IF patched THEN "go" ELSE "putcore")
    /\ fresh' = IF patched THEN fresh ELSE fresh \union {<<p, "main">>}
    /\ UNCHANGED <<rules, deprecated, patched, file, answer, bounds>>

PatchCorefile(p) ==
    /\ proc[p].pc = "putcore"
    /\ IF <<p, "main">> \in fresh
       THEN patched' = TRUE /\ fresh' = {} /\ Goto(p, "go") /\ UNCHANGED rules
       ELSE rules' = OneLess(rules) /\ Exit(p) /\ UNCHANGED patched
    /\ UNCHANGED <<deprecated, file, answer, bounds>>

\* The rule is removed again, if iptables does it.
PatchFails(p) ==
    /\ proc[p].pc \in {"getcore", "putcore"}
    /\ Fault
    /\ rules' \in {OneLess(rules), rules}
    /\ Exit(p)
    /\ UNCHANGED <<deprecated, patched, file, answer, signals, lost>>

StartThreads(p) ==
    /\ proc[p].pc = "go"
    /\ Goto(p, "notify")
    /\ UNCHANGED <<fresh, rules, deprecated, patched, file, answer, bounds>>

\* signal.Notify
Notify(p) ==
    /\ proc[p].pc = "notify"
    /\ Goto(p, "wait")
    /\ UNCHANGED <<fresh, rules, deprecated, patched, file, answer, bounds>>

\* detectChangesToFile begins to watch, in its goroutine.
AddWatch(p) ==
    /\ Running(p)
    /\ ~proc[p].watch
    /\ proc' = [proc EXCEPT ![p].watch = TRUE]
    /\ UNCHANGED <<clean, fresh, rules, deprecated, patched, file, answer, bounds>>

-----------------------------------------------------------------------------
(* What ends an instance.                                                  *)

Begin(p, th) ==
    /\ clean[p][th] = "idle"
    /\ clean' = [clean EXCEPT ![p][th] = "get"]

\* SIGTERM after signal.Notify; before it, it kills like any other signal.
Stop(p) ==
    /\ proc[p].pc = "wait"
    /\ signals < MaxSignals
    /\ signals' = signals + 1
    /\ Begin(p, "stop")
    /\ UNCHANGED <<proc, fresh, rules, deprecated, patched, file, answer, lost, faults>>

Kill(p) ==
    /\ proc[p].pc # "off"
    /\ Fault
    /\ Exit(p)
    /\ UNCHANGED <<rules, deprecated, patched, file, answer, signals, lost>>

\* http.Serve returns, and has closed the listener.
ServeFails(p) ==
    /\ Running(p) /\ proc[p].listen
    /\ lost < MaxLost
    /\ lost' = lost + 1
    /\ proc' = [proc EXCEPT ![p].listen = FALSE]
    /\ Begin(p, "serve")
    /\ UNCHANGED <<fresh, rules, deprecated, patched, file, answer, signals, faults>>

\* setup-robot has written another token, and the kubelet replaces the file.
ChangeFile ==
    /\ file < MaxFile
    /\ file' = file + 1
    /\ proc' = [p \in Instances |->
                  IF proc[p].pc = "off" THEN proc[p]
                  ELSE [proc[p] EXCEPT !.event = proc[p].watch, !.missed = ~proc[p].watch]]
    /\ UNCHANGED <<clean, fresh, rules, deprecated, patched, answer, bounds>>

\* Mutant of NoticeChange: only an event Write counts as a change.
NoticeWriteOnly(p) == proc[p].event /\ FALSE

\* The kubelet replaces the file: an event Remove, which counts as a change.
NoticeChange(p) == proc[p].event

FileChanged(p) ==
    /\ NoticeChange(p)
    /\ Begin(p, "watch")
    /\ UNCHANGED <<proc, fresh, rules, deprecated, patched, file, answer, bounds>>

\* Mutant of RevertGet: the Corefile is left as it is.
RevertGetNot(p, th) ==
    /\ clean[p][th] = "get"
    /\ clean' = [clean EXCEPT ![p][th] = "rule"]
    /\ UNCHANGED <<proc, fresh, rules, deprecated, patched, file, answer, bounds>>

\* RevertCorefile reads, and writes unless it was written since; an error is logged.
RevertGet(p, th) ==
    /\ clean[p][th] = "get"
    /\ clean' = [clean EXCEPT ![p][th] = IF patched THEN "put" ELSE "rule"]
    /\ fresh' = IF patched THEN fresh \union {<<p, th>>} ELSE fresh
    /\ UNCHANGED <<proc, rules, deprecated, patched, file, answer, bounds>>

RevertCorefile(p, th) ==
    /\ clean[p][th] = "put"
    /\ clean' = [clean EXCEPT ![p][th] = "rule"]
    /\ IF <<p, th>> \in fresh
       THEN patched' = FALSE /\ fresh' = {}
       ELSE UNCHANGED <<patched, fresh>>
    /\ UNCHANGED <<proc, rules, deprecated, file, answer, bounds>>

RevertFails(p, th) ==
    /\ clean[p][th] \in {"get", "put"}
    /\ Fault
    /\ clean' = [clean EXCEPT ![p][th] = "rule"]
    /\ fresh' = fresh \ {<<p, th>>}
    /\ UNCHANGED <<proc, rules, deprecated, patched, file, answer, signals, lost>>

removeIPTablesRule(p, th) ==
    /\ clean[p][th] = "rule"
    /\ clean' = [clean EXCEPT ![p][th] = "exit"]
    /\ rules' = OneLess(rules)
    /\ UNCHANGED <<proc, fresh, deprecated, patched, file, answer, bounds>>

\* iptables fails, which is logged: the rule stays.
RemoveFails(p, th) ==
    /\ clean[p][th] = "rule"
    /\ Fault
    /\ clean' = [clean EXCEPT ![p][th] = "exit"]
    /\ UNCHANGED <<proc, fresh, rules, deprecated, patched, file, answer, signals, lost>>

\* log.Fatal, or the return of main.
Leave(p, th) ==
    /\ clean[p][th] = "exit"
    /\ Exit(p)
    /\ UNCHANGED <<rules, deprecated, patched, file, answer, bounds>>

-----------------------------------------------------------------------------
(* TokenHandler, for a client with an allowed address.                     *)

Reachable(p) == rules > 0 /\ patched /\ Running(p) /\ proc[p].listen

Request ==
    /\ answer' \in IF \E p \in Instances : Reachable(p)
                   THEN {Token(p) : p \in {q \in Instances : Reachable(q)}} ELSE {0}
    /\ UNCHANGED <<proc, clean, fresh, rules, deprecated, patched, file, bounds>>

-----------------------------------------------------------------------------

Main(p) ==
    \/ Start(p) \/ Bind(p) \/ removeDeprecatedIPTablesRule(p) \/ addIPTablesRule(p)
    \/ getCorefile(p) \/ PatchCorefile(p) \/ StartThreads(p) \/ Notify(p)

Cleanup(p, th) ==
    \/ RevertGet(p, th) \/ RevertCorefile(p, th) \/ removeIPTablesRule(p, th) \/ Leave(p, th)

Next ==
    \/ \E p \in Instances : Main(p)
    \/ \E p \in Instances : AddWatch(p)
    \/ \E p \in Instances : FileChanged(p)
    \/ \E p \in Instances, th \in Threads : Cleanup(p, th)
    \/ \E p \in Instances : Stop(p)
    \/ \E p \in Instances : Kill(p)
    \/ \E p \in Instances : ServeFails(p)
    \/ \E p \in Instances : PatchFails(p)
    \/ \E p \in Instances, th \in Threads : RevertFails(p, th)
    \/ \E p \in Instances, th \in Threads : RemoveFails(p, th)
    \/ ChangeFile
    \/ Request

\* The threads make progress, the kubelet restarts, and clients ask again.
Fairness ==
    /\ \A p \in Instances : WF_vars(Main(p)) /\ WF_vars(AddWatch(p)) /\ WF_vars(FileChanged(p))
    /\ \A p \in Instances, th \in Threads : WF_vars(Cleanup(p, th))
    /\ WF_vars(Request)

Spec == Init /\ [][Next]_vars /\ Fairness

-----------------------------------------------------------------------------
(* Properties.                                                             *)

\* The type of the state; one instance has the port.
MetadataTypeOK ==
    /\ proc \in [Instances ->
          [pc : {"off", "bind", "deprecated", "rule", "getcore", "putcore", "go", "notify", "wait"},
           ver : 0..MaxFile, listen : BOOLEAN, watch : BOOLEAN, missed : BOOLEAN, event : BOOLEAN]]
    /\ clean \in [Instances -> [Threads -> {"idle", "get", "put", "rule", "exit"}]]
    /\ fresh \subseteq Instances \X (Threads \union {"main"})
    /\ Cardinality({p \in Instances : proc[p].listen}) <= 1
    /\ rules \in Nat /\ deprecated \in 0..1 /\ patched \in BOOLEAN
    /\ file \in 1..MaxFile /\ answer \in 0..MaxFile
    /\ signals \in 0..MaxSignals /\ lost \in 0..MaxLost /\ faults \in 0..MaxFaults

\* Nothing has begun to end the instance.
Serving(p) == Running(p) /\ clean[p] = Idle

\* An instance that serves is found: whatever an earlier one does that is still
\* ending, it takes neither the rule nor the entry of the Corefile away.  Only
\* one whose listener failed can, since it has given up the port first.
Routed == lost = 0 => \A p \in Instances : Serving(p) => rules > 0 /\ patched

\* Instances that were not killed leave nothing behind, whatever ended them.
LeavesNothing ==
    (\A p \in Instances : proc[p].pc \in {"off", "bind"}) /\ faults = 0 =>
        rules = 0 /\ ~patched

\* There is at most one rule for every instance that has added one, and one more
\* for each that was killed.
Added(p) == proc[p].pc \in {"getcore", "putcore", "go", "notify", "wait"}

RulesAccounted == rules <= faults + Cardinality({p \in Instances : Added(p)})

\* However many threads of an instance clean up at once, and whatever the others
\* do meanwhile, no rule and no entry of the Corefile outlives its instance.
MetadataInv == MetadataTypeOK /\ LeavesNothing /\ RulesAccounted

\* In the end clients get the token of the file as it is, however it changed and
\* instances ended, unless the change fell between the loading and the watch.
GetsCurrent ==
    <>[](lost > 0 \/ answer = file \/ \E p \in Instances : proc[p].missed)

=============================================================================
