---------------------------- MODULE RemoteCall ----------------------------
(***************************************************************************)
(* What the RPC system promises its callers: a call is executed at most    *)
(* once, it returns either the result of its own execution or a timeout,   *)
(* and it may be executed after its caller gave up.  Nothing is promised   *)
(* any more to a caller the server has lost track of: it saw a new         *)
(* transaction of it while the last one was unfinished, took an            *)
(* acknowledgment of an old one for a new one, gave it a process that was  *)
(* not done with its former client, or gave up its process, by age, while  *)
(* it still sent the call.                                                 *)
(***************************************************************************)
EXTENDS Naturals

CONSTANTS
    Clients,    \* calling processes
    Calls,      \* the calls they may make, a client first in each
    Results,    \* what a call may return; one that succeeds returns itself
    None

VARIABLES
    current,    \* the call each client waits for, or None
    issued,     \* the calls made so far
    executions, \* how often each call was executed
    outcome,    \* what each client's last call returned
    confused    \* the clients the server has lost track of some time

vars == <<current, issued, executions, outcome, confused>>

Init ==
    /\ current = [c \in Clients |-> None]
    /\ issued = {}
    /\ executions = [k \in Calls |-> 0]
    /\ outcome = [c \in Clients |-> None]
    /\ confused = {}

Issue(c, k) ==
    /\ current[c] = None
    /\ k \notin issued
    /\ current' = [current EXCEPT ![c] = k]
    /\ issued' = issued \cup {k}
    /\ UNCHANGED <<executions, outcome, confused>>

Execute(k) ==
    /\ k \in issued
    /\ executions[k] = 0 \/ k[1] \in confused
    /\ executions' = [executions EXCEPT ![k] = @ + 1]
    /\ UNCHANGED <<current, issued, outcome, confused>>

Return(c) ==
    /\ current[c] # None
    /\ \/ executions[current[c]] > 0 /\ outcome' = [outcome EXCEPT ![c] = current[c]]
       \/ c \in confused /\ \E r \in Results : outcome' = [outcome EXCEPT ![c] = r]
    /\ current' = [current EXCEPT ![c] = None]
    /\ UNCHANGED <<issued, executions, confused>>

GiveUp(c) ==
    /\ current[c] # None
    /\ outcome' = [outcome EXCEPT ![c] = None]
    /\ current' = [current EXCEPT ![c] = None]
    /\ UNCHANGED <<issued, executions, confused>>

Confuse(c) ==
    /\ confused' = confused \cup {c}
    /\ UNCHANGED <<current, issued, executions, outcome>>

Next ==
    \/ \E c \in Clients, k \in Calls : Issue(c, k)
    \/ \E k \in Calls : Execute(k)
    \/ \E c \in Clients : Return(c) \/ GiveUp(c) \/ Confuse(c)

Spec == Init /\ [][Next]_vars
=============================================================================
