-------------------------------- MODULE Saga --------------------------------
(***************************************************************************)
(* One workflow under the saga coordinator (333-orchestration).  Calls of  *)
(* execute and resume_compensation follow each other; executors,           *)
(* compensators and the journal may fail at every use.  A step's output is *)
(* whether it has one; publishing to the bus has no effect on the saga.    *)
(***************************************************************************)
EXTENDS Integers, Sequences, SequencesExt, FiniteSets

CONSTANTS
    Order,      \* the steps as the definition lists them
    Deps,       \* Deps[s]: steps s depends on
    MaxFaults,  \* bound on failures
    MaxAttempts \* compensation_attempts

VARIABLES
    step_state,       \* StepState, or "None" before the first record
    wf_state,         \* WorkflowState, or "None" before the first call
    committed_order,
    call,             \* the running call: "idle", "execute" or "rollback"
    committed,        \* local to execute: steps it has committed
    attempts,         \* local to compensate_committed
    journaled,        \* events that reached the journal
    runs, undone,     \* history: effects of executors and compensators
    faults

sgVars == <<step_state, wf_state, committed_order, call, committed, attempts,
            journaled, runs, undone, faults>>
Steps == Range(Order)

\* Workflow::new accepts known dependencies without a cycle: some order of the
\* steps puts each after everything it depends on.
assert_acyclic ==
    \E p \in [1 .. Len(Order) -> Steps] :
        /\ Cardinality(Range(p)) = Len(Order)
        /\ \A i \in 1 .. Len(Order) : Deps[p[i]] \subseteq {p[j] : j \in 1 .. i - 1}

SgInit ==
    /\ assert_acyclic
    /\ step_state = [s \in Steps |-> "None"]
    /\ wf_state = "None"
    /\ committed_order = <<>>
    /\ call = "idle" /\ committed = {} /\ attempts = 0
    /\ journaled = {}
    /\ runs = [s \in Steps |-> 0] /\ undone = [s \in Steps |-> 0]
    /\ faults = 0

StepEdges == {<<"Pending", "Running">>, <<"Running", "Committed">>,
              <<"Running", "Failed">>, <<"Committed", "Compensated">>}
can_transition_to(a, b) == a = "None" \/ a = b \/ <<a, b>> \in StepEdges

WorkflowEdges == {<<"Running", "Succeeded">>, <<"Running", "Failed">>,
                  <<"Running", "Compensating">>, <<"Compensating", "Compensated">>,
                  <<"Compensating", "Failed">>}
wf_can_transition_to(a, b) == a = "None" \/ a = b \/ <<a, b>> \in WorkflowEdges
is_terminal(w) == w \in {"Succeeded", "Failed", "Compensated"}

Fault == faults < MaxFaults /\ faults' = faults + 1

\* record: memory first, then the journal, whose failure the caller returns.
Journal(s, st, ok) ==
    IF ok THEN journaled' = journaled \cup {<<s, st>>} /\ UNCHANGED faults
          ELSE Fault /\ UNCHANGED journaled
Record(s, st) ==
    /\ can_transition_to(step_state[s], st)
    /\ step_state' = [step_state EXCEPT ![s] = st]
    /\ committed_order' = IF st = "Committed" THEN Append(committed_order, s)
                                              ELSE committed_order

\* execute: refused in a terminal state and during a rollback; every step is
\* recorded Pending, which a step that has moved on refuses.
MayExecute ==
    /\ call = "idle" /\ ~is_terminal(wf_state)
    /\ wf_can_transition_to(wf_state, "Running")

Execute ==
    /\ MayExecute
    /\ \A s \in Steps : can_transition_to(step_state[s], "Pending")
    /\ wf_state' = "Running"
    /\ step_state' = [s \in Steps |-> "Pending"]
    /\ journaled' = journaled \cup (Steps \X {"Pending"})
    /\ call' = "execute" /\ committed' = {}
    /\ UNCHANGED <<committed_order, attempts, runs, undone, faults>>

\* The journal fails at some step: the steps up to it are Pending in memory.
ExecuteFails(i) ==
    /\ MayExecute
    /\ \A s \in Steps : step_state[s] \in {"None", "Pending"}
    /\ Fault
    /\ wf_state' = "Running"
    /\ step_state' = [s \in Steps |-> IF \E j \in 1 .. i : Order[j] = s THEN "Pending"
                                       ELSE step_state[s]]
    /\ journaled' = journaled \cup {<<Order[j], "Pending">> : j \in 1 .. i - 1}
    /\ UNCHANGED <<committed_order, call, committed, attempts, runs, undone>>

\* The first step that has moved on stops the call, after the steps before it.
ExecuteRefused ==
    /\ MayExecute
    /\ \E i \in 1 .. Len(Order) :
         /\ ~can_transition_to(step_state[Order[i]], "Pending")
         /\ \A j \in 1 .. i - 1 : can_transition_to(step_state[Order[j]], "Pending")
    /\ wf_state' = "Running"
    /\ UNCHANGED <<step_state, committed_order, call, committed, attempts, journaled, runs,
                   undone, faults>>

Ready(s) ==
    /\ s \notin committed /\ Deps[s] \subseteq committed
    /\ step_state[s] = "Pending"
FirstReady(s) ==
    \E i \in 1 .. Len(Order) :
        Order[i] = s /\ Ready(s) /\ \A j \in 1 .. i - 1 : ~Ready(Order[j])

\* The ready step is recorded Running; the journal may fail, and so may the
\* search for an executor.
StartStep(s) ==
    /\ call = "execute" /\ FirstReady(s)
    /\ Record(s, "Running")
    /\ Journal(s, "Running", TRUE)
    /\ UNCHANGED <<wf_state, call, committed, attempts, runs, undone>>
StartStepFails(s) ==
    /\ call = "execute" /\ FirstReady(s)
    /\ Record(s, "Running")
    /\ Fault
    /\ journaled' \in {journaled, journaled \cup {<<s, "Running">>}}
    /\ call' = "idle"
    /\ UNCHANGED <<wf_state, committed, attempts, runs, undone>>

Running(s) == call = "execute" /\ step_state[s] = "Running" /\ s \notin committed

StepOk(s, ok) ==
    /\ Running(s)
    /\ runs' = [runs EXCEPT ![s] = @ + 1]
    /\ Record(s, "Committed")
    /\ Journal(s, "Committed", ok)
    /\ committed' = IF ok THEN committed \cup {s} ELSE committed
    /\ call' = IF ok THEN call ELSE "idle"
    /\ UNCHANGED <<wf_state, attempts, undone>>

\* run_step failed: Failed is recorded and, if that worked, the rollback starts.
StepErr(s, ok) ==
    /\ Running(s)
    /\ Record(s, "Failed")
    /\ Fault
    /\ journaled' = IF ok THEN journaled \cup {<<s, "Failed">>} ELSE journaled
    /\ wf_state' = IF ok THEN "Compensating" ELSE wf_state
    /\ call' = IF ok THEN "rollback" ELSE "idle"
    /\ attempts' = 0
    /\ UNCHANGED <<committed, runs, undone>>

\* Nothing is ready: all steps committed, or some never became ready.
Finish ==
    /\ call = "execute"
    /\ \A s \in Steps : ~Ready(s) /\ ~Running(s)
    /\ wf_state' = IF committed = Steps THEN "Succeeded" ELSE "Failed"
    /\ call' = "idle"
    /\ UNCHANGED <<step_state, committed_order, committed, attempts, journaled, runs, undone,
                   faults>>

Resume ==
    /\ call = "idle" /\ wf_state = "Compensating"
    /\ call' = "rollback" /\ attempts' = 0
    /\ UNCHANGED <<step_state, wf_state, committed_order, committed, journaled, runs, undone,
                   faults>>

ToUndo == {i \in 1 .. Len(committed_order) : step_state[committed_order[i]] # "Compensated"}

\* Mutant: the rollback walks in commit order.
UndoesNextForward(i) == i \in ToUndo /\ \A j \in ToUndo : i <= j

\* compensate_committed walks backwards over what is not compensated yet.
UndoesNext(i) == i \in ToUndo /\ \A j \in ToUndo : j <= i

Compensate(i, ok) ==
    LET s == committed_order[i] IN
    /\ call = "rollback" /\ UndoesNext(i)
    /\ undone' = [undone EXCEPT ![s] = @ + 1]
    /\ Record(s, "Compensated")
    /\ Journal(s, "Compensated", ok)
    /\ attempts' = 0
    /\ call' = IF ok THEN call ELSE "idle"
    /\ UNCHANGED <<wf_state, committed, runs>>

\* The compensator fails: tried again up to the bound, then (at once if none is
\* registered) the walk stops and the workflow stays Compensating.
CompensateErr(i, missing) ==
    /\ call = "rollback" /\ UndoesNext(i)
    /\ Fault
    /\ attempts' = IF missing THEN 0 ELSE (attempts + 1) % MaxAttempts
    /\ call' = IF missing \/ attempts + 1 = MaxAttempts THEN "idle" ELSE call
    /\ UNCHANGED <<step_state, wf_state, committed_order, committed, journaled, runs, undone>>

Compensated ==
    /\ call = "rollback" /\ ToUndo = {}
    /\ wf_state' = "Compensated" /\ call' = "idle"
    /\ UNCHANGED <<step_state, committed_order, committed, attempts, journaled, runs, undone,
                   faults>>

SgNext ==
    \/ Execute \/ ExecuteRefused \/ Finish \/ Resume \/ Compensated
    \/ \E i \in 1 .. Len(Order) : ExecuteFails(i)
    \/ \E s \in Steps : StartStep(s) \/ StartStepFails(s)
    \/ \E s \in Steps, ok \in BOOLEAN : StepOk(s, ok) \/ StepErr(s, ok)
    \/ \E i \in ToUndo, b \in BOOLEAN : Compensate(i, b) \/ CompensateErr(i, b)

SgSpec == SgInit /\ [][SgNext]_sgVars

-----------------------------------------------------------------------------
\* However often calls fail and are repeated, no step runs twice, a step is
\* undone at most once and only after everything committed later, a finished
\* rollback leaves nothing committed, and success leaves nothing undone
\* (execute, compensate_committed, resume_compensation).
RollbackSound ==
    /\ \A s \in Steps : undone[s] <= runs[s] /\ runs[s] <= 1
    /\ \A i, j \in 1 .. Len(committed_order) :
          i < j /\ undone[committed_order[i]] = 1 => undone[committed_order[j]] = 1
    /\ wf_state = "Compensated" => \A s \in Steps : undone[s] = runs[s]
    /\ wf_state = "Succeeded" => \A s \in Steps : runs[s] = 1 /\ undone[s] = 0
=============================================================================
