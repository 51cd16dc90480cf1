----------------------------- MODULE WorkerLoop -----------------------------
(***************************************************************************)
(* The worker thread of a RaftServer and the threads that talk to it:       *)
(* Mobilize starts it, Demobilize stops and joins it, and                   *)
(* WaitForAtLeastOneWorkerLoop waits on a promise the worker keeps.         *)
(*                                                                         *)
(* A step is a critical section of ServerSharedProperties::mutex, or what a *)
(* thread does between two of them.  Only the worker holds the mutex over   *)
(* several steps (it sends while it holds it); what the others do under it  *)
(* neither blocks nor sends.                                                *)
(***************************************************************************)
EXTENDS Integers, FiniteSets

CONSTANT Call          \* the calls of WaitForAtLeastOneWorkerLoop

VARIABLES
    worker,            \* where the worker thread is
    signal,            \* its local signalWorkerLoopCompletion
    completion,        \* workerLoopCompletion: the call whose promise it holds
    stopWorker,        \* the promise stopWorker is kept
    call,              \* where each call is
    outcome,           \* the future each call waits on
    control,           \* the thread that mobilizes and demobilizes
    began, looped,     \* ghosts: calls since which an iteration began, was completed
    overlapped         \* ghost: calls during which another one came

vars == <<worker, signal, completion, stopWorker, call, outcome, control,
          began, looped, overlapped>>

NoCall == "none"

ASSUME CallAssumption == NoCall \notin Call

\* The worker between its decision to run an iteration and the end of it.
InIteration == worker \in {"elapsed", "sending", "retransmit", "resending", "finish"}

MutexFree == worker \notin {"check", "sending", "resending"}

Alive == worker \notin {"off", "done"}

Init ==
    /\ worker = "off"
    /\ signal = FALSE
    /\ completion = NoCall
    /\ stopWorker = FALSE
    /\ call = [c \in Call |-> "idle"]
    /\ outcome = [c \in Call |-> "pending"]
    /\ control = "initial"
    /\ began = {} /\ looped = {} /\ overlapped = {}

callVars == <<completion, call, outcome, overlapped>>
ghostVars == <<began, looped>>

-----------------------------------------------------------------------------
(* RaftServerImpl::Worker *)

WorkerStep(from, to) == worker = from /\ worker' = to

\* ResetElectionTimer, then the lock that the loop holds.
EnterLoop ==
    /\ WorkerStep("start", "check")
    /\ UNCHANGED <<signal, stopWorker, control, callVars, ghostVars>>

\* Bug: the promise that is still there is dropped.
ExitLoop_DropsPromise ==
    /\ WorkerStep("check", "done")
    /\ stopWorker
    /\ completion' = NoCall
    /\ UNCHANGED <<signal, stopWorker, call, outcome, control, overlapped, ghostVars>>

\* The loop condition fails; a promise that is still there is kept.
ExitLoop ==
    /\ WorkerStep("check", "done")
    /\ stopWorker
    /\ completion' = NoCall
    /\ outcome' = [c \in Call |-> IF c = completion THEN "kept" ELSE outcome[c]]
    /\ UNCHANGED <<signal, stopWorker, call, control, overlapped, ghostVars>>

\* wait_for gives up the mutex.
StartWaiting ==
    /\ WorkerStep("check", "waiting")
    /\ ~stopWorker
    /\ UNCHANGED <<signal, stopWorker, control, callVars, ghostVars>>

\* rpcTimeout has passed, or a spurious wakeup.
WaitTimesOut ==
    /\ WorkerStep("waiting", "woken")
    /\ UNCHANGED <<signal, stopWorker, control, callVars, ghostVars>>

\* With the mutex again: is there a call to answer after this iteration?
BeginIteration ==
    /\ WorkerStep("woken", "elapsed")
    /\ signal' = (completion # NoCall)
    /\ began' = began \cup {c \in Call : call[c] = "waiting"}
    /\ UNCHANGED <<stopWorker, control, callVars, looped>>

\* A heartbeat is sent under the mutex; an election takes no lock.
TakeTurn ==
    /\ \/ WorkerStep("elapsed", "sending")
       \/ WorkerStep("elapsed", "retransmit")
    /\ UNCHANGED <<signal, stopWorker, control, callVars, ghostVars>>

EndHeartBeat ==
    /\ WorkerStep("sending", "retransmit")
    /\ UNCHANGED <<signal, stopWorker, control, callVars, ghostVars>>

BeginRetransmission ==
    /\ WorkerStep("retransmit", "resending")
    /\ UNCHANGED <<signal, stopWorker, control, callVars, ghostVars>>

EndRetransmission ==
    /\ WorkerStep("resending", "finish")
    /\ UNCHANGED <<signal, stopWorker, control, callVars, ghostVars>>

\* Bug: whatever promise is there at the end is kept.
EndIteration_SignalsLate ==
    /\ WorkerStep("finish", "check")
    /\ looped' = looped \cup began
    /\ outcome' = [c \in Call |-> IF c = completion THEN "kept" ELSE outcome[c]]
    /\ completion' = NoCall
    /\ UNCHANGED <<signal, stopWorker, control, call, overlapped, began>>

\* The promise that is there now is kept, not the one seen at the beginning.
EndIteration ==
    /\ WorkerStep("finish", "check")
    /\ looped' = looped \cup began
    /\ \/ /\ signal
          /\ outcome' = [c \in Call |-> IF c = completion THEN "kept" ELSE outcome[c]]
          /\ completion' = NoCall
       \/ /\ ~signal
          /\ UNCHANGED <<outcome, completion>>
    /\ UNCHANGED <<signal, stopWorker, control, call, overlapped, began>>

-----------------------------------------------------------------------------
(* RaftServer *)

\* notify_one
Notified == IF worker = "waiting" THEN "woken" ELSE worker

\* The first Mobilize.  A later one finds serverWorker joinable, as nothing
\* joins it, and returns.
Mobilize ==
    /\ control = "initial"
    /\ control' = "mobilized"
    /\ worker' = "start"
    /\ stopWorker' = FALSE
    /\ UNCHANGED <<signal, callVars, ghostVars>>

\* Bug: the worker is woken but stopWorker is not kept.
Demobilize_OnlyNotifies ==
    /\ control = "mobilized"
    /\ MutexFree
    /\ control' = "joining"
    /\ worker' = Notified
    /\ UNCHANGED <<signal, stopWorker, callVars, ghostVars>>

Demobilize ==
    /\ control = "mobilized"
    /\ MutexFree
    /\ control' = "joining"
    /\ stopWorker' = TRUE
    /\ worker' = Notified
    /\ UNCHANGED <<signal, callVars, ghostVars>>

Join ==
    /\ control = "joining"
    /\ worker = "done"
    /\ control' = "demobilized"
    /\ UNCHANGED <<worker, signal, stopWorker, callVars, ghostVars>>

EnterCall(c) ==
    /\ call[c] = "idle"
    /\ call' = [call EXCEPT ![c] = "calling"]
    /\ UNCHANGED <<worker, signal, stopWorker, control, completion, outcome,
                   overlapped, ghostVars>>

\* A new promise; one that is still there is destroyed, which makes its future
\* ready with a broken promise.
InstallPromise(c) ==
    /\ call[c] = "calling"
    /\ MutexFree
    /\ call' = [call EXCEPT ![c] = "waiting"]
    /\ completion' = c
    /\ outcome' = [d \in Call |-> IF d = completion THEN "broken" ELSE outcome[d]]
    /\ overlapped' = IF completion = NoCall THEN overlapped
                     ELSE overlapped \cup {c, completion}
    /\ worker' = Notified
    /\ UNCHANGED <<signal, stopWorker, control, ghostVars>>

\* Bug: the caller clears workerLoopCompletion when its wait is over.
ReturnFromCall_Clears(c) ==
    /\ call[c] = "waiting"
    /\ outcome[c] # "pending"
    /\ call' = [call EXCEPT ![c] = "returned"]
    /\ completion' = NoCall
    /\ UNCHANGED <<worker, signal, stopWorker, control, outcome, overlapped,
                   ghostVars>>

ReturnFromCall(c) ==
    /\ call[c] = "waiting"
    /\ outcome[c] # "pending"
    /\ call' = [call EXCEPT ![c] = "returned"]
    /\ UNCHANGED <<worker, signal, stopWorker, control, completion, outcome,
                   overlapped, ghostVars>>

WorkerNext ==
    \/ EnterLoop \/ ExitLoop \/ StartWaiting \/ WaitTimesOut \/ BeginIteration
    \/ TakeTurn \/ EndHeartBeat \/ BeginRetransmission \/ EndRetransmission
    \/ EndIteration

Next ==
    \/ WorkerNext
    \/ Mobilize \/ Demobilize \/ Join
    \/ \E c \in Call : EnterCall(c) \/ InstallPromise(c) \/ ReturnFromCall(c)

Spec == Init /\ [][Next]_vars

\* The worker runs, and the timeout of wait_for passes.  A thread that asks for
\* the mutex gets it some time: the worker gives it up in every iteration, for
\* as long as it waits.
Fairness ==
    /\ WF_vars(WorkerNext)
    /\ WF_vars(Join)
    /\ \A c \in Call : SF_vars(InstallPromise(c)) /\ WF_vars(ReturnFromCall(c))

FairSpec == Spec /\ Fairness

-----------------------------------------------------------------------------
WorkerAt == {"off", "start", "check", "waiting", "woken", "elapsed", "sending",
             "retransmit", "resending", "finish", "done"}

\* Every variable stays in its type.
TypeOK ==
    /\ worker \in WorkerAt
    /\ signal \in BOOLEAN
    /\ completion \in Call \cup {NoCall}
    /\ stopWorker \in BOOLEAN
    /\ call \in [Call -> {"idle", "calling", "waiting", "returned"}]
    /\ outcome \in [Call -> {"pending", "kept", "broken"}]
    /\ control \in {"initial", "mobilized", "joining", "demobilized"}
    /\ began \subseteq Call
    /\ looped \subseteq Call
    /\ overlapped \subseteq Call

\* A worker that decided to signal finds a promise when the iteration is over:
\* calls that come in between replace the pointer but never clear it, so
\* workerLoopCompletion->set_value() does not go through a null pointer, and
\* the promise is not yet kept.
SignalHasPromise ==
    InIteration /\ signal => /\ completion # NoCall
                             /\ outcome[completion] = "pending"

\* The promise of every call that still waits is the one the worker holds: no
\* caller is left behind when a later call replaces its promise.
NoCallForgotten ==
    \A c \in Call :
        call[c] = "waiting" /\ outcome[c] = "pending" => completion = c

\* A call that overlaps no other returns after an iteration that began after
\* it came and was completed, or because the worker was told to stop.
LoopBarrier ==
    \A c \in Call :
        call[c] = "returned" => \/ c \in looped
                                \/ c \in overlapped
                                \/ stopWorker

\* The invariant by which LoopBarrier holds.  The promise held is that of a
\* pending call; what a call was answered for is one of the three reasons.
AnswersHaveReasons ==
    /\ completion # NoCall => /\ call[completion] = "waiting"
                              /\ outcome[completion] = "pending"
    /\ \A c \in Call :
          /\ call[c] \in {"idle", "calling"} => outcome[c] = "pending"
          /\ call[c] = "returned" => outcome[c] # "pending"
          /\ outcome[c] # "pending" => \/ c \in looped
                                       \/ c \in overlapped
                                       \/ stopWorker
    /\ InIteration /\ signal => completion \in began \cup overlapped
    /\ control = "initial" => worker = "off" /\ ~stopWorker

WorkerInv ==
    /\ TypeOK
    /\ SignalHasPromise
    /\ NoCallForgotten
    /\ AnswersHaveReasons

\* A call that finds the worker alive returns, by an iteration, by the exit of
\* the worker or by a later call.
CallReturns ==
    \A c \in Call : (call[c] = "waiting" /\ Alive) ~> (call[c] = "returned")

\* Demobilize returns: the worker sees the request wherever it was.
DemobilizeReturns == (control = "joining") ~> (control = "demobilized")
=============================================================================
