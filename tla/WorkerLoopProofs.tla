-------------------------- MODULE WorkerLoopProofs --------------------------
(***************************************************************************)
(* For every set of calls: the worker never signals through a null pointer, *)
(* no call is forgotten, and a call alone returns after a whole iteration.  *)
(***************************************************************************)
EXTENDS WorkerLoop, TLAPS

LEMMA WorkerInit == Init => WorkerInv
BY CallAssumption DEF Init, WorkerInv, TypeOK, WorkerAt, SignalHasPromise,
   NoCallForgotten, AnswersHaveReasons, InIteration

\* Steps of the worker that answer no call.
LEMMA SilentStep ==
    ASSUME WorkerInv,
           \/ EnterLoop \/ StartWaiting \/ WaitTimesOut
           \/ TakeTurn \/ EndHeartBeat \/ BeginRetransmission \/ EndRetransmission
    PROVE  WorkerInv'
<1>1. /\ UNCHANGED <<signal, stopWorker, control, callVars, ghostVars>>
      /\ worker' \in WorkerAt \ {"off"}
      /\ InIteration' => InIteration
      /\ worker # "off"
  BY DEF EnterLoop, StartWaiting, WaitTimesOut, TakeTurn, EndHeartBeat,
         BeginRetransmission, EndRetransmission, WorkerStep, WorkerAt, InIteration
<1>2. TypeOK'
  BY <1>1 DEF WorkerInv, TypeOK, callVars, ghostVars
<1>3. SignalHasPromise'
  BY <1>1 DEF WorkerInv, SignalHasPromise, callVars
<1>4. NoCallForgotten'
  BY <1>1 DEF WorkerInv, NoCallForgotten, callVars
<1>5. AnswersHaveReasons'
  BY <1>1 DEF WorkerInv, AnswersHaveReasons, callVars, ghostVars
<1>. QED  BY <1>2, <1>3, <1>4, <1>5 DEF WorkerInv

LEMMA BeginIterationStep ==
    ASSUME WorkerInv, BeginIteration
    PROVE  WorkerInv'
<1>. USE DEF WorkerInv, BeginIteration, WorkerStep, callVars
<1>1. TypeOK'
  BY DEF TypeOK, WorkerAt
<1>2. SignalHasPromise'
  BY DEF SignalHasPromise, AnswersHaveReasons
<1>3. NoCallForgotten'
  BY DEF NoCallForgotten
<1>4. AnswersHaveReasons'
  <2>1. signal' => completion \in began'
    BY DEF AnswersHaveReasons, TypeOK
  <2>. QED  BY <2>1 DEF AnswersHaveReasons
<1>. QED  BY <1>1, <1>2, <1>3, <1>4

LEMMA EndIterationStep ==
    ASSUME WorkerInv, EndIteration
    PROVE  WorkerInv'
<1>. USE DEF WorkerInv, EndIteration, WorkerStep
<1>1. InIteration /\ ~InIteration'
  BY DEF InIteration
<1>2. TypeOK'
  BY DEF TypeOK, WorkerAt
<1>3. SignalHasPromise'
  BY <1>1 DEF SignalHasPromise
<1>4. NoCallForgotten'
  BY DEF NoCallForgotten, TypeOK
<1>5. AnswersHaveReasons'
  <2>1. CASE signal
    <3>1. completion \in began \cup overlapped
      BY <1>1, <2>1 DEF AnswersHaveReasons
    <3>2. call[completion] = "waiting" /\ completion # NoCall
      BY <1>1, <2>1 DEF AnswersHaveReasons, SignalHasPromise
    <3>. QED  BY <1>1, <2>1, <3>1, <3>2 DEF AnswersHaveReasons, TypeOK
  <2>2. CASE ~signal
    BY <1>1, <2>2 DEF AnswersHaveReasons, TypeOK
  <2>. QED  BY <2>1, <2>2
<1>. QED  BY <1>2, <1>3, <1>4, <1>5

LEMMA ExitLoopStep ==
    ASSUME WorkerInv, ExitLoop
    PROVE  WorkerInv'
<1>. USE DEF WorkerInv, ExitLoop, WorkerStep, ghostVars
<1>1. ~InIteration'
  BY DEF InIteration
<1>2. TypeOK'
  BY DEF TypeOK, WorkerAt
<1>3. SignalHasPromise'
  BY <1>1 DEF SignalHasPromise
<1>4. NoCallForgotten'
  BY DEF NoCallForgotten, TypeOK
<1>5. AnswersHaveReasons'
  <2>1. completion' = NoCall /\ stopWorker' /\ control' # "initial"
    BY DEF AnswersHaveReasons
  <2>2. completion # NoCall => call[completion] = "waiting"
    BY DEF AnswersHaveReasons
  <2>3. \A c \in Call : /\ call[c] \in {"idle", "calling"} => outcome'[c] = "pending"
                        /\ call[c] = "returned" => outcome'[c] # "pending"
    BY <2>2, CallAssumption DEF AnswersHaveReasons, TypeOK
  <2>. QED  BY <1>1, <2>1, <2>3 DEF AnswersHaveReasons
<1>. QED  BY <1>2, <1>3, <1>4, <1>5

\* Mobilize, Demobilize and Join touch no call; a notification does not begin
\* an iteration.
LEMMA ControlStep ==
    ASSUME WorkerInv, Mobilize \/ Demobilize \/ Join
    PROVE  WorkerInv'
<1>1. /\ UNCHANGED <<signal, callVars, ghostVars>>
      /\ worker' \in WorkerAt
      /\ InIteration' => InIteration
      /\ stopWorker' \in BOOLEAN
      /\ stopWorker => stopWorker'
      /\ control' \in {"mobilized", "joining", "demobilized"}
  BY DEF WorkerInv, TypeOK, AnswersHaveReasons, Mobilize, Demobilize, Join,
         Notified, WorkerAt, InIteration
<1>2. TypeOK'
  BY <1>1 DEF WorkerInv, TypeOK, callVars, ghostVars
<1>3. SignalHasPromise'
  BY <1>1 DEF WorkerInv, SignalHasPromise, callVars
<1>4. NoCallForgotten'
  BY <1>1 DEF WorkerInv, NoCallForgotten, callVars
<1>5. AnswersHaveReasons'
  BY <1>1 DEF WorkerInv, AnswersHaveReasons, callVars, ghostVars
<1>. QED  BY <1>2, <1>3, <1>4, <1>5 DEF WorkerInv

LEMMA InstallPromiseStep ==
    ASSUME WorkerInv, NEW c \in Call, InstallPromise(c)
    PROVE  WorkerInv'
<1>. USE DEF WorkerInv, InstallPromise, ghostVars
<1>1. /\ InIteration' => InIteration
      /\ worker' \in WorkerAt
      /\ control = "initial" => worker' = "off"
  BY DEF Notified, InIteration, WorkerAt, TypeOK, AnswersHaveReasons
<1>2. TypeOK'
  BY <1>1 DEF TypeOK
<1>3. c # NoCall /\ completion # c /\ outcome[c] = "pending"
  BY CallAssumption DEF AnswersHaveReasons, TypeOK
<1>4. SignalHasPromise'
  BY <1>1, <1>3 DEF SignalHasPromise, TypeOK
<1>5. NoCallForgotten'
  BY <1>3 DEF NoCallForgotten, TypeOK
<1>6. AnswersHaveReasons'
  <2>1. completion # NoCall => /\ call[completion] = "waiting"
                               /\ completion \in Call
                               /\ overlapped' = overlapped \cup {c, completion}
    BY DEF AnswersHaveReasons, TypeOK
  <2>2. completion' # NoCall => /\ call'[completion'] = "waiting"
                                /\ outcome'[completion'] = "pending"
    BY <1>3 DEF TypeOK
  <2>3. ASSUME NEW d \in Call
        PROVE  /\ call'[d] \in {"idle", "calling"} => outcome'[d] = "pending"
               /\ call'[d] = "returned" => outcome'[d] # "pending"
               /\ outcome'[d] # "pending" => \/ d \in looped'
                                             \/ d \in overlapped'
                                             \/ stopWorker'
    <3>1. CASE d = c
      BY <1>3, <2>1, <3>1 DEF TypeOK
    <3>2. CASE d # c /\ d = completion
      BY <1>3, <2>1, <3>2, CallAssumption DEF TypeOK
    <3>3. CASE d # c /\ d # completion
      BY <2>1, <3>3 DEF AnswersHaveReasons, TypeOK
    <3>. QED  BY <3>1, <3>2, <3>3
  <2>4. InIteration' /\ signal' => completion' \in began' \cup overlapped'
    BY <1>1, <2>1 DEF SignalHasPromise
  <2>. QED  BY <1>1, <2>2, <2>3, <2>4 DEF AnswersHaveReasons
<1>. QED  BY <1>2, <1>4, <1>5, <1>6

LEMMA CallStep ==
    ASSUME WorkerInv, NEW c \in Call, EnterCall(c) \/ ReturnFromCall(c)
    PROVE  WorkerInv'
<1>. USE DEF WorkerInv, EnterCall, ReturnFromCall, ghostVars
<1>1. TypeOK'
  BY DEF TypeOK
<1>2. SignalHasPromise'
  BY DEF SignalHasPromise, InIteration
<1>3. NoCallForgotten'
  BY DEF NoCallForgotten, TypeOK
<1>4. AnswersHaveReasons'
  <2>1. completion # NoCall => completion # c
    BY DEF AnswersHaveReasons
  <2>. QED  BY <2>1 DEF AnswersHaveReasons, TypeOK, InIteration
<1>. QED  BY <1>1, <1>2, <1>3, <1>4

LEMMA WorkerLoopStep == WorkerInv /\ [Next]_vars => WorkerInv'
<1>1. WorkerInv /\ UNCHANGED vars => WorkerInv'
  BY DEF vars, WorkerInv, TypeOK, SignalHasPromise, NoCallForgotten,
         AnswersHaveReasons, InIteration
<1>. QED  BY <1>1, SilentStep, BeginIterationStep, EndIterationStep, ExitLoopStep,
             ControlStep, InstallPromiseStep, CallStep DEF Next, WorkerNext

\* The inductive invariant of the worker and its callers.
THEOREM WorkerInvariant == Spec => []WorkerInv
BY WorkerInit, WorkerLoopStep, PTL DEF Spec

\* The worker that decided to signal has a promise to signal to.
THEOREM SignalsHavePromises == Spec => []SignalHasPromise
<1>1. WorkerInv => SignalHasPromise
  BY DEF WorkerInv
<1>. QED  BY <1>1, WorkerInvariant, PTL

\* The promise of every waiting call is the one the worker holds.
THEOREM CallsKept == Spec => []NoCallForgotten
<1>1. WorkerInv => NoCallForgotten
  BY DEF WorkerInv
<1>. QED  BY <1>1, WorkerInvariant, PTL

\* A call that overlaps no other returns after a whole iteration or a stop.
THEOREM WaitsForOneLoop == Spec => []LoopBarrier
<1>1. WorkerInv => LoopBarrier
  BY DEF WorkerInv, AnswersHaveReasons, LoopBarrier
<1>. QED  BY <1>1, WorkerInvariant, PTL
=============================================================================
