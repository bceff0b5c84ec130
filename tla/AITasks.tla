------------------------------ MODULE AITasks ------------------------------
(***************************************************************************)
(* The sentiment and summarization tasks of ai_engine with the model       *)
(* services they share: one task object and one service object per         *)
(* process, called by every thread of the pool.  An action is what one     *)
(* thread does between two accesses to shared attributes.                  *)
(*                                                                         *)
(* A sentiment text is its margin: the distance, in percent, between the   *)
(* scores of its two labels.  A text to summarize is its length class.     *)
(***************************************************************************)
EXTENDS Naturals, FiniteSets

CONSTANTS
    Thread,
    NoThread,
    Wirings,      \* how the process is put together, see Wiring
    Margins,      \* sentiment texts
    Thresholds,   \* values of neutral_threshold in payloads
    NoThreshold,  \* the payload has none
    Lengths,      \* texts to summarize
    MaxCalls,     \* bound: calls per thread
    MaxFailures   \* bound: pipelines that fail to load or to infer

\* "engine": create_engine, a summarization service injected, sentiment by
\* lexicon.  "runner": a Celery process, one call at a time, the services
\* resolved by the first one.  "injected": a sentiment model is injected too.
Wiring == {"engine", "runner", "injected"}

ASSUME AITasksAssumption ==
    /\ NoThread \notin Thread
    /\ Wirings \subseteq Wiring
    /\ Margins \subseteq 0..100
    /\ Thresholds \subseteq 0..99
    /\ NoThreshold \notin 0..100
    /\ Lengths \subseteq {"short", "enough", "long"}
    /\ MaxCalls \in Nat
    /\ MaxFailures \in Nat

VARIABLES
    wiring,   \* how this process was put together
    resolved, \* SummarizationTask._service is set
    ensured,  \* the tasks whose runner has found or downloaded the weights
    loads,    \* [Service -> Nat]: pipelines built; 0 while _pipeline is None
    lock,     \* [Service -> Thread \cup {NoThread}]
    neutral,  \* _neutral_threshold of the shared sentiment service
    call,     \* [Thread -> Call]
    calls,    \* [Thread -> Nat]: calls so far
    failures, \* failed pipelines so far
    overlap   \* history: two calls were in the output phase at once

vars == <<wiring, resolved, ensured, loads, lock, neutral, call, calls, failures, overlap>>

Service == {"sentiment", "summary"}
Default == 0

\* What a call works on: margin and threshold, or length.
Request ==
    [task : {"sentiment"}, margin : Margins, own : Thresholds \cup {NoThreshold}]
    \cup [task : {"summary"}, length : Lengths]

NoRequest == [task |-> "none"]

\* What the result of a call says: an error, a label of the model, the text of
\* a pipeline, or what answers in its place.
Outcome ==
    {"none", "refused", "failed", "neutral", "top", "lexicon"} \cup {"summary", "extract"}

Call ==
    [pc    : {"idle", "ensure", "validate", "pipeline", "lock", "load", "infer"}
             \cup {"save", "override", "read", "compare", "restore", "done"},
     req   : Request \cup {NoRequest},
     saved : 0..99,
     out   : Outcome]

Idle == [pc |-> "idle", req |-> NoRequest, saved |-> Default, out |-> "none"]

Init ==
    /\ wiring \in Wirings
    /\ resolved = (wiring # "runner")
    /\ ensured = {}
    /\ loads = [s \in Service |-> 0]
    /\ lock = [s \in Service |-> NoThread]
    /\ neutral = Default
    /\ call = [t \in Thread |-> Idle]
    /\ calls = [t \in Thread |-> 0]
    /\ failures = 0
    /\ overlap = FALSE

Goto(t, pc) == call' = [call EXCEPT ![t].pc = pc]

Answer(t, out) == call' = [call EXCEPT ![t].pc = "done", ![t].out = out]

\* The lexicon's answer to a sentiment text, the leading sentences of a text.
ByLexicon(t) == Answer(t, "lexicon")

Extract(t) == Answer(t, "extract")

PipelineFails ==
    /\ failures < MaxFailures
    /\ failures' = failures + 1

\* Seeded fault: a call without a threshold is shimmed too.
EveryCall(r) == r.task = "sentiment"

Shimmed(r) == r.task = "sentiment" /\ r.own # NoThreshold

\* The threads whose shim has the shared threshold overridden, or who are about
\* to put it back; and those who read it.
Overriding == {t \in Thread : call[t].pc \in {"override", "read", "compare", "restore"}
                                /\ Shimmed(call[t].req)}
Reading == {t \in Thread : call[t].pc \in {"read", "compare"}}

Shared == <<wiring, resolved, ensured, loads, lock, neutral>>

-----------------------------------------------------------------------------
(***************************************************************************)
(* run() of the runners, validate_payload, execute up to the service       *)
(***************************************************************************)

\* A thread takes a job: run() of its runner, or the engine's process_job.  A
\* Celery process executes one at a time.
Begin(t) ==
    /\ call[t].pc = "idle"
    /\ calls[t] < MaxCalls
    /\ wiring = "runner" => \A u \in Thread : call[u].pc = "idle"
    /\ \E r \in Request :
          call' = [call EXCEPT ![t].req = r,
                               ![t].pc = IF wiring = "runner" THEN "ensure" ELSE "validate"]
    /\ calls' = [calls EXCEPT ![t] = @ + 1]
    /\ UNCHANGED <<Shared, failures, overlap>>

\* ensure_model_available: from the cache, by a download, or neither.
EnsureModel(t) ==
    /\ call[t].pc = "ensure"
    /\ \/ /\ Goto(t, "validate")
          /\ ensured' = ensured \cup {call[t].req.task}
          /\ UNCHANGED failures
       \/ /\ call[t].req.task \notin ensured
          /\ PipelineFails
          /\ Answer(t, "failed")
          /\ UNCHANGED ensured
    /\ UNCHANGED <<wiring, resolved, loads, lock, neutral, calls, overlap>>

\* validate_payload: the minimum length is only asked once a service is there.
Acceptable(r) ==
    r.task = "summary" => r.length # "long" /\ (resolved => r.length # "short")

\* get_default_service, for a task nothing was injected into.
Resolve(r) == resolved' = (resolved \/ r.task = "summary")

\* validate_payload and execute up to the first use of a pipeline.  Without an
\* injected model sentiment is answered by the lexicon, or, when the payload
\* has a threshold, fails: the shim asks the lexicon for a pipeline.
Validate(t) ==
    LET r == call[t].req IN
    /\ call[t].pc = "validate"
    /\ IF ~Acceptable(r)
       THEN /\ Answer(t, "refused")
            /\ UNCHANGED resolved
       ELSE /\ Resolve(r)
            /\ IF r.task = "summary" \/ wiring = "injected" THEN Goto(t, "pipeline")
               ELSE IF Shimmed(r) THEN Answer(t, "failed") ELSE ByLexicon(t)
    /\ UNCHANGED <<wiring, ensured, loads, lock, neutral, calls, failures, overlap>>

-----------------------------------------------------------------------------
(***************************************************************************)
(* _get_pipeline: double-checked locking                                   *)
(***************************************************************************)

FirstLook(t) ==
    /\ call[t].pc = "pipeline"
    /\ Goto(t, IF loads[call[t].req.task] > 0 THEN "infer" ELSE "lock")
    /\ UNCHANGED <<Shared, calls, failures, overlap>>

Unheld(s) == lock[s] = NoThread

AcquireLock(t) ==
    LET s == call[t].req.task IN
    /\ call[t].pc = "lock"
    /\ Unheld(s)
    /\ lock' = [lock EXCEPT ![s] = t]
    /\ Goto(t, "load")
    /\ UNCHANGED <<wiring, resolved, ensured, loads, neutral, calls, failures, overlap>>

\* Seeded fault: the second check is missing.
AlwaysLoad(s) == TRUE

MustLoad(s) == loads[s] = 0

\* Seeded fault: the lock is kept when loading raises.
ReleaseIfLoaded(s) == IF loads'[s] > 0 THEN lock' = [lock EXCEPT ![s] = NoThread] ELSE lock' = lock

ReleaseLock(s) == lock' = [lock EXCEPT ![s] = NoThread]

\* _build_pipeline raises.  Without the transformers package summarization
\* falls back to extraction; any other error fails the job.
BuildFails(t) ==
    /\ PipelineFails
    /\ \/ Answer(t, "failed")
       \/ call[t].req.task = "summary" /\ Extract(t)

\* Inside the lock: build the pipeline unless another thread has.
LoadPipeline(t) ==
    LET s == call[t].req.task IN
    /\ call[t].pc = "load"
    /\ \/ /\ loads' = IF MustLoad(s) THEN [loads EXCEPT ![s] = @ + 1] ELSE loads
          /\ Goto(t, "infer")
          /\ UNCHANGED failures
       \/ /\ MustLoad(s)
          /\ BuildFails(t)
          /\ UNCHANGED loads
    /\ ReleaseLock(s)
    /\ UNCHANGED <<wiring, resolved, ensured, neutral, calls, overlap>>

\* analyze: the pipeline classifies the clipped text, then the output is built.
Analyze(t) ==
    LET r == call[t].req IN
    /\ r.task = "sentiment"
    /\ Goto(t, IF Shimmed(r) THEN "save" ELSE "read")
    /\ overlap' = (overlap \/ (Overriding # {} /\ ~Shimmed(r)))

\* summarize: the pipeline summarizes the clipped text.
Summarize(t) ==
    /\ call[t].req.task = "summary"
    /\ Answer(t, "summary")
    /\ UNCHANGED overlap

\* The pipeline answers or raises.
Infer(t) ==
    /\ call[t].pc = "infer"
    /\ \/ /\ Analyze(t) \/ Summarize(t)
          /\ UNCHANGED failures
       \/ /\ PipelineFails
          /\ Answer(t, "failed")
          /\ UNCHANGED overlap
    /\ UNCHANGED <<Shared, calls>>

-----------------------------------------------------------------------------
(***************************************************************************)
(* _ThresholdShim.analyze and _build_output                                *)
(***************************************************************************)

\* original = service._neutral_threshold
SaveThreshold(t) ==
    /\ call[t].pc = "save"
    /\ call' = [call EXCEPT ![t].pc = "override", ![t].saved = neutral]
    /\ overlap' = (overlap \/ Overriding \cup Reading # {})
    /\ UNCHANGED <<Shared, calls, failures>>

OverrideThreshold(t) ==
    /\ call[t].pc = "override"
    /\ neutral' = call[t].req.own
    /\ Goto(t, "read")
    /\ UNCHANGED <<wiring, resolved, ensured, loads, lock, calls, failures, overlap>>

\* The return of _build_output, through the finally of the shim if there is one.
Built(t, out) ==
    call' = [call EXCEPT ![t].out = out,
                         ![t].pc = IF Shimmed(call[t].req) THEN "restore" ELSE "done"]

\* _build_output reads the threshold twice: is it positive ...
ReadThreshold(t) ==
    /\ call[t].pc = "read"
    /\ IF neutral > 0 THEN Goto(t, "compare") ELSE Built(t, "top")
    /\ UNCHANGED <<Shared, calls, failures, overlap>>

Below(margin, threshold) == margin < threshold

\* ... and is the margin below it.
CompareThreshold(t) ==
    /\ call[t].pc = "compare"
    /\ Built(t, IF Below(call[t].req.margin, neutral) THEN "neutral" ELSE "top")
    /\ UNCHANGED <<Shared, calls, failures, overlap>>

\* Seeded fault: the threshold of the call is left behind.
LeaveOwn(t) == neutral' = neutral

PutBack(t) == neutral' = call[t].saved

RestoreThreshold(t) ==
    /\ call[t].pc = "restore"
    /\ PutBack(t)
    /\ Goto(t, "done")
    /\ UNCHANGED <<wiring, resolved, ensured, loads, lock, calls, failures, overlap>>

\* The result is returned, and stored by the worker.
Return(t) ==
    /\ call[t].pc = "done"
    /\ call' = [call EXCEPT ![t] = Idle]
    /\ UNCHANGED <<Shared, calls, failures, overlap>>

-----------------------------------------------------------------------------

\* What follows in run(): the weights, validation, execution.
Continue(t) ==
    \/ EnsureModel(t) \/ Validate(t)
    \/ FirstLook(t) \/ AcquireLock(t) \/ LoadPipeline(t) \/ Infer(t)
    \/ SaveThreshold(t) \/ OverrideThreshold(t) \/ ReadThreshold(t) \/ CompareThreshold(t)
    \/ RestoreThreshold(t) \/ Return(t)

Next == \E t \in Thread : Begin(t) \/ Continue(t)

Spec == Init /\ [][Next]_vars

\* A running thread is scheduled again, whatever it stands at.
FairSpec == Spec /\ \A t \in Thread : WF_vars(Continue(t))

-----------------------------------------------------------------------------

TypeOK ==
    /\ wiring \in Wirings
    /\ resolved \in BOOLEAN
    /\ ensured \subseteq Service
    /\ loads \in [Service -> Nat]
    /\ lock \in [Service -> Thread \cup {NoThread}]
    /\ neutral \in Thresholds \cup {Default}
    /\ call \in [Thread -> Call]
    /\ calls \in [Thread -> 0..MaxCalls]
    /\ failures \in 0..MaxFailures
    /\ overlap \in BOOLEAN

\* "The model loads exactly once": however many threads meet on a cold service,
\* and however often loading fails before, one pipeline is built at most, and
\* the lock is held only by a thread that is loading.
ModelLoadsOnce ==
    \A s \in Service :
        /\ loads[s] <= 1
        /\ lock[s] # NoThread => call[lock[s]].pc = "load" /\ call[lock[s]].req.task = s

\* What _build_output answers to a call that is alone.
Alone(r) ==
    LET threshold == IF r.own = NoThreshold THEN Default ELSE r.own IN
    IF threshold > 0 /\ r.margin < threshold THEN "neutral" ELSE "top"

\* The shim overrides the threshold of the shared service for the time of one
\* output.  As long as no two calls meet there, every answer of the model is
\* the one the call would get alone, and the service is back at its default
\* between calls.  (Once two calls have met, an answer may be given by another
\* call's threshold, and the service may keep it for good.)
AnswersUndisturbed ==
    ~overlap =>
        /\ Overriding = {} => neutral = Default
        /\ \A t \in Thread :
              wiring = "injected" /\ call[t].pc = "done" /\ call[t].out \in {"neutral", "top"}
                => call[t].out = Alone(call[t].req)

\* Every call returns, also when loading a pipeline fails while others wait for
\* the lock.
CallsReturn == \A t \in Thread : call[t].pc # "idle" ~> call[t].pc = "idle"
=============================================================================
