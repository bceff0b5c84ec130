--------------------------- MODULE AITasksProofs ---------------------------
(***************************************************************************)
(* Theorems about AITasks for every set of threads, every text, threshold  *)
(* and wiring, and every number of calls and of failing pipelines.         *)
(***************************************************************************)
EXTENDS AITasks, TLAPS

(***************************************************************************)
(* The parts of the inductive invariant.                                   *)
(***************************************************************************)

\* What a call is at each place: its request, the threshold its shim has saved,
\* and no answer before there is one.
Shape(c) ==
    /\ c \in Call
    /\ c.saved \in Thresholds \cup {Default}
    /\ c.pc # "idle" => c.req \in Request
    /\ c.pc \in {"save", "override", "restore"} => Shimmed(c.req)
    /\ c.pc \in {"read", "compare"} => c.req.task = "sentiment"
    /\ c.pc \notin {"restore", "done"} => c.out = "none"

Typed ==
    /\ wiring \in Wirings
    /\ resolved \in BOOLEAN
    /\ ensured \subseteq Service
    /\ loads \in [Service -> Nat]
    /\ lock \in [Service -> Thread \cup {NoThread}]
    /\ neutral \in Thresholds \cup {Default}
    /\ call \in [Thread -> Call]
    /\ \A t \in Thread : Shape(call[t])
    /\ calls \in [Thread -> 0..MaxCalls]
    /\ failures \in 0..MaxFailures
    /\ overlap \in BOOLEAN

\* Whoever loads holds the lock of its service, and nobody else does.
Locks ==
    /\ \A s \in Service : loads[s] <= 1
    /\ \A s \in Service :
          lock[s] # NoThread => call[lock[s]].pc = "load" /\ call[lock[s]].req.task = s
    /\ \A t \in Thread : call[t].pc = "load" => lock[call[t].req.task] = t

Within(c) == c.pc \in {"override", "read", "compare", "restore"}

\* As long as no two calls have met: whoever overrides the threshold is alone,
\* has saved the default, and the threshold is its own from the override on.
Threshold ==
    ~overlap =>
        /\ \A t \in Overriding, u \in Overriding \cup Reading : u = t
        /\ Overriding = {} => neutral = Default
        /\ \A t \in Overriding :
              /\ call[t].saved = Default
              /\ neutral = IF call[t].pc = "override" THEN Default ELSE call[t].req.own
        /\ \A t \in Thread : call[t].pc = "compare" => neutral > 0
        /\ \A t \in Thread :
              call[t].pc \in {"restore", "done"} /\ call[t].out \in {"neutral", "top"}
                => call[t].out = Alone(call[t].req)

(***************************************************************************)
(* What becomes of a call.                                                 *)
(***************************************************************************)

Places ==
    {"idle", "ensure", "validate", "pipeline", "lock", "load", "infer"}
    \cup {"save", "override", "read", "compare", "restore", "done"}

\* The call of t moves to pc.
Becomes(t, pc, req, saved, out) ==
    call' = [call EXCEPT ![t] = [pc |-> pc, req |-> req, saved |-> saved, out |-> out]]

\* A thread at rest has a call that is typed and in shape.
LEMMA IdleCall == Idle \in Call /\ Shape(Idle)
BY DEF Idle, Call, Shape, NoRequest, Default, Outcome

\* A field of a call changes, and the others stay.
LEMMA Fields ==
    /\ \A c \in Call, p \in Places :
          LET d == [c EXCEPT !.pc = p] IN
          d \in Call /\ d.pc = p /\ d.req = c.req /\ d.saved = c.saved /\ d.out = c.out
    /\ \A c \in Call, r \in Request :
          LET d == [c EXCEPT !.req = r] IN
          d \in Call /\ d.pc = c.pc /\ d.req = r /\ d.saved = c.saved /\ d.out = c.out
    /\ \A c \in Call, o \in Outcome :
          LET d == [c EXCEPT !.out = o] IN
          d \in Call /\ d.pc = c.pc /\ d.req = c.req /\ d.saved = c.saved /\ d.out = o
<1>1. ASSUME NEW c \in Call, NEW p \in Places
      PROVE  LET d == [c EXCEPT !.pc = p] IN
             d \in Call /\ d.pc = p /\ d.req = c.req /\ d.saved = c.saved /\ d.out = c.out
  BY DEF Call, Places
<1>2. ASSUME NEW c \in Call, NEW r \in Request
      PROVE  LET d == [c EXCEPT !.req = r] IN
             d \in Call /\ d.pc = c.pc /\ d.req = r /\ d.saved = c.saved /\ d.out = c.out
  BY DEF Call
<1>3. ASSUME NEW c \in Call, NEW o \in Outcome
      PROVE  LET d == [c EXCEPT !.out = o] IN
             d \in Call /\ d.pc = c.pc /\ d.req = c.req /\ d.saved = c.saved /\ d.out = o
  BY DEF Call
<1>. QED BY <1>1, <1>2, <1>3

\* A call whose last field changes, as a record.
LEMMA AsRecord ==
    /\ \A c \in Call, p \in Places :
          [c EXCEPT !.pc = p] = [pc |-> p, req |-> c.req, saved |-> c.saved, out |-> c.out]
    /\ \A c \in Call, n \in 0..99 :
          [c EXCEPT !.saved = n] = [pc |-> c.pc, req |-> c.req, saved |-> n, out |-> c.out]
    /\ \A c \in Call, o \in Outcome :
          [c EXCEPT !.out = o] = [pc |-> c.pc, req |-> c.req, saved |-> c.saved, out |-> o]
<1>1. \A c \in Call, p \in Places :
        [c EXCEPT !.pc = p] = [pc |-> p, req |-> c.req, saved |-> c.saved, out |-> c.out]
  BY DEF Call
<1>2. \A c \in Call, n \in 0..99 :
        [c EXCEPT !.saved = n] = [pc |-> c.pc, req |-> c.req, saved |-> n, out |-> c.out]
  BY DEF Call
<1>3. \A c \in Call, o \in Outcome :
        [c EXCEPT !.out = o] = [pc |-> c.pc, req |-> c.req, saved |-> c.saved, out |-> o]
  BY DEF Call
<1>. QED BY <1>1, <1>2, <1>3

\* A step that only moves the control of a call.
LEMMA GotoBecomes ==
    ASSUME Typed, NEW t \in Thread, NEW pc, Goto(t, pc)
    PROVE  Becomes(t, pc, call[t].req, call[t].saved, call[t].out)
<1>1. \A c \in Call : [c EXCEPT !.pc = pc] = [pc |-> pc, req |-> c.req, saved |-> c.saved, out |-> c.out]
  BY DEF Call
<1>2. call' = [call EXCEPT ![t] = [call[t] EXCEPT !.pc = pc]] /\ call[t] \in Call
  BY DEF Goto, Typed
<1>. QED BY <1>1, <1>2 DEF Becomes

\* A step that ends a call with an outcome.
LEMMA AnswerBecomes ==
    ASSUME Typed, NEW t \in Thread, NEW out \in Outcome, Answer(t, out)
    PROVE  Becomes(t, "done", call[t].req, call[t].saved, out)
<1>1. ASSUME NEW c \in Call
      PROVE  [c EXCEPT !.pc = "done", !.out = out]
               = [pc |-> "done", req |-> c.req, saved |-> c.saved, out |-> out]
  <2> DEFINE b == [c EXCEPT !.pc = "done"]
  <2>1. b \in Call /\ b.pc = "done" /\ b.req = c.req /\ b.saved = c.saved
    <3>1. "done" \in Places
      BY DEF Places
    <3>. QED BY <3>1, Fields
  <2>2. [c EXCEPT !.pc = "done", !.out = out] = [b EXCEPT !.out = out]
    OBVIOUS
  <2> HIDE DEF b
  <2>3. [b EXCEPT !.out = out] = [pc |-> b.pc, req |-> b.req, saved |-> b.saved, out |-> out]
    BY <2>1, AsRecord
  <2>. QED BY <2>1, <2>2, <2>3
<1>2. call[t] \in Call /\ call \in [Thread -> Call]
  BY DEF Typed
<1> DEFINE d == [call[t] EXCEPT !.pc = "done", !.out = out]
<1>3. call' = [call EXCEPT ![t] = d]
  BY <1>2 DEF Answer
<1>4. d = [pc |-> "done", req |-> call[t].req, saved |-> call[t].saved, out |-> out]
  BY <1>1, <1>2
<1>. QED BY <1>3, <1>4 DEF Becomes

\* The other calls stay; every call has its shape if this one has.
LEMMA OneCall ==
    ASSUME Typed, NEW t \in Thread, NEW pc \in Places, NEW req, NEW saved, NEW out \in Outcome,
           Becomes(t, pc, req, saved, out),
           saved \in Thresholds \cup {Default},
           IF pc = "idle" THEN req \in Request \cup {NoRequest} ELSE req \in Request,
           pc \in {"save", "override", "restore"} => Shimmed(req),
           pc \in {"read", "compare"} => req.task = "sentiment",
           pc \notin {"restore", "done"} => out = "none"
    PROVE  /\ call' \in [Thread -> Call]
           /\ \A u \in Thread : Shape(call'[u])
           /\ call'[t].pc = pc /\ call'[t].req = req /\ call'[t].saved = saved /\ call'[t].out = out
           /\ \A u \in Thread : u # t => call'[u] = call[u]
<1> DEFINE c == [pc |-> pc, req |-> req, saved |-> saved, out |-> out]
<1>1. saved \in 0..99
  BY AITasksAssumption DEF Default
<1>2. c \in Call
  BY <1>1 DEF Call, Places
<1>3. Shape(c)
  BY <1>2 DEF Shape
<1>4. call' = [call EXCEPT ![t] = c] /\ c.pc = pc /\ c.req = req /\ c.saved = saved /\ c.out = out
  BY DEF Becomes
<1> HIDE DEF c
<1>5. call'[t] = c /\ call' \in [Thread -> Call] /\ \A u \in Thread : u # t => call'[u] = call[u]
  BY <1>2, <1>4 DEF Typed
<1>6. \A u \in Thread : Shape(call'[u])
  BY <1>3, <1>5 DEF Typed
<1>. QED BY <1>4, <1>5, <1>6

\* A request names its service, and a shimmed one a threshold.
LEMMA Requests ==
    ASSUME NEW r \in Request
    PROVE  /\ r.task \in Service
           /\ Shimmed(r) => r.task = "sentiment" /\ r.own \in Thresholds
           /\ r.task = "sentiment" => r.margin \in Margins /\ r.own \in Thresholds \cup {NoThreshold}
<1>1. CASE r \in [task : {"sentiment"}, margin : Margins, own : Thresholds \cup {NoThreshold}]
  BY <1>1 DEF Service, Shimmed
<1>2. CASE r \in [task : {"summary"}, length : Lengths]
  BY <1>2 DEF Service, Shimmed
<1>. QED BY <1>1, <1>2 DEF Request

\* A call at work has a request.
LEMMA AtWork ==
    ASSUME Typed, NEW t \in Thread, call[t].pc # "idle"
    PROVE  /\ call[t] \in Call /\ call[t].req \in Request /\ call[t].req.task \in Service
           /\ call[t].saved \in Thresholds \cup {Default}
BY Requests DEF Typed, Shape

\* A failing build stays within the bound of failures.
LEMMA FailureCounted ==
    ASSUME Typed, PipelineFails
    PROVE  failures' \in 0..MaxFailures
BY AITasksAssumption DEF Typed, PipelineFails

(***************************************************************************)
(* What each step does to the call that takes it.                          *)
(***************************************************************************)

\* One call has moved, and has its shape.
OthersStay(t) ==
    /\ call' \in [Thread -> Call]
    /\ \A u \in Thread : Shape(call'[u])
    /\ \A u \in Thread : u # t => call'[u] = call[u]

\* A call that only goes on.
LEMMA GoesOn ==
    ASSUME Typed, NEW t \in Thread, NEW pc \in Places \ {"idle"}, Goto(t, pc),
           call[t].pc \notin {"idle", "done"},
           pc \in {"save", "override", "restore"} => Shimmed(call[t].req),
           pc \in {"read", "compare"} => call[t].req.task = "sentiment",
           pc \in {"restore", "done"} \/ call[t].pc # "restore"
    PROVE  /\ OthersStay(t)
           /\ call'[t].pc = pc /\ call'[t].req = call[t].req /\ call'[t].saved = call[t].saved
           /\ call'[t].out = call[t].out
<1>1. Becomes(t, pc, call[t].req, call[t].saved, call[t].out)
  BY GotoBecomes
<1>2. call[t].out \in Outcome /\ (call[t].pc # "restore" => call[t].out = "none")
  BY AtWork DEF Typed, Shape, Call
<1>. QED BY <1>1, <1>2, AtWork, OneCall DEF OthersStay

\* A call that is answered.
LEMMA IsAnswered ==
    ASSUME Typed, NEW t \in Thread, NEW out \in Outcome, Answer(t, out), call[t].pc # "idle"
    PROVE  /\ OthersStay(t)
           /\ call'[t].pc = "done" /\ call'[t].req = call[t].req /\ call'[t].out = out
<1>1. Becomes(t, "done", call[t].req, call[t].saved, out)
  BY AnswerBecomes
<1>2. "done" \in Places
  BY DEF Places
<1>. QED BY <1>1, <1>2, AtWork, OneCall DEF OthersStay

\* A call before its pipeline: no lock, no threshold, no answer of the model.
Quiet(t) ==
    /\ OthersStay(t)
    /\ call[t].pc \notin {"load", "override", "read", "compare", "restore"}
    /\ call'[t].pc \notin {"load", "override", "read", "compare", "restore"}
    /\ call'[t].out \notin {"neutral", "top"}
    /\ UNCHANGED <<loads, lock, neutral, overlap>>

\* The start of a call touches neither locks nor thresholds.
LEMMA BeginStep ==
    ASSUME Typed, NEW t \in Thread, Begin(t)
    PROVE  Quiet(t)
<1>1. PICK r \in Request, pc \in {"ensure", "validate"} :
         call' = [call EXCEPT ![t].req = r, ![t].pc = pc]
  BY DEF Begin
<1>2. call[t] \in Call /\ call[t].pc = "idle" /\ call[t].out = "none"
      /\ call[t].saved \in Thresholds \cup {Default}
  BY DEF Begin, Typed, Shape
<1>3. Becomes(t, pc, r, call[t].saved, "none")
  <2> DEFINE d == [call[t] EXCEPT !.req = r, !.pc = pc]
  <2>1. call' = [call EXCEPT ![t] = d]
    BY <1>1, <1>2 DEF Typed
  <2>2. d = [pc |-> pc, req |-> r, saved |-> call[t].saved, out |-> "none"]
    <3> DEFINE b == [call[t] EXCEPT !.req = r]
    <3>1. b \in Call /\ b.req = r /\ b.saved = call[t].saved /\ b.out = "none" /\ pc \in Places
      BY <1>2, Fields DEF Places
    <3>2. d = [b EXCEPT !.pc = pc]
      OBVIOUS
    <3> HIDE DEF b, d
    <3>3. [b EXCEPT !.pc = pc] = [pc |-> pc, req |-> b.req, saved |-> b.saved, out |-> b.out]
      BY <3>1, AsRecord
    <3>. QED BY <3>1, <3>2, <3>3
  <2>. QED BY <2>1, <2>2 DEF Becomes
<1>4. pc \in Places /\ "none" \in Outcome
  BY DEF Places, Outcome
<1>5. /\ OthersStay(t) /\ call'[t].pc = pc /\ call'[t].out = "none"
  BY <1>2, <1>3, <1>4, OneCall DEF OthersStay
<1>. QED BY <1>2, <1>5 DEF Begin, Quiet, Shared

\* Nor does ensure_model.
LEMMA EnsureStep ==
    ASSUME Typed, NEW t \in Thread, EnsureModel(t)
    PROVE  Quiet(t)
<1>1. call[t].pc = "ensure" /\ UNCHANGED <<loads, lock, neutral, overlap>>
  BY DEF EnsureModel
<1>2. "validate" \in Places \ {"idle"} /\ "failed" \in Outcome
  BY DEF Places, Outcome
<1>3. call[t].out = "none"
  BY <1>1 DEF Typed, Shape
<1>4. CASE Goto(t, "validate")
  BY <1>1, <1>2, <1>3, <1>4, GoesOn DEF Quiet
<1>5. CASE Answer(t, "failed")
  BY <1>1, <1>2, <1>5, IsAnswered DEF Quiet
<1>. QED BY <1>4, <1>5 DEF EnsureModel

\* Nor does the validation, which may resolve the services.
LEMMA ValidateStep ==
    ASSUME Typed, NEW t \in Thread, Validate(t)
    PROVE  Quiet(t) /\ resolved' \in BOOLEAN
<1>1. call[t].pc = "validate" /\ UNCHANGED <<loads, lock, neutral, overlap>>
  BY DEF Validate
<1>2. "pipeline" \in Places \ {"idle"} /\ {"refused", "failed", "lexicon"} \subseteq Outcome
  BY DEF Places, Outcome
<1>3. call[t].out = "none"
  BY <1>1 DEF Typed, Shape
<1>4. ASSUME Goto(t, "pipeline") PROVE Quiet(t)
  <2>1. OthersStay(t) /\ call'[t].pc = "pipeline" /\ call'[t].out = "none"
    BY <1>1, <1>2, <1>3, <1>4, GoesOn
  <2>. QED BY <1>1, <2>1 DEF Quiet
<1>5. ASSUME NEW out \in {"refused", "failed", "lexicon"}, Answer(t, out)
      PROVE  Quiet(t)
  BY <1>1, <1>2, <1>5, IsAnswered DEF Quiet
<1>6. Goto(t, "pipeline") \/ \E out \in {"refused", "failed", "lexicon"} : Answer(t, out)
  BY DEF Validate, ByLexicon
<1>7. resolved' \in BOOLEAN
  <2>1. UNCHANGED resolved \/ Resolve(call[t].req)
    BY DEF Validate
  <2>2. (resolved \/ call[t].req.task = "summary") \in BOOLEAN
    OBVIOUS
  <2>. QED BY <2>1, <2>2 DEF Resolve, Typed
<1>. QED BY <1>4, <1>5, <1>6, <1>7

\* Nor does the look outside the lock.
LEMMA FirstLookStep ==
    ASSUME Typed, NEW t \in Thread, FirstLook(t)
    PROVE  Quiet(t)
<1>1. call[t].pc = "pipeline" /\ UNCHANGED <<loads, lock, neutral, overlap>>
  BY DEF FirstLook, Shared
<1>2. PICK pc \in {"infer", "lock"} : Goto(t, pc)
  BY DEF FirstLook
<1>3. pc \in Places \ {"idle"}
  BY DEF Places
<1>4. call[t].out = "none"
  BY <1>1 DEF Typed, Shape
<1>. QED BY <1>1, <1>2, <1>3, <1>4, GoesOn DEF Quiet

\* Taking the lock of a service leads to the loading step.
LEMMA AcquireStep ==
    ASSUME Typed, NEW t \in Thread, AcquireLock(t)
    PROVE  /\ OthersStay(t) /\ call[t].pc = "lock" /\ call'[t].pc = "load"
           /\ call'[t].req = call[t].req /\ call'[t].out = "none"
           /\ UNCHANGED <<loads, neutral, overlap>>
<1>1. call[t].pc = "lock" /\ Goto(t, "load") /\ UNCHANGED <<loads, neutral, overlap>>
  BY DEF AcquireLock
<1>2. "load" \in Places \ {"idle"}
  BY DEF Places
<1>3. call[t].out = "none"
  BY <1>1 DEF Typed, Shape
<1>. QED BY <1>1, <1>2, <1>3, GoesOn

\* The loading step leaves the threshold alone, and forms no sentiment.
LEMMA LoadStep ==
    ASSUME Typed, NEW t \in Thread, LoadPipeline(t)
    PROVE  /\ OthersStay(t) /\ call[t].pc = "load" /\ call'[t].pc \in {"infer", "done"}
           /\ call'[t].out \notin {"neutral", "top"}
           /\ UNCHANGED <<neutral, overlap>>
           /\ failures' \in 0..MaxFailures
<1>1. call[t].pc = "load" /\ UNCHANGED <<neutral, overlap>>
  BY DEF LoadPipeline
<1>2. "infer" \in Places \ {"idle"} /\ {"failed", "extract"} \subseteq Outcome
  BY DEF Places, Outcome
<1>3. call[t].out = "none"
  BY <1>1 DEF Typed, Shape
<1>4. CASE Goto(t, "infer") /\ UNCHANGED failures
  <2>1. failures' \in 0..MaxFailures
    BY <1>4 DEF Typed
  <2>. QED BY <1>1, <1>2, <1>3, <1>4, <2>1, GoesOn
<1>5. ASSUME NEW out \in {"failed", "extract"}, Answer(t, out), PipelineFails
      PROVE  /\ OthersStay(t) /\ call'[t].pc = "done" /\ call'[t].out \notin {"neutral", "top"}
             /\ failures' \in 0..MaxFailures
  BY <1>1, <1>2, <1>5, IsAnswered, FailureCounted
<1>6. \/ Goto(t, "infer") /\ UNCHANGED failures
      \/ \E out \in {"failed", "extract"} : Answer(t, out) /\ PipelineFails
  BY DEF LoadPipeline, BuildFails, Extract
<1>. QED BY <1>1, <1>4, <1>5, <1>6

\* A pipeline classifies or summarizes, or raises.
LEMMA InferStep ==
    ASSUME Typed, NEW t \in Thread, Infer(t)
    PROVE  /\ OthersStay(t) /\ call[t].pc = "infer" /\ UNCHANGED <<loads, lock, neutral>>
           /\ call'[t].out \notin {"neutral", "top"} /\ call'[t].req = call[t].req
           /\ \/ call'[t].pc \in {"save", "read"} /\ Analyze(t)
              \/ call'[t].pc = "done" /\ UNCHANGED overlap
<1>1. call[t].pc = "infer" /\ UNCHANGED <<loads, lock, neutral>>
  BY DEF Infer, Shared
<1>2. {"save", "read"} \subseteq Places \ {"idle"} /\ {"summary", "failed"} \subseteq Outcome
  BY DEF Places, Outcome
<1>3. call[t].out = "none"
  BY <1>1 DEF Typed, Shape
<1>4. ASSUME Analyze(t)
      PROVE  /\ OthersStay(t) /\ call'[t].out = "none" /\ call'[t].req = call[t].req
             /\ call'[t].pc \in {"save", "read"}
  <2>1. PICK pc \in {"save", "read"} :
          Goto(t, pc) /\ (pc = "save" => Shimmed(call[t].req)) /\ call[t].req.task = "sentiment"
    BY <1>4 DEF Analyze
  <2>. QED BY <1>1, <1>2, <1>3, <2>1, GoesOn
<1>5. ASSUME NEW out \in {"summary", "failed"}, Answer(t, out)
      PROVE  /\ OthersStay(t) /\ call'[t].pc = "done" /\ call'[t].out = out
             /\ call'[t].req = call[t].req
  BY <1>1, <1>2, <1>5, IsAnswered
<1>6. Analyze(t) \/ \E out \in {"summary", "failed"} : Answer(t, out) /\ UNCHANGED overlap
  BY DEF Infer, Summarize
<1>. QED BY <1>1, <1>4, <1>5, <1>6

\* The shim saves the threshold it finds.
LEMMA SaveStep ==
    ASSUME Typed, NEW t \in Thread, SaveThreshold(t)
    PROVE  /\ OthersStay(t) /\ call[t].pc = "save" /\ Shimmed(call[t].req)
           /\ call'[t].pc = "override" /\ call'[t].req = call[t].req /\ call'[t].saved = neutral
           /\ call'[t].out = "none" /\ UNCHANGED <<loads, lock, neutral>>
<1>1. call[t].pc = "save" /\ UNCHANGED <<loads, lock, neutral>>
  BY DEF SaveThreshold, Shared
<1>2. call[t] \in Call /\ call[t].out = "none" /\ Shimmed(call[t].req) /\ call[t].req \in Request
  BY <1>1 DEF Typed, Shape
<1>3. Becomes(t, "override", call[t].req, neutral, "none")
  <2> DEFINE d == [call[t] EXCEPT !.pc = "override", !.saved = neutral]
  <2>1. call' = [call EXCEPT ![t] = d]
    BY <1>2 DEF Typed, SaveThreshold
  <2>2. d = [pc |-> "override", req |-> call[t].req, saved |-> neutral, out |-> "none"]
    <3>1. neutral \in 0..99
      BY AITasksAssumption DEF Typed, Default
    <3>2. ASSUME NEW c \in Call, NEW n \in 0..99
          PROVE  [c EXCEPT !.pc = "override", !.saved = n]
                   = [pc |-> "override", req |-> c.req, saved |-> n, out |-> c.out]
      <4> DEFINE b == [c EXCEPT !.pc = "override"]
      <4>1. b \in Call /\ b.pc = "override" /\ b.req = c.req /\ b.out = c.out
        <5>1. "override" \in Places
          BY DEF Places
        <5>. QED BY <5>1, Fields
      <4>2. [c EXCEPT !.pc = "override", !.saved = n] = [b EXCEPT !.saved = n]
        OBVIOUS
      <4> HIDE DEF b
      <4>3. [b EXCEPT !.saved = n] = [pc |-> b.pc, req |-> b.req, saved |-> n, out |-> b.out]
        BY <4>1, AsRecord
      <4>. QED BY <4>1, <4>2, <4>3
    <3>. QED BY <1>2, <3>1, <3>2
  <2>. QED BY <2>1, <2>2 DEF Becomes
<1>4. "override" \in Places /\ "none" \in Outcome /\ neutral \in Thresholds \cup {Default}
  BY DEF Places, Outcome, Typed
<1>. QED BY <1>1, <1>2, <1>3, <1>4, OneCall DEF OthersStay

\* The shim puts the threshold of the call in the place of the shared one.
LEMMA OverrideStep ==
    ASSUME Typed, NEW t \in Thread, OverrideThreshold(t)
    PROVE  /\ OthersStay(t) /\ call[t].pc = "override" /\ Shimmed(call[t].req)
           /\ call'[t].pc = "read" /\ call'[t].req = call[t].req
           /\ call'[t].saved = call[t].saved
           /\ call'[t].out = "none" /\ neutral' = call[t].req.own /\ neutral' \in Thresholds
           /\ UNCHANGED <<loads, lock, overlap>>
<1>1. call[t].pc = "override" /\ Goto(t, "read") /\ UNCHANGED <<loads, lock, overlap>>
      /\ neutral' = call[t].req.own
  BY DEF OverrideThreshold
<1>2. call[t].out = "none" /\ Shimmed(call[t].req)
  BY <1>1 DEF Typed, Shape
<1>3. call[t].req.task = "sentiment" /\ call[t].req.own \in Thresholds
  BY <1>1, <1>2, AtWork, Requests
<1>4. "read" \in Places \ {"idle"}
  BY DEF Places
<1>. QED BY <1>1, <1>2, <1>3, <1>4, GoesOn

\* The output is built with the threshold that is read.
LEMMA BuiltStep ==
    ASSUME Typed, NEW t \in Thread, NEW out \in {"neutral", "top"}, Built(t, out),
           call[t].pc \in {"read", "compare"}
    PROVE  /\ OthersStay(t) /\ call'[t].req = call[t].req /\ call'[t].saved = call[t].saved
           /\ call'[t].out = out
           /\ call'[t].pc = IF Shimmed(call[t].req) THEN "restore" ELSE "done"
<1> DEFINE pc == IF Shimmed(call[t].req) THEN "restore" ELSE "done"
<1>1. call[t] \in Call /\ out \in Outcome /\ pc \in Places
  BY DEF Typed, Outcome, Places
<1>2. Becomes(t, pc, call[t].req, call[t].saved, out)
  <2> DEFINE d == [call[t] EXCEPT !.out = out, !.pc = pc]
  <2>1. call' = [call EXCEPT ![t] = d]
    BY <1>1 DEF Typed, Built
  <2>2. d = [pc |-> pc, req |-> call[t].req, saved |-> call[t].saved, out |-> out]
    <3>1. ASSUME NEW c \in Call, NEW o \in Outcome, NEW p \in Places
          PROVE  [c EXCEPT !.out = o, !.pc = p] = [pc |-> p, req |-> c.req, saved |-> c.saved, out |-> o]
      <4> DEFINE b == [c EXCEPT !.out = o]
      <4>1. b \in Call /\ b.req = c.req /\ b.saved = c.saved /\ b.out = o
        BY Fields
      <4>2. [c EXCEPT !.out = o, !.pc = p] = [b EXCEPT !.pc = p]
        OBVIOUS
      <4> HIDE DEF b
      <4>3. [b EXCEPT !.pc = p] = [pc |-> p, req |-> b.req, saved |-> b.saved, out |-> b.out]
        BY <4>1, AsRecord
      <4>. QED BY <4>1, <4>2, <4>3
    <3> HIDE DEF pc
    <3>. QED BY <1>1, <3>1
  <2>. QED BY <2>1, <2>2 DEF Becomes
<1>3. pc \in {"restore", "done"} /\ (pc = "restore" => Shimmed(call[t].req))
  OBVIOUS
<1>4. pc # "idle"
  BY <1>3
<1> HIDE DEF pc
<1>5. OthersStay(t) /\ call'[t].req = call[t].req /\ call'[t].saved = call[t].saved
      /\ call'[t].out = out /\ call'[t].pc = pc
  BY <1>1, <1>2, <1>3, <1>4, AtWork, OneCall DEF OthersStay
<1>. QED BY <1>5 DEF pc

\* The first read of the threshold: without one the top label is the answer.
LEMMA ReadStep ==
    ASSUME Typed, NEW t \in Thread, ReadThreshold(t)
    PROVE  /\ OthersStay(t) /\ call[t].pc = "read" /\ call[t].req.task = "sentiment"
           /\ call'[t].req = call[t].req /\ call'[t].saved = call[t].saved
           /\ UNCHANGED <<loads, lock, neutral, overlap>>
           /\ IF neutral > 0 THEN call'[t].pc = "compare" /\ call'[t].out = "none"
              ELSE /\ call'[t].pc = IF Shimmed(call[t].req) THEN "restore" ELSE "done"
                   /\ call'[t].out = "top"
<1>1. call[t].pc = "read" /\ UNCHANGED <<loads, lock, neutral, overlap>>
  BY DEF ReadThreshold, Shared
<1>2. call[t].out = "none" /\ call[t].req.task = "sentiment"
  BY <1>1 DEF Typed, Shape
<1>3. "compare" \in Places \ {"idle"}
  BY DEF Places
<1>4. CASE neutral > 0
  <2>1. Goto(t, "compare")
    BY <1>4 DEF ReadThreshold
  <2>. QED BY <1>1, <1>2, <1>3, <1>4, <2>1, GoesOn
<1>5. CASE ~(neutral > 0)
  <2>1. Built(t, "top")
    BY <1>5 DEF ReadThreshold
  <2>. QED BY <1>1, <1>2, <1>5, <2>1, BuiltStep
<1>. QED BY <1>4, <1>5

\* The second read of the threshold decides between neutral and the top label.
LEMMA CompareStep ==
    ASSUME Typed, NEW t \in Thread, CompareThreshold(t)
    PROVE  /\ OthersStay(t) /\ call[t].pc = "compare" /\ call[t].req.task = "sentiment"
           /\ call'[t].req = call[t].req /\ call'[t].saved = call[t].saved
           /\ UNCHANGED <<loads, lock, neutral, overlap>>
           /\ call'[t].pc = IF Shimmed(call[t].req) THEN "restore" ELSE "done"
           /\ call'[t].out = IF call[t].req.margin < neutral THEN "neutral" ELSE "top"
<1>1. call[t].pc = "compare" /\ UNCHANGED <<loads, lock, neutral, overlap>>
  BY DEF CompareThreshold, Shared
<1>2. call[t].req.task = "sentiment"
  BY <1>1 DEF Typed, Shape
<1>3. Built(t, IF call[t].req.margin < neutral THEN "neutral" ELSE "top")
  BY DEF CompareThreshold, Below
<1> DEFINE out == IF call[t].req.margin < neutral THEN "neutral" ELSE "top"
<1>4. out \in {"neutral", "top"}
  OBVIOUS
<1> HIDE DEF out
<1>5. Built(t, out)
  BY <1>3 DEF out
<1>6. OthersStay(t) /\ call'[t].req = call[t].req /\ call'[t].saved = call[t].saved
      /\ call'[t].out = out
      /\ call'[t].pc = IF Shimmed(call[t].req) THEN "restore" ELSE "done"
  BY <1>1, <1>4, <1>5, BuiltStep
<1>. QED BY <1>1, <1>2, <1>6 DEF out

\* The shim puts back what it had saved.
LEMMA RestoreStep ==
    ASSUME Typed, NEW t \in Thread, RestoreThreshold(t)
    PROVE  /\ OthersStay(t) /\ call[t].pc = "restore" /\ Shimmed(call[t].req)
           /\ call'[t].pc = "done" /\ call'[t].req = call[t].req /\ call'[t].out = call[t].out
           /\ neutral' = call[t].saved
           /\ UNCHANGED <<loads, lock, overlap>>
<1>1. call[t].pc = "restore" /\ Goto(t, "done") /\ UNCHANGED <<loads, lock, overlap>>
      /\ neutral' = call[t].saved
  BY DEF RestoreThreshold, PutBack
<1>2. Shimmed(call[t].req)
  BY <1>1 DEF Typed, Shape
<1>3. "done" \in Places \ {"idle"}
  BY DEF Places
<1>. QED BY <1>1, <1>2, <1>3, GoesOn

\* A call that is done returns.
LEMMA ReturnStep ==
    ASSUME Typed, NEW t \in Thread, Return(t)
    PROVE  /\ OthersStay(t) /\ call[t].pc = "done" /\ call'[t].pc = "idle"
           /\ call'[t].out = "none" /\ UNCHANGED <<loads, lock, neutral, overlap>>
<1>1. call[t].pc = "done" /\ call' = [call EXCEPT ![t] = Idle]
      /\ UNCHANGED <<loads, lock, neutral, overlap>>
  BY DEF Return, Shared
<1>2. Idle.pc = "idle" /\ Idle.out = "none"
  BY DEF Idle
<1>. QED BY <1>1, <1>2, IdleCall DEF OthersStay, Typed

(***************************************************************************)
(* Type correctness.                                                       *)
(***************************************************************************)

\* The initial state satisfies the three parts.
LEMMA InitTyped == Init => Typed /\ Locks /\ Threshold
<1> SUFFICES ASSUME Init PROVE Typed /\ Locks /\ Threshold
  OBVIOUS
<1>1. \A t \in Thread : call[t] = Idle
  BY DEF Init
<1>2. Idle.pc = "idle"
  BY DEF Idle
<1>3. Typed
  <2>1. call \in [Thread -> Call] /\ \A t \in Thread : Shape(call[t])
    BY IdleCall DEF Init
  <2>2. /\ wiring \in Wirings /\ ensured \subseteq Service
        /\ loads \in [Service -> Nat] /\ lock \in [Service -> Thread \cup {NoThread}]
        /\ neutral \in Thresholds \cup {Default} /\ calls \in [Thread -> 0..MaxCalls]
        /\ failures \in 0..MaxFailures
    BY AITasksAssumption DEF Init
  <2>3. resolved \in BOOLEAN /\ overlap \in BOOLEAN
    BY DEF Init
  <2>. QED BY <2>1, <2>2, <2>3 DEF Typed
<1>4. Locks
  BY <1>1, <1>2 DEF Init, Locks
<1>5. Threshold
  BY <1>1, <1>2 DEF Init, Threshold, Overriding
<1>. QED BY <1>3, <1>4, <1>5

\* Every step moves one call, which has its shape afterwards.
LEMMA CallMoves ==
    ASSUME Typed, NEW t \in Thread, Begin(t) \/ Continue(t)
    PROVE  OthersStay(t)
BY BeginStep, EnsureStep, ValidateStep, FirstLookStep, AcquireStep, LoadStep, InferStep, SaveStep,
   OverrideStep, ReadStep, CompareStep, RestoreStep, ReturnStep DEF Continue, Quiet

\* The history variable of meeting calls keeps its type.
LEMMA OverlapTyped ==
    ASSUME Typed, NEW t \in Thread, Begin(t) \/ Continue(t)
    PROVE  overlap' \in BOOLEAN
<1>1. \/ UNCHANGED overlap
      \/ overlap' = (overlap \/ (Overriding # {} /\ ~Shimmed(call[t].req)))
      \/ overlap' = (overlap \/ Overriding \cup Reading # {})
  BY DEF Begin, Continue, EnsureModel, Validate, FirstLook, AcquireLock, LoadPipeline, Infer,
         Analyze, Summarize, SaveThreshold, OverrideThreshold, ReadThreshold, CompareThreshold,
         RestoreThreshold, Return, Shared
<1>2. /\ (overlap \/ (Overriding # {} /\ ~Shimmed(call[t].req))) \in BOOLEAN
      /\ (overlap \/ Overriding \cup Reading # {}) \in BOOLEAN
  OBVIOUS
<1>. QED BY <1>1, <1>2 DEF Typed

\* The singletons are resolved or not.
LEMMA ResolvedTyped ==
    ASSUME Typed, NEW t \in Thread, Begin(t) \/ Continue(t)
    PROVE  resolved' \in BOOLEAN
<1>1. CASE Validate(t)
  BY <1>1, ValidateStep
<1>2. CASE ~Validate(t)
  <2>1. UNCHANGED resolved
    BY <1>2 DEF Begin, Continue, EnsureModel, FirstLook, AcquireLock, LoadPipeline, Infer,
                SaveThreshold, OverrideThreshold, ReadThreshold, CompareThreshold,
                RestoreThreshold, Return, Shared
  <2>. QED BY <2>1 DEF Typed
<1>. QED BY <1>1, <1>2

\* What the threads share keeps its type.
LEMMA SharedTyped ==
    ASSUME Typed, NEW t \in Thread, Begin(t) \/ Continue(t)
    PROVE  /\ wiring' = wiring
           /\ ensured' \subseteq Service
           /\ loads' \in [Service -> Nat]
           /\ lock' \in [Service -> Thread \cup {NoThread}]
           /\ neutral' \in Thresholds \cup {Default}
           /\ failures' \in 0..MaxFailures
<1>1. wiring' = wiring
  BY DEF Begin, Continue, EnsureModel, Validate, FirstLook, AcquireLock, LoadPipeline, Infer,
         SaveThreshold, OverrideThreshold, ReadThreshold, CompareThreshold,
         RestoreThreshold, Return, Shared
<1>2. ensured' \subseteq Service
  <2>1. CASE EnsureModel(t)
    <3>1. call[t].req.task \in Service
      BY <2>1, AtWork DEF EnsureModel
    <3>. QED BY <2>1, <3>1 DEF EnsureModel, Typed
  <2>2. CASE ~EnsureModel(t)
    BY <2>2 DEF Begin, Continue, Validate, FirstLook, AcquireLock, LoadPipeline, Infer,
                SaveThreshold, OverrideThreshold, ReadThreshold, CompareThreshold,
                RestoreThreshold, Return, Shared, Typed
  <2>. QED BY <2>1, <2>2
<1>3. loads' \in [Service -> Nat]
  <2>1. CASE LoadPipeline(t)
    BY <2>1 DEF LoadPipeline, Typed
  <2>2. CASE ~LoadPipeline(t)
    BY <2>2 DEF Begin, Continue, EnsureModel, Validate, FirstLook, AcquireLock, Infer,
                SaveThreshold, OverrideThreshold, ReadThreshold, CompareThreshold,
                RestoreThreshold, Return, Shared, Typed
  <2>. QED BY <2>1, <2>2
<1>4. lock' \in [Service -> Thread \cup {NoThread}]
  <2>1. CASE LoadPipeline(t) \/ AcquireLock(t)
    BY <2>1 DEF LoadPipeline, ReleaseLock, AcquireLock, Typed
  <2>2. CASE ~LoadPipeline(t) /\ ~AcquireLock(t)
    BY <2>2 DEF Begin, Continue, EnsureModel, Validate, FirstLook, Infer,
                SaveThreshold, OverrideThreshold, ReadThreshold, CompareThreshold,
                RestoreThreshold, Return, Shared, Typed
  <2>. QED BY <2>1, <2>2
<1>5. neutral' \in Thresholds \cup {Default}
  <2>1. CASE OverrideThreshold(t)
    BY <2>1, OverrideStep
  <2>2. CASE RestoreThreshold(t)
    BY <2>2, RestoreStep, AtWork
  <2>3. CASE ~OverrideThreshold(t) /\ ~RestoreThreshold(t)
    BY <2>3 DEF Begin, Continue, EnsureModel, Validate, FirstLook, AcquireLock, LoadPipeline, Infer,
                SaveThreshold, ReadThreshold, CompareThreshold, Return, Shared, Typed
  <2>. QED BY <2>1, <2>2, <2>3
<1>6. failures' \in 0..MaxFailures
  <2>1. UNCHANGED failures \/ PipelineFails
    BY DEF Begin, Continue, EnsureModel, Validate, FirstLook, AcquireLock, LoadPipeline, BuildFails,
           Infer, SaveThreshold, OverrideThreshold, ReadThreshold, CompareThreshold,
           RestoreThreshold, Return, Shared
  <2>. QED BY <2>1, FailureCounted DEF Typed
<1>. QED BY <1>1, <1>2, <1>3, <1>4, <1>5, <1>6

\* The number of calls of a thread stays within its bound.
LEMMA CallsTyped ==
    ASSUME Typed, NEW t \in Thread, Begin(t) \/ Continue(t)
    PROVE  calls' \in [Thread -> 0..MaxCalls]
<1>1. CASE Begin(t)
  <2>1. calls[t] \in 0..MaxCalls /\ calls[t] < MaxCalls
    BY <1>1 DEF Begin, Typed
  <2>2. calls[t] + 1 \in 0..MaxCalls
    BY <2>1, AITasksAssumption
  <2>. QED BY <1>1, <2>2 DEF Begin, Typed
<1>2. CASE Continue(t)
  BY <1>2 DEF Continue, EnsureModel, Validate, FirstLook, AcquireLock, LoadPipeline,
              Infer, SaveThreshold, OverrideThreshold, ReadThreshold, CompareThreshold,
              RestoreThreshold, Return, Typed
<1>. QED BY <1>1, <1>2

\* Every step of a thread keeps the types.
LEMMA TypedStep ==
    ASSUME Typed, NEW t \in Thread, Begin(t) \/ Continue(t)
    PROVE  Typed'
BY CallMoves, OverlapTyped, ResolvedTyped, SharedTyped, CallsTyped DEF Typed, OthersStay

\* The types are an invariant, on which the other parts rest.
LEMMA TypedInvariant == Spec => []Typed
<1>1. Typed /\ [Next]_vars => Typed'
  <2>1. Typed /\ UNCHANGED vars => Typed'
    BY DEF vars, Typed
  <2>. QED BY <2>1, TypedStep DEF Next
<1>. QED BY <1>1, InitTyped, PTL DEF Spec

\* Every variable keeps its type.
THEOREM TasksTypeCorrect == Spec => []TypeOK
<1>1. Typed => TypeOK
  BY DEF Typed, TypeOK
<1>. QED BY <1>1, TypedInvariant, PTL

(***************************************************************************)
(* Double-checked locking.                                                 *)
(***************************************************************************)

\* No lock is taken, given up, or loaded under.
LEMMA LocksStay ==
    ASSUME Typed, Locks, NEW t \in Thread, OthersStay(t), UNCHANGED <<loads, lock>>,
           call[t].pc # "load", call'[t].pc # "load"
    PROVE  Locks'
BY DEF Typed, Locks, OthersStay, Service

\* Every step of a thread keeps the discipline of the locks.
LEMMA LocksStep ==
    ASSUME Typed, Locks, NEW t \in Thread, Begin(t) \/ Continue(t)
    PROVE  Locks'
<1>1. CASE Begin(t) \/ EnsureModel(t) \/ Validate(t) \/ FirstLook(t)
  BY <1>1, BeginStep, EnsureStep, ValidateStep, FirstLookStep, LocksStay DEF Quiet
<1>2. CASE AcquireLock(t)
  <2> DEFINE s == call[t].req.task
  <2>1. /\ OthersStay(t) /\ call[t].pc = "lock" /\ call'[t].pc = "load"
        /\ call'[t].req = call[t].req /\ loads' = loads
    BY <1>2, AcquireStep
  <2>2. s \in Service /\ lock[s] = NoThread /\ lock' = [lock EXCEPT ![s] = t]
    BY <1>2, <2>1, AtWork DEF AcquireLock, Unheld
  <2>3. \A z \in Service : lock'[z] = IF z = s THEN t ELSE lock[z]
    BY <2>2 DEF Typed
  <2>4. t # NoThread /\ \A u \in Thread : u # NoThread
    BY AITasksAssumption
  <2>5. \A z \in Service :
          lock'[z] # NoThread => call'[lock'[z]].pc = "load" /\ call'[lock'[z]].req.task = z
    BY <2>1, <2>3 DEF Locks, Typed, OthersStay
  <2>6. \A u \in Thread : call'[u].pc = "load" => lock'[call'[u].req.task] = u
    <3>1. ASSUME NEW u \in Thread, call'[u].pc = "load", u # t
          PROVE  lock'[call'[u].req.task] = u
      <4>1. call'[u] = call[u] /\ call[u].req.task \in Service
        BY <2>1, <3>1, AtWork DEF OthersStay
      <4>2. lock[call[u].req.task] = u
        BY <3>1, <4>1 DEF Locks
      <4>3. call[u].req.task # s
        BY <2>2, <2>4, <4>2
      <4>. QED BY <2>3, <4>1, <4>2, <4>3
    <3>. QED BY <2>1, <2>2, <2>3, <3>1
  <2>. QED BY <2>1, <2>5, <2>6 DEF Locks
<1>3. CASE LoadPipeline(t)
  <2> DEFINE s == call[t].req.task
  <2>1. OthersStay(t) /\ call[t].pc = "load" /\ call'[t].pc # "load"
    BY <1>3, LoadStep
  <2>2. s \in Service /\ lock[s] = t /\ lock' = [lock EXCEPT ![s] = NoThread]
    BY <1>3, <2>1, AtWork DEF LoadPipeline, ReleaseLock, Locks
  <2>3. \A z \in Service : lock'[z] = IF z = s THEN NoThread ELSE lock[z]
    BY <2>2 DEF Typed
  <2>4. \A z \in Service : loads'[z] <= 1
    <3>1. loads' = loads \/ (loads[s] = 0 /\ loads' = [loads EXCEPT ![s] = @ + 1])
      BY <1>3 DEF LoadPipeline, MustLoad
    <3>. QED BY <2>2, <3>1 DEF Locks, Typed
  <2>5. \A z \in Service :
          lock'[z] # NoThread => call'[lock'[z]].pc = "load" /\ call'[lock'[z]].req.task = z
    BY <2>1, <2>3 DEF Locks, Typed, OthersStay
  <2>6. \A u \in Thread : call'[u].pc = "load" => lock'[call'[u].req.task] = u
    <3>1. ASSUME NEW u \in Thread, call'[u].pc = "load"
          PROVE  lock'[call'[u].req.task] = u
      <4>1. u # t /\ call'[u] = call[u]
        BY <2>1, <3>1 DEF OthersStay
      <4>2. call[u].req.task \in Service /\ lock[call[u].req.task] = u
        BY <3>1, <4>1, AtWork DEF Locks
      <4>3. call[u].req.task # s
        BY <2>2, <4>1, <4>2
      <4>. QED BY <2>3, <4>1, <4>2, <4>3
    <3>. QED BY <3>1
  <2>. QED BY <2>4, <2>5, <2>6 DEF Locks
<1>4. CASE Infer(t) \/ SaveThreshold(t) \/ OverrideThreshold(t)
  BY <1>4, InferStep, SaveStep, OverrideStep, LocksStay
<1>5. CASE ReadThreshold(t) \/ CompareThreshold(t)
  BY <1>5, ReadStep, CompareStep, LocksStay
<1>6. CASE RestoreThreshold(t) \/ Return(t)
  BY <1>6, RestoreStep, ReturnStep, LocksStay
<1>. QED BY <1>1, <1>2, <1>3, <1>4, <1>5, <1>6 DEF Continue

\* One pipeline is built per service at most, under a lock its builder holds.
THEOREM TasksModelLoadsOnce == Spec => []ModelLoadsOnce
<1>1. Typed /\ Locks /\ [Next]_vars => Locks'
  <2>1. ASSUME Locks, UNCHANGED vars PROVE Locks'
    <3>1. loads' = loads /\ lock' = lock /\ call' = call
      BY <2>1 DEF vars
    <3>. QED BY <2>1, <3>1 DEF Locks
  <2>. QED BY <2>1, LocksStep DEF Next
<1>2. Locks => ModelLoadsOnce
  BY DEF Locks, ModelLoadsOnce
<1>. QED BY <1>1, <1>2, InitTyped, TypedInvariant, PTL DEF Spec

(***************************************************************************)
(* The threshold of the shared service.                                    *)
(***************************************************************************)

\* What a call that has been answered by the model says is what it says alone.
Answered(c) ==
    c.pc \in {"restore", "done"} /\ c.out \in {"neutral", "top"} => c.out = Alone(c.req)

\* A call outside the output phase.
LEMMA ThresholdStays ==
    ASSUME Typed, Threshold, NEW t \in Thread, OthersStay(t), UNCHANGED <<neutral, overlap>>,
           ~Within(call[t]), ~Within(call'[t]), Answered(call'[t])
    PROVE  Threshold'
<1> SUFFICES ASSUME ~overlap PROVE Threshold'
  BY DEF Threshold
<1>1. Overriding' = Overriding /\ Reading' = Reading /\ t \notin Overriding
  BY DEF Overriding, Reading, Within, OthersStay
<1>2. \A u \in Overriding : call'[u] = call[u]
  BY <1>1 DEF Overriding, Reading, Within, OthersStay
<1>3. \A u \in Thread : call'[u].pc = "compare" => neutral > 0
  BY DEF Threshold, OthersStay, Within
<1>4. \A u \in Thread : Answered(call'[u])
  BY DEF Threshold, OthersStay, Answered
<1>. QED BY <1>1, <1>2, <1>3, <1>4 DEF Threshold, Answered

\* Nobody overrides while a call without a threshold of its own reads.
LEMMA PlainReads ==
    ASSUME Typed, Threshold, ~overlap, NEW t \in Reading, ~Shimmed(call[t].req)
    PROVE  Overriding = {} /\ neutral = Default
<1>1. t \notin Overriding
  BY DEF Overriding
<1>. QED BY <1>1 DEF Threshold

\* A call that enters the output phase keeps the threshold invariant: it
\* is alone there, or the calls have met.
LEMMA InferThreshold ==
    ASSUME Typed, Threshold, NEW t \in Thread, Infer(t)
    PROVE  Threshold'
<1>1. /\ OthersStay(t) /\ call[t].pc = "infer" /\ neutral' = neutral
      /\ call'[t].out \notin {"neutral", "top"} /\ call'[t].req = call[t].req
      /\ \/ call'[t].pc \in {"save", "read"} /\ Analyze(t)
         \/ call'[t].pc = "done" /\ UNCHANGED overlap
  BY InferStep
<1>2. Answered(call'[t]) /\ ~Within(call[t])
  BY <1>1 DEF Answered, Within
<1>3. CASE UNCHANGED overlap /\ ~Within(call'[t])
  BY <1>1, <1>2, <1>3, ThresholdStays
<1>4. CASE Analyze(t) /\ ~UNCHANGED overlap
  <2>1. overlap'
    BY <1>4 DEF Analyze, Typed
  <2>. QED BY <2>1 DEF Threshold
<1>5. CASE Analyze(t) /\ UNCHANGED overlap /\ call'[t].pc = "read"
  <2> SUFFICES ASSUME ~overlap PROVE Threshold'
    BY <1>5 DEF Threshold
  <2>1. ~Shimmed(call[t].req) /\ Overriding = {}
    <3>1. ~Shimmed(call[t].req)
      <4>1. call[t].pc = "infer" /\ call \in [Thread -> Call]
        BY <1>1 DEF Typed
      <4>2. CASE Shimmed(call[t].req)
        <5>1. Goto(t, "save")
          BY <1>5, <4>2 DEF Analyze
        <5>2. call'[t].pc = "save"
          BY <4>1, <5>1, GotoBecomes DEF Becomes
        <5>. QED BY <1>5, <5>2
      <4>. QED BY <4>2
    <3>2. /\ overlap' = (overlap \/ (Overriding # {} /\ ~Shimmed(call[t].req)))
          /\ overlap' = overlap /\ ~overlap
      BY <1>5 DEF Analyze
    <3>3. ~(Overriding # {} /\ ~Shimmed(call[t].req))
      <4> DEFINE met == Overriding # {} /\ ~Shimmed(call[t].req)
      <4>1. overlap = (overlap \/ met) /\ ~overlap
        BY <3>2
      <4> HIDE DEF met
      <4>2. ASSUME met PROVE FALSE
        <5>1. (overlap \/ met) = TRUE
          BY <4>2
        <5>. QED BY <4>1, <5>1
      <4>. QED BY <4>2 DEF met
    <3>. QED BY <3>1, <3>3
  <2>2. neutral = Default
    BY <2>1 DEF Threshold
  <2>3. Overriding' = {}
    BY <1>1, <2>1 DEF Overriding, Reading, Within, OthersStay
  <2>4. \A u \in Thread : call'[u].pc = "compare" => neutral > 0
    BY <1>1, <1>5 DEF Threshold, OthersStay
  <2>5. \A u \in Thread : Answered(call'[u])
    BY <1>1, <1>2 DEF Threshold, OthersStay, Answered
  <2>. QED BY <1>1, <2>2, <2>3, <2>4, <2>5 DEF Threshold, Answered
<1>6. call'[t].pc = "save" => ~Within(call'[t])
  BY DEF Within
<1>7. call'[t].pc = "done" => ~Within(call'[t])
  BY DEF Within
<1>. QED BY <1>1, <1>3, <1>4, <1>5, <1>6, <1>7

\* Saving and overriding keep the threshold invariant.
LEMMA SaveOverride ==
    ASSUME Typed, Threshold, NEW t \in Thread, SaveThreshold(t) \/ OverrideThreshold(t)
    PROVE  Threshold'
<1>1. CASE SaveThreshold(t)
  <2>1. /\ OthersStay(t) /\ call[t].pc = "save" /\ Shimmed(call[t].req)
        /\ call'[t].pc = "override" /\ call'[t].req = call[t].req /\ call'[t].saved = neutral
        /\ call'[t].out = "none" /\ neutral' = neutral
    BY <1>1, SaveStep
  <2> SUFFICES ASSUME ~overlap' PROVE Threshold'
    BY DEF Threshold
  <2>2. ~overlap /\ Overriding = {} /\ Reading = {}
    BY <1>1 DEF SaveThreshold, Typed
  <2>3. neutral = Default
    BY <2>2 DEF Threshold
  <2>4. Overriding' = {t} /\ Reading' = {}
    BY <2>1, <2>2 DEF Overriding, Reading, Within, OthersStay
  <2>5. \A u \in Thread : call'[u].pc = "compare" => neutral > 0
    BY <2>1, <2>2 DEF Threshold, OthersStay
  <2>6. \A u \in Thread : Answered(call'[u])
    BY <2>1, <2>2 DEF Threshold, OthersStay, Answered
  <2>. QED BY <2>1, <2>3, <2>4, <2>5, <2>6 DEF Threshold, Answered
<1>2. CASE OverrideThreshold(t)
  <2>1. /\ OthersStay(t) /\ call[t].pc = "override" /\ Shimmed(call[t].req)
        /\ call'[t].pc = "read" /\ call'[t].req = call[t].req
        /\ call'[t].saved = call[t].saved /\ call'[t].out = "none"
        /\ neutral' = call[t].req.own /\ overlap' = overlap
    BY <1>2, OverrideStep
  <2> SUFFICES ASSUME ~overlap PROVE Threshold'
    BY <2>1 DEF Threshold
  <2>2. t \in Overriding
    BY <2>1 DEF Overriding, Reading, Within, OthersStay
  <2>3. call[t].saved = Default /\ \A u \in Overriding \cup Reading : u = t
    BY <2>2 DEF Threshold
  <2>4. Overriding' = {t} /\ Reading' = {t}
    BY <2>1, <2>3 DEF Overriding, Reading, Within, OthersStay
  <2>5. \A u \in Thread : call'[u].pc # "compare"
    <3>1. ASSUME NEW u \in Thread, call'[u].pc = "compare" PROVE FALSE
      <4>1. u # t /\ call[u].pc = "compare"
        BY <2>1, <3>1 DEF OthersStay
      <4>. QED BY <2>3, <4>1 DEF Reading
    <3>. QED BY <3>1
  <2>6. \A u \in Thread : Answered(call'[u])
    BY <2>1 DEF Threshold, OthersStay, Answered
  <2>. QED BY <2>1, <2>3, <2>4, <2>5, <2>6 DEF Threshold, Answered
<1>. QED BY <1>1, <1>2

\* What is built while no two calls meet is what is built alone.
LEMMA ReadCompare ==
    ASSUME Typed, Threshold, NEW t \in Thread, ReadThreshold(t) \/ CompareThreshold(t)
    PROVE  Threshold'
<1> DEFINE r == call[t].req
<1>1. /\ OthersStay(t) /\ call[t].pc \in {"read", "compare"} /\ r.task = "sentiment"
      /\ call'[t].req = r /\ call'[t].saved = call[t].saved
      /\ neutral' = neutral /\ overlap' = overlap
      /\ \/ neutral > 0 /\ call'[t].pc = "compare" /\ call'[t].out = "none"
         \/ /\ call'[t].pc = IF Shimmed(r) THEN "restore" ELSE "done"
            /\ \/ ~(neutral > 0) /\ call'[t].out = "top"
               \/ /\ call[t].pc = "compare"
                  /\ call'[t].out = IF r.margin < neutral THEN "neutral" ELSE "top"
  BY ReadStep, CompareStep
<1> SUFFICES ASSUME ~overlap PROVE Threshold'
  BY <1>1 DEF Threshold
<1>2. r \in Request /\ r.own \in Thresholds \cup {NoThreshold} /\ t \in Reading
  BY <1>1, AtWork, Requests DEF Overriding, Reading, Within, OthersStay
<1>3. neutral = IF r.own = NoThreshold THEN Default ELSE r.own
  <2>1. CASE Shimmed(r)
    <3>1. t \in Overriding
      BY <1>1, <2>1 DEF Overriding, Reading, Within, OthersStay
    <3>. QED BY <1>1, <2>1, <3>1 DEF Threshold, Shimmed
  <2>2. CASE ~Shimmed(r)
    <3>1. neutral = Default
      BY <1>2, <2>2, PlainReads
    <3>. QED BY <1>1, <2>2, <3>1 DEF Shimmed
  <2>. QED BY <2>1, <2>2
<1>4. call[t].pc = "compare" => neutral > 0
  BY DEF Threshold
<1>5. Answered(call'[t])
  BY <1>1, <1>3, <1>4 DEF Answered, Alone
<1>6. \A u \in Thread : Answered(call'[u])
  BY <1>1, <1>5 DEF Threshold, OthersStay, Answered
<1>7. \A u \in Thread : call'[u].pc = "compare" => neutral > 0
  BY <1>1 DEF Threshold, OthersStay
<1>8. Overriding' = Overriding
  BY <1>1 DEF Overriding, Reading, Within, OthersStay
<1>9. Reading' \subseteq Reading
  BY <1>1, <1>2 DEF Overriding, Reading, Within, OthersStay
<1>10. \A u \in Overriding :
         /\ call'[u].saved = call[u].saved /\ call'[u].req = call[u].req
         /\ call[u].pc # "override" => call'[u].pc # "override"
         /\ call[u].pc = "override" => call'[u].pc = "override"
  BY <1>1 DEF Overriding, Reading, Within, OthersStay
<1>11. \A u \in Overriding' :
         /\ call'[u].saved = Default
         /\ neutral = IF call'[u].pc = "override" THEN Default ELSE call'[u].req.own
  BY <1>8, <1>10 DEF Threshold
<1>. QED BY <1>1, <1>6, <1>7, <1>8, <1>9, <1>11 DEF Threshold, Answered

\* Restoring keeps the threshold invariant: the default was saved.
LEMMA RestoreThresholdOK ==
    ASSUME Typed, Threshold, NEW t \in Thread, RestoreThreshold(t)
    PROVE  Threshold'
<1>1. /\ OthersStay(t) /\ call[t].pc = "restore" /\ Shimmed(call[t].req)
      /\ call'[t].pc = "done" /\ call'[t].req = call[t].req /\ call'[t].out = call[t].out
      /\ neutral' = call[t].saved /\ overlap' = overlap
  BY RestoreStep
<1> SUFFICES ASSUME ~overlap PROVE Threshold'
  BY <1>1 DEF Threshold
<1>2. t \in Overriding
  BY <1>1 DEF Overriding, Reading, Within, OthersStay
<1>3. call[t].saved = Default /\ \A u \in Overriding \cup Reading : u = t
  BY <1>2 DEF Threshold
<1>4. Overriding' = {}
  BY <1>1, <1>3 DEF Overriding, Reading, Within, OthersStay
<1>5. \A u \in Thread : call'[u].pc # "compare"
  <2>1. ASSUME NEW u \in Thread, call'[u].pc = "compare" PROVE FALSE
    <3>1. u # t /\ call[u].pc = "compare"
      BY <1>1, <2>1 DEF OthersStay
    <3>. QED BY <1>3, <3>1 DEF Reading
  <2>. QED BY <2>1
<1>6. \A u \in Thread : Answered(call'[u])
  BY <1>1 DEF Threshold, OthersStay, Answered
<1>. QED BY <1>1, <1>3, <1>4, <1>5, <1>6 DEF Threshold, Answered

\* Every step of a thread keeps the threshold invariant.
LEMMA ThresholdStep ==
    ASSUME Typed, Threshold, NEW t \in Thread, Begin(t) \/ Continue(t)
    PROVE  Threshold'
<1>1. ASSUME Quiet(t) PROVE Threshold'
  BY <1>1, ThresholdStays DEF Quiet, Within, Answered
<1>2. CASE Begin(t) \/ EnsureModel(t) \/ Validate(t) \/ FirstLook(t)
  BY <1>1, <1>2, BeginStep, EnsureStep, ValidateStep, FirstLookStep
<1>3. CASE AcquireLock(t)
  BY <1>3, AcquireStep, ThresholdStays DEF Within, Answered
<1>4. CASE LoadPipeline(t)
  BY <1>4, LoadStep, ThresholdStays DEF Within, Answered
<1>5. CASE Return(t)
  BY <1>5, ReturnStep, ThresholdStays DEF Within, Answered
<1>. QED BY <1>2, <1>3, <1>4, <1>5, InferThreshold, SaveOverride, ReadCompare, RestoreThresholdOK
     DEF Continue

\* As long as no two calls meet in the output phase, every answer is the one
\* the call would get alone, and the service is at its default between them.
THEOREM TasksAnswersUndisturbed == Spec => []AnswersUndisturbed
<1>1. Typed /\ Threshold /\ [Next]_vars => Threshold'
  <2>1. ASSUME Threshold, UNCHANGED vars PROVE Threshold'
    <3>1. neutral' = neutral /\ call' = call /\ overlap' = overlap
      BY <2>1 DEF vars
    <3>. QED BY <2>1, <3>1 DEF Threshold, Overriding, Reading
  <2>. QED BY <2>1, ThresholdStep DEF Next
<1>2. Threshold => AnswersUndisturbed
  BY DEF Threshold, AnswersUndisturbed
<1>. QED BY <1>1, <1>2, InitTyped, TypedInvariant, PTL DEF Spec
=============================================================================
