-------------------------- MODULE ApiServiceProofs --------------------------
(***************************************************************************)
(* Theorems about ApiService for every set of jobs, threads, users and     *)
(* admins, and every bound on retries and failing commands.                *)
(***************************************************************************)
EXTENDS ApiService, TLAPS

(***************************************************************************)
(* The inductive invariant: what a request may know and do at each of its  *)
(* steps, given who created which job.                                     *)
(***************************************************************************)

Owners == [Job -> Caller \cup {"nobody"}]

Allowed(r, j, own) == r.caller \in Admin \/ r.caller = own[j]

\* The jobs an answer shows, or changed.
Touched(r) == r.seen \cup (IF r.wrote THEN {r.job} ELSE {})

Sound(r, own) ==
    /\ r.pc # "answered" => ~r.wrote /\ r.seen = {} /\ r.answer = "none"
    /\ r.pc \in {"find", "refetch", "save", "delete"} \/ r.wrote => r.job \in Job
    /\ r.pc \in {"refetch", "save", "delete"} => Allowed(r, r.job, own)
    /\ r.pc = "save" => r.doc.owner = own[r.job] /\ own[r.job] # "nobody"
    /\ r.pc \in {"count", "page"} =>
          r.kind = "list" /\ (r.caller \in Admin \/ r.whose = r.caller)
    /\ r.pc = "submit" => r.kind = "process"
    /\ \A j \in Touched(r) : Allowed(r, j, own)
    /\ r.answer = "ok" /\ r.kind \in Writes => r.wrote
    /\ r.answer \in {"unauthorized", "invalid", "forbidden", "missing"} => ~r.wrote

\* Nothing is stored that nobody created.
Owned(d, own) ==
    \A j \in Job : d[j].status # "none" => d[j].owner = own[j] /\ own[j] # "nobody"

IInv ==
    /\ TypeOK
    /\ Owned(docs, owner)
    /\ \A t \in Thread : Sound(thread[t], owner)

\* What a step does to the owners: nothing, or a job nobody created gets one.
Gains(own, new) ==
    \/ new = own
    \/ \E i \in Job, u \in Caller : own[i] = "nobody" /\ new = [own EXCEPT ![i] = u]

(***************************************************************************)
(* Requests.                                                               *)
(***************************************************************************)

\* A new request is a request that has done nothing.
LEMMA FreshRequest ==
    ASSUME NEW k \in Kind, NEW u \in Caller, NEW j \in Job \cup {NoJob}
    PROVE  /\ Fresh(k, u, j) \in Request
           /\ Fresh(k, u, j).pc = "idle" /\ Fresh(k, u, j).kind = k
           /\ Fresh(k, u, j).caller = u /\ Fresh(k, u, j).job = j /\ Fresh(k, u, j).whose = u
           /\ ~Fresh(k, u, j).wrote /\ Fresh(k, u, j).seen = {} /\ Fresh(k, u, j).answer = "none"
BY DEF Fresh, Request, Doc, NoDoc, Outcome

\* An answered request keeps its caller, its kind, its job and what it did.
LEMMA AnsweredRequest ==
    ASSUME NEW r \in Request, NEW a \in Outcome
    PROVE  /\ Answered(r, a) \in Request
           /\ Answered(r, a).pc = "answered" /\ Answered(r, a).answer = a
           /\ Answered(r, a).kind = r.kind /\ Answered(r, a).caller = r.caller
           /\ Answered(r, a).job = r.job
           /\ Answered(r, a).wrote = r.wrote /\ Answered(r, a).seen = r.seen
BY DEF Answered, Request, Doc, NoDoc

\* A refusal, an error or an answer that shows nothing is sound for a request
\* that changed nothing.
LEMMA AnswerSound ==
    ASSUME NEW r \in Request, NEW a \in Outcome, NEW own, ~r.wrote, r.seen = {},
           a # "ok" \/ r.kind \notin Writes
    PROVE  Sound(Answered(r, a), own)
BY AnsweredRequest DEF Sound, Touched

\* An answer that shows jobs is sound if the caller may see them, and one that
\* says the job was changed, or may have been, if the caller may change it.
LEMMA ShowSound ==
    ASSUME NEW r \in Request, NEW own, NEW jobs \in SUBSET Job, ~r.wrote,
           r.kind \notin Writes,
           \A j \in jobs : Allowed(r, j, own)
    PROVE  /\ [Answered(r, "ok") EXCEPT !.seen = jobs] \in Request
           /\ Sound([Answered(r, "ok") EXCEPT !.seen = jobs], own)
<1>1. "ok" \in Outcome
  BY DEF Outcome
<1>2. [Answered(r, "ok") EXCEPT !.seen = jobs] \in Request
  BY <1>1, AnsweredRequest DEF Request
<1>. QED BY <1>1, <1>2, AnsweredRequest DEF Sound, Touched, Allowed, Request

\* Whose request it is decides, and an owner stays the owner.
LEMMA AllowedStays ==
    ASSUME NEW own \in Owners, NEW new \in Owners, Gains(own, new),
           NEW r \in Request, NEW j \in Job, Allowed(r, j, own)
    PROVE  Allowed(r, j, new)
<1>1. r.caller # "nobody"
  BY ApiServiceAssumption DEF Request, Caller
<1>. QED BY <1>1 DEF Allowed, Gains, Owners

\* A request stays sound whatever the others do.
LEMMA SoundStays ==
    ASSUME NEW own \in Owners, NEW new \in Owners, Gains(own, new),
           NEW r \in Request, Sound(r, own)
    PROVE  Sound(r, new)
<1>1. \A j \in Job : Allowed(r, j, own) => Allowed(r, j, new)
  BY AllowedStays
<1>2. Touched(r) \subseteq Job
  BY DEF Sound, Touched, Request
<1>3. \A j \in Job : own[j] # "nobody" => new[j] = own[j]
  BY DEF Gains, Owners
<1>4. r.pc = "save" => r.doc.owner = new[r.job] /\ new[r.job] # "nobody"
  BY <1>3 DEF Sound
<1>. QED BY <1>1, <1>2, <1>4 DEF Sound

\* So it is enough to look at the thread that takes the step.
LEMMA Moved ==
    ASSUME IInv, NEW t \in Thread, NEW r \in Request,
           thread' = [thread EXCEPT ![t] = r],
           owner' \in Owners, Gains(owner, owner'), Sound(r, owner')
    PROVE  /\ thread' \in [Thread -> Request]
           /\ \A u \in Thread : Sound(thread'[u], owner')
<1>1. thread \in [Thread -> Request] /\ owner \in Owners
  BY DEF IInv, TypeOK, Owners
<1>2. thread'[t] = r /\ \A u \in Thread \ {t} : thread'[u] = thread[u]
  BY <1>1
<1>3. ASSUME NEW u \in Thread \ {t} PROVE Sound(thread[u], owner')
  BY <1>1, <1>3, SoundStays DEF IInv
<1>. QED BY <1>1, <1>2, <1>3

\* Owners that are stored stay the stored ones.
LEMMA OwnedStays ==
    ASSUME NEW own \in Owners, NEW new \in Owners, Gains(own, new), NEW d, Owned(d, own)
    PROVE  Owned(d, new)
BY DEF Gains, Owners, Owned

\* A step of a thread keeps the invariant if what it makes of its request is
\* sound and what it stores is owned.
LEMMA ServedKeeps ==
    ASSUME IInv, NEW t \in Thread, NEW r \in Request,
           thread' = [thread EXCEPT ![t] = r],
           owner' \in Owners, Gains(owner, owner'), Sound(r, owner'),
           docs' \in [Job -> Doc], Owned(docs', owner'),
           failures' \in 0 .. MaxFailures, ai' \subseteq Job, UNCHANGED Process
    PROVE  IInv'
<1>1. thread' \in [Thread -> Request] /\ \A u \in Thread : Sound(thread'[u], owner')
  BY Moved
<1>2. TypeOK'
  <2>1. \A j \in Job : Present(j)' => docs'[j].owner = owner'[j]
    BY DEF Owned, Present
  <2>. QED BY <1>1, <2>1 DEF IInv, TypeOK, Owners, Process
<1>. QED BY <1>1, <1>2 DEF IInv

\* The same for a step that leaves the collections alone.
LEMMA AnsweredKeeps ==
    ASSUME IInv, NEW t \in Thread, NEW r \in Request,
           thread' = [thread EXCEPT ![t] = r], Sound(r, owner),
           UNCHANGED <<Process, failures, docs, owner, ai>>
    PROVE  IInv'
<1>1. owner' \in Owners /\ Gains(owner, owner') /\ Sound(r, owner')
  BY DEF IInv, TypeOK, Owners, Gains
<1>2. docs' \in [Job -> Doc] /\ Owned(docs', owner')
  BY DEF IInv, TypeOK
<1>3. failures' \in 0 .. MaxFailures /\ ai' \subseteq Job /\ UNCHANGED Process
  BY DEF IInv, TypeOK
<1>. QED BY <1>1, <1>2, <1>3, ServedKeeps

(***************************************************************************)
(* Startup and exit.                                                       *)
(***************************************************************************)

\* The process starts with no request.
LEMMA InitIInv == Init => IInv
<1> SUFFICES ASSUME Init PROVE IInv
  OBVIOUS
<1>1. Idle \in Request /\ Sound(Idle, owner)
  BY FreshRequest DEF Idle, Kind, Writes, Caller, Sound, Touched
<1>2. NoDoc \in Doc
  BY DEF NoDoc, Doc
<1>3. TypeOK
  BY <1>1, <1>2, ApiServiceAssumption DEF Init, TypeOK, Present, NoDoc
<1>. QED BY <1>1, <1>3 DEF Init, IInv, Owned, NoDoc

\* The phases of the process touch no request.
LEMMA PhaseIInv ==
    ASSUME IInv, ConnectFails \/ Connect \/ GiveUp \/ Register \/ Serve \/ Exit \/ UNCHANGED vars
    PROVE  IInv'
<1>1. UNCHANGED <<enabled, failures, docs, owner, ai, thread>>
  BY DEF ConnectFails, Connect, GiveUp, Register, Serve, Exit, vars
<1>2. /\ phase' \in {"connecting", "wiring", "wired", "serving", "failed", "stopped"}
      /\ attempts' \in 0..MaxRetries
      /\ client' \in {"none", "open", "closed"}
  BY ApiServiceAssumption
     DEF ConnectFails, Connect, GiveUp, Register, Serve, Exit, vars, IInv, TypeOK
<1>3. TypeOK'
  BY <1>1, <1>2 DEF IInv, TypeOK, Present
<1>. QED BY <1>1, <1>3 DEF IInv, Owned, Sound

(***************************************************************************)
(* Admission.                                                              *)
(***************************************************************************)

\* An admitted request acts for a user, or for nobody in particular.
LEMMA IdentityCaller == \A token \in Token : Identity(token) \in Caller
BY DEF Identity, Caller

\* A refusal and a probe are answered at once.
LEMMA RefuseIInv ==
    ASSUME IInv, NEW t \in Thread,
           \/ Probe(t)
           \/ \E token \in Token : \/ \E verdict \in Verdict : Refuse(t, token, verdict)
                                 \/ RefuseToProcess(t, token)
    PROVE  IInv'
<1>1. PICK k \in {"get", "probe", "process"}, u \in Caller, a \in {"ok", "invalid", "unauthorized"} :
        thread' = [thread EXCEPT ![t] = Answered(Fresh(k, u, NoJob), a)]
  BY IdentityCaller DEF Probe, Refuse, RefuseToProcess, Caller
<1> DEFINE r == Fresh(k, u, NoJob)
<1>2. r \in Request /\ ~r.wrote /\ r.seen = {} /\ r.kind \notin Writes
  BY FreshRequest DEF Kind, Writes
<1>3. a \in Outcome
  BY DEF Outcome
<1>4. Answered(r, a) \in Request /\ Sound(Answered(r, a), owner)
  BY <1>2, <1>3, AnsweredRequest, AnswerSound
<1>5. UNCHANGED <<Process, failures, docs, owner, ai>>
  BY DEF Probe, Refuse, RefuseToProcess
<1>. QED BY <1>1, <1>4, <1>5, AnsweredKeeps

\* A request for a job looks the job up first.
LEMMA ArriveIInv ==
    ASSUME IInv, NEW t \in Thread, NEW token \in Token, NEW j \in Job,
           ArriveToRead(t, token, j)
             \/ \E k \in Writes \ {"create"} : ArriveToChange(t, k, token, j)
    PROVE  IInv'
<1>1. PICK k \in Kind :
        thread' = [thread EXCEPT ![t] = [Fresh(k, Identity(token), j) EXCEPT !.pc = "find"]]
  BY DEF ArriveToRead, ArriveToChange, Kind, Writes
<1> DEFINE r == [Fresh(k, Identity(token), j) EXCEPT !.pc = "find"]
<1>2. r \in Request
  BY IdentityCaller, FreshRequest DEF Request
<1>3. Sound(r, owner)
  BY IdentityCaller, FreshRequest DEF Fresh, Sound, Touched
<1>4. UNCHANGED <<Process, failures, docs, owner, ai>>
  BY DEF ArriveToRead, ArriveToChange
<1>. QED BY <1>1, <1>2, <1>3, <1>4, AnsweredKeeps

\* A list is confined to the caller's own jobs, unless an admin asks.
LEMMA ArriveListIInv ==
    ASSUME IInv, NEW t \in Thread, NEW token \in Token, NEW asked \in Caller \cup {"all"},
           ArriveList(t, token, asked)
    PROVE  IInv'
<1> DEFINE u == Identity(token)
           r == Fresh("list", u, NoJob)
           q == [r EXCEPT !.pc = "count", !.whose = Scope(u, asked)]
<1>1. u \in Caller /\ "list" \in Kind
  BY IdentityCaller DEF Kind
<1>2. r \in Request /\ ~r.wrote /\ r.seen = {} /\ r.kind \notin Writes
  BY <1>1, FreshRequest DEF Writes
<1>3. CASE thread' = [thread EXCEPT ![t] = Answered(r, "forbidden")]
  <2>1. "forbidden" \in Outcome
    BY DEF Outcome
  <2>2. Answered(r, "forbidden") \in Request /\ Sound(Answered(r, "forbidden"), owner)
    BY <1>2, <2>1, AnsweredRequest, AnswerSound
  <2>. QED BY <1>3, <2>2, AnsweredKeeps DEF ArriveList
<1>4. CASE thread' = [thread EXCEPT ![t] = q]
  <2>1. q \in Request
    BY <1>1, <1>2 DEF Request, Scope
  <2>2. Sound(q, owner)
    BY <1>1 DEF Fresh, Sound, Touched, Scope, IsAdmin
  <2>. QED BY <1>4, <2>1, <2>2, AnsweredKeeps DEF ArriveList
<1>. QED BY <1>3, <1>4 DEF ArriveList

\* A request of the AI routes goes to the engine.
LEMMA ArriveToProcessIInv ==
    ASSUME IInv, NEW t \in Thread, NEW token \in Token, ArriveToProcess(t, token)
    PROVE  IInv'
<1> DEFINE r == [Fresh("process", Identity(token), NoJob) EXCEPT !.pc = "submit"]
<1>1. Identity(token) \in Caller /\ "process" \in Kind
  BY IdentityCaller DEF Kind
<1>2. r \in Request
  BY <1>1, FreshRequest DEF Request
<1>3. Sound(r, owner)
  BY DEF Fresh, Sound, Touched, Writes
<1>. QED BY <1>2, <1>3, AnsweredKeeps DEF ArriveToProcess

\* The creator of a job is its owner, and goes on to save it.
LEMMA ArriveCreateIInv ==
    ASSUME IInv, NEW t \in Thread, NEW token \in Token, NEW j \in Job,
           ArriveCreate(t, token, j)
    PROVE  IInv'
<1> DEFINE u == Identity(token)
           r == [Fresh("create", u, j) EXCEPT
                   !.pc = "save", !.doc = [status |-> "pending", owner |-> u]]
<1>1. u \in Caller /\ u # "nobody" /\ "create" \in Kind
  BY IdentityCaller, ApiServiceAssumption DEF Kind, Writes, Caller
<1>2. r \in Request
  <2>1. Fresh("create", u, j) \in Request
    BY <1>1, FreshRequest
  <2>2. [status |-> "pending", owner |-> u] \in Doc
    BY <1>1 DEF Doc
  <2>. QED BY <2>1, <2>2 DEF Request
<1>3. owner[j] = "nobody" /\ owner' = [owner EXCEPT ![j] = u] /\ owner \in Owners
  BY DEF ArriveCreate, New, IInv, TypeOK, Owners
<1>4. owner' \in Owners /\ owner'[j] = u /\ Gains(owner, owner')
  BY <1>1, <1>3 DEF Owners, Gains
<1>5. Sound(r, owner')
  BY <1>1, <1>4 DEF Fresh, Sound, Touched, Allowed
<1>6. docs' \in [Job -> Doc] /\ Owned(docs', owner')
  BY <1>3, <1>4, OwnedStays DEF ArriveCreate, IInv, TypeOK
<1>7. failures' \in 0 .. MaxFailures /\ ai' \subseteq Job /\ UNCHANGED Process
  BY DEF ArriveCreate, IInv, TypeOK
<1>8. thread' = [thread EXCEPT ![t] = r]
  BY DEF ArriveCreate
<1>. QED BY <1>2, <1>4, <1>5, <1>6, <1>7, <1>8, ServedKeeps

(***************************************************************************)
(* Commands.                                                               *)
(***************************************************************************)

\* What a busy thread may rely on.
LEMMA Busy ==
    ASSUME IInv, NEW t \in Thread, ~At(t, "answered")
    PROVE  /\ thread[t] \in Request /\ Sound(thread[t], owner)
           /\ ~thread[t].wrote /\ thread[t].seen = {}
           /\ thread[t].pc \in {"find", "refetch", "save", "delete"} => thread[t].job \in Job
BY DEF IInv, TypeOK, At, Sound

\* A busy thread may always answer with a refusal or an error.
LEMMA AnswerIInv ==
    ASSUME IInv, NEW t \in Thread, ~At(t, "answered"),
           NEW a \in Outcome \ {"ok"}, Answer(t, a),
           UNCHANGED <<Process, failures, docs, owner, ai>>
    PROVE  IInv'
<1>1. Answered(thread[t], a) \in Request /\ Sound(Answered(thread[t], a), owner)
  BY Busy, AnsweredRequest, AnswerSound
<1>. QED BY <1>1, AnsweredKeeps DEF Answer

\* The job found is shown, or will be changed, only if the caller may.
LEMMA FindJobIInv ==
    ASSUME IInv, NEW t \in Thread, FindJob(t)
    PROVE  IInv'
<1> DEFINE r == thread[t]
           d == docs[r.job]
<1>1. /\ r \in Request /\ Sound(r, owner) /\ ~r.wrote /\ r.seen = {}
      /\ r.job \in Job /\ r.pc = "find" /\ ~At(t, "answered") /\ r.answer = "none"
  BY Busy DEF FindJob, At, Sound
<1>2. d \in Doc /\ UNCHANGED <<Process, failures, docs, owner, ai>>
  BY <1>1 DEF FindJob, IInv, TypeOK
<1>3. CASE \E a \in {"missing", "forbidden", "invalid"} : Answer(t, a)
  BY <1>1, <1>2, <1>3, AnswerIInv DEF Outcome
<1>4. ASSUME d.status # "none", May(r.caller, d.owner)
      PROVE  Allowed(r, r.job, owner) /\ d.owner = owner[r.job] /\ owner[r.job] # "nobody"
  BY <1>1, <1>4 DEF May, IsAdmin, Allowed, IInv, Owned
<1>5. CASE d.status # "none" /\ May(r.caller, d.owner) /\ r.kind = "get" /\ AnswerWith(t, {r.job})
  <2>1. r.kind \notin Writes /\ {r.job} \in SUBSET Job
    BY <1>1, <1>5 DEF Writes
  <2>2. \A j \in {r.job} : Allowed(r, j, owner)
    BY <1>4, <1>5
  <2> DEFINE q == [Answered(r, "ok") EXCEPT !.seen = {r.job}]
  <2>3. q \in Request /\ Sound(q, owner)
    BY <1>1, <2>1, <2>2, ShowSound
  <2>4. thread' = [thread EXCEPT ![t] = q]
    BY <1>5 DEF AnswerWith
  <2>. QED BY <1>2, <2>3, <2>4, AnsweredKeeps
<1>6. ASSUME NEW pc \in {"refetch", "delete"}, Goto(t, pc),
             d.status # "none", May(r.caller, d.owner)
      PROVE  IInv'
  <2> DEFINE q == [r EXCEPT !.pc = pc]
  <2>1. q \in Request
    BY <1>1 DEF Request
  <2>2. Sound(q, owner)
    BY <1>1, <1>4, <1>6 DEF Sound, Touched, Allowed, Request
  <2>3. thread' = [thread EXCEPT ![t] = q]
    BY <1>6 DEF Goto
  <2>. QED BY <1>2, <2>1, <2>2, <2>3, AnsweredKeeps
<1>7. CASE /\ d.status # "none" /\ May(r.caller, d.owner)
           /\ thread' = [thread EXCEPT ![t].pc = "save",
                                       ![t].doc = [d EXCEPT !.status = "cancelled"]]
  <2> DEFINE e == [d EXCEPT !.status = "cancelled"]
             q == [r EXCEPT !.pc = "save", !.doc = e]
  <2>1. e \in Doc /\ e.owner = d.owner
    BY <1>2 DEF Doc
  <2>2. q \in Request
    BY <1>1, <2>1 DEF Request
  <2>3. Sound(q, owner)
    BY <1>1, <1>4, <1>7, <2>1 DEF Sound, Touched, Allowed, Request
  <2>4. thread' = [thread EXCEPT ![t] = q]
    BY <1>1, <1>7 DEF IInv, TypeOK
  <2>. QED BY <1>2, <2>2, <2>3, <2>4, AnsweredKeeps
<1>. QED BY <1>3, <1>5, <1>6, <1>7 DEF FindJob, Present

\* The second read of an update finds the same owner, or no job.
LEMMA RefetchJobIInv ==
    ASSUME IInv, NEW t \in Thread, RefetchJob(t)
    PROVE  IInv'
<1> DEFINE r == thread[t]
           d == docs[r.job]
           q == [r EXCEPT !.pc = "save", !.doc = d]
<1>1. /\ r \in Request /\ Sound(r, owner) /\ r.job \in Job
      /\ r.pc = "refetch" /\ ~At(t, "answered")
  BY Busy DEF RefetchJob, At
<1>2. d \in Doc /\ UNCHANGED <<Process, failures, docs, owner, ai>>
  BY <1>1 DEF RefetchJob, IInv, TypeOK
<1>3. CASE Answer(t, "missing")
  BY <1>1, <1>2, <1>3, AnswerIInv DEF Outcome
<1>4. CASE Present(r.job) /\ thread' = [thread EXCEPT ![t].pc = "save", ![t].doc = d]
  <2>1. q \in Request
    BY <1>1, <1>2 DEF Request
  <2>2. d.owner = owner[r.job] /\ owner[r.job] # "nobody"
    BY <1>1, <1>4 DEF IInv, Owned, Present
  <2>3. Sound(q, owner)
    BY <1>1, <2>2 DEF Sound, Touched, Allowed, Request
  <2>4. thread' = [thread EXCEPT ![t] = q]
    BY <1>1, <1>4 DEF IInv, TypeOK
  <2>. QED BY <1>2, <2>1, <2>3, <2>4, AnsweredKeeps
<1>. QED BY <1>3, <1>4 DEF RefetchJob

\* What a saving or deleting thread answers is sound when the answer says
\* what was done.
LEMMA WroteSound ==
    ASSUME NEW r \in Request, NEW own, Sound(r, own), r.pc \in {"save", "delete"},
           NEW a \in Outcome, NEW w \in BOOLEAN, NEW shown \in SUBSET {r.job},
           a = "ok" => w,
           a \in {"unauthorized", "invalid", "forbidden", "missing"} => ~w
    PROVE  LET q == [[Answered(r, a) EXCEPT !.wrote = w] EXCEPT !.seen = shown]
           IN  q \in Request /\ Sound(q, own)
<1> DEFINE p == Answered(r, a)
           q == [[p EXCEPT !.wrote = w] EXCEPT !.seen = shown]
<1>1. /\ p \in Request /\ p.pc = "answered" /\ p.answer = a /\ p.caller = r.caller
      /\ p.job = r.job
  BY AnsweredRequest
<1>2. r.job \in Job /\ Allowed(r, r.job, own)
  BY DEF Sound
<1>3. q \in Request
  BY <1>1, <1>2 DEF Request
<1>4. /\ q.pc = "answered" /\ q.answer = a /\ q.caller = r.caller /\ q.job = r.job
      /\ q.wrote = w /\ q.seen = shown
  BY <1>1 DEF Request
<1>5. Touched(q) \subseteq {r.job}
  BY <1>4 DEF Touched
<1>6. Sound(q, own)
  BY <1>2, <1>4, <1>5 DEF Sound, Allowed
<1>. QED BY <1>3, <1>6

\* What a thread stores has the owner the collection has to have.
LEMMA PutOwned ==
    ASSUME IInv, NEW t \in Thread, thread[t].pc \in {"save", "delete"}
    PROVE  /\ thread[t].pc = "save" => Put(t) \in [Job -> Doc] /\ Owned(Put(t), owner)
           /\ Removed(t) \in [Job -> Doc] /\ Owned(Removed(t), owner)
<1>1. thread[t] \in Request /\ Sound(thread[t], owner) /\ docs \in [Job -> Doc]
  BY DEF IInv, TypeOK
<1>2. thread[t].job \in Job /\ thread[t].doc \in Doc /\ NoDoc \in Doc
  BY <1>1 DEF Sound, Request, Doc, NoDoc
<1>3. CASE thread[t].pc = "save"
  <2>1. Put(t) \in [Job -> Doc] /\ Owned(Put(t), owner)
    BY <1>1, <1>2, <1>3 DEF Put, Owned, Sound, IInv
  <2>. QED BY <1>1, <1>2, <2>1 DEF Removed, Owned, NoDoc, IInv
<1>4. CASE thread[t].pc = "delete"
  BY <1>1, <1>2, <1>4 DEF Removed, Owned, NoDoc, IInv
<1>. QED BY <1>3, <1>4

\* The document is saved.
LEMMA SaveJobIInv ==
    ASSUME IInv, NEW t \in Thread, SaveJob(t)
    PROVE  IInv'
<1> DEFINE r == thread[t]
           q == [[Answered(r, "ok") EXCEPT !.wrote = TRUE] EXCEPT !.seen = {r.job}]
<1>1. r \in Request /\ Sound(r, owner) /\ r.pc = "save"
  BY DEF SaveJob, At, IInv, TypeOK
<1>2. "ok" \in Outcome /\ {r.job} \in SUBSET {r.job} /\ TRUE \in BOOLEAN
  BY DEF Outcome
<1>3. q \in Request /\ Sound(q, owner)
  BY <1>1, <1>2, WroteSound
<1>4. docs' \in [Job -> Doc] /\ Owned(docs', owner)
  BY <1>1, PutOwned DEF SaveJob
<1>5. thread' = [thread EXCEPT ![t] = q]
  BY DEF SaveJob
<1>6. /\ owner' \in Owners /\ Gains(owner, owner') /\ owner' = owner
      /\ failures' \in 0 .. MaxFailures /\ ai' \subseteq Job /\ UNCHANGED Process
  BY DEF SaveJob, IInv, TypeOK, Owners, Gains
<1>. QED BY <1>3, <1>4, <1>5, <1>6, ServedKeeps

\* The document is deleted, or was already.
LEMMA DeleteJobIInv ==
    ASSUME IInv, NEW t \in Thread, DeleteJob(t)
    PROVE  IInv'
<1> DEFINE r == thread[t]
           a == IF Deleted(t) THEN "ok" ELSE "missing"
           p == [Answered(r, a) EXCEPT !.wrote = Present(r.job)]
           q == [p EXCEPT !.seen = {}]
<1>1. r \in Request /\ Sound(r, owner) /\ r.pc = "delete" /\ r.seen = {} /\ r.job \in Job
  BY DEF DeleteJob, At, IInv, TypeOK, Sound
<1>2. a \in Outcome /\ Present(r.job) \in BOOLEAN /\ {} \in SUBSET {r.job}
  BY DEF Outcome, Present
<1>3. q \in Request /\ Sound(q, owner)
  <2>1. (a = "ok" => Present(r.job)) /\ (a = "missing" => ~Present(r.job))
    BY DEF Deleted
  <2>2. a \notin {"unauthorized", "invalid", "forbidden"}
    OBVIOUS
  <2>. QED BY <1>1, <1>2, <2>1, <2>2, WroteSound
<1>4. p = q
  <2>1. Answered(r, a) \in Request /\ Answered(r, a).seen = {}
    BY <1>1, <1>2, AnsweredRequest
  <2>. QED BY <1>2, <2>1 DEF Request
<1>5. docs' \in [Job -> Doc] /\ Owned(docs', owner)
  BY <1>1, PutOwned DEF DeleteJob
<1>6. thread' = [thread EXCEPT ![t] = q]
  BY <1>4 DEF DeleteJob
<1>7. /\ owner' \in Owners /\ Gains(owner, owner') /\ owner' = owner
      /\ failures' \in 0 .. MaxFailures /\ ai' \subseteq Job /\ UNCHANGED Process
  BY DEF DeleteJob, IInv, TypeOK, Owners, Gains
<1>. QED BY <1>3, <1>5, <1>6, <1>7, ServedKeeps

\* The page shows what its filter selects.
LEMMA ListIInv ==
    ASSUME IInv, NEW t \in Thread, CountJobs(t) \/ FindPage(t)
    PROVE  IInv'
<1> DEFINE r == thread[t]
<1>1. /\ r \in Request /\ Sound(r, owner) /\ r.pc \in {"count", "page"}
      /\ ~r.wrote /\ r.seen = {} /\ r.kind = "list" /\ r.answer = "none"
      /\ UNCHANGED <<Process, failures, docs, owner, ai>>
  BY DEF CountJobs, FindPage, At, IInv, TypeOK, Sound
<1>2. CASE CountJobs(t)
  <2> DEFINE q == [r EXCEPT !.pc = "page"]
  <2>1. q \in Request /\ Sound(q, owner)
    BY <1>1 DEF Request, Sound, Touched, Allowed
  <2>2. thread' = [thread EXCEPT ![t] = q]
    BY <1>2 DEF CountJobs, Goto
  <2>. QED BY <1>1, <2>1, <2>2, AnsweredKeeps
<1>3. CASE FindPage(t)
  <2> DEFINE jobs == Selected(r.whose)
             q == [Answered(r, "ok") EXCEPT !.seen = jobs]
  <2>1. jobs \in SUBSET Job /\ r.kind \notin Writes
    BY <1>1 DEF Selected, Writes
  <2>2. ASSUME NEW j \in jobs PROVE Allowed(r, j, owner)
    <3>1. j \in Job /\ r.whose \in {"all", docs[j].owner} /\ docs[j].owner = owner[j]
      BY <2>2 DEF Selected, Present, IInv, Owned
    <3>2. r.caller \in Admin \/ r.whose = r.caller
      BY <1>1 DEF Sound
    <3>3. r.caller # "all"
      BY <1>1, ApiServiceAssumption DEF Request, Caller
    <3>. QED BY <3>1, <3>2, <3>3 DEF Allowed
  <2>3. q \in Request /\ Sound(q, owner)
    BY <1>1, <2>1, <2>2, ShowSound
  <2>4. thread' = [thread EXCEPT ![t] = q]
    BY <1>3 DEF FindPage, AnswerWith
  <2>. QED BY <1>1, <2>3, <2>4, AnsweredKeeps
<1>. QED BY <1>2, <1>3

\* The engine's job is none of the jobs collection.
LEMMA SubmitJobIInv ==
    ASSUME IInv, NEW t \in Thread, NEW j \in Job, SubmitJob(t, j)
    PROVE  IInv'
<1> DEFINE r == thread[t]
           p == Answered(r, "ok")
           q == [p EXCEPT !.job = j]
<1>1. /\ r \in Request /\ Sound(r, owner) /\ ~r.wrote /\ r.seen = {} /\ r.kind = "process"
      /\ "ok" \in Outcome
  BY DEF SubmitJob, At, IInv, TypeOK, Sound, Outcome
<1>2. /\ p \in Request /\ p.pc = "answered" /\ p.answer = "ok" /\ p.kind = "process"
      /\ ~p.wrote /\ p.seen = {}
  BY <1>1, AnsweredRequest
<1>3. q \in Request /\ Sound(q, owner)
  BY <1>2 DEF Request, Sound, Touched, Writes
<1>4. thread' = [thread EXCEPT ![t] = q]
  BY DEF SubmitJob
<1>5. /\ owner' \in Owners /\ Gains(owner, owner') /\ owner' = owner
      /\ docs' \in [Job -> Doc] /\ Owned(docs', owner)
      /\ failures' \in 0 .. MaxFailures /\ ai' \subseteq Job /\ UNCHANGED Process
  BY DEF SubmitJob, IInv, TypeOK, Owners, Gains
<1>. QED BY <1>3, <1>4, <1>5, ServedKeeps

\* A failing command is answered with an error, whatever it did.
LEMMA CommandFailsIInv ==
    ASSUME IInv, NEW t \in Thread, CommandFails(t)
    PROVE  IInv'
<1> DEFINE r == thread[t]
<1>1. /\ r \in Request /\ Sound(r, owner) /\ ~r.wrote /\ r.seen = {}
      /\ "error" \in Outcome
  BY DEF CommandFails, IInv, TypeOK, Sound, Outcome
<1>2. /\ owner' \in Owners /\ Gains(owner, owner') /\ owner' = owner /\ UNCHANGED Process
      /\ docs \in [Job -> Doc] /\ Owned(docs, owner) /\ ai \subseteq Job
  BY DEF CommandFails, IInv, TypeOK, Owners, Gains
<1>3. failures' \in 0 .. MaxFailures
  BY ApiServiceAssumption DEF CommandFails, IInv, TypeOK
<1>4. CASE Answer(t, "error") /\ docs' = docs /\ ai' \subseteq Job
  <2>1. Answered(r, "error") \in Request /\ Sound(Answered(r, "error"), owner)
    BY <1>1, AnsweredRequest, AnswerSound
  <2>2. thread' = [thread EXCEPT ![t] = Answered(r, "error")]
    BY <1>4 DEF Answer
  <2>. QED BY <1>2, <1>3, <1>4, <2>1, <2>2, ServedKeeps
<1>5. CASE /\ r.pc \in {"save", "delete"}
           /\ docs' = IF r.pc = "save" THEN Put(t) ELSE Removed(t)
           /\ thread' = [thread EXCEPT ![t] =
                           [Answered(r, "error") EXCEPT !.wrote = docs' # docs]]
           /\ ai' = ai
  <2> DEFINE w == docs' # docs
             p == [Answered(r, "error") EXCEPT !.wrote = w]
             q == [p EXCEPT !.seen = {}]
  <2>1. docs' \in [Job -> Doc] /\ Owned(docs', owner)
    BY <1>5, PutOwned
  <2>2. p = q
    <3>1. Answered(r, "error") \in Request /\ Answered(r, "error").seen = {}
      BY <1>1, AnsweredRequest
    <3>. QED BY <3>1 DEF Request
  <2>3. q \in Request /\ Sound(q, owner)
    <3>1. {} \in SUBSET {r.job} /\ w \in BOOLEAN
      OBVIOUS
    <3>. QED BY <1>1, <1>5, <3>1, WroteSound
  <2>4. thread' = [thread EXCEPT ![t] = q]
    BY <1>5, <2>2
  <2>. QED BY <1>2, <1>3, <1>5, <2>1, <2>3, <2>4, ServedKeeps
<1>6. ASSUME NEW j \in Job, ai' = ai \cup {j} PROVE ai' \subseteq Job
  BY <1>2, <1>6
<1>. QED BY <1>2, <1>4, <1>5, <1>6 DEF CommandFails

\* The answer is sent.
LEMMA SendIInv ==
    ASSUME IInv, NEW t \in Thread, Send(t)
    PROVE  IInv'
<1>1. Idle \in Request /\ Sound(Idle, owner)
  BY FreshRequest DEF Idle, Kind, Writes, Caller, Sound, Touched
<1>. QED BY <1>1, AnsweredKeeps DEF Send

\* The worker keeps the owner, and makes no document.
LEMMA WorkerFinishesIInv ==
    ASSUME IInv, NEW j \in Job, WorkerFinishes(j)
    PROVE  IInv'
<1>1. UNCHANGED <<Process, failures, owner, ai, thread>>
  BY DEF WorkerFinishes
<1>2. docs' \in [Job -> Doc] /\ Owned(docs', owner)
  BY DEF WorkerFinishes, IInv, TypeOK, Owned, Doc, Present
<1>3. TypeOK'
  BY <1>1, <1>2 DEF IInv, TypeOK, Process, Present, Owned
<1>. QED BY <1>1, <1>2, <1>3 DEF IInv

(***************************************************************************)
(* The theorems.                                                           *)
(***************************************************************************)

\* Every step keeps the invariant.
LEMMA IInvInvariant == Spec => []IInv
<1>1. IInv /\ [Next]_vars => IInv'
  <2> SUFFICES ASSUME IInv, [Next]_vars PROVE IInv'
    OBVIOUS
  <2>1. CASE ConnectFails \/ Connect \/ GiveUp \/ Register \/ Serve \/ Exit \/ UNCHANGED vars
    BY <2>1, PhaseIInv
  <2>2. ASSUME NEW t \in Thread, NEW token \in Token,
               \/ \E verdict \in Verdict : Refuse(t, token, verdict)
               \/ \E j \in Job : ArriveToRead(t, token, j) \/ ArriveCreate(t, token, j)
               \/ \E k \in Writes \ {"create"}, j \in Job : ArriveToChange(t, k, token, j)
               \/ RefuseToProcess(t, token) \/ ArriveToProcess(t, token)
               \/ \E asked \in Caller \cup {"all"} : ArriveList(t, token, asked)
        PROVE  IInv'
    BY <2>2, RefuseIInv, ArriveIInv, ArriveCreateIInv, ArriveToProcessIInv, ArriveListIInv
  <2>3. ASSUME NEW t \in Thread,
               \/ FindJob(t) \/ RefetchJob(t) \/ SaveJob(t) \/ DeleteJob(t)
               \/ Probe(t) \/ \E j \in Job : SubmitJob(t, j)
               \/ CountJobs(t) \/ FindPage(t) \/ CommandFails(t) \/ Send(t)
        PROVE  IInv'
    BY <2>3, FindJobIInv, RefetchJobIInv, SaveJobIInv, DeleteJobIInv, RefuseIInv,
       SubmitJobIInv, ListIInv, CommandFailsIInv, SendIInv
  <2>4. ASSUME NEW j \in Job, WorkerFinishes(j) PROVE IInv'
    BY <2>4, WorkerFinishesIInv
  <2>. QED BY <2>1, <2>2, <2>3, <2>4 DEF Next
<1>. QED BY <1>1, InitIInv, PTL DEF Spec

\* Every variable keeps its type, and a stored job its owner.
THEOREM ApiTypeCorrect == Spec => []TypeOK
<1>1. IInv => TypeOK
  BY DEF IInv
<1>. QED BY <1>1, IInvInvariant, PTL

\* However the requests of a user interleave with deletions, stale writes and a
\* closing client, they show and change only the user's own jobs.
THEOREM ApiOwnersOnly == Spec => []OwnersOnly
<1>1. IInv => OwnersOnly
  BY DEF IInv, Sound, Touched, Allowed, OwnersOnly
<1>. QED BY <1>1, IInvInvariant, PTL

\* A success means the collection was changed, a refusal that it was not.
THEOREM ApiAnswersAreTrue == Spec => []AnswersAreTrue
<1>1. IInv => AnswersAreTrue
  BY DEF IInv, Sound, AnswersAreTrue
<1>. QED BY <1>1, IInvInvariant, PTL
=============================================================================
