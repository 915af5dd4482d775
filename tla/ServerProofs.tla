----------------------------- MODULE ServerProofs -----------------------------
(***************************************************************************)
(* Proofs about the process of Server, for any number of requests, any     *)
(* size of the pool and any length of the handlers.                        *)
(***************************************************************************)
EXTENDS Server, FiniteSetTheorems, TLAPS

(***************************************************************************)
(* The inductive invariant                                                 *)
(***************************************************************************)
Running == {"run", "wait", "stmt", "hung"}
Before  == {"limit", "auth"} \cup Running
Answered == {"written", "refused"}

\* What may be said of a request by where its goroutine is.
Sound(q) ==
  /\ q.pc \in Before => q.sent = None /\ ~q.panicked
  /\ q.pc \in Answered => q.sent # None /\ q.seen = q.sent /\ ~q.panicked
  /\ q.pc = "panic" => q.panicked
  /\ q.pc = "done" => q.sent # None
  /\ q.holds => q.pc \in Running

RequestsSound == \A r \in Reqs : Sound(reqs[r])

\* What may be said of the process by where main() is.
Phases ==
  /\ phase \in {"connect", "migrate"} => http = "new"
  /\ http = "open" => phase = "serve"
  /\ phase = "close" => \A r \in Reqs : ~Active(r)
  /\ pool = "closing" => phase = "close"
  /\ pool = "closed" => phase = "exited" /\ \A r \in Reqs : ~Active(r)
  /\ phase # "exited" => code = -1
  /\ code = 0 => pool = "closed" /\ ~PrunerHolds

\* The requests a counter stands for.
CountedFor(c) ==
  {r \in Reqs : /\ reqs[r].pc = "done" /\ Counted(reqs[r].kind)
                /\ ~reqs[r].panicked /\ reqs[r].sent = c}

Inv == TypeOK /\ RequestsSound /\ Phases /\ CountedAsSent

(***************************************************************************)
(* A step of one request: its record changes as Sound allows, a status     *)
(* that was sent stays, and the process is one that lets it move.          *)
(***************************************************************************)
Moves(r, q) ==
  /\ Step(r, q)
  /\ q \in Request /\ Sound(q)
  /\ Active(r) \/ (http = "open" /\ reqs[r] = Idle)
  /\ reqs[r].sent # None => q.sent = reqs[r].sent

\* A step that no counter has to know of.
Quiet(r) ==
  \E q : Moves(r, q) /\ (q.pc = "done" => q.panicked) /\ UNCHANGED total

\* How a step is shown quiet: name the request's next state.
LEMMA QuietBy ==
  ASSUME NEW r \in Reqs, Active(r), NEW q \in Request, Sound(q),
         Step(r, q) /\ UNCHANGED total,
         q.pc = "done" => q.panicked, reqs[r].sent # None => q.sent = reqs[r].sent
  PROVE  Quiet(r)
  BY DEF Quiet, Moves

\* The fields of a request in flight.
LEMMA WithinRequests ==
  ASSUME Inv, NEW r \in Reqs, Active(r)
  PROVE  /\ Sound(reqs[r])
         /\ reqs[r] \in
              [pc : {"limit", "auth", "run", "wait", "stmt", "hung", "written", "refused",
                     "panic", "done"},
               kind : Kinds, left : 0..MaxStatements, holds : BOOLEAN,
               sent : Classes \cup {None}, seen : Classes, panicked : BOOLEAN]
  BY DEF Inv, TypeOK, RequestsSound, Request, Active, Idle

\* Writing a status, in any place where none was sent.
LEMMA WriteIsQuiet ==
  ASSUME Inv, NEW r \in Reqs, reqs[r].pc \in Before,
         NEW pc \in Answered, NEW c \in Classes, Write(r, pc, c)
  PROVE  Quiet(r)
  <1> DEFINE q == [reqs[r] EXCEPT !.pc = pc, !.sent = c, !.seen = c, !.holds = FALSE]
  <1>0. Active(r)
    BY DEF Active, Before, Running
  <1>1. q \in Request /\ Sound(q) /\ reqs[r].sent = None /\ q.pc # "done"
    BY <1>0, WithinRequests
       DEF Request, Sound, Before, Running, Answered, Classes, None
  <1>2. Step(r, q) /\ UNCHANGED total
    BY DEF Write
  <1> HIDE DEF q
  <1> QED
    BY <1>0, <1>1, <1>2, QuietBy

\* Entering the handler changes the one request.
LEMMA RunIsQuiet ==
  ASSUME Inv, NEW r \in Reqs, reqs[r].pc \in {"limit", "auth"}, Run(r)
  PROVE  Quiet(r)
  <1> DEFINE n == IF reqs[r].kind = "version" THEN 0
                  ELSE IF reqs[r].kind = "health" THEN 1 ELSE MaxStatements
             q == [reqs[r] EXCEPT !.pc = "run", !.left = n]
  <1>0. Active(r)
    BY DEF Active
  <1>n. n \in 0..MaxStatements
    BY ServerAssumption
  <1>1. q \in Request /\ Sound(q) /\ reqs[r].sent = None /\ q.pc # "done"
    BY <1>0, <1>n, WithinRequests DEF Request, Sound, Before, Running, Answered
  <1>2. Step(r, q) /\ UNCHANGED total
    BY DEF Run
  <1> HIDE DEF q
  <1> QED
    BY <1>0, <1>1, <1>2, QuietBy

\* The accept of a connection changes the one request.
LEMMA AcceptIsQuiet ==
  ASSUME Inv, NEW r \in Reqs, NEW k \in Kinds, Accept(r, k)
  PROVE  Quiet(r)
  <1> DEFINE q == [Idle EXCEPT !.pc = "limit", !.kind = k]
  <1>0. Idle \in [pc : {"idle"}, kind : {None}, left : 0..MaxStatements, holds : {FALSE},
                  sent : {None}, seen : Classes, panicked : {FALSE}]
    BY ServerAssumption DEF Idle, Classes
  <1>1. q \in Request
    BY <1>0 DEF Request
  <1>2. Sound(q) /\ q.pc # "done" /\ reqs[r].sent = None
    BY <1>0 DEF Accept, Sound, Before, Running, Answered
  <1> QED
    BY <1>0, <1>1, <1>2 DEF Quiet, Moves, Accept

\* The rate limiter passes or refuses the one request.
LEMMA RateLimitIsQuiet ==
  ASSUME Inv, NEW r \in Reqs, RateLimit(r)
  PROVE  Quiet(r)
  <1> DEFINE q == [reqs[r] EXCEPT !.pc = "auth"]
  <1>0. reqs[r].pc = "limit" /\ reqs[r].pc \in Before /\ Active(r)
    BY DEF RateLimit, Before, Active
  <1>1. CASE Run(r)
    BY <1>1, RunIsQuiet DEF RateLimit
  <1>2. CASE Step(r, q) /\ UNCHANGED total
    <2>1. q \in Request /\ Sound(q) /\ reqs[r].sent = None /\ q.pc # "done"
      BY <1>0, WithinRequests DEF Request, Sound, Before, Running, Answered
    <2> HIDE DEF q
    <2> QED
      BY <1>0, <1>2, <2>1, QuietBy
  <1>3. CASE Write(r, "refused", "4xx")
    BY <1>0, <1>3, WriteIsQuiet DEF Answered, Classes
  <1> QED
    BY <1>1, <1>2, <1>3 DEF RateLimit

\* The authentication passes or refuses the one request.
LEMMA BearerOwnerIsQuiet ==
  ASSUME Inv, NEW r \in Reqs, BearerOwner(r)
  PROVE  Quiet(r)
  BY RunIsQuiet, WriteIsQuiet DEF BearerOwner, Before, Answered, Classes

\* The steps of a handler at its statements.
LEMMA StatementsAreQuiet ==
  ASSUME Inv, NEW r \in Reqs,
         AskPool(r) \/ Acquire(r) \/ StatementEnds(r) \/ StatementHangs(r)
  PROVE  Quiet(r)
  <1>0. reqs[r].pc \in {"run", "wait", "stmt"} /\ Active(r)
    BY DEF AskPool, Acquire, StatementEnds, StatementHangs, Active
  <1>1. PICK q : /\ Step(r, q) /\ UNCHANGED total
                 /\ q \in Request /\ Sound(q) /\ q.pc # "done"
    <2>1. CASE AskPool(r)
      <3> DEFINE q == [reqs[r] EXCEPT !.pc = IF reqs[r].holds THEN "stmt" ELSE "wait",
                                      !.left = @ - 1]
      <3>0. /\ reqs[r].left \in 0..MaxStatements /\ reqs[r].left > 0
            /\ reqs[r].left - 1 \in 0..MaxStatements
        BY <1>0, <2>1, WithinRequests, ServerAssumption DEF AskPool
      <3>1. q \in Request /\ Sound(q) /\ q.pc # "done"
        BY <3>0, <1>0, <2>1, WithinRequests
           DEF AskPool, Request, Sound, Before, Running, Answered
      <3> QED
        BY <2>1, <3>1 DEF AskPool
    <2>2. CASE Acquire(r)
      <3> DEFINE q == [reqs[r] EXCEPT !.pc = "stmt", !.holds = TRUE]
      <3>1. q \in Request /\ Sound(q) /\ q.pc # "done"
        BY <1>0, WithinRequests DEF Request, Sound, Before, Running, Answered
      <3> QED
        BY <2>2, <3>1 DEF Acquire
    <2>3. CASE StatementEnds(r)
      <3> DEFINE q(tx) == [reqs[r] EXCEPT !.pc = "run", !.holds = tx]
      <3>1. \A tx \in BOOLEAN : q(tx) \in Request /\ Sound(q(tx)) /\ q(tx).pc # "done"
        BY <1>0, WithinRequests DEF Request, Sound, Before, Running, Answered
      <3> QED
        BY <2>3, <3>1 DEF StatementEnds
    <2>4. CASE StatementHangs(r)
      <3> DEFINE q == [reqs[r] EXCEPT !.pc = "hung"]
      <3>1. q \in Request /\ Sound(q) /\ q.pc # "done"
        BY <1>0, WithinRequests DEF Request, Sound, Before, Running, Answered
      <3> QED
        BY <2>4, <3>1 DEF StatementHangs
    <2> QED
      BY <2>1, <2>2, <2>3, <2>4
  <1>2. reqs[r].sent = None
    BY <1>0, WithinRequests DEF Sound, Before, Running
  <1> QED
    BY <1>0, <1>1, <1>2, QuietBy

\* A handler that answers changes the one request.
LEMMA AnswersAreQuiet ==
  ASSUME Inv, NEW r \in Reqs,
         StatementFails(r) \/ ProbeTimesOut(r) \/ HandlerAnswers(r)
  PROVE  Quiet(r)
  BY WriteIsQuiet
     DEF StatementFails, ProbeTimesOut, HandlerAnswers, Before, Running, Answered, Classes

\* A panic and its recovery change the one request.
LEMMA PanicsAreQuiet ==
  ASSUME Inv, NEW r \in Reqs, HandlerPanics(r) \/ Recovered(r)
  PROVE  Quiet(r)
  <1>0. Active(r)
    BY DEF HandlerPanics, Recovered, Active
  <1>1. CASE HandlerPanics(r)
    <2> DEFINE q == [reqs[r] EXCEPT !.pc = "panic", !.panicked = TRUE, !.holds = FALSE]
    <2>1. q \in Request /\ Sound(q) /\ q.sent = reqs[r].sent /\ q.panicked
      BY <1>0, WithinRequests DEF Request, Sound, Before, Running, Answered
    <2>2. Step(r, q) /\ UNCHANGED total
      BY <1>1 DEF HandlerPanics
    <2> HIDE DEF q
    <2> QED
      BY <1>0, <2>1, <2>2, QuietBy
  <1>2. CASE Recovered(r)
    <2> DEFINE q == [reqs[r] EXCEPT !.pc = "done",
                       !.sent = IF reqs[r].sent = None THEN "5xx" ELSE reqs[r].sent]
    <2>1. /\ q \in Request /\ Sound(q) /\ q.panicked
          /\ reqs[r].sent # None => q.sent = reqs[r].sent
      BY <1>0, <1>2, WithinRequests
         DEF Recovered, Request, Sound, Before, Running, Answered, Classes, None
    <2>2. Step(r, q) /\ UNCHANGED total
      BY <1>2 DEF Recovered
    <2> HIDE DEF q
    <2> QED
      BY <1>0, <2>1, <2>2, QuietBy
  <1> QED
    BY <1>1, <1>2

\* What every step of one request leaves standing.
LEMMA MoveKeeps ==
  ASSUME Inv, NEW r \in Reqs, NEW q, Moves(r, q), total' \in [Classes -> Nat]
  PROVE  /\ TypeOK' /\ RequestsSound' /\ Phases'
         /\ \A s \in Reqs : reqs[s].sent # None => reqs'[s].sent = reqs[s].sent
  <1>0. /\ reqs \in [Reqs -> Request] /\ reqs' = [reqs EXCEPT ![r] = q]
        /\ UNCHANGED <<phase, code, stopping, http, pool, pruner>>
        /\ q \in Request /\ Sound(q)
        /\ reqs[r].sent # None => q.sent = reqs[r].sent
    BY DEF Inv, TypeOK, Moves, Step
  <1>1. TypeOK'
    BY <1>0 DEF Inv, TypeOK
  <1>2. RequestsSound'
    BY <1>0 DEF Inv, RequestsSound
  <1>3. Phases'
    <2>1. Active(r) \/ phase = "serve"
      BY DEF Moves, Inv, Phases
    <2>2. phase \in {"connect", "migrate", "serve", "drain", "close", "exited"}
      BY DEF Inv, TypeOK
    <2>3. /\ phase # "close" /\ pool # "closed"
          /\ phase # "exited"
      BY <2>1 DEF Inv, Phases, Moves, Step
    <2> QED
      BY <1>0, <2>3 DEF Inv, Phases, PrunerHolds
  <1> QED
    BY <1>0, <1>1, <1>2, <1>3

\* A quiet step keeps the invariant and every status already sent.
LEMMA QuietKeeps ==
  ASSUME Inv, NEW r \in Reqs, Quiet(r)
  PROVE  Inv' /\ \A s \in Reqs : reqs[s].sent # None => reqs'[s].sent = reqs[s].sent
  <1>1. PICK q : Moves(r, q) /\ (q.pc = "done" => q.panicked) /\ UNCHANGED total
    BY DEF Quiet
  <1>2. CountedAsSent'
    <2>1. reqs \in [Reqs -> Request] /\ reqs' = [reqs EXCEPT ![r] = q] /\ reqs[r].pc # "done"
      BY <1>1 DEF Inv, TypeOK, Moves, Step, Active, Idle
    <2>2. ASSUME NEW c \in Classes
          PROVE  CountedFor(c)' = CountedFor(c)
      BY <1>1, <2>1 DEF CountedFor
    <2> QED
      BY <1>1, <2>2 DEF Inv, CountedAsSent, CountedFor
  <1> QED
    BY <1>1, <1>2, MoveKeeps DEF Inv, TypeOK

\* The one step that counts: the set behind one counter grows by the request.
LEMMA ReturnKeeps ==
  ASSUME Inv, NEW r \in Reqs, Return(r)
  PROVE  Inv' /\ \A s \in Reqs : reqs[s].sent # None => reqs'[s].sent = reqs[s].sent
  <1> DEFINE q == [reqs[r] EXCEPT !.pc = "done"]
             d == reqs[r].seen
  <1>0. reqs[r].pc \in Answered /\ Active(r)
    BY DEF Return, Answered, Active
  <1>1. /\ reqs[r].sent = d /\ d \in Classes /\ d # None /\ ~reqs[r].panicked
        /\ q \in Request /\ Sound(q)
        /\ q.sent = d /\ q.kind = reqs[r].kind /\ ~q.panicked /\ q.pc = "done"
    BY <1>0, WithinRequests DEF Request, Sound, Before, Running, Answered, Classes, None
  <1>2. /\ Step(r, q)
        /\ total' = IF Counted(reqs[r].kind) THEN [total EXCEPT ![d] = @ + 1] ELSE total
    BY DEF Return
  <1> HIDE DEF q, d
  <1>3. total \in [Classes -> Nat] /\ total' \in [Classes -> Nat]
    BY <1>1, <1>2 DEF Inv, TypeOK
  <1>4. Moves(r, q)
    BY <1>0, <1>1, <1>2 DEF Moves
  <1>5. reqs \in [Reqs -> Request] /\ reqs' = [reqs EXCEPT ![r] = q]
    BY <1>2 DEF Inv, TypeOK, Step
  <1>6. ASSUME NEW c \in Classes
        PROVE  total'[c] = Cardinality(CountedFor(c)')
    <2>0. total[c] = Cardinality(CountedFor(c)) /\ IsFiniteSet(CountedFor(c))
      <3>1. CountedFor(c) \in SUBSET Reqs
        BY DEF CountedFor
      <3> QED
        BY <3>1, FS_Subset, ServerAssumption DEF Inv, CountedAsSent, CountedFor
    <2>1. CASE c = d /\ Counted(reqs[r].kind)
      <3>1. CountedFor(c)' = CountedFor(c) \cup {r} /\ r \notin CountedFor(c)
        BY <1>0, <1>1, <1>5, <2>1 DEF CountedFor, Answered
      <3>2. total'[c] = total[c] + 1
        BY <1>2, <1>3, <2>1
      <3> QED
        BY <2>0, <3>1, <3>2, FS_AddElement
    <2>2. CASE ~(c = d /\ Counted(reqs[r].kind))
      <3>1. CountedFor(c)' = CountedFor(c)
        BY <1>0, <1>1, <1>5, <2>2 DEF CountedFor, Answered
      <3>2. total'[c] = total[c]
        BY <1>2, <1>3, <2>2
      <3> QED
        BY <2>0, <3>1, <3>2
    <2> QED
      BY <2>1, <2>2
  <1>7. CountedAsSent'
    BY <1>6 DEF CountedAsSent, CountedFor
  <1> QED
    BY <1>3, <1>4, <1>7, MoveKeeps DEF Inv

(***************************************************************************)
(* The steps of main() and of the pruner, which no request is part of      *)
(***************************************************************************)
LEMMA NobodyHolds ==
  ASSUME TypeOK, Acquired = 0
  PROVE  ~PrunerHolds
  <1>1. {r \in Reqs : reqs[r].holds} \in SUBSET Reqs
    OBVIOUS
  <1>2. Cardinality({r \in Reqs : reqs[r].holds}) \in Nat
    BY <1>1, FS_Subset, FS_CardinalityType, ServerAssumption
  <1> QED
    BY <1>2 DEF Acquired

\* The steps of main, of the signal and of the pruner keep the invariant.
LEMMA ProcessKeeps ==
  ASSUME Inv, Main \/ Signal \/ Pruner
  PROVE  Inv' /\ UNCHANGED reqs
  <1>1. UNCHANGED <<reqs, total>>
    BY DEF Main, Signal, Pruner, Connect, Migrate, Listen, Shutdown, Drained, DrainTimeout,
           ClosePool, PoolClosed, Exit, PrunerBegins, PrunerNext, PrunerRests, PrunerWakes,
           PrunerHangs, PrunerFails, PrunerEnds, PrunerStep
  <1>2. RequestsSound' /\ CountedAsSent'
    BY <1>1 DEF Inv, RequestsSound, CountedAsSent
  <1>3. ASSUME Main PROVE TypeOK' /\ Phases'
    <2> USE <1>1 DEF Inv, TypeOK, Phases, Active, PrunerHolds
    <2>1. CASE Connect      BY <2>1 DEF Connect, Exit
    <2>2. CASE Migrate      BY <2>2 DEF Migrate, Exit
    <2>3. CASE Listen       BY <2>3 DEF Listen
    <2>4. CASE Shutdown     BY <2>4 DEF Shutdown
    <2>5. CASE Drained      BY <2>5 DEF Drained
    <2>6. CASE DrainTimeout BY <2>6 DEF DrainTimeout, Exit
    <2>7. CASE ClosePool    BY <2>7 DEF ClosePool
    <2>8. CASE PoolClosed
      <3>1. ~PrunerHolds
        BY <2>8, NobodyHolds DEF PoolClosed
      <3> QED
        BY <2>8, <3>1 DEF PoolClosed, Exit
    <2> QED
      BY <1>3, <2>1, <2>2, <2>3, <2>4, <2>5, <2>6, <2>7, <2>8 DEF Main
  <1>4. CASE Signal
    BY <1>1, <1>2, <1>4 DEF Signal, Inv, TypeOK, Phases, Active, PrunerHolds
  <1>5. CASE Pruner
    <2>1. /\ phase # "exited" /\ UNCHANGED <<phase, code, stopping, http, pool>>
          /\ pruner' \in {"none", "sweep", "exec", "hung", "asleep", "done"}
      BY <1>5 DEF Pruner, PrunerBegins, PrunerNext, PrunerRests, PrunerWakes,
                  PrunerHangs, PrunerFails, PrunerEnds, PrunerStep
    <2> QED
      BY <1>1, <1>2, <2>1 DEF Inv, TypeOK, Phases, Active, PrunerHolds
  <1> QED
    BY <1>1, <1>2, <1>3, <1>4, <1>5 DEF Inv

(***************************************************************************)
(* The theorems                                                            *)
(***************************************************************************)
\* Every step keeps the invariant, and none takes back a status.
LEMMA StepKeeps ==
  ASSUME Inv, [Next]_vars
  PROVE  Inv' /\ \A r \in Reqs : reqs[r].sent # None => reqs'[r].sent = reqs[r].sent
  <1>1. CASE Main \/ Signal \/ Pruner
    BY <1>1, ProcessKeeps
  <1>2. ASSUME NEW r \in Reqs, NEW k \in Kinds, Accept(r, k)
        PROVE  Quiet(r)
    BY <1>2, AcceptIsQuiet
  <1>3. ASSUME NEW r \in Reqs,
               Advance(r) \/ Acquire(r) \/ StatementHangs(r) \/ StatementFails(r)
               \/ HandlerPanics(r)
        PROVE  Quiet(r) \/ Return(r)
    BY <1>3, RateLimitIsQuiet, BearerOwnerIsQuiet, StatementsAreQuiet, AnswersAreQuiet,
       PanicsAreQuiet DEF Advance
  <1>4. CASE UNCHANGED vars
    BY <1>4 DEF vars, Inv, TypeOK, RequestsSound, Phases, CountedAsSent, Active, PrunerHolds
  <1> QED
    BY <1>1, <1>2, <1>3, <1>4, QuietKeeps, ReturnKeeps DEF Next

\* The invariant holds at the start.
LEMMA InitHolds == Init => Inv
  <1> SUFFICES ASSUME Init PROVE Inv
    OBVIOUS
  <1>1. TypeOK
    BY DEF Init, TypeOK, Request, Classes
  <1>2. RequestsSound
    BY DEF Init, RequestsSound, Sound, Idle, Before, Running, Answered
  <1>3. Phases
    BY DEF Init, Phases, Active, PrunerHolds
  <1>4. CountedAsSent
    <2>1. ASSUME NEW c \in Classes PROVE CountedFor(c) = {}
      BY DEF Init, CountedFor, Idle
    <2> QED
      BY <2>1, FS_EmptySet DEF Init, CountedAsSent, CountedFor
  <1> QED
    BY <1>1, <1>2, <1>3, <1>4 DEF Inv

\* The process is always in a state the types allow, and in its phases: main()
\* lets go of the pool and of the listener in their order (cmd/server/main.go:59).
THEOREM Invariant == Spec => []Inv
  <1>1. Inv /\ [Next]_vars => Inv'
    BY StepKeeps
  <1> QED
    BY InitHolds, <1>1, PTL DEF Spec

\* The process, the pool, the counters and every request keep their types.
THEOREM TypeCorrect == Spec => []TypeOK
  <1>1. Inv => TypeOK
    BY DEF Inv
  <1> QED
    BY Invariant, <1>1, PTL

\* The pool is closed after the last request, and the process ends well only
\* when every request it accepted was answered, nothing listens and no
\* connection is out (cmd/server/main.go:59).
THEOREM ClosesInOrder == Spec => []ShutdownOrder
  <1>1. Inv => ShutdownOrder
    <2> SUFFICES ASSUME Inv PROVE ShutdownOrder
      OBVIOUS
    <2>1. pool \in {"closing", "closed"} => \A r \in Reqs : ~Active(r)
      BY DEF Inv, Phases
    <2>2. \A r \in Reqs : reqs[r].pc = "done" => reqs[r].sent # None
      BY DEF Inv, RequestsSound, Sound
    <2> QED
      BY <2>1, <2>2 DEF Inv, Phases, ShutdownOrder
  <1> QED
    BY Invariant, <1>1, PTL

\* The counters hold each request under the class its client was sent, whatever
\* was written through which of the wrapped writers (app/server.go:51).
THEOREM CountersAgree == Spec => []CountedAsSent
  <1>1. Inv => CountedAsSent
    BY DEF Inv
  <1> QED
    BY Invariant, <1>1, PTL

\* A client is sent one status, whatever its handler does after it has begun to
\* answer (middleware/recover.go:52).
THEOREM OneStatus == Spec => StatusSentOnce
  <1>1. Inv /\ [Next]_vars =>
          [\A r \in Reqs : reqs[r].sent # None => reqs'[r].sent = reqs[r].sent]_reqs
    BY StepKeeps
  <1> QED
    BY Invariant, <1>1, PTL DEF Spec, StatusSentOnce
===============================================================================
