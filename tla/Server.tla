-------------------------------- MODULE Server --------------------------------
(***************************************************************************)
(* One process: it starts, serves requests through the middlewares, runs   *)
(* the pruner beside them and shuts down on a signal, all over one pool of *)
(* database connections.                                                   *)
(*                                                                         *)
(* Each request is there once.  A handler is a bounded number of           *)
(* statements, each on a connection of the pool; a handler with a          *)
(* transaction keeps its connection from one statement to the next.  What  *)
(* the statements do is in the other modules.  A statement has no timeout  *)
(* of its own and may hang.                                                *)
(*                                                                         *)
(* Left out: what is logged, request ids, body limits, and connections     *)
(* that are kept alive between requests.                                   *)
(***************************************************************************)
EXTENDS Integers, FiniteSets

CONSTANTS
  Reqs,           \* the requests that ever arrive
  MaxConns,       \* size of the pool
  MaxStatements   \* how many statements a handler runs

ASSUME ServerAssumption ==
  /\ IsFiniteSet(Reqs)
  /\ MaxConns \in Nat \ {0} /\ MaxStatements \in Nat \ {0}

VARIABLES
  phase,     \* where main() is
  code,      \* the exit code; -1 while the process runs
  stopping,  \* whether the context of main() is cancelled
  http,      \* the goroutine that listens
  pool,      \* the connection pool
  pruner,    \* the goroutine of the pruner
  reqs,      \* the goroutines of the requests
  total      \* requestsTotal of the metrics, by class of status

vars == <<phase, code, stopping, http, pool, pruner, reqs, total>>

Kinds   == {"api", "health", "version"}
Classes == {"2xx", "4xx", "5xx"}
None    == "none"

Idle == [pc |-> "idle", kind |-> None, left |-> 0, holds |-> FALSE,
         sent |-> None, seen |-> "2xx", panicked |-> FALSE]
Request == {Idle} \cup
  [pc : {"limit", "auth", "run", "wait", "stmt", "hung", "written", "refused", "panic", "done"},
   kind : Kinds, left : 0..MaxStatements, holds : BOOLEAN,
   sent : Classes \cup {None},  \* the status the client was sent
   seen : Classes,              \* the status the metrics' writer noted
   panicked : BOOLEAN]

TypeOK ==
  /\ phase \in {"connect", "migrate", "serve", "drain", "close", "exited"}
  /\ code \in {-1, 0, 1} /\ stopping \in BOOLEAN
  /\ http \in {"new", "open", "closed", "failed"}
  /\ pool \in {"none", "open", "closing", "closed"}
  /\ pruner \in {"none", "sweep", "exec", "hung", "asleep", "done"}
  /\ reqs \in [Reqs -> Request]
  /\ total \in [Classes -> Nat]

Init ==
  /\ phase = "connect" /\ code = -1 /\ stopping = FALSE
  /\ http = "new" /\ pool = "none" /\ pruner = "none"
  /\ reqs = [r \in Reqs |-> Idle]
  /\ total = [c \in Classes |-> 0]

Active(r)   == reqs[r].pc \notin {"idle", "done"}
PrunerHolds == pruner \in {"exec", "hung"}
Acquired    == Cardinality({r \in Reqs : reqs[r].holds}) + IF PrunerHolds THEN 1 ELSE 0
ConnFree    == pool = "open" /\ Acquired < MaxConns

(***************************************************************************)
(* main()                                                                  *)
(***************************************************************************)
Exit(c) == phase' = "exited" /\ code' = c

Connect ==
  /\ phase = "connect"
  /\ \/ ~stopping /\ phase' = "migrate" /\ pool' = "open" /\ UNCHANGED code
     \/ Exit(1) /\ UNCHANGED pool
  /\ UNCHANGED <<stopping, http, pruner, reqs, total>>

\* The migrations do not look at the context.  After them the goroutines start.
Migrate ==
  /\ phase = "migrate"
  /\ \/ phase' = "serve" /\ pruner' = "sweep" /\ UNCHANGED code
     \/ Exit(1) /\ UNCHANGED pruner
  /\ UNCHANGED <<stopping, http, pool, reqs, total>>

Signal ==
  /\ phase # "exited" /\ ~stopping
  /\ stopping' = TRUE
  /\ UNCHANGED <<phase, code, http, pool, pruner, reqs, total>>

\* ListenAndServe: refused when Shutdown came first; when the port cannot be
\* had, the goroutine cancels the context as a signal would.
Listen ==
  /\ phase \in {"serve", "drain", "close"} /\ http = "new"
  /\ \/ phase = "serve" /\ http' = "open" /\ UNCHANGED stopping
     \/ phase = "serve" /\ http' = "failed" /\ stopping' = TRUE
     \/ phase # "serve" /\ http' = "closed" /\ UNCHANGED stopping
  /\ UNCHANGED <<phase, code, pool, pruner, reqs, total>>

\* Shutdown closes the listener first, then waits for the open requests.
Shutdown ==
  /\ phase = "serve" /\ stopping
  /\ phase' = "drain"
  /\ http' = IF http = "open" THEN "closed" ELSE http
  /\ UNCHANGED <<code, stopping, pool, pruner, reqs, total>>

DrainedAtOnce ==  \* mutant: the listener is closed, the requests are not waited for
  /\ phase = "drain"
  /\ phase' = "close"
  /\ UNCHANGED <<code, stopping, http, pool, pruner, reqs, total>>

Drained ==
  /\ phase = "drain" /\ \A r \in Reqs : ~Active(r)
  /\ phase' = "close"
  /\ UNCHANGED <<code, stopping, http, pool, pruner, reqs, total>>

\* The time for it is over (it may be between two looks at the requests): the
\* process ends at once, without the deferred calls.
DrainNoTimeout ==  \* mutant: the context of Shutdown has no deadline
  phase = "drain" /\ FALSE /\ Exit(1)
  /\ UNCHANGED <<stopping, http, pool, pruner, reqs, total>>

DrainTimeout ==
  /\ phase = "drain" /\ Exit(1)
  /\ UNCHANGED <<stopping, http, pool, pruner, reqs, total>>

\* pool.Close(): refuses new acquisitions, and waits for those still out.
ClosePool ==
  /\ phase = "close" /\ pool = "open"
  /\ pool' = "closing"
  /\ UNCHANGED <<phase, code, stopping, http, pruner, reqs, total>>

PoolClosed ==
  /\ pool = "closing" /\ Acquired = 0
  /\ pool' = "closed" /\ Exit(0)
  /\ UNCHANGED <<stopping, http, pruner, reqs, total>>

(***************************************************************************)
(* The pruner's goroutine.  Nobody waits for it; its statements end with   *)
(* the context of main().                                                  *)
(***************************************************************************)
PrunerStep(from, to) ==
  /\ phase # "exited" /\ pruner \in from /\ pruner' = to
  /\ UNCHANGED <<phase, code, stopping, http, pool, reqs, total>>

PrunerBegins == ~stopping /\ ConnFree /\ PrunerStep({"sweep"}, "exec")
PrunerNext   == PrunerStep({"exec"}, "sweep")
PrunerRests  == PrunerStep({"exec"}, "asleep")
PrunerWakes  == PrunerStep({"asleep"}, "sweep")
PrunerHangs  == PrunerStep({"exec"}, "hung")
PrunerFails  == stopping /\ PrunerStep({"sweep", "exec", "hung"}, "asleep")
PrunerEnds   == stopping /\ PrunerStep({"asleep"}, "done")

(***************************************************************************)
(* A request: RequestID, Recover, Metrics, RateLimit, BearerOwner, MaxBody *)
(* and AccessLog around the handler                                        *)
(***************************************************************************)
Public(k)  == k \in {"health", "version"}
Counted(k) == k # "health"

Step(r, q) ==
  /\ phase # "exited"
  /\ reqs' = [reqs EXCEPT ![r] = q]
  /\ UNCHANGED <<phase, code, stopping, http, pool, pruner>>

Accept(r, k) ==
  /\ http = "open" /\ reqs[r] = Idle
  /\ Step(r, [Idle EXCEPT !.pc = "limit", !.kind = k])
  /\ UNCHANGED total

\* A status goes to the client, and to the metrics on its way.
Write(r, pc, c) ==
  Step(r, [reqs[r] EXCEPT !.pc = pc, !.sent = c, !.seen = c, !.holds = FALSE])
  /\ UNCHANGED total

Run(r) ==
  LET statements == IF reqs[r].kind = "version" THEN 0
                    ELSE IF reqs[r].kind = "health" THEN 1 ELSE MaxStatements IN
  Step(r, [reqs[r] EXCEPT !.pc = "run", !.left = statements]) /\ UNCHANGED total

RateLimit(r) ==
  LET q == reqs[r] IN
  /\ q.pc = "limit"
  /\ \/ Public(q.kind) /\ Run(r)
     \/ ~Public(q.kind) /\ Step(r, [q EXCEPT !.pc = "auth"]) /\ UNCHANGED total
     \/ ~Public(q.kind) /\ Write(r, "refused", "4xx")

BearerOwner(r) ==
  /\ reqs[r].pc = "auth"
  /\ Run(r) \/ Write(r, "refused", "4xx")

AskPoolForever(r) ==  \* mutant: a handler does not come to an end
  LET q == reqs[r] IN
  /\ q.pc = "run"
  /\ Step(r, [q EXCEPT !.pc = IF q.holds THEN "stmt" ELSE "wait", !.left = @ - 1])
  /\ UNCHANGED total

AskPoolInTransaction(r) ==  \* mutant: a transaction's statement asks the pool
  LET q == reqs[r] IN
  /\ q.pc = "run" /\ q.left > 0
  /\ Step(r, [q EXCEPT !.pc = "wait", !.left = @ - 1])
  /\ UNCHANGED total

\* The handler asks the pool for a connection, waits for one, and gives it back
\* after the statement, unless it is in a transaction that goes on.
AskPool(r) ==
  LET q == reqs[r] IN
  /\ q.pc = "run" /\ q.left > 0
  /\ Step(r, [q EXCEPT !.pc = IF q.holds THEN "stmt" ELSE "wait", !.left = @ - 1])
  /\ UNCHANGED total

Acquire(r) ==
  /\ reqs[r].pc = "wait" /\ ConnFree
  /\ Step(r, [reqs[r] EXCEPT !.pc = "stmt", !.holds = TRUE]) /\ UNCHANGED total

StatementEnds(r) ==
  LET q == reqs[r] IN
  /\ q.pc = "stmt"
  /\ \E tx \in BOOLEAN : /\ tx => q.left > 0
                        /\ Step(r, [q EXCEPT !.pc = "run", !.holds = tx])
  /\ UNCHANGED total

StatementHangs(r) ==
  /\ reqs[r].pc = "stmt"
  /\ Step(r, [reqs[r] EXCEPT !.pc = "hung"]) /\ UNCHANGED total

\* A statement fails, the client hangs up or the pool is closed: the handler
\* answers with the error.
StatementFails(r) ==
  reqs[r].pc \in {"wait", "stmt", "hung"} /\ Write(r, "written", "5xx")

\* GET /health gives its ping two seconds, the wait for the connection included.
ProbeNeverTimesOut(r) == FALSE /\ StatementFails(r)  \* mutant: a ping without timeout
ProbeTimesOut(r) == reqs[r].kind = "health" /\ StatementFails(r)

\* The handler answers, after its last statement or before.
HandlerAnswers(r) ==
  /\ reqs[r].pc = "run" /\ (reqs[r].kind = "health" => reqs[r].left = 0)
  /\ \E c \in Classes : Write(r, "written", c)

\* A panic gives the connection back: rows and transactions are closed by defers.
HandlerPanics(r) ==
  /\ reqs[r].pc \in {"run", "written"}
  /\ Step(r, [reqs[r] EXCEPT !.pc = "panic", !.panicked = TRUE, !.holds = FALSE])
  /\ UNCHANGED total

\* The middlewares after the handler has returned: the counters.
ReturnUnwrapped(r) ==  \* mutant: Metrics hands on the writer it was given
  LET q == reqs[r] IN
  /\ q.pc \in {"written", "refused"}
  /\ Step(r, [q EXCEPT !.pc = "done"])
  /\ total' = IF Counted(q.kind) THEN [total EXCEPT !["2xx"] = @ + 1] ELSE total

Return(r) ==
  LET q == reqs[r] IN
  /\ q.pc \in {"written", "refused"}
  /\ Step(r, [q EXCEPT !.pc = "done"])
  /\ total' = IF Counted(q.kind) THEN [total EXCEPT ![q.seen] = @ + 1] ELSE total

\* Recover: 500 unless the handler had begun its answer.
RecoveredAnyway(r) ==  \* mutant: the answer that has begun is not asked for
  /\ reqs[r].pc = "panic"
  /\ Step(r, [reqs[r] EXCEPT !.pc = "done", !.sent = "5xx"])
  /\ UNCHANGED total

Recovered(r) ==
  LET q == reqs[r] IN
  /\ q.pc = "panic"
  /\ Step(r, [q EXCEPT !.pc = "done", !.sent = IF q.sent = None THEN "5xx" ELSE q.sent])
  /\ UNCHANGED total

(***************************************************************************)
(* The specification                                                       *)
(***************************************************************************)
Main == Connect \/ Migrate \/ Listen \/ Shutdown \/ Drained \/ DrainTimeout
        \/ ClosePool \/ PoolClosed

Pruner == PrunerBegins \/ PrunerNext \/ PrunerRests \/ PrunerWakes \/ PrunerHangs
          \/ PrunerFails \/ PrunerEnds

Advance(r) ==
  \/ RateLimit(r) \/ BearerOwner(r) \/ AskPool(r) \/ StatementEnds(r)
  \/ ProbeTimesOut(r) \/ HandlerAnswers(r) \/ Return(r) \/ Recovered(r)

Next ==
  \/ Main \/ Signal \/ Pruner
  \/ \E r \in Reqs : \/ \E k \in Kinds : Accept(r, k)
                      \/ Advance(r) \/ Acquire(r)
                      \/ StatementHangs(r) \/ StatementFails(r) \/ HandlerPanics(r)

Spec == Init /\ [][Next]_vars

\* main() and the goroutines run; a statement ends or hangs; the pool serves its
\* waiters in order, so who waits while connections come free gets one.
\* Nothing is assumed of the migrations, of what hangs or of the clients.
FairSpec ==
  /\ Spec
  /\ WF_vars(Connect) /\ WF_vars(Listen) /\ WF_vars(Shutdown) /\ WF_vars(DrainTimeout)
  /\ WF_vars(ClosePool) /\ WF_vars(PoolClosed)
  /\ WF_vars(PrunerNext \/ PrunerRests) /\ WF_vars(PrunerFails)
  /\ \A r \in Reqs : WF_vars(Advance(r)) /\ SF_vars(Acquire(r))

(***************************************************************************)
(* Properties                                                              *)
(***************************************************************************)
\* The pool is closed after the last request, and the process ends well only
\* when every request it accepted was answered, nothing listens and no
\* connection is out (cmd/server/main.go:59).
ShutdownOrder ==
  /\ pool \in {"closing", "closed"} => \A r \in Reqs : ~Active(r)
  /\ code = 0 => /\ \A r \in Reqs : reqs[r].pc = "done" => reqs[r].sent # None
                 /\ http # "open" /\ pool = "closed" /\ ~PrunerHolds

\* A client is sent one status, whatever its handler does after it has begun to
\* answer (middleware/recover.go:52).
StatusSentOnce ==
  [][\A r \in Reqs : reqs[r].sent # None => reqs'[r].sent = reqs[r].sent]_reqs

\* The counters hold every request that was not a probe under the class the
\* client was sent, the refused ones too (app/server.go:51); of a handler that
\* panics they know nothing.
CountedAsSent ==
  \A c \in Classes :
    total[c] = Cardinality({r \in Reqs : /\ reqs[r].pc = "done" /\ Counted(reqs[r].kind)
                                         /\ ~reqs[r].panicked /\ reqs[r].sent = c})

\* A signal, or a port that is taken, ends the process, though requests hang:
\* Shutdown has a deadline and the pruner has the context
\* (cmd/server/main.go:56).  Only the migrations have neither.
SignalEnds == stopping /\ phase # "migrate" ~> phase = "exited"

\* Unless a statement hangs, a request that was accepted is answered or cut off
\* by the end of the process: no handler keeps a connection while it waits for
\* another (service/merge.go:32).
SomethingHangs == pruner = "hung" \/ \E r \in Reqs : reqs[r].pc = "hung"
RequestsAnswered ==
  \A r \in Reqs : Active(r) ~> ~Active(r) \/ phase = "exited" \/ SomethingHangs

\* A probe is answered also while every connection is taken or hangs
\* (handlers/health.go:23).
ProbesAnswered ==
  \A r \in Reqs : Active(r) /\ reqs[r].kind = "health" ~> ~Active(r) \/ phase = "exited"
=============================================================================
