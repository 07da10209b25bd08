----------------------------- MODULE Distribute -----------------------------
(***************************************************************************)
(* One query on the coordinator: CoordinatorServer.Query and the           *)
(* RunDistributed call it makes, with one goroutine per shard, one RPC per *)
(* goroutine, and worker processes that may fail, crash, restart, or never *)
(* answer.  What a worker does for one RPC is RunShard; here it is the Job *)
(* RunShard is shown to implement: the shard's whole answer, or an error.  *)
(*                                                                         *)
(* gRPC is external: a call ends with the response, with Unavailable when  *)
(* the worker is down or the connection is lost, or with Canceled as soon  *)
(* as its context is done, whatever the worker is doing.                   *)
(***************************************************************************)
EXTENDS Integers, FiniteSets

CONSTANTS
    NShards,    \* bound: the most shards a query is cut into
    MaxCrashes  \* bound: worker crashes during the query

ASSUME DistributeAssumption == NShards \in Nat \ {0} /\ MaxCrashes \in Nat

Sh == 1..NShards

\* What becomes of a shard when nothing else interferes: its answer; an error of
\* the worker; an answer the client's receive limit refuses; an answer whose
\* shape the coordinator's aggregator refuses.
Fate == {"answer", "reject", "toolarge", "misshapen"}

VARIABLES
    n,          \* number of shards PlanShards returns
    fate,       \* per shard
    qpc,        \* Query
    gpc,        \* per shard: RunDistributed's goroutine
    gerr,       \* per shard: the error of its call
    results,    \* the shards whose results[i] is set
    ctxDone,    \* RunDistributed's derived context was cancelled by fail()
    clientGone, \* the Query RPC's own context is done
    firstErr,   \* RunDistributed's firstErr
    merged,     \* merge loop: shards merged
    acc,        \* per shard: how often its state was merged
    reply,      \* what Query returns
    up,         \* per shard: its worker process is running
    srv,        \* per shard: the handler on the worker
    resp,       \* per shard: a response on its way back
    lost,       \* per shard: the connection broke during the call
    crashes

workers == <<up, srv, resp, lost, crashes>>
goroutines == <<gpc, gerr, results, ctxDone, firstErr>>
query == <<qpc, merged, acc, reply>>
vars == <<n, fate, query, goroutines, clientGone, workers>>

Active == 1..n

Init ==
    /\ n \in Sh
    /\ fate \in [Sh -> Fate]
    /\ qpc = "validate"
    /\ gpc = [s \in Sh |-> "idle"]
    /\ gerr = [s \in Sh |-> "nil"]
    /\ results = {}
    /\ ctxDone = FALSE
    /\ clientGone = FALSE
    /\ firstErr = "nil"
    /\ merged = 0
    /\ acc = [s \in Sh |-> 0]
    /\ reply = "none"
    /\ up \in [Sh -> BOOLEAN]
    /\ srv = [s \in Sh |-> "idle"]
    /\ resp = [s \in Sh |-> "none"]
    /\ lost = [s \in Sh |-> FALSE]
    /\ crashes = 0

CtxDone == ctxDone \/ clientGone

-----------------------------------------------------------------------------
(* Query, up to the dispatch. *)

\* The spec does not decode or validate; no worker is discovered; the shards
\* cannot be planned.
Refuse ==
    /\ qpc = "validate"
    /\ reply' = "refused"
    /\ qpc' = "end"
    /\ UNCHANGED <<n, fate, merged, acc, goroutines, clientGone, workers>>

\* PlanShards returned n shards: RunDistributed starts a goroutine for each.
Dispatch ==
    /\ qpc = "validate"
    /\ qpc' = "wait"
    /\ gpc' = [s \in Sh |-> IF s \in Active THEN "call" ELSE "idle"]
    /\ UNCHANGED <<n, fate, merged, acc, reply, gerr, results, ctxDone, firstErr,
                   clientGone, workers>>

-----------------------------------------------------------------------------
(* The goroutine of shard s. *)

GGoto(s, l) == gpc' = [gpc EXCEPT ![s] = l]

CallFails(s, err) ==
    /\ gerr' = [gerr EXCEPT ![s] = err]
    /\ GGoto(s, "fail")
    /\ UNCHANGED <<n, fate, query, results, ctxDone, firstErr, clientGone, workers>>

\* grpc.NewClient refuses the address.
DialFails(s) ==
    /\ gpc[s] = "call"
    /\ CallFails(s, "dial")

\* RunShard is called; the request is on its way, unless the context is
\* already done.
Call(s) ==
    /\ gpc[s] = "call"
    /\ ~CtxDone
    /\ GGoto(s, "sent")
    /\ UNCHANGED <<n, fate, query, gerr, results, ctxDone, firstErr, clientGone,
                   workers>>

\* The call ends with Canceled.
CallCanceled(s) ==
    /\ gpc[s] \in {"call", "sent"}
    /\ CtxDone
    /\ CallFails(s, "canceled")

\* Mutated form: the error is overlooked, and results[i] stays nil.
UnavailableOverlooked(s) ==
    /\ gpc[s] = "sent"
    /\ lost[s] \/ ~up[s]
    /\ GGoto(s, "done")
    /\ UNCHANGED <<n, fate, query, gerr, results, ctxDone, firstErr, clientGone, workers>>

\* The worker is down, or the connection broke.
CallUnavailable(s) ==
    /\ gpc[s] = "sent"
    /\ lost[s] \/ ~up[s]
    /\ CallFails(s, "unavailable")

\* The response is an error status, or too large to be received.
ErrorArrives(s) ==
    /\ gpc[s] = "sent"
    /\ resp[s] = "error" \/ (resp[s] = "ok" /\ fate[s] = "toolarge")
    /\ CallFails(s, "worker")

\* results[i] = resp
ResultArrives(s) ==
    /\ gpc[s] = "sent"
    /\ resp[s] = "ok" /\ fate[s] # "toolarge"
    /\ results' = results \cup {s}
    /\ GGoto(s, "done")
    /\ UNCHANGED <<n, fate, query, gerr, ctxDone, firstErr, clientGone, workers>>

\* Mutated forms of Fail: the siblings are not cancelled; the last error wins;
\* an error is taken for an empty shard.
FailAlone(s) ==
    /\ gpc[s] = "fail"
    /\ firstErr' = IF firstErr = "nil" THEN gerr[s] ELSE firstErr
    /\ GGoto(s, "done")
    /\ UNCHANGED <<n, fate, query, gerr, results, ctxDone, clientGone, workers>>

FailLastWins(s) ==
    /\ gpc[s] = "fail"
    /\ firstErr' = gerr[s]
    /\ ctxDone' = TRUE
    /\ GGoto(s, "done")
    /\ UNCHANGED <<n, fate, query, gerr, results, clientGone, workers>>

FailSilently(s) ==
    /\ gpc[s] = "fail"
    /\ GGoto(s, "done")
    /\ UNCHANGED <<n, fate, query, gerr, results, ctxDone, firstErr, clientGone, workers>>

\* fail(err): only the first error is kept, and it cancels the other calls.
Fail(s) ==
    /\ gpc[s] = "fail"
    /\ IF firstErr = "nil"
       THEN firstErr' = gerr[s] /\ ctxDone' = TRUE
       ELSE UNCHANGED <<firstErr, ctxDone>>
    /\ GGoto(s, "done")
    /\ UNCHANGED <<n, fate, query, gerr, results, clientGone, workers>>

Goroutine(s) ==
    \/ Call(s) \/ CallCanceled(s) \/ CallUnavailable(s)
    \/ ErrorArrives(s) \/ ResultArrives(s) \/ Fail(s)

-----------------------------------------------------------------------------
(* RunDistributed after wg.Wait(), and the rest of Query. *)

\* Mutated form: the first result is enough to go on.
GatherEarly ==
    /\ qpc = "wait"
    /\ \E s \in Active : gpc[s] = "done"
    /\ IF firstErr # "nil"
       THEN reply' = firstErr /\ qpc' = "end"
       ELSE qpc' = "merge" /\ UNCHANGED reply
    /\ UNCHANGED <<n, fate, merged, acc, goroutines, clientGone, workers>>

Gather ==
    /\ qpc = "wait"
    /\ \A s \in Active : gpc[s] = "done"
    /\ IF firstErr # "nil"
       THEN reply' = firstErr /\ qpc' = "end"
       ELSE qpc' = "merge" /\ UNCHANGED reply
    /\ UNCHANGED <<n, fate, merged, acc, goroutines, clientGone, workers>>

\* Mutated form: the loop does not move on to the next result.
MergeTwice ==
    /\ qpc = "merge"
    /\ merged < n
    /\ acc' = [acc EXCEPT ![merged + 1] = @ + 1]
    /\ UNCHANGED merged
    /\ UNCHANGED <<n, fate, qpc, reply, goroutines, clientGone, workers>>

\* One iteration of the loop over results: MergeState takes the whole shard or
\* refuses it, and then Query fails although other shards were merged.  Of a
\* results[i] that is nil, GetGroups returns no groups: nothing is refused, and
\* nothing is merged.
Merge ==
    /\ qpc = "merge"
    /\ merged < n
    /\ LET s == merged + 1
       IN  IF s \in results /\ fate[s] = "misshapen"
           THEN reply' = "merge" /\ qpc' = "end" /\ UNCHANGED <<merged, acc>>
           ELSE /\ acc' = IF s \in results THEN [acc EXCEPT ![s] = @ + 1] ELSE acc
                /\ merged' = s
                /\ UNCHANGED <<qpc, reply>>
    /\ UNCHANGED <<n, fate, goroutines, clientGone, workers>>

\* resultToProto refuses a column or a value of the merged result.
ConvertFails ==
    /\ qpc = "merge"
    /\ merged = n
    /\ reply' = "convert"
    /\ qpc' = "end"
    /\ UNCHANGED <<n, fate, merged, acc, goroutines, clientGone, workers>>

Answer ==
    /\ qpc = "merge"
    /\ merged = n
    /\ reply' = "ok"
    /\ qpc' = "end"
    /\ UNCHANGED <<n, fate, merged, acc, goroutines, clientGone, workers>>

Coordinator == Dispatch \/ Gather \/ Merge \/ Answer \/ \E s \in Sh : Goroutine(s)

\* What may go wrong on the coordinator itself.
Mishap == Refuse \/ ConvertFails \/ \E s \in Sh : DialFails(s)

-----------------------------------------------------------------------------
(* The query's client, the workers and the network. *)

ClientGone ==
    /\ qpc # "end" /\ ~clientGone
    /\ clientGone' = TRUE
    /\ UNCHANGED <<n, fate, query, goroutines, workers>>

coordinator == <<n, fate, query, goroutines, clientGone>>

\* The request reaches the worker, which starts a handler.
Deliver(s) ==
    /\ gpc[s] = "sent" /\ up[s] /\ ~lost[s]
    /\ srv[s] = "idle" /\ resp[s] = "none"
    /\ srv' = [srv EXCEPT ![s] = "running"]
    /\ UNCHANGED <<coordinator, up, resp, lost, crashes>>

\* The handler replies: RunShard's Job, or an error when its own context was
\* cancelled because the call ended.
Serve(s) ==
    /\ srv[s] = "running"
    /\ srv' = [srv EXCEPT ![s] = "idle"]
    /\ resp' = [resp EXCEPT ![s] =
                  IF gpc[s] # "sent" \/ fate[s] = "reject" THEN "error" ELSE "ok"]
    /\ UNCHANGED <<coordinator, up, lost, crashes>>

\* A worker process dies: its handler is gone, its connection breaks, and a
\* response on the wire may be lost.
Crash(s) ==
    /\ up[s] /\ crashes < MaxCrashes
    /\ crashes' = crashes + 1
    /\ up' = [up EXCEPT ![s] = FALSE]
    /\ srv' = [srv EXCEPT ![s] = "idle"]
    /\ lost' = [lost EXCEPT ![s] = gpc[s] = "sent"]
    /\ resp' \in {resp, [resp EXCEPT ![s] = "none"]}
    /\ UNCHANGED coordinator

\* It comes back without any memory of the call.
Restart(s) ==
    /\ ~up[s]
    /\ up' = [up EXCEPT ![s] = TRUE]
    /\ UNCHANGED <<coordinator, srv, resp, lost, crashes>>

Worker(s) == Deliver(s) \/ Serve(s)

Ended == qpc = "end" /\ UNCHANGED vars

Next ==
    \/ Coordinator \/ Mishap \/ ClientGone
    \/ \E s \in Sh : Worker(s) \/ Crash(s) \/ Restart(s)
    \/ Ended

Spec == Init /\ [][Next]_vars

\* The coordinator's goroutines run; a worker may hang forever.
FairSpec ==
    Spec /\ WF_vars(Dispatch \/ Gather \/ Merge \/ Answer)
         /\ \A s \in Sh : WF_vars(Goroutine(s))

\* The workers that are up serve their calls.
FairWorkers == \A s \in Sh : WF_vars(Worker(s))

-----------------------------------------------------------------------------
(* Properties. *)

TypeOK ==
    /\ n \in Sh
    /\ fate \in [Sh -> Fate]
    /\ qpc \in {"validate", "wait", "merge", "end"}
    /\ gpc \in [Sh -> {"idle", "call", "sent", "fail", "done"}]
    /\ gerr \in [Sh -> {"nil", "dial", "unavailable", "worker", "canceled"}]
    /\ results \subseteq Active
    /\ ctxDone \in BOOLEAN /\ clientGone \in BOOLEAN
    /\ firstErr \in {"nil", "dial", "unavailable", "worker", "canceled"}
    /\ merged \in 0..n
    /\ acc \in [Sh -> 0..1]
    /\ reply \in {"none", "ok", "refused", "dial", "unavailable", "worker", "canceled",
                  "merge", "convert"}
    /\ up \in [Sh -> BOOLEAN]
    /\ srv \in [Sh -> {"idle", "running"}]
    /\ resp \in [Sh -> {"none", "ok", "error"}]
    /\ lost \in [Sh -> BOOLEAN]
    /\ crashes \in 0..MaxCrashes

\* The answer of a query has the whole of every shard, each merged once, and
\* there is none when a shard has none to give: no crash, cancellation or lost
\* response can turn into a smaller result.
WholeOrNothing ==
    reply = "ok" =>
        /\ \A s \in Active : fate[s] = "answer" /\ acc[s] = 1
        /\ \A s \in Sh \ Active : acc[s] = 0

\* The reported error is the one that made the coordinator cancel the other
\* calls, never one of the cancellations it caused itself.
RootCause == reply = "canceled" => clientGone

\* When Query returns, no goroutine of its own has a call open.
NothingOpen == qpc = "end" => \A s \in Sh : gpc[s] \in {"idle", "done"}

\* As soon as one shard failed, or the client gave up, the query ends, even if
\* every other worker hangs.
AbortEndsQuery == (firstErr # "nil" \/ clientGone) ~> qpc = "end"

\* Query is a Job, which ends if the workers serve what they receive.
AbstractJob == INSTANCE Job WITH
    NoAnswer <- "no answer",
    Pending  <- "pending",
    Rejected <- "rejected",
    expected <- IF \A s \in Active : fate[s] = "answer" THEN "whole" ELSE "no answer",
    outcome  <- IF reply = "none" THEN "pending"
                ELSE IF reply # "ok" THEN "rejected"
                ELSE IF \A s \in Sh : acc[s] = IF s \in Active THEN 1 ELSE 0
                     THEN "whole" ELSE "partial"

IsJob == AbstractJob!Safety /\ (FairWorkers => AbstractJob!Ends)
=============================================================================
