------------------------------ MODULE DnsServer ------------------------------
(***************************************************************************)
(* The DNS sinkhole (platform/linux/network/dns_server.cpp): the worker    *)
(* thread that serves one query at a time, the daemon's main thread that   *)
(* starts and stops it, its clients and the upstream resolver.  UDP may    *)
(* lose, delay and reorder what travels; the upstream socket keeps what    *)
(* arrives after the worker has stopped waiting for it.                    *)
(*                                                                         *)
(* A query stands for one datagram, and what the worker finds in it is its *)
(* kind: "blocked" (radix_tree_ or bloom_filter_ has its first name),      *)
(* "clean", or "garbage" (it does not parse, or has no question).          *)
(***************************************************************************)
EXTENDS Naturals, Sequences, FiniteSets

CONSTANTS
  Queries,   \* the queries clients send, each at most once
  Kind,
  NoQuery    \* the worker serves none

ASSUME QueriesAssumption == IsFiniteSet(Queries)
ASSUME KindAssumption == Kind \in [Queries -> {"blocked", "clean", "garbage"}]
ASSUME NoQueryAssumption == NoQuery \notin Queries

VARIABLES
  main,          \* where the main thread is
  is_running_,
  server_fd_,    \* TRUE while the socket is open
  upstream_fd_,
  total_queries_, blocked_queries_, forwarded_queries_,
  worker, query, \* the worker thread and the query it serves
  inbox,         \* the datagrams in server_fd_
  upstream,      \* the queries the resolver has yet to answer
  answers,       \* the answers in upstream_fd_, each named by its query
  taken,         \* history: the queries received, in their order
  replies        \* history: what clients were sent

counters == <<total_queries_, blocked_queries_, forwarded_queries_>>
sockets == <<server_fd_, upstream_fd_>>
control == <<main, is_running_, sockets>>
workerVars == <<worker, query, counters, taken, replies>>
vars == <<control, workerVars, inbox, upstream, answers>>

Sinkhole == [kind |-> "sinkhole"]
Answer(q) == [kind |-> "answer", of |-> q]

MainPcs == {"init", "up", "down", "join", "close", "stopped"}
WorkerPcs == {"none", "head", "poll", "classify", "sinkhole", "forward", "wait", "done"}

TypeOK ==
  /\ main \in MainPcs
  /\ is_running_ \in BOOLEAN /\ server_fd_ \in BOOLEAN /\ upstream_fd_ \in BOOLEAN
  /\ total_queries_ \in Nat /\ blocked_queries_ \in Nat /\ forwarded_queries_ \in Nat
  /\ worker \in WorkerPcs /\ query \in Queries \cup {NoQuery}
  /\ inbox \in Seq(Queries) /\ answers \in Seq(Queries) /\ upstream \subseteq Queries
  /\ taken \in Seq(Queries)
  /\ replies \subseteq
       [to : Queries, what : {Sinkhole} \cup {Answer(q) : q \in Queries}]

Init ==
  /\ main = "init" /\ is_running_ = FALSE
  /\ server_fd_ = FALSE /\ upstream_fd_ = FALSE
  /\ total_queries_ = 0 /\ blocked_queries_ = 0 /\ forwarded_queries_ = 0
  /\ worker = "none" /\ query = NoQuery
  /\ inbox = <<>> /\ upstream = {} /\ answers = <<>>
  /\ taken = <<>> /\ replies = {}

Received == {taken[i] : i \in DOMAIN taken}
InInbox == {inbox[i] : i \in DOMAIN inbox}

-----------------------------------------------------------------------------
(* The main thread.                                                         *)

MainGoto(from, to) == main = from /\ main' = to

\* init() fails without a socket or when the port is taken, and start() is not
\* called; the upstream socket may fail on its own.
MainInitFails ==
  /\ MainGoto("init", "down")
  /\ UNCHANGED <<is_running_, sockets, workerVars, inbox, upstream, answers>>

\* init() and then start(), which launches the worker.
MainStart ==
  /\ MainGoto("init", "up")
  /\ is_running_' = TRUE
  /\ server_fd_' = TRUE
  /\ upstream_fd_' \in BOOLEAN
  /\ worker' = "head"
  /\ UNCHANGED <<query, counters, taken, replies, inbox, upstream, answers>>

\* stop() of a server that never ran returns at once.
MainStopIdle ==
  /\ MainGoto("down", "stopped")
  /\ UNCHANGED <<is_running_, sockets, workerVars, inbox, upstream, answers>>

\* Mutant: stop() closes the sockets first, to wake the worker up.
MainStopCloses ==
  /\ MainGoto("up", "join")
  /\ is_running_' = FALSE
  /\ server_fd_' = FALSE /\ upstream_fd_' = FALSE
  /\ UNCHANGED <<workerVars, inbox, upstream, answers>>

\* stop(): is_running_.exchange(false)
MainStop ==
  /\ MainGoto("up", "join")
  /\ is_running_' = FALSE
  /\ UNCHANGED <<sockets, workerVars, inbox, upstream, answers>>

\* worker_thread_->join()
MainJoin ==
  /\ MainGoto("join", "close")
  /\ worker = "done"
  /\ UNCHANGED <<is_running_, sockets, workerVars, inbox, upstream, answers>>

\* Both sockets are closed; what they still held is gone.
MainClose ==
  /\ MainGoto("close", "stopped")
  /\ server_fd_' = FALSE /\ upstream_fd_' = FALSE
  /\ inbox' = <<>> /\ answers' = <<>>
  /\ UNCHANGED <<is_running_, workerVars, upstream>>

MainThread == MainInitFails \/ MainStart \/ MainStopIdle \/ MainJoin \/ MainClose

-----------------------------------------------------------------------------
(* run_loop, the worker thread.                                             *)

WorkerGoto(from, to) ==
  /\ worker = from
  /\ worker' = to
  /\ UNCHANGED control

Goto(from, to) == WorkerGoto(from, to) /\ UNCHANGED <<inbox, upstream, answers>>

\* Sent to the address the query came from.
Reply(what) == replies' = replies \cup {[to |-> query, what |-> what]}

\* while (is_running_)
WorkerHead ==
  /\ Goto("head", IF is_running_ THEN "poll" ELSE "done")
  /\ UNCHANGED <<query, counters, taken, replies>>

\* poll() timed out after 100 ms.
WorkerIdle ==
  /\ Goto("poll", "head")
  /\ inbox = <<>>
  /\ UNCHANGED <<query, counters, taken, replies>>

\* A query is received and counted.
WorkerReceive ==
  /\ WorkerGoto("poll", "classify")
  /\ inbox # <<>>
  /\ query' = Head(inbox)
  /\ inbox' = Tail(inbox)
  /\ taken' = Append(taken, Head(inbox))
  /\ total_queries_' = total_queries_ + 1
  /\ UNCHANGED <<blocked_queries_, forwarded_queries_, replies, upstream, answers>>

\* Mutant: a packet that does not parse ends the loop.
WorkerDropBreaks ==
  /\ Goto("classify", "done")
  /\ Kind[query] = "garbage"
  /\ query' = NoQuery
  /\ UNCHANGED <<counters, taken, replies>>

\* DnsPacket::parse failed, or found no question.
WorkerDrop ==
  /\ Goto("classify", "head")
  /\ Kind[query] = "garbage"
  /\ query' = NoQuery
  /\ UNCHANGED <<counters, taken, replies>>

WorkerBlock ==
  /\ Goto("classify", "sinkhole")
  /\ Kind[query] = "blocked"
  /\ blocked_queries_' = blocked_queries_ + 1
  /\ UNCHANGED <<query, total_queries_, forwarded_queries_, taken, replies>>

\* Mutant: the client is forgotten before the reply is sent.
WorkerSinkholeForgets ==
  /\ Goto("sinkhole", "head")
  /\ query' = NoQuery
  /\ replies' = replies \cup {[to |-> query', what |-> Sinkhole]}
  /\ UNCHANGED <<counters, taken>>

WorkerSinkhole ==
  /\ Goto("sinkhole", "head")
  /\ Reply(Sinkhole)
  /\ query' = NoQuery
  /\ UNCHANGED <<counters, taken>>

\* Mutant: a query counts as forwarded only when there is a socket for it.
WorkerCleanCounted ==
  /\ Goto("classify", IF upstream_fd_ THEN "forward" ELSE "head")
  /\ Kind[query] = "clean"
  /\ forwarded_queries_' = forwarded_queries_ + (IF upstream_fd_ THEN 1 ELSE 0)
  /\ query' = IF upstream_fd_ THEN query ELSE NoQuery
  /\ UNCHANGED <<total_queries_, blocked_queries_, taken, replies>>

\* Counted as forwarded, with or without an upstream socket.
WorkerClean ==
  /\ Goto("classify", IF upstream_fd_ THEN "forward" ELSE "head")
  /\ Kind[query] = "clean"
  /\ forwarded_queries_' = forwarded_queries_ + 1
  /\ query' = IF upstream_fd_ THEN query ELSE NoQuery
  /\ UNCHANGED <<total_queries_, blocked_queries_, taken, replies>>

\* sendto the resolver; the datagram may be lost.
WorkerForward ==
  /\ WorkerGoto("forward", "wait")
  /\ upstream' \in {upstream, upstream \cup {query}}
  /\ UNCHANGED <<query, counters, taken, replies, inbox, answers>>

\* Mutant: the answer is read without being taken out of the socket.
WorkerRelayPeeks ==
  /\ WorkerGoto("wait", "head")
  /\ answers # <<>>
  /\ Reply(Answer(Head(answers)))
  /\ query' = NoQuery
  /\ UNCHANGED <<counters, taken, inbox, upstream, answers>>

\* The first datagram in the upstream socket goes to the current client.
WorkerRelay ==
  /\ WorkerGoto("wait", "head")
  /\ answers # <<>>
  /\ Reply(Answer(Head(answers)))
  /\ answers' = Tail(answers)
  /\ query' = NoQuery
  /\ UNCHANGED <<counters, taken, inbox, upstream>>

\* Mutant: the query is sent again until it is answered.
WorkerTimeoutRetries ==
  /\ Goto("wait", "forward")
  /\ answers = <<>>
  /\ UNCHANGED <<query, counters, taken, replies>>

\* Nothing has arrived for 300 ms: the client is left without an answer.
WorkerTimeout ==
  /\ Goto("wait", "head")
  /\ answers = <<>>
  /\ query' = NoQuery
  /\ UNCHANGED <<counters, taken, replies>>

Worker ==
  \/ WorkerHead \/ WorkerIdle \/ WorkerReceive \/ WorkerDrop \/ WorkerBlock
  \/ WorkerSinkhole \/ WorkerClean \/ WorkerForward \/ WorkerRelay \/ WorkerTimeout

-----------------------------------------------------------------------------
(* The network.                                                             *)

Network == UNCHANGED <<control, workerVars>>

\* A client's query reaches the socket.  One that is dropped, or not sent, is
\* one that never takes this step.
Arrive(q) ==
  /\ server_fd_
  /\ q \notin InInbox \cup Received
  /\ inbox' = Append(inbox, q)
  /\ Network /\ UNCHANGED <<upstream, answers>>

\* The resolver answers, in any order and at any time, or never.
UpstreamAnswers(q) ==
  /\ q \in upstream
  /\ upstream' = upstream \ {q}
  /\ answers' = IF upstream_fd_ THEN Append(answers, q) ELSE answers
  /\ Network /\ UNCHANGED inbox

Finished == main = "stopped" /\ UNCHANGED vars

Next ==
  \/ MainThread \/ MainStop \/ Worker
  \/ \E q \in Queries : Arrive(q) \/ UpstreamAnswers(q)
  \/ Finished

Spec == Init /\ [][Next]_vars

\* Both threads are scheduled, and both waits of the worker are bounded by
\* poll's timeout.  Nothing obliges the daemon to stop, a client to send or the
\* resolver to answer.
FairSpec == Spec /\ WF_vars(MainThread) /\ WF_vars(Worker)

-----------------------------------------------------------------------------

\* The worker never touches a socket stop() has closed.
SocketsOutliveWorker ==
  /\ worker \notin {"none", "done"} => server_fd_
  /\ worker \in {"forward", "wait"} => upstream_fd_

\* The statistics add up at every moment, whatever the interleaving: they count
\* each query received once, and each one that was classified under its kind.
CountersAddUp ==
  LET classified == Received \ (IF worker = "classify" THEN {query} ELSE {}) IN
  /\ total_queries_ = Cardinality(Received)
  /\ blocked_queries_ = Cardinality({q \in classified : Kind[q] = "blocked"})
  /\ forwarded_queries_ = Cardinality({q \in classified : Kind[q] = "clean"})

\* A client hears at most one reply: the sinkhole if its name is blocked, and
\* otherwise an answer that no other client was given, to a query that was
\* received no later than its own.
RepliesAreSound ==
  \A r \in replies :
    /\ \A s \in replies : s # r => s.to # r.to
    /\ Kind[r.to] = "blocked" <=> r.what = Sinkhole
    /\ r.what # Sinkhole =>
         /\ \A s \in replies : s.what = r.what => s = r
         /\ \E i, j \in DOMAIN taken : i <= j /\ taken[i] = r.what.of /\ taken[j] = r.to

\* The answer a client waits briefly for is the one to its own query.
OwnAnswer == \A r \in replies : r.what # Sinkhole => r.what.of = r.to

\* stop() returns, whatever the worker was waiting for.
StopReturns == main = "join" ~> main = "stopped"

\* A blocked query that has reached the socket is sinkholed, however many
\* queries before it wait for a resolver that does not answer.
BlockedIsSinkholed ==
  \A q \in Queries :
    Kind[q] = "blocked" /\ q \in InInbox ~>
      [to |-> q, what |-> Sinkhole] \in replies \/ ~is_running_
=============================================================================
