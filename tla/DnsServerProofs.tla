--------------------------- MODULE DnsServerProofs ---------------------------
(***************************************************************************)
(* Proofs about DnsServer for every finite set of queries of every kind.   *)
(***************************************************************************)
EXTENDS DnsServer, FiniteSetTheorems, SequenceTheorems, TLAPS

-----------------------------------------------------------------------------
(* Queues: sequences without duplicates.                                    *)

Elements(s) == {s[i] : i \in DOMAIN s}
Distinct(s) == \A i, j \in DOMAIN s : s[i] = s[j] => i = j

\* The tail of a sequence without duplicates has all its elements but the head.
LEMMA TailOfDistinct ==
  ASSUME NEW S, NEW s \in Seq(S), s # <<>>, Distinct(s)
  PROVE  /\ Distinct(Tail(s)) /\ Elements(Tail(s)) = Elements(s) \ {Head(s)}
         /\ Head(s) \in Elements(s)
<1> USE DEF Elements, Distinct
<1>1. /\ Tail(s) \in Seq(S) /\ Len(s) \in Nat \ {0} /\ Len(Tail(s)) = Len(s) - 1
      /\ \A i \in 1 .. Len(Tail(s)) : Tail(s)[i] = s[i + 1]
      /\ Head(s) = s[1]
  BY HeadTailProperties, LenProperties, EmptySeq
<1>2. DOMAIN s = 1 .. Len(s) /\ DOMAIN Tail(s) = 1 .. Len(s) - 1
  BY <1>1, LenProperties
<1>3. \A i \in DOMAIN Tail(s) : i + 1 \in DOMAIN s /\ Tail(s)[i] = s[i + 1]
  BY <1>1, <1>2
<1>4. ASSUME NEW i \in DOMAIN Tail(s), NEW j \in DOMAIN Tail(s), Tail(s)[i] = Tail(s)[j]
      PROVE  i = j
  <2>1. i + 1 = j + 1
    BY <1>3, <1>4
  <2> QED
    BY <1>1, <1>2, <2>1
<1>5. 1 \in DOMAIN s
  BY <1>1, <1>2
<1>6. \A i \in DOMAIN s : i # 1 => i - 1 \in DOMAIN Tail(s) /\ s[i] = Tail(s)[i - 1]
  BY <1>1, <1>2
<1>7. \A i \in DOMAIN Tail(s) : Tail(s)[i] # Head(s)
  BY <1>1, <1>2, <1>3, <1>5
<1>8. ASSUME NEW e \in Elements(Tail(s)) PROVE e \in Elements(s) \ {Head(s)}
  <2>1. PICK i \in DOMAIN Tail(s) : e = Tail(s)[i]
    BY <1>8
  <2> QED
    BY <1>3, <1>7, <2>1
<1>9. ASSUME NEW e \in Elements(s) \ {Head(s)} PROVE e \in Elements(Tail(s))
  <2>1. PICK i \in DOMAIN s : e = s[i]
    BY <1>9
  <2> QED
    BY <1>1, <1>6, <1>9, <2>1
<1>10. Distinct(Tail(s))
  BY <1>4
<1>11. Head(s) \in Elements(s)
  BY <1>1, <1>5
<1> QED
  BY ONLY <1>8, <1>9, <1>10, <1>11

\* Appending an element it does not have keeps a sequence without duplicates.
LEMMA AppendOfDistinct ==
  ASSUME NEW S, NEW s \in Seq(S), NEW e \in S
  PROVE  /\ Elements(Append(s, e)) = Elements(s) \cup {e}
         /\ Distinct(s) /\ e \notin Elements(s) => Distinct(Append(s, e))
<1>1. /\ DOMAIN s = 1 .. Len(s) /\ DOMAIN Append(s, e) = 1 .. Len(s) + 1
      /\ Len(s) \in Nat
      /\ \A i \in 1 .. Len(s) : Append(s, e)[i] = s[i]
      /\ Append(s, e)[Len(s) + 1] = e
  BY AppendProperties, LenProperties
<1> QED
  BY <1>1 DEF Elements, Distinct

-----------------------------------------------------------------------------
(* The type invariant.                                                      *)

\* The worker serves a query whenever it counts, replies or waits.
Serving == worker \in {"classify", "sinkhole", "forward", "wait"} => query \in Queries

\* A step of the worker keeps every variable in its type.
LEMMA WorkerTyping == TypeOK /\ Serving /\ Worker => TypeOK' /\ Serving'
<1> SUFFICES ASSUME TypeOK, Serving, Worker PROVE TypeOK' /\ Serving'
  OBVIOUS
<1> USE DEF TypeOK, Serving, WorkerPcs, MainPcs, WorkerGoto, Goto, control, sockets,
            counters
<1>1. CASE WorkerHead
  BY <1>1 DEF WorkerHead
<1>2. CASE WorkerIdle
  BY <1>2 DEF WorkerIdle
<1>3. CASE WorkerReceive
  <2>1. Head(inbox) \in Queries /\ Tail(inbox) \in Seq(Queries)
    BY <1>3, HeadTailProperties DEF WorkerReceive
  <2> QED
    BY <1>3, <2>1 DEF WorkerReceive
<1>4. CASE WorkerDrop
  BY <1>4 DEF WorkerDrop
<1>5. CASE WorkerBlock
  BY <1>5 DEF WorkerBlock
<1>6. CASE WorkerSinkhole
  BY <1>6 DEF WorkerSinkhole, Reply
<1>7. CASE WorkerClean
  BY <1>7 DEF WorkerClean
<1>8. CASE WorkerForward
  BY <1>8 DEF WorkerForward
<1>9. CASE WorkerRelay
  <2>1. Head(answers) \in Queries /\ Tail(answers) \in Seq(Queries)
    BY <1>9, HeadTailProperties DEF WorkerRelay
  <2> QED
    BY <1>9, <2>1 DEF WorkerRelay, Reply
<1>10. CASE WorkerTimeout
  BY <1>10 DEF WorkerTimeout
<1> QED
  BY <1>1, <1>2, <1>3, <1>4, <1>5, <1>6, <1>7, <1>8, <1>9, <1>10 DEF Worker

\* Every variable keeps its type, and a worker that classifies, answers or waits
\* has a query.
THEOREM Typing == Spec => [](TypeOK /\ Serving)
<1>0. <<>> \in Seq(Queries)
  BY EmptySeq
<1>1. Init => TypeOK /\ Serving
  <2> SUFFICES ASSUME Init PROVE TypeOK /\ Serving
    OBVIOUS
  <2>1. inbox \in Seq(Queries) /\ answers \in Seq(Queries) /\ taken \in Seq(Queries)
    BY <1>0 DEF Init
  <2> QED
    BY <2>1 DEF Init, TypeOK, Serving, MainPcs, WorkerPcs
<1>2. TypeOK /\ Serving /\ [Next]_vars => (TypeOK /\ Serving)'
  <2> SUFFICES ASSUME TypeOK, Serving, [Next]_vars PROVE (TypeOK /\ Serving)'
    OBVIOUS
  <2> USE DEF TypeOK, Serving, MainPcs, WorkerPcs, MainGoto, control, sockets, counters,
              workerVars
  <2>1. CASE Worker
    BY <2>1, WorkerTyping
  <2>2. CASE MainThread \/ MainStop
    <3>1. inbox' \in Seq(Queries) /\ answers' \in Seq(Queries)
      BY <2>2, <1>0 DEF MainThread, MainInitFails, MainStart, MainStopIdle, MainStop,
                        MainJoin, MainClose
    <3>2. UNCHANGED <<counters, query, taken, replies, upstream>>
      BY <2>2 DEF MainThread, MainInitFails, MainStart, MainStopIdle, MainStop,
                  MainJoin, MainClose
    <3>3. /\ main' \in MainPcs /\ worker' \in WorkerPcs
          /\ worker' = worker \/ worker' = "head"
      BY <2>2 DEF MainThread, MainInitFails, MainStart, MainStopIdle, MainStop,
                  MainJoin, MainClose
    <3>4. is_running_' \in BOOLEAN /\ server_fd_' \in BOOLEAN /\ upstream_fd_' \in BOOLEAN
      BY <2>2 DEF MainThread, MainInitFails, MainStart, MainStopIdle, MainStop,
                  MainJoin, MainClose
    <3> QED
      BY <3>1, <3>2, <3>3, <3>4
  <2>3. ASSUME NEW q \in Queries, Arrive(q) PROVE (TypeOK /\ Serving)'
    BY <2>3 DEF Arrive, Network
  <2>4. ASSUME NEW q \in Queries, UpstreamAnswers(q) PROVE (TypeOK /\ Serving)'
    BY <2>4 DEF UpstreamAnswers, Network
  <2>5. CASE UNCHANGED vars
    BY <2>5 DEF vars
  <2> QED
    BY <2>1, <2>2, <2>3, <2>4, <2>5 DEF Next, Finished
<1> QED
  BY <1>1, <1>2, PTL DEF Spec

\* Every variable of the server and of its network keeps its type.
THEOREM ServerTyping == Spec => []TypeOK
BY Typing, PTL

-----------------------------------------------------------------------------
(* The sockets.                                                             *)

\* The server socket is open from start to close, and the worker exists only
\* between a start and the join.
SocketInv ==
  /\ SocketsOutliveWorker
  /\ main \in {"up", "join"} => server_fd_
  /\ main \in {"init", "down"} => worker = "none"
  /\ main \in {"close", "stopped"} => worker \in {"none", "done"}

\* It holds in every reachable state.
LEMMA Sockets == Spec => []SocketInv
<1>1. Init => SocketInv
  BY DEF Init, SocketInv, SocketsOutliveWorker
<1>2. TypeOK /\ SocketInv /\ [Next]_vars => SocketInv'
  <2> SUFFICES ASSUME TypeOK, SocketInv, [Next]_vars PROVE SocketInv'
    OBVIOUS
  <2> USE DEF SocketInv, SocketsOutliveWorker
  <2>1. CASE Worker
    <3>1. /\ UNCHANGED <<main, server_fd_, upstream_fd_>>
          /\ worker \notin {"none", "done"} /\ worker' # "none"
      BY <2>1 DEF Worker, WorkerHead, WorkerIdle, WorkerReceive, WorkerDrop, WorkerBlock,
                  WorkerSinkhole, WorkerClean, WorkerForward, WorkerRelay, WorkerTimeout,
                  Goto, WorkerGoto, control, sockets
    <3>2. worker' \in {"forward", "wait"} => upstream_fd_
      BY <2>1 DEF Worker, WorkerHead, WorkerIdle, WorkerReceive, WorkerDrop, WorkerBlock,
                  WorkerSinkhole, WorkerClean, WorkerForward, WorkerRelay, WorkerTimeout,
                  Goto, WorkerGoto
    <3> QED
      BY <3>1, <3>2 DEF TypeOK, MainPcs
  <2>2. CASE MainThread \/ MainStop
    BY <2>2 DEF MainThread, MainInitFails, MainStart, MainStopIdle, MainStop, MainJoin,
                MainClose, MainGoto, workerVars, sockets
  <2>3. CASE UNCHANGED <<control, workerVars>>
    BY <2>3 DEF control, sockets, workerVars
  <2> QED
    BY <2>1, <2>2, <2>3 DEF Next, Arrive, UpstreamAnswers, Network, Finished, vars
<1> QED
  BY <1>1, <1>2, Typing, PTL DEF Spec

\* stop() closes the sockets only when the worker has left its loop.
THEOREM SocketsStayOpen == Spec => []SocketsOutliveWorker
BY Sockets, PTL DEF SocketInv

-----------------------------------------------------------------------------
(* The statistics.                                                          *)

\* A query is in the socket once, and no more once it has been received.
ArriveOnce == Distinct(inbox) /\ InInbox \cap Received = {}

\* What the worker takes from the socket is a query it has not had before.
LEMMA Receipt ==
  ASSUME TypeOK, ArriveOnce, inbox # <<>>,
         inbox' = Tail(inbox), taken' = Append(taken, Head(inbox))
  PROVE  /\ ArriveOnce'
         /\ Head(inbox) \in Queries \ Received
         /\ Received' = Received \cup {Head(inbox)}
<1>1. InInbox = Elements(inbox) /\ InInbox' = Elements(Tail(inbox))
  BY DEF InInbox, Elements
<1>2. Received = Elements(taken) /\ Received' = Elements(Append(taken, Head(inbox)))
  BY DEF Received, Elements
<1>3. /\ Distinct(Tail(inbox)) /\ Head(inbox) \in InInbox
      /\ InInbox' = InInbox \ {Head(inbox)}
  BY <1>1, TailOfDistinct DEF TypeOK, ArriveOnce
<1>4. Head(inbox) \in Queries \ Received
  <2>1. Head(inbox) \in Queries
    BY HeadTailProperties DEF TypeOK
  <2> QED
    BY <1>3, <2>1 DEF ArriveOnce
<1>5. Received' = Received \cup {Head(inbox)}
  BY <1>2, <1>4, AppendOfDistinct DEF TypeOK
<1>6. Distinct(inbox)'
  BY <1>3 DEF Distinct
<1> QED
  BY <1>3, <1>4, <1>5, <1>6 DEF ArriveOnce

\* No other step takes a query from the socket, or adds one that is known.
LEMMA ArrivalsInOrder == TypeOK /\ ArriveOnce /\ [Next]_vars => ArriveOnce'
<1> SUFFICES ASSUME TypeOK, ArriveOnce, [Next]_vars PROVE ArriveOnce'
  OBVIOUS
<1>1. CASE WorkerReceive
  BY <1>1, Receipt DEF WorkerReceive
<1>2. CASE MainClose
  <2>1. inbox' = <<>> /\ DOMAIN inbox' = {}
    BY <1>2, EmptySeq, LenProperties DEF MainClose
  <2> QED
    BY <2>1 DEF ArriveOnce, Distinct, InInbox
<1>3. ASSUME NEW q \in Queries, Arrive(q) PROVE ArriveOnce'
  <2>1. q \notin InInbox \cup Received /\ inbox' = Append(inbox, q) /\ Received' = Received
    BY <1>3 DEF Arrive, Network, workerVars, Received
  <2>2. InInbox = Elements(inbox) /\ InInbox' = Elements(Append(inbox, q))
    BY <2>1 DEF InInbox, Elements
  <2>3. InInbox' = InInbox \cup {q} /\ Distinct(Append(inbox, q))
    BY <2>1, <2>2, AppendOfDistinct DEF TypeOK, ArriveOnce
  <2>4. Distinct(inbox)'
    BY <2>1, <2>3 DEF Distinct
  <2> QED
    BY <2>1, <2>3, <2>4 DEF ArriveOnce
<1>4. CASE UNCHANGED <<inbox, taken>>
  BY <1>4 DEF ArriveOnce, Distinct, InInbox, Received
<1> QED
  BY <1>1, <1>2, <1>3, <1>4
     DEF Next, MainThread, MainInitFails, MainStart, MainStopIdle, MainStop, MainJoin,
         Worker, WorkerHead, WorkerIdle, WorkerDrop, WorkerBlock, WorkerSinkhole,
         WorkerClean, WorkerForward, WorkerRelay, WorkerTimeout, Goto, WorkerGoto,
         UpstreamAnswers, Network, workerVars, Finished, vars

\* The queries of a kind among those that have been classified.
Classified == Received \ (IF worker = "classify" THEN {query} ELSE {})
OfKind(kind) == {q \in Classified : Kind[q] = kind}

\* The counters agree with what was received and classified.
CountInv ==
  /\ CountersAddUp
  /\ worker = "classify" => query \in Received

\* There are finitely many of them, so adding one adds one to their number.
LEMMA ReceivedFinite ==
  ASSUME TypeOK
  PROVE  /\ Received \subseteq Queries
         /\ IsFiniteSet(Received)
         /\ \A kind : IsFiniteSet(OfKind(kind))
<1>1. Received \subseteq Queries
  BY ElementOfSeq, LenProperties DEF TypeOK, Received
<1>2. IsFiniteSet(Received)
  BY <1>1, QueriesAssumption, FS_Subset
<1>3. \A kind : OfKind(kind) \subseteq Received
  BY DEF OfKind, Classified
<1> QED
  BY <1>1, <1>2, <1>3, FS_Subset

\* The counters in STATUS agree with what was received and classified, at every
\* moment.
THEOREM StatisticsAddUp == Spec => []CountersAddUp
<1>1. Init => CountInv /\ ArriveOnce
  <2> SUFFICES ASSUME Init PROVE CountInv /\ ArriveOnce
    OBVIOUS
  <2>1. Received = {} /\ InInbox = {} /\ DOMAIN inbox = {}
    <3>1. DOMAIN inbox = {} /\ DOMAIN taken = {}
      BY EmptySeq, LenProperties DEF Init
    <3> QED
      BY <3>1 DEF Received, InInbox
  <2>2. Cardinality({}) = 0
    BY FS_EmptySet
  <2>3. ArriveOnce
    BY <2>1 DEF ArriveOnce, Distinct
  <2>4. CountersAddUp
    <3>1. \A kind : {q \in {} : Kind[q] = kind} = {}
      OBVIOUS
    <3> QED
      BY <2>1, <2>2 DEF CountersAddUp, Init
  <2> QED
    BY <2>3, <2>4 DEF Init, CountInv
<1>2. TypeOK /\ SocketInv /\ CountInv /\ ArriveOnce /\ [Next]_vars => CountInv'
  <2> SUFFICES ASSUME TypeOK, SocketInv, CountInv, ArriveOnce, [Next]_vars
               PROVE  CountInv'
    OBVIOUS
  <2>0. CountInv <=> /\ total_queries_ = Cardinality(Received)
                     /\ blocked_queries_ = Cardinality(OfKind("blocked"))
                     /\ forwarded_queries_ = Cardinality(OfKind("clean"))
                     /\ worker = "classify" => query \in Received
    BY DEF CountInv, CountersAddUp, OfKind, Classified
  <2>00. CountInv' <=> /\ total_queries_' = Cardinality(Received')
                       /\ blocked_queries_' = Cardinality(OfKind("blocked")')
                       /\ forwarded_queries_' = Cardinality(OfKind("clean")')
                       /\ worker' = "classify" => query' \in Received'
    BY DEF CountInv, CountersAddUp, OfKind, Classified
  <2>1. CASE WorkerReceive
    <3>1. /\ Head(inbox) \in Queries \ Received
          /\ Received' = Received \cup {Head(inbox)}
      BY <2>1, Receipt DEF WorkerReceive
    <3>2. worker = "poll" /\ worker' = "classify" /\ query' = Head(inbox)
      BY <2>1 DEF WorkerReceive, WorkerGoto
    <3>3. Classified' = Classified
      BY <3>1, <3>2 DEF Classified
    <3>4. Cardinality(Received') = Cardinality(Received) + 1
      BY <3>1, ReceivedFinite, FS_AddElement
    <3> QED
      BY <2>0, <2>00, <3>1, <3>2, <3>3, <3>4, <2>1 DEF WorkerReceive, OfKind
  <2>2. CASE WorkerDrop \/ WorkerBlock \/ WorkerClean
    <3>1. /\ worker = "classify" /\ worker' # "classify"
          /\ Received' = Received /\ query \in Received
          /\ UNCHANGED total_queries_
      BY <2>2, <2>0 DEF WorkerDrop, WorkerBlock, WorkerClean, Goto, WorkerGoto, Received,
                        counters
    <3>2. Classified' = Classified \cup {query} /\ query \notin Classified
      BY <3>1 DEF Classified
    <3>3. ASSUME NEW kind
          PROVE  OfKind(kind)' = IF Kind[query] = kind THEN OfKind(kind) \cup {query}
                                                       ELSE OfKind(kind)
      BY <3>2 DEF OfKind
    <3>4. ASSUME NEW kind
          PROVE  Cardinality(OfKind(kind) \cup {query}) = Cardinality(OfKind(kind)) + 1
      <4>1. IsFiniteSet(OfKind(kind))
        BY ReceivedFinite
      <4>2. query \notin OfKind(kind)
        BY <3>2 DEF OfKind
      <4> QED
        BY ONLY <4>1, <4>2, FS_AddElement
    <3>5. CASE WorkerDrop
      BY <3>1, <3>3, <3>5, <2>0, <2>00 DEF WorkerDrop, counters
    <3>6. CASE WorkerBlock
      BY <3>1, <3>3, <3>4, <3>6, <2>0, <2>00 DEF WorkerBlock
    <3>7. CASE WorkerClean
      BY <3>1, <3>3, <3>4, <3>7, <2>0, <2>00 DEF WorkerClean
    <3> QED
      BY <2>2, <3>5, <3>6, <3>7
  <2>3. CASE /\ UNCHANGED <<counters, taken>>
             /\ worker # "classify" /\ worker' # "classify"
    BY <2>3, <2>0, <2>00 DEF Received, Classified, OfKind, counters
  <2>4. CASE UNCHANGED <<counters, taken, worker, query>>
    BY <2>4, <2>0, <2>00 DEF Received, Classified, OfKind, counters
  <2>5. CASE WorkerHead \/ WorkerIdle \/ WorkerSinkhole \/ WorkerForward
             \/ WorkerRelay \/ WorkerTimeout
    BY <2>5, <2>3 DEF WorkerHead, WorkerIdle, WorkerSinkhole, WorkerForward, WorkerRelay,
                      WorkerTimeout, Goto, WorkerGoto
  <2>6. CASE MainStart
    BY <2>6, <2>3 DEF MainStart, MainGoto, SocketInv
  <2>7. CASE UNCHANGED workerVars
    BY <2>7, <2>4 DEF workerVars
  <2> QED
    BY <2>1, <2>2, <2>5, <2>6, <2>7
       DEF Next, MainThread, MainInitFails, MainStopIdle, MainStop, MainJoin, MainClose,
           Worker, Arrive, UpstreamAnswers, Network, Finished, vars
<1>3. Spec => [](CountInv /\ ArriveOnce)
  BY <1>1, <1>2, ArrivalsInOrder, Typing, Sockets, PTL DEF Spec
<1> QED
  BY <1>3, PTL DEF CountInv
-----------------------------------------------------------------------------
(* The replies.                                                             *)

\* A query that was sent upstream is at one place: with the resolver, in the
\* socket, or relayed to a client.
Relayed == {q \in Queries : \E r \in replies : r.what = Answer(q)}
Asked == upstream \cup Elements(answers) \cup Relayed

AskedOnce ==
  /\ Asked \subseteq Received
  /\ Distinct(answers)
  /\ upstream \cap Elements(answers) = {}
  /\ upstream \cap Relayed = {} /\ Elements(answers) \cap Relayed = {}

\* The query being served is the last one received; its client has had no reply,
\* and it is not sent upstream before the worker waits for its answer.
ServedIsFresh ==
  worker \in {"classify", "sinkhole", "forward", "wait"} =>
    /\ taken # <<>> /\ query = taken[Len(taken)]
    /\ \A r \in replies : r.to # query
    /\ worker = "sinkhole" => Kind[query] = "blocked"
    /\ worker \in {"forward", "wait"} => Kind[query] = "clean"
    /\ worker # "wait" => query \notin Asked

ReplyInv ==
  /\ RepliesAreSound
  /\ \A r \in replies : r.to \in Received
  /\ AskedOnce
  /\ ServedIsFresh

\* Replies differ when they relay the answers of different queries.
LEMMA RepliesDiffer ==
  ASSUME NEW p, NEW q
  PROVE  Sinkhole # Answer(p) /\ Answer(p).of = p /\ (Answer(p) = Answer(q) => p = q)
BY DEF Sinkhole, Answer

\* Nothing that was said of the replies depends on what is received later.
LEMMA ReceiveKeepsReplies == TypeOK /\ ArriveOnce /\ ReplyInv /\ WorkerReceive => ReplyInv'
<1> SUFFICES ASSUME TypeOK, ArriveOnce, ReplyInv, WorkerReceive PROVE ReplyInv'
  OBVIOUS
<1>1. /\ Head(inbox) \in Queries \ Received
      /\ Received' = Received \cup {Head(inbox)}
  BY Receipt DEF WorkerReceive
<1>2. /\ DOMAIN taken = 1 .. Len(taken) /\ DOMAIN taken' = 1 .. Len(taken) + 1
      /\ Len(taken) \in Nat /\ Len(taken') = Len(taken) + 1 /\ taken' # <<>>
      /\ \A i \in 1 .. Len(taken) : taken'[i] = taken[i]
      /\ taken'[Len(taken) + 1] = Head(inbox)
  <2>1. taken' = Append(taken, Head(inbox)) /\ taken \in Seq(Queries)
    BY DEF WorkerReceive, TypeOK
  <2> QED
    BY <1>1, <2>1, AppendProperties, LenProperties, EmptySeq
<1>3. /\ UNCHANGED <<replies, upstream, answers>>
      /\ worker' = "classify" /\ query' = Head(inbox)
  BY DEF WorkerReceive, WorkerGoto
<1>4. Asked' = Asked /\ Relayed' = Relayed /\ Elements(answers)' = Elements(answers)
  BY <1>3 DEF Asked, Relayed, Elements
<1>5. RepliesAreSound'
  BY <1>2, <1>3 DEF ReplyInv, RepliesAreSound
<1>6. AskedOnce' /\ \A r \in replies' : r.to \in Received'
  BY <1>1, <1>3, <1>4 DEF ReplyInv, AskedOnce, Distinct
<1>7. ServedIsFresh'
  BY <1>1, <1>2, <1>3, <1>4 DEF ReplyInv, AskedOnce, ServedIsFresh
<1> QED
  BY <1>5, <1>6, <1>7 DEF ReplyInv

\* The reply that ends the service of a query is the first to its client.
LEMMA ReplyIsSound ==
  ASSUME TypeOK, Serving, ReplyInv, worker \in {"sinkhole", "wait"},
         NEW what, UNCHANGED taken,
         replies' = replies \cup {[to |-> query, what |-> what]},
         \/ worker = "sinkhole" /\ what = Sinkhole
         \/ /\ worker = "wait"
            /\ \E q \in (Received \cap Queries) \ Relayed : what = Answer(q)
  PROVE  RepliesAreSound' /\ \A r \in replies' : r.to \in Received'
<1> DEFINE new == [to |-> query, what |-> what]
<1>1. /\ RepliesAreSound /\ \A r \in replies : r.to \in Received
      /\ taken # <<>> /\ query = taken[Len(taken)]
      /\ \A r \in replies : r.to # query
      /\ worker = "sinkhole" => Kind[query] = "blocked"
      /\ worker = "wait" => Kind[query] = "clean"
  BY DEF ReplyInv, ServedIsFresh
<1>2. DOMAIN taken = 1 .. Len(taken) /\ Len(taken) \in Nat \ {0} /\ Len(taken) \in DOMAIN taken
  BY <1>1, EmptySeq, LenProperties DEF TypeOK
<1>3. query \in Received /\ Received' = Received
  BY <1>1, <1>2 DEF Received
<1>4. Kind[query] = "blocked" <=> what = Sinkhole
  BY <1>1, RepliesDiffer
<1>5. ASSUME what # Sinkhole
      PROVE  /\ \A s \in replies : s.what # what
             /\ \E i, j \in DOMAIN taken : i <= j /\ taken[i] = what.of /\ taken[j] = query
  <2>1. PICK q \in (Received \cap Queries) \ Relayed : what = Answer(q)
    BY <1>5
  <2>2. PICK i \in DOMAIN taken : taken[i] = q
    BY <2>1 DEF Received
  <2>3. what.of = q /\ i <= Len(taken)
    BY <1>2, <2>1, RepliesDiffer
  <2>4. \A s \in replies : s.what # what
    BY <2>1 DEF Relayed
  <2> QED
    BY <1>1, <1>2, <2>2, <2>3, <2>4
<1>6. new.to = query /\ new.what = what /\ replies' = replies \cup {new}
  OBVIOUS
<1> HIDE DEF new
<1>7. ASSUME NEW r \in replies', NEW s \in replies', s # r PROVE s.to # r.to
  BY <1>1, <1>6, <1>7 DEF RepliesAreSound
<1>8. ASSUME NEW r \in replies' PROVE Kind[r.to] = "blocked" <=> r.what = Sinkhole
  BY <1>1, <1>4, <1>6 DEF RepliesAreSound
<1>9. ASSUME NEW r \in replies', r.what # Sinkhole, NEW s \in replies', s.what = r.what
      PROVE  s = r
  BY <1>1, <1>5, <1>6, <1>9 DEF RepliesAreSound
<1>10. ASSUME NEW r \in replies', r.what # Sinkhole
       PROVE  \E i, j \in DOMAIN taken' : i <= j /\ taken'[i] = r.what.of /\ taken'[j] = r.to
  BY <1>1, <1>5, <1>6, <1>10 DEF RepliesAreSound
<1> QED
  BY <1>1, <1>3, <1>6, <1>7, <1>8, <1>9, <1>10 DEF RepliesAreSound

\* A query that is served to the end is gone from the worker, which then serves
\* none.
LEMMA ReplyKeepsReplies ==
  TypeOK /\ Serving /\ ReplyInv /\ (WorkerSinkhole \/ WorkerRelay) => ReplyInv'
<1> SUFFICES ASSUME TypeOK, Serving, ReplyInv, WorkerSinkhole \/ WorkerRelay
             PROVE  ReplyInv'
  OBVIOUS
<1>0. /\ AskedOnce /\ taken' = taken /\ Received' = Received /\ UNCHANGED upstream
      /\ worker' = "head"
  BY DEF ReplyInv, Received, WorkerSinkhole, WorkerRelay, Goto, WorkerGoto
<1>1. ServedIsFresh'
  BY <1>0 DEF ServedIsFresh
<1>2. CASE WorkerSinkhole
  <2>1. /\ worker = "sinkhole" /\ answers' = answers
        /\ replies' = replies \cup {[to |-> query, what |-> Sinkhole]}
    BY <1>2 DEF WorkerSinkhole, Goto, WorkerGoto, Reply
  <2>2. RepliesAreSound' /\ \A r \in replies' : r.to \in Received'
    BY <1>0, <2>1, ReplyIsSound
  <2>3. Relayed' = Relayed
    BY <2>1, RepliesDiffer DEF Relayed
  <2>4. AskedOnce'
    BY <1>0, <2>1, <2>3 DEF AskedOnce, Asked, Elements, Distinct
  <2> QED
    BY <1>1, <2>2, <2>4 DEF ReplyInv
<1>3. CASE WorkerRelay
  <2> DEFINE q == Head(answers)
  <2>1. /\ worker = "wait" /\ answers # <<>> /\ answers' = Tail(answers)
        /\ replies' = replies \cup {[to |-> query, what |-> Answer(q)]}
    BY <1>3 DEF WorkerRelay, WorkerGoto, Reply
  <2>2. /\ Distinct(Tail(answers)) /\ q \in Elements(answers)
        /\ Elements(Tail(answers)) = Elements(answers) \ {q}
    BY <1>0, <2>1, TailOfDistinct DEF AskedOnce, TypeOK
  <2>3. q \in (Received \cap Queries) \ Relayed
    BY <1>0, <2>2, ReceivedFinite DEF AskedOnce, Asked
  <2> HIDE DEF q
  <2>4. RepliesAreSound' /\ \A r \in replies' : r.to \in Received'
    BY <1>0, <2>1, <2>3, ReplyIsSound
  <2>5. Relayed' = Relayed \cup {q}
    <3> DEFINE new == [to |-> query, what |-> Answer(q)]
    <3>0. replies' = replies \cup {new} /\ new.what = Answer(q)
      BY <2>1
    <3> HIDE DEF new
    <3>1. ASSUME NEW p \in Queries
          PROVE  (\E r \in replies' : r.what = Answer(p))
                   <=> (\E r \in replies : r.what = Answer(p)) \/ p = q
      <4>1. (\E r \in replies' : r.what = Answer(p))
              <=> (\E r \in replies : r.what = Answer(p)) \/ Answer(q) = Answer(p)
        BY <3>0
      <4> QED
        BY <4>1, RepliesDiffer
    <3> QED
      BY <2>3, <3>1 DEF Relayed
  <2>6. AskedOnce'
    <3>1. Elements(answers)' = Elements(answers) \ {q} /\ Distinct(answers)'
      BY <2>1, <2>2 DEF Elements, Distinct
    <3> QED
      BY <1>0, <2>2, <2>5, <3>1 DEF AskedOnce, Asked
  <2> QED
    BY <1>1, <2>4, <2>6 DEF ReplyInv
<1> QED
  BY <1>2, <1>3

\* What happens to queries that were received before stays apart from the one
\* that is served: it was not sent upstream yet, or is the one waited for.
LEMMA UpstreamKeepsReplies ==
  ASSUME TypeOK, Serving, ReplyInv, UNCHANGED <<taken, replies>>,
         \/ WorkerForward
         \/ \E q \in Queries : UpstreamAnswers(q)
         \/ MainClose /\ worker \in {"none", "done"}
  PROVE  ReplyInv'
<1>1. /\ RepliesAreSound /\ RepliesAreSound' /\ Received' = Received /\ Relayed' = Relayed
      /\ \A r \in replies' : r.to \in Received'
  BY DEF ReplyInv, RepliesAreSound, Received, Relayed
<1>2. AskedOnce
  BY DEF ReplyInv
<1>3. CASE WorkerForward
  <2>1. /\ worker = "forward" /\ worker' = "wait"
        /\ UNCHANGED <<query, answers>>
        /\ upstream' \in {upstream, upstream \cup {query}}
    BY <1>3 DEF WorkerForward, WorkerGoto
  <2>2. /\ query \notin Asked /\ taken # <<>> /\ query = taken[Len(taken)]
        /\ \A r \in replies : r.to # query
        /\ Kind[query] = "clean"
    BY <2>1 DEF ReplyInv, ServedIsFresh
  <2>3. query \in Received
    BY <2>2, EmptySeq, LenProperties DEF TypeOK, Received
  <2>4. AskedOnce'
    BY <1>1, <1>2, <2>1, <2>2, <2>3 DEF AskedOnce, Asked, Elements, Distinct
  <2>5. ServedIsFresh'
    BY <2>1, <2>2 DEF ServedIsFresh
  <2> QED
    BY <1>1, <2>4, <2>5 DEF ReplyInv
<1>4. ASSUME NEW q \in Queries, UpstreamAnswers(q) PROVE ReplyInv'
  <2>1. /\ q \in upstream /\ upstream' = upstream \ {q}
        /\ answers' = Append(answers, q) \/ answers' = answers
        /\ UNCHANGED <<worker, query>>
    BY <1>4 DEF UpstreamAnswers, Network, workerVars
  <2>2. /\ Elements(Append(answers, q)) = Elements(answers) \cup {q}
        /\ Distinct(Append(answers, q))
    BY <1>2, <2>1, AppendOfDistinct DEF AskedOnce, TypeOK
  <2>3. Elements(answers)' \in {Elements(answers), Elements(answers) \cup {q}}
        /\ Distinct(answers)'
    BY <1>2, <2>1, <2>2 DEF AskedOnce, Elements, Distinct
  <2>4. AskedOnce' /\ Asked' \subseteq Asked
    BY <1>1, <1>2, <2>1, <2>3 DEF AskedOnce, Asked
  <2>5. ServedIsFresh'
    BY <2>1, <2>4 DEF ServedIsFresh, ReplyInv
  <2> QED
    BY <1>1, <2>4, <2>5 DEF ReplyInv
<1>5. CASE MainClose /\ worker \in {"none", "done"}
  <2>1. answers' = <<>> /\ UNCHANGED <<worker, upstream>>
    BY <1>5 DEF MainClose, workerVars
  <2>2. Elements(answers)' = {} /\ Distinct(answers)'
    BY <2>1, EmptySeq, LenProperties DEF Elements, Distinct
  <2>3. AskedOnce'
    BY <1>1, <1>2, <2>1, <2>2 DEF AskedOnce, Asked
  <2>4. ServedIsFresh'
    BY <1>5, <2>1 DEF ServedIsFresh
  <2> QED
    BY <1>1, <2>3, <2>4 DEF ReplyInv
<1> QED
  BY <1>3, <1>4, <1>5

\* The other steps only move the worker: on to the reply its query is due, or
\* back to the head of the loop.
LEMMA OthersKeepReplies ==
  ASSUME TypeOK, ReplyInv, UNCHANGED <<taken, replies, upstream, answers>>,
         \/ worker' \in {"none", "head", "poll", "done"}
         \/ UNCHANGED <<worker, query>>
         \/ WorkerBlock
         \/ WorkerClean
  PROVE  ReplyInv'
<1>1. /\ RepliesAreSound /\ RepliesAreSound' /\ Received' = Received
      /\ Asked' = Asked
      /\ \A r \in replies' : r.to \in Received'
  BY DEF ReplyInv, RepliesAreSound, Received, Asked, Elements, Relayed
<1>2. AskedOnce'
  BY <1>1 DEF ReplyInv, AskedOnce, Asked, Elements, Distinct, Relayed
<1>3. ServedIsFresh'
  BY <1>1 DEF ReplyInv, ServedIsFresh, WorkerBlock, WorkerClean, Goto, WorkerGoto
<1> QED
  BY <1>1, <1>2, <1>3 DEF ReplyInv

\* A client hears at most one reply: the sinkhole if its name is blocked, and
\* otherwise an answer that no other client was given, to a query received no
\* later than its own.
THEOREM RepliesStaySound == Spec => []RepliesAreSound
<1>1. Init => ReplyInv /\ ArriveOnce
  <2> SUFFICES ASSUME Init PROVE ReplyInv /\ ArriveOnce
    OBVIOUS
  <2>1. DOMAIN inbox = {} /\ DOMAIN taken = {} /\ DOMAIN answers = {}
    BY EmptySeq, LenProperties DEF Init
  <2>2. ArriveOnce
    BY <2>1 DEF ArriveOnce, Distinct, InInbox
  <2> QED
    BY <2>1, <2>2 DEF Init, ReplyInv, RepliesAreSound, AskedOnce, Asked, Relayed, Elements,
                      Distinct, ServedIsFresh, Received
<1>2. TypeOK /\ Serving /\ SocketInv /\ ArriveOnce /\ ReplyInv /\ [Next]_vars => ReplyInv'
  <2> SUFFICES ASSUME TypeOK, Serving, SocketInv, ArriveOnce, ReplyInv, [Next]_vars
               PROVE  ReplyInv'
    OBVIOUS
  <2>1. CASE WorkerReceive
    BY <2>1, ReceiveKeepsReplies
  <2>2. CASE WorkerSinkhole \/ WorkerRelay
    BY <2>2, ReplyKeepsReplies
  <2>3. CASE WorkerForward
    BY <2>3, UpstreamKeepsReplies DEF WorkerForward
  <2>4. CASE WorkerHead \/ WorkerIdle \/ WorkerDrop \/ WorkerTimeout
    BY <2>4, OthersKeepReplies DEF WorkerHead, WorkerIdle, WorkerDrop, WorkerTimeout, Goto,
                                   WorkerGoto
  <2>5. CASE WorkerBlock \/ WorkerClean
    BY <2>5, OthersKeepReplies DEF WorkerBlock, WorkerClean, Goto
  <2>6. CASE MainStart
    BY <2>6, OthersKeepReplies DEF MainStart
  <2>7. CASE MainClose
    BY <2>7, UpstreamKeepsReplies DEF MainClose, MainGoto, SocketInv, workerVars
  <2>8. CASE MainInitFails \/ MainStopIdle \/ MainStop \/ MainJoin
    BY <2>8, OthersKeepReplies DEF MainInitFails, MainStopIdle, MainStop, MainJoin, workerVars
  <2>9. ASSUME NEW q \in Queries, Arrive(q) PROVE ReplyInv'
    BY <2>9, OthersKeepReplies DEF Arrive, Network, workerVars
  <2>10. ASSUME NEW q \in Queries, UpstreamAnswers(q) PROVE ReplyInv'
    BY <2>10, UpstreamKeepsReplies DEF UpstreamAnswers, Network, workerVars
  <2>11. CASE UNCHANGED vars
    BY <2>11, OthersKeepReplies DEF vars, workerVars
  <2> QED
    BY <2>1, <2>2, <2>3, <2>4, <2>5, <2>6, <2>7, <2>8, <2>9, <2>10, <2>11
       DEF Next, MainThread, Worker, Finished
<1>3. Spec => [](ReplyInv /\ ArriveOnce)
  BY <1>1, <1>2, ArrivalsInOrder, Typing, Sockets, PTL DEF Spec
<1> QED
  BY <1>3, PTL DEF ReplyInv
=============================================================================
