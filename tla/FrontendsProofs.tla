--------------------------- MODULE FrontendsProofs ---------------------------
(***************************************************************************)
(* Proofs about what stands between the detector and the user: the capture *)
(* through PipeWire, the Android application, the browser extension and    *)
(* the two overlays, for all values of their constants.                    *)
(***************************************************************************)
EXTENDS MCFrontends, SequenceTheorems, TLAPS

-----------------------------------------------------------------------------
(* They share no state: each takes only steps of its own.                   *)

\* A behaviour of the whole is one of every part.
LEMMA Parts ==
  Spec => /\ CaptureInit /\ [][CaptureNext]_captureVars
          /\ AndroidInit /\ [][AndroidNext]_androidVars
          /\ ExtensionInit /\ [][ExtensionNext]_extensionVars
          /\ OverlayInit /\ [][OverlayNext]_overlayVars
          /\ WindowInit /\ [][WindowNext]_windowVars
<1>1. Init => CaptureInit /\ AndroidInit /\ ExtensionInit /\ OverlayInit /\ WindowInit
  BY DEF Init
<1>2. [Next]_vars => [CaptureNext]_captureVars
  BY DEF Next, vars
<1>3. [Next]_vars => [AndroidNext]_androidVars
  BY DEF Next, vars
<1>4. [Next]_vars => [ExtensionNext]_extensionVars
  BY DEF Next, vars
<1>5. [Next]_vars => [OverlayNext]_overlayVars
  BY DEF Next, vars
<1>6. [Next]_vars => [WindowNext]_windowVars
  BY DEF Next, vars
<1> QED
  BY <1>1, <1>2, <1>3, <1>4, <1>5, <1>6, PTL DEF Spec

-----------------------------------------------------------------------------
(* The capture.                                                             *)

\* A stream delivers only while core and stream are set, from the moment start
\* has connected it to the moment stop has destroyed it, and the loop's thread
\* holds a buffer only of such a stream.
CaptureInv ==
  /\ buffer # None => loop_thread /\ connected
  /\ \A f \in lent : f.size = format /\ buffer \in DataTypes \ {"empty"}
  /\ connected => {"core", "stream"} \subseteq held
  /\ caller = "connect" => ~connected
  /\ caller = "idle" /\ ~is_running => ~connected
  /\ caller \in {"stopping", "destroy"} => ~is_running
  /\ caller = "destroy" => ~loop_thread /\ buffer = None
  /\ stopped => /\ caller = "idle" /\ ~is_running /\ ~loop_thread
                /\ ~connected /\ held = {}

\* A call of the caller keeps it (pipewire_capture.cpp).
LEMMA CallerStep ==
  ASSUME CaptureInv,
         InitCapture \/ StartLoop \/ StartConnect \/ StartReturns
           \/ StopBegins \/ StopLoop \/ StopDestroys
  PROVE  CaptureInv'
<1> USE DEF CaptureInv, streamVars
<1>1. CASE InitCapture
  BY <1>1 DEF InitCapture, DataTypes, None
<1>2. CASE StartLoop
  BY <1>2 DEF StartLoop
<1>3. CASE StartConnect
  BY <1>3 DEF StartConnect
<1>4. CASE StartReturns
  BY <1>4 DEF StartReturns
<1>5. CASE StopBegins
  BY <1>5 DEF StopBegins
<1>6. CASE StopLoop
  BY <1>6 DEF StopLoop
<1>7. CASE StopDestroys
  BY <1>7 DEF StopDestroys
<1> QED
  BY <1>1, <1>2, <1>3, <1>4, <1>5, <1>6, <1>7

\* So does a callback of the loop's thread.
LEMMA CallbackStep ==
  ASSUME CaptureInv, on_stream_param_changed \/ ProcessDequeues \/ ProcessQueues
  PROVE  CaptureInv'
<1> USE DEF CaptureInv, callerVars, DataTypes, None
<1>1. CASE on_stream_param_changed
  BY <1>1 DEF on_stream_param_changed, LoopRuns
<1>2. CASE ProcessDequeues
  BY <1>2 DEF ProcessDequeues, LoopRuns
<1>3. CASE ProcessQueues
  BY <1>3 DEF ProcessQueues
<1> QED
  BY <1>1, <1>2, <1>3

\* A lent frame stays valid while the callback works on it, and a stop that has
\* returned leaves no callback at work and nothing behind, although stop takes
\* no lock (pipewire_capture.cpp).
THEOREM CaptureStaysSafe == Spec => []CaptureIsSafe
<1>1. CaptureInit => CaptureInv
  BY DEF CaptureInit, CaptureInv
<1>2. CaptureInv /\ [CaptureNext]_captureVars => CaptureInv'
  <2> SUFFICES ASSUME CaptureInv, [CaptureNext]_captureVars PROVE CaptureInv'
    OBVIOUS
  <2>1. CASE UNCHANGED captureVars
    BY <2>1 DEF captureVars, callerVars, streamVars, CaptureInv
  <2> QED
    BY <2>1, CallerStep, CallbackStep DEF CaptureNext
<1>3. CaptureInv => CaptureIsSafe
  BY DEF CaptureInv, CaptureIsSafe, FrameIsLent, StopIsFinal
<1> QED
  BY <1>1, <1>2, <1>3, Parts, PTL

-----------------------------------------------------------------------------
(* The Android application.                                                 *)

\* A frame that is still being detected when the capture has stopped was in the
\* works when it did.
UncoverInv == StoppedUncovers /\ (~capture /\ frame # NoFrame => late)

\* No step covers the screen of a stopped capture but one that was in the works.
LEMMA UncoverStep ==
  ASSUME UncoverInv, [AndroidNext]_androidVars
  PROVE  UncoverInv'
<1> USE DEF UncoverInv, StoppedUncovers
<1>1. CASE UNCHANGED captureServiceVars
  BY <1>1 DEF captureServiceVars
<1>2. CASE ProcessDies
  BY <1>2 DEF ProcessDies
<1>3. CASE StartCapture \/ OverlayBound \/ FrameBegins
  BY <1>3 DEF StartCapture, OverlayBound, FrameBegins
<1>4. CASE StopCapture
  BY <1>4 DEF StopCapture
<1>5. CASE FrameEnds
  BY <1>5 DEF FrameEnds
<1> QED
  BY <1>1, <1>2, <1>3, <1>4, <1>5
     DEF AndroidNext, androidVars, startFullDefense, stopFullDefense, ActivityRecreated,
         DialogAnswered, startVpn, stopVpn

\* There is one VPN thread while the service runs and none else.
LEMMA VpnStep ==
  ASSUME VpnIsWhole, [AndroidNext]_androidVars
  PROVE  VpnIsWhole'
<1> USE DEF VpnIsWhole
<1>1. CASE UNCHANGED vpnVars
  BY <1>1 DEF vpnVars
<1>2. CASE ProcessDies
  BY <1>2 DEF ProcessDies
<1>3. CASE startVpn
  BY <1>1, <1>3 DEF startVpn
<1>4. CASE stopVpn
  BY <1>4 DEF stopVpn
<1> QED
  BY <1>1, <1>2, <1>3, <1>4
     DEF AndroidNext, androidVars, startFullDefense, stopFullDefense, ActivityRecreated,
         DialogAnswered, StartCapture, StopCapture, OverlayBound, FrameBegins, FrameEnds

(***************************************************************************)
(* The intents that wait foretell the projections and whether there is a   *)
(* capture service: f[i] and g[i] are what they will be after i of them.   *)
(* A capture is asked for only while the activity takes none to run, and   *)
(* stopped only while it takes one to run, so the number never gets past   *)
(* one more than the times it has lost track.                              *)
(***************************************************************************)
Actions == {"START_VPN", "STOP_VPN", "START_CAPTURE", "STOP_CAPTURE"}

Moves(action, p, q, c, d) ==
  CASE action = "START_CAPTURE" -> q = p + 1 /\ d = TRUE
    [] action = "STOP_CAPTURE" -> c = TRUE /\ q = p - 1 /\ d = FALSE
    [] OTHER -> q = p /\ d = c

Foretells(s, f, g, limit) ==
  /\ f \in [0 .. Len(s) -> Int] /\ g \in [0 .. Len(s) -> BOOLEAN]
  /\ \A i \in 1 .. Len(s) : Moves(s[i], f[i - 1], f[i], g[i - 1], g[i])
  /\ \A i \in 0 .. Len(s) : f[i] <= limit

\* There are p projections now, and a service if c; there will be q and d.
Foretold(s, p, c, q, d, limit) ==
  \E f, g : /\ Foretells(s, f, g, limit)
            /\ f[0] = p /\ g[0] = c /\ f[Len(s)] = q /\ g[Len(s)] = d

ProjectionInv ==
  /\ intents \in Seq(Actions) /\ deaths \in Nat
  /\ isDefenseRunning \in BOOLEAN /\ capture \in BOOLEAN /\ projections \in Int
  /\ "capture" \in dialogs => ~isDefenseRunning
  /\ \E q \in Int, d \in BOOLEAN :
       /\ Foretold(intents, projections, capture, q, d, 1 + deaths)
       /\ q <= deaths + (IF isDefenseRunning THEN 1 ELSE 0)
       /\ isDefenseRunning => d = TRUE

\* One more intent is foretold by one more value.
LEMMA AppendForetold ==
  ASSUME NEW s \in Seq(Actions), NEW p, NEW c, NEW q, NEW d, NEW limit \in Int,
         Foretold(s, p, c, q, d, limit),
         NEW action \in Actions, NEW q1 \in Int, NEW d1 \in BOOLEAN,
         Moves(action, q, q1, d, d1), q1 <= limit
  PROVE  Foretold(Append(s, action), p, c, q1, d1, limit)
<1> PICK f, g : /\ Foretells(s, f, g, limit)
                /\ f[0] = p /\ g[0] = c /\ f[Len(s)] = q /\ g[Len(s)] = d
  BY DEF Foretold
<1> DEFINE n == Len(s)
           f1 == [i \in 0 .. n + 1 |-> IF i <= n THEN f[i] ELSE q1]
           g1 == [i \in 0 .. n + 1 |-> IF i <= n THEN g[i] ELSE d1]
<1>1. /\ Len(Append(s, action)) = n + 1 /\ n \in Nat
      /\ \A i \in 1 .. n : Append(s, action)[i] = s[i]
      /\ Append(s, action)[n + 1] = action
  BY AppendProperties, LenProperties
<1>2. /\ f \in [0 .. n -> Int] /\ g \in [0 .. n -> BOOLEAN]
      /\ \A i \in 1 .. n : Moves(s[i], f[i - 1], f[i], g[i - 1], g[i])
      /\ \A i \in 0 .. n : f[i] <= limit
  BY DEF Foretells
<1> HIDE DEF n
<1>3. /\ \A i \in 0 .. n : f1[i] = f[i] /\ g1[i] = g[i]
      /\ f1[n + 1] = q1 /\ g1[n + 1] = d1
      /\ f1 \in [0 .. n + 1 -> Int] /\ g1 \in [0 .. n + 1 -> BOOLEAN]
  BY <1>1, <1>2
<1> HIDE DEF f1, g1
<1>4. \A i \in 1 .. n + 1 : Moves(Append(s, action)[i], f1[i - 1], f1[i], g1[i - 1], g1[i])
  <2> TAKE i \in 1 .. n + 1
  <2>1. CASE i \in 1 .. n
    <3>1. i - 1 \in 0 .. n /\ i \in 0 .. n
      BY <1>1, <2>1
    <3> QED
      BY <1>1, <1>2, <1>3, <2>1, <3>1
  <2>2. CASE i = n + 1
    <3>1. i - 1 = n /\ n \in 0 .. n
      BY <1>1, <2>2
    <3>2. f1[i - 1] = f[n] /\ g1[i - 1] = g[n]
      BY <1>3, <3>1
    <3> QED
      BY <1>1, <1>3, <2>2, <3>2 DEF n
  <2> QED
    BY <1>1, <2>1, <2>2
<1>5. \A i \in 0 .. n + 1 : f1[i] <= limit
  <2> TAKE i \in 0 .. n + 1
  <2>1. CASE i \in 0 .. n
    BY <1>2, <1>3, <2>1
  <2>2. CASE i = n + 1
    BY <1>3, <2>2
  <2> QED
    BY <1>1, <2>1, <2>2
<1>6. Foretells(Append(s, action), f1, g1, limit)
  BY <1>1, <1>3, <1>4, <1>5 DEF Foretells
<1>7. f1[0] = p /\ g1[0] = c
  BY <1>1, <1>3
<1> QED
  BY <1>1, <1>3, <1>6, <1>7 DEF n, Foretold

\* Once the first intent is given, what it moves is what was foretold.
LEMMA TailForetold ==
  ASSUME NEW s \in Seq(Actions), s # <<>>, NEW p, NEW c, NEW q, NEW d, NEW limit \in Int,
         Foretold(s, p, c, q, d, limit)
  PROVE  \E p1 \in Int, c1 \in BOOLEAN :
           Moves(Head(s), p, p1, c, c1) /\ Foretold(Tail(s), p1, c1, q, d, limit)
<1> PICK f, g : /\ Foretells(s, f, g, limit)
                /\ f[0] = p /\ g[0] = c /\ f[Len(s)] = q /\ g[Len(s)] = d
  BY DEF Foretold
<1> DEFINE n == Len(s)
           f1 == [i \in 0 .. n - 1 |-> f[i + 1]]
           g1 == [i \in 0 .. n - 1 |-> g[i + 1]]
<1>1. /\ n \in Nat \ {0} /\ Len(Tail(s)) = n - 1 /\ Head(s) = s[1]
      /\ \A i \in 1 .. n - 1 : Tail(s)[i] = s[i + 1]
  BY HeadTailProperties, LenProperties, EmptySeq
<1>2. /\ f \in [0 .. n -> Int] /\ g \in [0 .. n -> BOOLEAN]
      /\ \A i \in 1 .. n : Moves(s[i], f[i - 1], f[i], g[i - 1], g[i])
      /\ \A i \in 0 .. n : f[i] <= limit
  BY DEF Foretells
<1> HIDE DEF n
<1>3. /\ \A i \in 0 .. n - 1 : f1[i] = f[i + 1] /\ g1[i] = g[i + 1]
      /\ f1 \in [0 .. n - 1 -> Int] /\ g1 \in [0 .. n - 1 -> BOOLEAN]
  BY <1>1, <1>2
<1> HIDE DEF f1, g1
<1>4. Moves(Head(s), f[0], f[1], g[0], g[1]) /\ f[1] \in Int /\ g[1] \in BOOLEAN
  <2>1. 1 \in 1 .. n /\ 1 \in 0 .. n /\ 1 - 1 = 0
    BY <1>1
  <2> QED
    BY <1>1, <1>2, <2>1
<1>5. ASSUME NEW i \in 1 .. n - 1
      PROVE  Moves(Tail(s)[i], f1[i - 1], f1[i], g1[i - 1], g1[i])
  <2>1. /\ i \in 0 .. n - 1 /\ i - 1 \in 0 .. n - 1 /\ i + 1 \in 1 .. n
        /\ i - 1 + 1 = i /\ i + 1 - 1 = i
    BY <1>1
  <2>2. Moves(s[i + 1], f[i], f[i + 1], g[i], g[i + 1])
    BY <1>2, <2>1
  <2>3. f1[i - 1] = f[i] /\ f1[i] = f[i + 1] /\ g1[i - 1] = g[i] /\ g1[i] = g[i + 1]
    BY <1>3, <2>1
  <2> QED
    BY <1>1, <2>2, <2>3
<1>6. \A i \in 0 .. n - 1 : f1[i] <= limit
  BY <1>1, <1>2, <1>3
<1>7. Foretells(Tail(s), f1, g1, limit)
  BY <1>1, <1>3, <1>5, <1>6 DEF Foretells
<1>8. f1[0] = f[1] /\ g1[0] = g[1] /\ f1[n - 1] = f[n] /\ g1[n - 1] = g[n]
  BY <1>1, <1>3
<1>9. Foretold(Tail(s), f[1], g[1], q, d, limit)
  BY <1>1, <1>7, <1>8 DEF n, Foretold
<1> QED
  BY <1>4, <1>9

\* Two intents are queued one after the other.
LEMMA AppendTwo ==
  ASSUME NEW S, NEW s \in Seq(S), NEW a \in S, NEW b \in S
  PROVE  s \o <<a, b>> = Append(Append(s, a), b)
<1> DEFINE t == <<a, b>>
<1>1. t \in Seq(S) /\ Len(t) = 2 /\ t[1] = a /\ t[2] = b
  OBVIOUS
<1> HIDE DEF t
<1>2. /\ s \o t \in Seq(S) /\ Len(s) \in Nat /\ Len(s \o t) = Len(s) + 2
      /\ \A i \in 1 .. Len(s) + 2 : (s \o t)[i] = IF i <= Len(s) THEN s[i] ELSE t[i - Len(s)]
  <2>1. /\ s \o t \in Seq(S) /\ Len(s \o t) = Len(s) + Len(t)
        /\ \A i \in 1 .. Len(s) + Len(t) :
             (s \o t)[i] = IF i <= Len(s) THEN s[i] ELSE t[i - Len(s)]
    BY <1>1, ConcatProperties
  <2> QED
    BY <1>1, <2>1, LenProperties
<1>3. /\ Append(s, a) \in Seq(S) /\ Len(Append(s, a)) = Len(s) + 1
      /\ \A i \in 1 .. Len(s) : Append(s, a)[i] = s[i]
      /\ Append(s, a)[Len(s) + 1] = a
  BY AppendProperties
<1> DEFINE u == Append(Append(s, a), b)
<1>4. /\ u \in Seq(S) /\ Len(u) = Len(s) + 2
      /\ \A i \in 1 .. Len(s) + 1 : u[i] = Append(s, a)[i]
      /\ u[Len(s) + 2] = b
  <2>1. /\ u \in Seq(S) /\ Len(u) = Len(Append(s, a)) + 1
        /\ \A i \in 1 .. Len(Append(s, a)) : u[i] = Append(s, a)[i]
        /\ u[Len(Append(s, a)) + 1] = b
    BY <1>3, AppendProperties
  <2> QED
    BY <1>2, <1>3, <2>1
<1> HIDE DEF u
<1>5. \A i \in 1 .. Len(s) + 2 : (s \o t)[i] = u[i]
  BY <1>1, <1>2, <1>3, <1>4, SMTT(40)
<1>6. s \o t = u
  BY <1>2, <1>4, <1>5, SeqEqual
<1> QED
  BY <1>6 DEF t, u

\* What startService queues is foretold as well.
LEMMA SentForetold ==
  ASSUME ProjectionInv, NEW sent \in {<<>>, <<"START_VPN">>, <<"START_CAPTURE">>,
                                       <<"STOP_CAPTURE", "STOP_VPN">>},
         startService(sent),
         sent = <<"START_CAPTURE">> => ~isDefenseRunning /\ isDefenseRunning' = TRUE,
         sent = <<"STOP_CAPTURE", "STOP_VPN">> => isDefenseRunning /\ isDefenseRunning' = FALSE,
         sent \in {<<>>, <<"START_VPN">>} => UNCHANGED isDefenseRunning,
         "capture" \in dialogs' => ~isDefenseRunning',
         UNCHANGED <<deaths, capture, projections>>
  PROVE  ProjectionInv'
<1>0. PICK q \in Int, d \in BOOLEAN :
        /\ Foretold(intents, projections, capture, q, d, 1 + deaths)
        /\ q <= deaths + (IF isDefenseRunning THEN 1 ELSE 0)
        /\ isDefenseRunning => d = TRUE
  BY DEF ProjectionInv
<1>1. /\ intents \in Seq(Actions) /\ deaths \in Nat /\ isDefenseRunning \in BOOLEAN
      /\ 1 + deaths \in Int
  BY DEF ProjectionInv
<1>2. intents' = intents \o sent
  BY DEF startService
<1> DEFINE Known(s, running) ==
             \E q1 \in Int, d1 \in BOOLEAN :
               /\ Foretold(s, projections, capture, q1, d1, 1 + deaths)
               /\ q1 <= deaths + (IF running THEN 1 ELSE 0)
               /\ running => d1 = TRUE
<1>3. SUFFICES /\ intents' \in Seq(Actions) /\ isDefenseRunning' \in BOOLEAN
               /\ Known(intents', isDefenseRunning')
  BY DEF ProjectionInv
<1>4. CASE sent = <<>>
  <2>1. intents' = intents /\ isDefenseRunning' = isDefenseRunning
    BY <1>1, <1>2, <1>4, ConcatEmptySeq
  <2> QED
    BY <1>0, <1>1, <2>1
<1>5. CASE sent = <<"START_VPN">>
  <2>1. /\ intents' = Append(intents, "START_VPN") /\ "START_VPN" \in Actions
        /\ isDefenseRunning' = isDefenseRunning
    BY <1>1, <1>2, <1>5, AppendIsConcat DEF Actions
  <2>2. q <= 1 + deaths /\ Moves("START_VPN", q, q, d, d)
    BY <1>0, <1>1 DEF Moves
  <2>3. Foretold(intents', projections, capture, q, d, 1 + deaths)
    BY <1>0, <1>1, <2>1, <2>2, AppendForetold
  <2> QED
    BY <1>0, <1>1, <2>1, <2>3, AppendProperties
<1>6. CASE sent = <<"START_CAPTURE">>
  <2>1. /\ intents' = Append(intents, "START_CAPTURE") /\ "START_CAPTURE" \in Actions
        /\ ~isDefenseRunning /\ isDefenseRunning' = TRUE
    BY <1>1, <1>2, <1>6, AppendIsConcat DEF Actions
  <2>2. q + 1 \in Int /\ q + 1 <= 1 + deaths /\ Moves("START_CAPTURE", q, q + 1, d, TRUE)
    BY <1>0, <1>1, <2>1 DEF Moves
  <2>3. Foretold(intents', projections, capture, q + 1, TRUE, 1 + deaths)
    BY <1>0, <1>1, <2>1, <2>2, AppendForetold
  <2>4. q + 1 <= deaths + (IF isDefenseRunning' THEN 1 ELSE 0)
    BY <1>1, <2>1, <2>2
  <2>5. Known(intents', isDefenseRunning')
    BY <2>2, <2>3, <2>4
  <2> QED
    BY <1>1, <2>1, <2>5, AppendProperties
<1>7. CASE sent = <<"STOP_CAPTURE", "STOP_VPN">>
  <2> DEFINE mid == Append(intents, "STOP_CAPTURE")
  <2>1. /\ intents' = Append(mid, "STOP_VPN") /\ mid \in Seq(Actions)
        /\ "STOP_CAPTURE" \in Actions /\ "STOP_VPN" \in Actions
        /\ isDefenseRunning /\ isDefenseRunning' = FALSE
    BY <1>1, <1>2, <1>7, AppendProperties, AppendTwo DEF Actions
  <2>2. /\ q - 1 \in Int /\ q - 1 <= 1 + deaths /\ q - 1 <= deaths
        /\ Moves("STOP_CAPTURE", q, q - 1, d, FALSE)
        /\ Moves("STOP_VPN", q - 1, q - 1, FALSE, FALSE)
    BY <1>0, <1>1, <2>1 DEF Moves
  <2>3. Foretold(mid, projections, capture, q - 1, FALSE, 1 + deaths)
    BY <1>0, <1>1, <2>1, <2>2, AppendForetold
  <2> HIDE DEF mid
  <2>4. Foretold(intents', projections, capture, q - 1, FALSE, 1 + deaths)
    BY <1>1, <2>1, <2>2, <2>3, AppendForetold
  <2>5. q - 1 <= deaths + (IF isDefenseRunning' THEN 1 ELSE 0)
    BY <1>1, <2>1, <2>2
  <2>6. Known(intents', isDefenseRunning')
    BY <2>1, <2>2, <2>4, <2>5
  <2> QED
    BY <2>1, <2>6, AppendProperties
<1> QED
  BY <1>4, <1>5, <1>6, <1>7


\* An intent that is given moves what it was foretold to move.
LEMMA GivenForetold ==
  ASSUME ProjectionInv, NEW action \in Actions, Given(action),
         UNCHANGED <<deaths, isDefenseRunning, dialogs>>,
         \A p1 \in Int, c1 \in BOOLEAN :
           Moves(action, projections, p1, capture, c1) => projections' = p1 /\ capture' = c1
  PROVE  ProjectionInv'
<1>1. PICK q \in Int, d \in BOOLEAN :
        /\ Foretold(intents, projections, capture, q, d, 1 + deaths)
        /\ q <= deaths + (IF isDefenseRunning THEN 1 ELSE 0)
        /\ isDefenseRunning => d = TRUE
  BY DEF ProjectionInv
<1>2. /\ intents \in Seq(Actions) /\ intents # <<>> /\ Head(intents) = action
      /\ intents' = Tail(intents) /\ 1 + deaths \in Int
  BY DEF ProjectionInv, Given
<1>3. PICK p1 \in Int, c1 \in BOOLEAN :
        /\ Moves(action, projections, p1, capture, c1)
        /\ Foretold(intents', p1, c1, q, d, 1 + deaths)
  BY <1>1, <1>2, TailForetold
<1>4. projections' = p1 /\ capture' = c1 /\ intents' \in Seq(Actions)
  BY <1>2, <1>3, HeadTailProperties
<1> QED
  BY <1>1, <1>3, <1>4 DEF ProjectionInv

\* A process or an activity that is new takes nothing to run.
LEMMA DeathForetold ==
  ASSUME ProjectionInv, ActivityRecreated \/ ProcessDies
  PROVE  ProjectionInv'
<1>0. deaths \in Nat /\ deaths' = deaths + 1 /\ 1 + deaths \in Int /\ 1 + deaths' \in Int
      /\ isDefenseRunning' = FALSE
  BY DEF ProjectionInv, ActivityRecreated, ProcessDies
<1>1. CASE ActivityRecreated
  <2>1. PICK q \in Int, d \in BOOLEAN :
          Foretold(intents, projections, capture, q, d, 1 + deaths)
    BY DEF ProjectionInv
  <2>2. PICK f, g : /\ Foretells(intents, f, g, 1 + deaths)
                    /\ f[0] = projections /\ g[0] = capture
                    /\ f[Len(intents)] = q /\ g[Len(intents)] = d
    BY <2>1 DEF Foretold
  <2>3. /\ Foretells(intents, f, g, 1 + deaths') /\ q <= 1 + deaths
    <3>1. /\ \A i \in 0 .. Len(intents) : f[i] \in Int /\ f[i] <= 1 + deaths
          /\ Len(intents) \in Nat
      BY <2>2, LenProperties DEF Foretells, ProjectionInv
    <3>2. \A i \in 0 .. Len(intents) : f[i] <= 1 + deaths'
      BY <1>0, <3>1
    <3> QED
      BY <2>2, <3>1, <3>2 DEF Foretells
  <2>4. Foretold(intents, projections, capture, q, d, 1 + deaths')
    BY <2>2, <2>3 DEF Foretold
  <2>5. /\ UNCHANGED <<intents, projections, capture, dialogs>>
    BY <1>1 DEF ActivityRecreated, captureServiceVars
  <2>6. q <= deaths' + (IF isDefenseRunning' THEN 1 ELSE 0)
    BY <1>0, <2>3
  <2>7. \E q1 \in Int, d1 \in BOOLEAN :
          /\ Foretold(intents', projections', capture', q1, d1, 1 + deaths')
          /\ q1 <= deaths' + (IF isDefenseRunning' THEN 1 ELSE 0)
          /\ isDefenseRunning' => d1 = TRUE
    <3>1. Foretold(intents', projections', capture', q, d, 1 + deaths')
      BY <2>4, <2>5
    <3>2. isDefenseRunning' => d = TRUE
      BY <1>0
    <3> QED
      BY <2>1, <2>6, <3>1, <3>2
  <2>8. /\ intents' \in Seq(Actions) /\ deaths' \in Nat /\ isDefenseRunning' \in BOOLEAN
        /\ capture' \in BOOLEAN /\ projections' \in Int
        /\ "capture" \in dialogs' => ~isDefenseRunning'
    <3>1. isDefenseRunning' \in BOOLEAN /\ ~isDefenseRunning'
      BY <1>0
    <3>2. deaths' \in Nat
      BY <1>0
    <3>3. intents \in Seq(Actions) /\ capture \in BOOLEAN /\ projections \in Int
      BY DEF ProjectionInv
    <3>4. intents' \in Seq(Actions) /\ capture' \in BOOLEAN /\ projections' \in Int
      BY <2>5, <3>3
    <3> QED
      BY <3>1, <3>2, <3>4
  <2> QED
    BY <2>7, <2>8 DEF ProjectionInv
<1>2. CASE ProcessDies
  <2>1. /\ projections' = 0 /\ capture' = FALSE /\ dialogs' = {}
        /\ intents' \in {<<>>, <<"START_VPN">>}
    BY <1>2 DEF ProcessDies
  <2>2. Foretold(<<>>, 0, FALSE, 0, FALSE, 1 + deaths')
    <3> DEFINE f == [i \in 0 .. 0 |-> 0]
               g == [i \in 0 .. 0 |-> FALSE]
    <3>1. Len(<<>>) = 0
      BY EmptySeq
    <3>2. Foretells(<<>>, f, g, 1 + deaths')
      BY <1>0, <3>1 DEF Foretells
    <3>3. f[0] = 0 /\ g[0] = FALSE
      OBVIOUS
    <3> QED
      BY <3>1, <3>2, <3>3 DEF Foretold
  <2>3. <<>> \in Seq(Actions) /\ "START_VPN" \in Actions
    BY EmptySeq DEF Actions
  <2>4. Foretold(Append(<<>>, "START_VPN"), 0, FALSE, 0, FALSE, 1 + deaths')
    <3> DEFINE s == <<>>
               action == "START_VPN"
    <3>1. Moves(action, 0, 0, FALSE, FALSE) /\ 0 <= 1 + deaths'
      BY <1>0 DEF Moves
    <3>2. s \in Seq(Actions) /\ action \in Actions
      BY <2>3
    <3>3. Foretold(s, 0, FALSE, 0, FALSE, 1 + deaths')
      BY <2>2
    <3>4. 0 \in Int /\ FALSE \in BOOLEAN
      OBVIOUS
    <3> HIDE DEF s, action
    <3>5. Foretold(Append(s, action), 0, FALSE, 0, FALSE, 1 + deaths')
      BY <1>0, <3>1, <3>2, <3>3, <3>4, AppendForetold
    <3> QED
      BY <3>5 DEF s, action
  <2>5. Append(<<>>, "START_VPN") = <<"START_VPN">> /\ <<"START_VPN">> \in Seq(Actions)
    BY <2>3
  <2>6. Foretold(intents', 0, FALSE, 0, FALSE, 1 + deaths') /\ intents' \in Seq(Actions)
    BY <2>1, <2>2, <2>3, <2>4, <2>5
  <2>7. 0 <= deaths' + (IF isDefenseRunning' THEN 1 ELSE 0)
    BY <1>0
  <2>8. \E q1 \in Int, d1 \in BOOLEAN :
          /\ Foretold(intents', projections', capture', q1, d1, 1 + deaths')
          /\ q1 <= deaths' + (IF isDefenseRunning' THEN 1 ELSE 0)
          /\ isDefenseRunning' => d1 = TRUE
    <3>1. Foretold(intents', projections', capture', 0, FALSE, 1 + deaths')
      BY <2>1, <2>6
    <3>2. 0 \in Int /\ FALSE \in BOOLEAN /\ (isDefenseRunning' => FALSE = TRUE)
      BY <1>0
    <3> QED
      BY <2>7, <3>1, <3>2
  <2>9. /\ deaths' \in Nat /\ isDefenseRunning' \in BOOLEAN
        /\ capture' \in BOOLEAN /\ projections' \in Int
        /\ "capture" \in dialogs' => ~isDefenseRunning'
    <3>1. isDefenseRunning' \in BOOLEAN /\ ~isDefenseRunning'
      BY <1>0
    <3>2. deaths' \in Nat /\ projections' \in Int
      BY <1>0, <2>1
    <3>3. capture' \in BOOLEAN
      BY <2>1
    <3> QED
      BY <3>1, <3>2, <3>3
  <2> QED
    BY <2>6, <2>8, <2>9 DEF ProjectionInv
<1> QED
  BY <1>1, <1>2

\* Every step of the application keeps the number of projections foretold.
LEMMA ProjectionStep ==
  ASSUME ProjectionInv, [AndroidNext]_androidVars
  PROVE  ProjectionInv'
<1>0. isDefenseRunning \in BOOLEAN /\ capture \in BOOLEAN /\ projections \in Int
      /\ ("capture" \in dialogs => ~isDefenseRunning)
  BY DEF ProjectionInv
<1>1. CASE startFullDefense
  <2>1. PICK vpn \in {"off", "prepared", "asked"} :
          startService(IF vpn = "prepared" THEN <<"START_VPN">> ELSE <<>>)
    BY <1>1 DEF startFullDefense
  <2>2. /\ ~isDefenseRunning
        /\ UNCHANGED <<isDefenseRunning, deaths, capture, projections>>
    BY <1>1 DEF startFullDefense, captureServiceVars
  <2>3. PICK sent \in {<<>>, <<"START_VPN">>} : startService(sent)
    BY <2>1
  <2>4. <<>> # <<"START_CAPTURE">> /\ <<"START_VPN">> # <<"START_CAPTURE">>
    OBVIOUS
  <2>5. <<>> # <<"STOP_CAPTURE", "STOP_VPN">> /\ <<"START_VPN">> # <<"STOP_CAPTURE", "STOP_VPN">>
    OBVIOUS
  <2> QED
    BY <2>2, <2>3, <2>4, <2>5, SentForetold
<1>2. ASSUME NEW dialog \in {"vpn", "capture"}, DialogAnswered(dialog) PROVE ProjectionInv'
  <2>1. /\ dialog \in dialogs /\ dialogs' = dialogs \ {dialog}
        /\ UNCHANGED <<deaths, capture, projections>>
    BY <1>2 DEF DialogAnswered, captureServiceVars
  <2>2. CASE startService(<<>>) /\ UNCHANGED isDefenseRunning
    <3>1. <<>> # <<"START_CAPTURE">> /\ <<>> # <<"STOP_CAPTURE", "STOP_VPN">>
      OBVIOUS
    <3> QED
      BY <1>0, <2>1, <2>2, <3>1, SentForetold
  <2>3. CASE dialog = "vpn" /\ startService(<<"START_VPN">>) /\ UNCHANGED isDefenseRunning
    <3>1. /\ <<"START_VPN">> # <<"START_CAPTURE">>
          /\ <<"START_VPN">> # <<"STOP_CAPTURE", "STOP_VPN">>
      OBVIOUS
    <3> QED
      BY <1>0, <2>1, <2>3, <3>1, SentForetold
  <2>4. CASE /\ dialog = "capture" /\ startService(<<"START_CAPTURE">>)
             /\ isDefenseRunning' = TRUE
    <3>1. /\ <<"START_CAPTURE">> # <<"STOP_CAPTURE", "STOP_VPN">>
          /\ <<"START_CAPTURE">> \notin {<<>>, <<"START_VPN">>}
      OBVIOUS
    <3>2. ~isDefenseRunning /\ "capture" \notin dialogs'
      BY <1>0, <2>1, <2>4
    <3> QED
      BY <1>0, <2>1, <2>4, <3>1, <3>2, SentForetold
  <2> QED
    BY <1>0, <1>2, <2>2, <2>3, <2>4 DEF DialogAnswered
<1>3. CASE stopFullDefense
  <2>1. /\ isDefenseRunning /\ isDefenseRunning' = FALSE
        /\ startService(<<"STOP_CAPTURE", "STOP_VPN">>)
        /\ UNCHANGED <<deaths, capture, projections, dialogs>>
    BY <1>3 DEF stopFullDefense, captureServiceVars
  <2>2. /\ <<"STOP_CAPTURE", "STOP_VPN">> # <<"START_CAPTURE">>
        /\ <<"STOP_CAPTURE", "STOP_VPN">> \notin {<<>>, <<"START_VPN">>}
    OBVIOUS
  <2> QED
    BY <2>1, <2>2, SentForetold
<1>4. CASE ActivityRecreated \/ ProcessDies
  BY <1>4, DeathForetold
<1>5. CASE StartCapture
  BY <1>0, <1>5, GivenForetold DEF StartCapture, activityVars, Moves, Actions
<1>6. CASE StopCapture
  BY <1>0, <1>6, GivenForetold DEF StopCapture, activityVars, Moves, Actions
<1>7. CASE startVpn
  BY <1>0, <1>7, GivenForetold DEF startVpn, activityVars, captureServiceVars, Moves, Actions
<1>8. CASE stopVpn
  BY <1>0, <1>8, GivenForetold DEF stopVpn, activityVars, captureServiceVars, Moves, Actions
<1>9. CASE UNCHANGED <<activityVars, intents, capture, projections>>
  BY <1>9 DEF activityVars, ProjectionInv
<1> QED
  BY <1>1, <1>2, <1>3, <1>4, <1>5, <1>6, <1>7, <1>8, <1>9
     DEF AndroidNext, OverlayBound, FrameBegins, FrameEnds, androidVars, captureServiceVars

\* On Android a stop of the capture leaves nothing covered but what was in the
\* works, a projection goes on beyond the first only when the activity has lost
\* track of what runs, and the VPN service never runs twice or in part.
THEOREM AndroidStaysClean == Spec => []AndroidStopsClean
<1> DEFINE Inv == UncoverInv /\ VpnIsWhole /\ ProjectionInv
<1>1. AndroidInit => Inv
  <2> SUFFICES ASSUME AndroidInit PROVE Inv
    OBVIOUS
  <2>1. UncoverInv /\ VpnIsWhole
    BY DEF AndroidInit, UncoverInv, StoppedUncovers, VpnIsWhole
  <2>2. intents = <<>> /\ <<>> \in Seq(Actions) /\ Len(<<>>) = 0
    BY EmptySeq DEF AndroidInit
  <2>3. Foretold(<<>>, 0, FALSE, 0, FALSE, 1 + 0)
    <3> DEFINE f == [i \in 0 .. 0 |-> 0]
               g == [i \in 0 .. 0 |-> FALSE]
    <3>1. Foretells(<<>>, f, g, 1 + 0)
      BY <2>2 DEF Foretells
    <3>2. f[0] = 0 /\ g[0] = FALSE
      OBVIOUS
    <3> QED
      BY <2>2, <3>1, <3>2 DEF Foretold
  <2>4. \E q \in Int, d \in BOOLEAN :
          /\ Foretold(intents, projections, capture, q, d, 1 + deaths)
          /\ q <= deaths + (IF isDefenseRunning THEN 1 ELSE 0)
          /\ isDefenseRunning => d = TRUE
    <3>1. Foretold(intents, projections, capture, 0, FALSE, 1 + deaths)
      BY <2>2, <2>3 DEF AndroidInit
    <3>2. /\ 0 \in Int /\ FALSE \in BOOLEAN /\ (isDefenseRunning => FALSE = TRUE)
          /\ 0 <= deaths + (IF isDefenseRunning THEN 1 ELSE 0)
      BY DEF AndroidInit
    <3> QED
      BY <3>1, <3>2
  <2>5. ProjectionInv
    <3>1. /\ isDefenseRunning \in BOOLEAN /\ capture \in BOOLEAN
          /\ "capture" \in dialogs => ~isDefenseRunning
      BY DEF AndroidInit
    <3>2. deaths \in Nat /\ projections \in Int
      BY DEF AndroidInit
    <3>3. intents \in Seq(Actions)
      BY <2>2
    <3> QED
      BY <2>4, <3>1, <3>2, <3>3 DEF ProjectionInv
  <2> QED
    BY <2>1, <2>5
<1>2. Inv /\ [AndroidNext]_androidVars => Inv'
  BY UncoverStep, VpnStep, ProjectionStep
<1>3. Inv => AndroidStopsClean
  <2> SUFFICES ASSUME Inv PROVE projections <= 1 + deaths
    BY DEF AndroidStopsClean, UncoverInv, ProjectionsAreTracked
  <2>1. PICK f, g : Foretells(intents, f, g, 1 + deaths) /\ f[0] = projections
    BY DEF ProjectionInv, Foretold
  <2>2. 0 \in 0 .. Len(intents)
    BY LenProperties DEF ProjectionInv
  <2> QED
    BY <2>1, <2>2 DEF Foretells
<1> HIDE DEF Inv
<1>4. Spec => []Inv
  BY <1>1, <1>2, Parts, PTL
<1> QED
  BY <1>3, <1>4, PTL

-----------------------------------------------------------------------------
(* The browser extension.                                                   *)

Settings == [Keys -> BOOLEAN]
Changes == [key : Keys \cup {"stats"}, newValue : BOOLEAN]
Tabs == [onAdultSite : BOOLEAN, config : Settings, read : Seq(Settings), inbox : Seq(Changes),
         page : SUBSET Media, records : SUBSET Media, shielded : SUBSET Media,
         ready : BOOLEAN, fresh : SUBSET Media, observed : SUBSET Media]

\* The keys the background listens to.
Heard == {"blockAdultSites", "enforceSafeSearch", "enabled"}

\* The last change of k on its way to the background brings what is stored; if
\* there is none, the background has what is stored, unless it was never told.
Reaches(k, s, known, has, value) ==
  \/ \E i \in DOMAIN s : /\ s[i].key = k /\ s[i].newValue = value
                         /\ \A j \in DOMAIN s : j > i => s[j].key # k
  \/ /\ \A i \in DOMAIN s : s[i].key # k
     /\ known => has = value

SettingsInv ==
  /\ stored \in Settings /\ config \in Settings /\ inbox \in Seq(Changes)
  /\ told \subseteq Keys \cap Heard
  /\ \A k \in Keys : Reaches(k, inbox, k \in told, config[k], stored[k])

TotalsInv ==
  /\ loaded \in BOOLEAN /\ early \in BOOLEAN
  /\ ~early => IF loaded THEN stats = stored_stats ELSE snapshot = stored_stats

\* What a scan or the observer had to hide in a tab by its present settings.
IsDue(m, s) ==
  \/ m \notin s.records /\ Hides(m, s.config)
  \/ m \notin s.fresh /\ ScanHides(m, s.config)
  \/ m \in s.observed /\ ObserverHides(m, s.config)

HiddenInv ==
  /\ tab \in Tabs /\ stored \in Settings
  /\ tab.records \subseteq tab.page /\ tab.observed \subseteq tab.page
  /\ \A m \in tab.page : IsDue(m, tab) => m \in tab.shielded

\* One more change is the last one of its key.
LEMMA AppendReaches ==
  ASSUME NEW s \in Seq(Changes), NEW change \in Changes, NEW k \in Keys,
         NEW known, NEW has, NEW value, NEW new,
         Reaches(k, s, known, has, value),
         IF change.key = k THEN change.newValue = new ELSE new = value
  PROVE  Reaches(k, Append(s, change), known, has, new)
<1> DEFINE n == Len(s)
           t == Append(s, change)
<1>1. /\ n \in Nat /\ DOMAIN s = 1 .. n /\ DOMAIN t = 1 .. n + 1
      /\ \A i \in 1 .. n : t[i] = s[i]
      /\ t[n + 1] = change
  BY AppendProperties, LenProperties
<1> HIDE DEF n, t
<1>2. CASE change.key = k
  <2>1. /\ n + 1 \in DOMAIN t /\ t[n + 1].key = k /\ t[n + 1].newValue = new
        /\ \A j \in DOMAIN t : ~(j > n + 1)
    BY <1>1, <1>2
  <2> QED
    BY <2>1 DEF Reaches, t
<1>3. CASE change.key # k
  <2>1. CASE \A i \in DOMAIN s : s[i].key # k
    <3>1. \A i \in DOMAIN t : t[i].key # k
      BY <1>1, <1>3, <2>1
    <3> QED
      BY <1>3, <2>1, <3>1 DEF Reaches, t
  <2>2. CASE \E i \in DOMAIN s : /\ s[i].key = k /\ s[i].newValue = value
                                 /\ \A j \in DOMAIN s : j > i => s[j].key # k
    <3>1. PICK i \in DOMAIN s : /\ s[i].key = k /\ s[i].newValue = value
                                /\ \A j \in DOMAIN s : j > i => s[j].key # k
      BY <2>2
    <3>2. i \in DOMAIN t /\ t[i].key = k /\ t[i].newValue = new
      BY <1>1, <1>3, <3>1
    <3>3. \A j \in DOMAIN t : j > i => t[j].key # k
      BY <1>1, <1>3, <3>1
    <3> QED
      BY <3>2, <3>3 DEF Reaches, t
  <2> QED
    BY <2>1, <2>2 DEF Reaches
<1> QED
  BY <1>2, <1>3

\* Once the first change was looked at, the background has what it brings, if
\* it is heard.
LEMMA TailReaches ==
  ASSUME NEW s \in Seq(Changes), s # <<>>, NEW k \in Keys, NEW known, NEW has,
         NEW value, Reaches(k, s, known, has, value), NEW known1, NEW new,
         IF Head(s).key = k THEN known1 => new = Head(s).newValue
                            ELSE new = has /\ (known1 => known)
  PROVE  Reaches(k, Tail(s), known1, new, value)
<1> DEFINE n == Len(s)
           t == Tail(s)
<1>1. /\ n \in Nat \ {0} /\ DOMAIN s = 1 .. n /\ DOMAIN t = 1 .. n - 1 /\ Head(s) = s[1]
      /\ \A i \in 1 .. n - 1 : t[i] = s[i + 1]
  BY HeadTailProperties, LenProperties, EmptySeq
<1> HIDE DEF n, t
<1>2. CASE \A i \in DOMAIN s : s[i].key # k
  <2>1. \A i \in DOMAIN t : t[i].key # k
    BY <1>1, <1>2
  <2>2. Head(s).key # k
    BY <1>1, <1>2
  <2>3. known => has = value
    BY <1>2 DEF Reaches
  <2> QED
    BY <2>1, <2>2, <2>3 DEF Reaches, t
<1>3. CASE \E i \in DOMAIN s : /\ s[i].key = k /\ s[i].newValue = value
                               /\ \A j \in DOMAIN s : j > i => s[j].key # k
  <2>1. PICK i \in DOMAIN s : /\ s[i].key = k /\ s[i].newValue = value
                              /\ \A j \in DOMAIN s : j > i => s[j].key # k
    BY <1>3
  <2>2. CASE i = 1
    <3>1. \A j \in DOMAIN t : t[j].key # k
      BY <1>1, <2>1, <2>2
    <3>2. Head(s).key = k /\ Head(s).newValue = value
      BY <1>1, <2>1, <2>2
    <3> QED
      BY <3>1, <3>2 DEF Reaches, t
  <2>3. CASE i # 1
    <3>1. i - 1 \in DOMAIN t /\ t[i - 1] = s[i]
      BY <1>1, <2>1, <2>3
    <3>2. \A j \in DOMAIN t : j > i - 1 => t[j].key # k
      BY <1>1, <2>1, SMTT(40)
    <3> QED
      BY <2>1, <3>1, <3>2 DEF Reaches, t
  <2> QED
    BY <2>2, <2>3
<1> QED
  BY <1>2, <1>3 DEF Reaches

\* The background's settings keep up (background.js, popup.js).
LEMMA SettingsStep ==
  ASSUME SettingsInv, [ExtensionNext]_extensionVars
  PROVE  SettingsInv'
<1>1. ASSUME NEW key \in Toggles, PopupToggles(key)
      PROVE  SettingsInv'
  <2> DEFINE change == [key |-> key, newValue |-> ~stored[key]]
  <2>1. /\ key \in Keys /\ stored \in Settings /\ inbox \in Seq(Changes)
        /\ config \in Settings /\ told \subseteq Keys \cap Heard
    BY TogglesAssumption DEF SettingsInv
  <2>2. change \in Changes /\ change.key = key /\ change.newValue = ~stored[key]
    BY <2>1 DEF Changes, Settings
  <2>3. /\ stored' \in Settings /\ stored'[key] = ~stored[key]
        /\ \A k \in Keys \ {key} : stored'[k] = stored[k]
    BY <1>1, <2>1 DEF PopupToggles, Settings
  <2>4. /\ inbox' = Append(inbox, change)
        /\ UNCHANGED <<config, told>>
    BY <1>1 DEF PopupToggles
  <2> HIDE DEF change
  <2>5. ASSUME NEW k \in Keys
        PROVE  Reaches(k, inbox', k \in told', config'[k], stored'[k])
    <3> DEFINE known == k \in told
               known1 == k \in told'
               has == config[k]
               has1 == config'[k]
               value == stored[k]
               new == stored'[k]
    <3>1. Reaches(k, inbox, known, has, value)
      BY DEF SettingsInv
    <3>2. IF change.key = k THEN change.newValue = stored'[k] ELSE stored'[k] = stored[k]
      BY <2>2, <2>3
    <3>3. known1 = known /\ has1 = has
      BY <2>4
    <3> HIDE DEF known, known1, has, has1, value, new
    <3>4. Reaches(k, Append(inbox, change), known, has, new)
      BY <2>1, <2>2, <3>1, <3>2, AppendReaches DEF value, new
    <3>5. Reaches(k, inbox', known1, has1, new)
      BY <2>4, <3>3, <3>4
    <3> QED
      BY <3>5 DEF known1, has1, new
  <2>6. inbox' \in Seq(Changes)
    BY <2>1, <2>2, <2>4, AppendProperties
  <2> QED
    BY <2>1, <2>3, <2>4, <2>5, <2>6 DEF SettingsInv
<1>2. CASE BrowserRestarts
  <2>1. /\ config' = Defaults /\ inbox' = <<>> /\ told' = {} /\ stored' = stored
    BY <1>2 DEF BrowserRestarts, StartBackground
  <2>2. Defaults \in Settings
    BY DEF Defaults, Settings
  <2>3. \A k \in Keys : Reaches(k, inbox', k \in told', config'[k], stored'[k])
    BY <2>1 DEF Reaches
  <2> QED
    BY <2>1, <2>2, <2>3 DEF SettingsInv
<1>3. CASE BackgroundLoads
  <2>1. /\ config' = Defaults /\ told' = {} /\ UNCHANGED <<inbox, stored>>
    BY <1>3 DEF BackgroundLoads, storageVars
  <2>2. Defaults \in Settings
    BY DEF Defaults, Settings
  <2>3. \A k \in Keys : Reaches(k, inbox', k \in told', config'[k], stored'[k])
    BY <2>1 DEF Reaches, SettingsInv
  <2> QED
    BY <2>1, <2>2, <2>3 DEF SettingsInv
<1>4. CASE BackgroundIsTold
  <2> DEFINE change == Head(inbox)
  <2>1. /\ inbox \in Seq(Changes) /\ inbox # <<>> /\ inbox' = Tail(inbox)
        /\ config \in Settings /\ told \subseteq Keys \cap Heard /\ stored' = stored
        /\ stored \in Settings
    BY <1>4 DEF SettingsInv, BackgroundIsTold, storageVars
  <2>2. change \in Changes /\ inbox' \in Seq(Changes)
    BY <2>1, HeadTailProperties
  <2>3. IF change.key \in Heard
          THEN /\ config' = [config EXCEPT ![change.key] = change.newValue]
               /\ told' = told \cup {change.key}
          ELSE UNCHANGED <<config, told>>
    BY <1>4 DEF BackgroundIsTold, Heard
  <2> HIDE DEF change
  <2>4. /\ change.key \in Keys \cup {"stats"} /\ change.newValue \in BOOLEAN
        /\ "stats" \notin Heard
    BY <2>2 DEF Changes, Heard
  <2>5. config' \in Settings /\ told' \subseteq Keys \cap Heard
    BY <2>1, <2>3, <2>4 DEF Settings
  <2>6. ASSUME NEW k \in Keys
        PROVE  Reaches(k, inbox', k \in told', config'[k], stored'[k])
    <3> DEFINE known == k \in told
               known1 == k \in told'
               has == config[k]
               has1 == config'[k]
               value == stored[k]
    <3>1. Reaches(k, inbox, known, has, value)
      BY DEF SettingsInv
    <3>2. CASE change.key = k
      <4>1. known1 => has1 = change.newValue
        BY <2>1, <2>3, <2>4, <2>5, <3>2 DEF Settings
      <4> HIDE DEF known, known1, has, has1, value
      <4>2. Reaches(k, Tail(inbox), known1, has1, value)
        BY <2>1, <3>1, <3>2, <4>1, TailReaches DEF change
      <4> QED
        BY <2>1, <4>2 DEF known1, has1, value
    <3>3. CASE change.key # k
      <4>1. has1 = has /\ (known1 => known)
        BY <2>1, <2>3, <2>4, <3>3 DEF Settings
      <4> HIDE DEF known, known1, has, has1, value
      <4>2. Reaches(k, Tail(inbox), known1, has1, value)
        BY <2>1, <3>1, <3>3, <4>1, TailReaches DEF change
      <4> QED
        BY <2>1, <4>2 DEF known1, has1, value
    <3> QED
      BY <3>2, <3>3
  <2> QED
    BY <2>1, <2>2, <2>5, <2>6 DEF SettingsInv
<1>5. CASE UNCHANGED <<stored, config, inbox, told>>
  BY <1>5 DEF SettingsInv
<1> QED
  BY <1>1, <1>2, <1>3, <1>4, <1>5
     DEF ExtensionNext, BackgroundBlocks, BackgroundCounts, TabLoads, TabIsTold, Observes,
         DomContentLoaded, PageAdds, Resettle, Shield, Count, extensionVars, storageVars, backgroundVars

\* The totals are the background's, or are what its first read will bring.
LEMMA TotalsStep ==
  ASSUME TotalsInv, [ExtensionNext]_extensionVars
  PROVE  TotalsInv'
<1> USE DEF TotalsInv
<1>1. CASE BrowserRestarts
  BY <1>1 DEF BrowserRestarts, StartBackground
<1>2. CASE BackgroundLoads
  BY <1>2 DEF BackgroundLoads, storageVars
<1>3. ASSUME NEW what, Count(what), UNCHANGED loaded
      PROVE  TotalsInv'
  BY <1>3 DEF Count
<1>4. CASE UNCHANGED <<stored_stats, stats, loaded, snapshot, early>>
  BY <1>4
<1> QED
  BY <1>1, <1>2, <1>3, <1>4
     DEF ExtensionNext, BackgroundBlocks, BackgroundCounts, TabLoads, TabIsTold, Observes,
         DomContentLoaded, PageAdds, Resettle, Shield, PopupToggles, BackgroundIsTold,
         extensionVars, storageVars, backgroundVars

\* What is hidden in a page does not depend on anything else of it than whether
\* it is an adult site's.
LEMMA HidesStays ==
  ASSUME tab'.onAdultSite = tab.onAdultSite
  PROVE  \A m, c : /\ Hides(m, c)' = Hides(m, c)
                  /\ ScanHides(m, c)' = ScanHides(m, c)
                  /\ ObserverHides(m, c)' = ObserverHides(m, c)
<1>1. \A m, c : /\ Hides(m, c)' = Hides(m, c)
               /\ isSuspicious(m, c)' = isSuspicious(m, c)
  BY DEF Hides, isSuspicious
<1> QED
  BY <1>1 DEF ScanHides, ObserverHides

\* A tab that hides what it finds, if nothing else is due.
LEMMA ShieldStep ==
  ASSUME HiddenInv, NEW found \in SUBSET Media, NEW next \in Tabs,
         /\ next.page = tab.page /\ next.shielded = tab.shielded
         /\ next.onAdultSite = tab.onAdultSite
         /\ next.records \subseteq tab.page /\ next.observed \subseteq tab.page,
         \A m \in tab.page : IsDue(m, next) => m \in found \cup tab.shielded,
         Shield(found, next)
  PROVE  HiddenInv'
<1>1. /\ tab' = [next EXCEPT !.shielded = @ \cup (found \ tab.shielded)]
      /\ stored' = stored /\ stored \in Settings /\ tab \in Tabs
  BY DEF Shield, HiddenInv, storageVars
<1>2. /\ tab' \in Tabs /\ tab'.page = next.page /\ tab'.records = next.records
      /\ tab'.config = next.config /\ tab'.onAdultSite = tab.onAdultSite
      /\ tab'.fresh = next.fresh /\ tab'.observed = next.observed
      /\ tab'.shielded = tab.shielded \cup found
  BY <1>1 DEF Tabs
<1>3. ASSUME NEW m \in tab'.page, IsDue(m, tab)' PROVE m \in tab'.shielded
  <2>1. IsDue(m, next)
    BY <1>2, <1>3, HidesStays DEF IsDue
  <2> QED
    BY <1>2, <1>3, <2>1
<1> QED
  BY <1>1, <1>2, <1>3 DEF HiddenInv

\* A step that hides nothing leaves nothing open either: no more elements are due
\* than before.
LEMMA OpenStep ==
  ASSUME HiddenInv, tab' \in Tabs, stored' \in Settings,
         tab'.onAdultSite = tab.onAdultSite, tab'.config = tab.config,
         tab'.shielded = tab.shielded, tab'.observed = tab.observed,
         tab.page \subseteq tab'.page,
         tab'.records \subseteq tab'.page,
         \/ tab'.page = tab.page /\ tab'.records = tab.records /\ tab'.fresh = tab.fresh
         \/ \E m \in Media : /\ m \notin tab.page /\ tab'.page = tab.page \cup {m}
                            /\ tab'.records = tab.records \cup {m}
                            /\ tab'.fresh = tab.fresh \cup {m}
  PROVE  HiddenInv'
<1>1. ASSUME NEW m \in tab'.page, IsDue(m, tab)' PROVE m \in tab'.shielded
  <2>1. \/ m \notin tab'.records /\ Hides(m, tab.config)
        \/ m \notin tab'.fresh /\ ScanHides(m, tab.config)
        \/ m \in tab.observed /\ ObserverHides(m, tab.config)
    BY <1>1, HidesStays DEF IsDue
  <2>2. m \in tab.page /\ IsDue(m, tab)
    BY <1>1, <2>1 DEF HiddenInv, IsDue
  <2> QED
    BY <2>2 DEF HiddenInv
<1> QED
  BY <1>1 DEF HiddenInv

\* New settings with a scan of the whole page leave nothing open.
LEMMA ResettleStep ==
  ASSUME HiddenInv, NEW c \in Settings, NEW next \in Tabs,
         /\ next.page = tab.page /\ next.shielded = tab.shielded
         /\ next.onAdultSite = tab.onAdultSite /\ next.records = tab.records,
         Resettle(c, next)
  PROVE  HiddenInv'
<1> DEFINE settled == [next EXCEPT !.config = c, !.fresh = {}, !.observed = {}]
<1>1. Shield(scanDOM(c), settled)
  BY DEF Resettle
<1>2. /\ settled \in Tabs /\ settled.page = tab.page /\ settled.shielded = tab.shielded
      /\ settled.onAdultSite = tab.onAdultSite /\ settled.records = tab.records
      /\ settled.config = c /\ settled.observed = {}
  BY DEF Tabs
<1> HIDE DEF settled
<1>3. scanDOM(c) \in SUBSET Media
  BY DEF scanDOM, HiddenInv, Tabs
<1>4. ASSUME NEW m \in tab.page, IsDue(m, settled) PROVE m \in scanDOM(c)
  BY <1>2, <1>4 DEF IsDue, scanDOM, ScanHides
<1> QED
  BY <1>1, <1>2, <1>3, <1>4, ShieldStep DEF HiddenInv

\* Every step of the extension keeps what is to be hidden hidden (content.js).
LEMMA HiddenStep ==
  ASSUME HiddenInv, [ExtensionNext]_extensionVars
  PROVE  HiddenInv'
<1>0. /\ tab \in Tabs /\ stored \in Settings /\ Defaults \in Settings
      /\ tab.records \subseteq tab.page /\ tab.observed \subseteq tab.page
      /\ \A m \in tab.page : IsDue(m, tab) => m \in tab.shielded
  BY DEF HiddenInv, Defaults, Settings
<1>1. ASSUME NEW key \in Toggles, PopupToggles(key)
      PROVE  HiddenInv'
  <2> DEFINE change == [key |-> key, newValue |-> ~stored[key]]
  <2>1. change \in Changes /\ stored' \in Settings
    BY <1>0, <1>1, TogglesAssumption DEF PopupToggles, Changes, Settings
  <2>2. tab' = [tab EXCEPT !.inbox = Append(@, change)]
    BY <1>1 DEF PopupToggles
  <2> HIDE DEF change
  <2>3. tab' \in Tabs
    BY <1>0, <2>1, <2>2, AppendProperties DEF Tabs
  <2> QED
    BY <1>0, <2>1, <2>2, <2>3, OpenStep DEF Tabs
<1>2. CASE BrowserRestarts
  <2>1. tab' = NewTab(tab.onAdultSite) /\ stored' = stored
    BY <1>2 DEF BrowserRestarts
  <2>2. <<stored>> \in Seq(Settings) /\ <<>> \in Seq(Changes)
    BY <1>0
  <2>3. /\ tab' \in Tabs /\ tab'.page = {} /\ tab'.records = {} /\ tab'.observed = {}
    BY <1>0, <2>1, <2>2 DEF NewTab, Tabs
  <2> QED
    BY <1>0, <2>1, <2>3 DEF HiddenInv
<1>3. ASSUME NEW what, Count(what), UNCHANGED stored
      PROVE  HiddenInv'
  <2> DEFINE change == [key |-> "stats", newValue |-> FALSE]
  <2>1. change \in Changes
    BY DEF Changes
  <2>2. tab' = tab \/ tab' = [tab EXCEPT !.inbox = Append(@, change)]
    BY <1>3 DEF Count
  <2> HIDE DEF change
  <2>3. tab' \in Tabs
    <3>1. tab.inbox \in Seq(Changes) /\ Append(tab.inbox, change) \in Seq(Changes)
      BY <1>0, <2>1, AppendProperties DEF Tabs
    <3>2. CASE tab' = tab
      BY <1>0, <3>2
    <3>3. CASE tab' = [tab EXCEPT !.inbox = Append(@, change)]
      BY <1>0, <3>1, <3>3 DEF Tabs
    <3> QED
      BY <2>2, <3>2, <3>3
  <2> QED
    BY <1>0, <1>3, <2>1, <2>2, <2>3, OpenStep DEF Tabs
<1>4. CASE TabLoads
  <2> DEFINE c == tab.read[1]
             next == [tab EXCEPT !.read = <<>>]
  <2>1. tab.read \in Seq(Settings) /\ tab.read # <<>> /\ <<>> \in Seq(Settings)
    BY <1>0, <1>4 DEF TabLoads, Tabs
  <2>2. c \in Settings
    BY <2>1, HeadTailProperties
  <2>3. Resettle(c, next)
    BY <1>4 DEF TabLoads
  <2> HIDE DEF c
  <2>4. /\ next \in Tabs /\ next.page = tab.page /\ next.shielded = tab.shielded
        /\ next.onAdultSite = tab.onAdultSite /\ next.records = tab.records
    BY <1>0, <2>1 DEF Tabs
  <2> HIDE DEF next
  <2> QED
    BY <2>2, <2>3, <2>4, ResettleStep
<1>5. CASE TabIsTold
  <2> DEFINE c == Changed(tab.config, Head(tab.inbox))
             next == [tab EXCEPT !.inbox = Tail(@)]
  <2>1. /\ tab.inbox \in Seq(Changes) /\ tab.inbox # <<>> /\ tab.config \in Settings
    BY <1>0, <1>5 DEF TabIsTold, Tabs
  <2>2. Head(tab.inbox) \in Changes /\ Tail(tab.inbox) \in Seq(Changes)
    BY <2>1, HeadTailProperties
  <2>3. c \in Settings
    BY <2>1, <2>2 DEF Changed, Changes, Settings
  <2>4. Resettle(c, next)
    BY <1>5 DEF TabIsTold
  <2> HIDE DEF c
  <2>5. /\ next \in Tabs /\ next.page = tab.page /\ next.shielded = tab.shielded
        /\ next.onAdultSite = tab.onAdultSite /\ next.records = tab.records
    BY <1>0, <2>2 DEF Tabs
  <2> HIDE DEF next
  <2> QED
    BY <2>3, <2>4, <2>5, ResettleStep
<1>6. CASE Observes
  <2> DEFINE next == [tab EXCEPT !.records = {}, !.observed = @ \cup tab.records]
             found == {m \in tab.records : ObserverHides(m, tab.config)}
  <2>1. Shield(found, next)
    BY <1>6 DEF Observes
  <2>2. /\ next \in Tabs /\ next.page = tab.page /\ next.shielded = tab.shielded
        /\ next.onAdultSite = tab.onAdultSite /\ next.config = tab.config
        /\ next.records = {} /\ next.observed = tab.observed \cup tab.records
        /\ next.fresh = tab.fresh
    BY <1>0 DEF Tabs
  <2>3. found \in SUBSET Media
    BY <1>0 DEF Tabs
  <2>4. ASSUME NEW m \in tab.page, IsDue(m, next) PROVE m \in found \cup tab.shielded
    <3> HIDE DEF next
    <3>1. CASE m \in tab.records /\ (Hides(m, tab.config) \/ ObserverHides(m, tab.config))
      BY <3>1 DEF ObserverHides
    <3>2. CASE IsDue(m, tab)
      BY <1>0, <3>2
    <3> QED
      BY <2>2, <2>4, <3>1, <3>2 DEF IsDue
  <2> HIDE DEF next, found
  <2> QED
    BY <1>0, <2>1, <2>2, <2>3, <2>4, ShieldStep
<1>7. CASE DomContentLoaded
  <2> DEFINE next == [tab EXCEPT !.ready = TRUE, !.fresh = {}]
  <2>1. Shield(scanDOM(tab.config), next)
    BY <1>7 DEF DomContentLoaded
  <2>2. /\ next \in Tabs /\ next.page = tab.page /\ next.shielded = tab.shielded
        /\ next.onAdultSite = tab.onAdultSite /\ next.config = tab.config
        /\ next.records = tab.records /\ next.observed = tab.observed
    BY <1>0 DEF Tabs
  <2> HIDE DEF next
  <2>3. scanDOM(tab.config) \in SUBSET Media
    BY <1>0 DEF scanDOM, Tabs
  <2>4. ASSUME NEW m \in tab.page, IsDue(m, next)
        PROVE  m \in scanDOM(tab.config) \cup tab.shielded
    <3>1. ScanHides(m, tab.config) \/ IsDue(m, tab)
      BY <2>2, <2>4 DEF IsDue
    <3> QED
      BY <1>0, <3>1 DEF scanDOM
  <2> QED
    BY <1>0, <2>1, <2>2, <2>3, <2>4, ShieldStep
<1>8. ASSUME NEW m \in Media, PageAdds(m)
      PROVE  HiddenInv'
  <2>1. /\ tab' = [tab EXCEPT !.page = @ \cup {m}, !.records = @ \cup {m}, !.fresh = @ \cup {m}]
        /\ stored' = stored /\ m \notin tab.page
    BY <1>8 DEF PageAdds, storageVars
  <2>2. /\ tab' \in Tabs /\ tab'.onAdultSite = tab.onAdultSite /\ tab'.config = tab.config
        /\ tab'.shielded = tab.shielded /\ tab'.observed = tab.observed
        /\ tab'.page = tab.page \cup {m} /\ tab'.records = tab.records \cup {m}
        /\ tab'.fresh = tab.fresh \cup {m}
    BY <1>0, <2>1 DEF Tabs
  <2>3. tab'.records \subseteq tab'.page /\ tab.page \subseteq tab'.page
    BY <1>0, <2>2
  <2> QED
    BY <1>0, <2>1, <2>2, <2>3, OpenStep
<1>9. CASE UNCHANGED <<tab, stored>>
  BY <1>0, <1>9, OpenStep
<1> QED
  BY <1>1, <1>2, <1>3, <1>4, <1>5, <1>6, <1>7, <1>8, <1>9
     DEF ExtensionNext, BackgroundLoads, BackgroundIsTold, BackgroundBlocks, BackgroundCounts,
         extensionVars, storageVars

\* Whatever order settings, elements and the answer to the first read come in,
\* the content script has hidden what a scan or the observer had to; and the
\* background acts by the settings it was told of since its first read, and has
\* lost no total unless it counted before that (background.js, content.js).
THEOREM ExtensionStays == Spec => []ExtensionKeepsUp
<1> DEFINE Inv == SettingsInv /\ TotalsInv /\ HiddenInv
<1>1. ExtensionInit => Inv
  <2> SUFFICES ASSUME ExtensionInit PROVE Inv
    OBVIOUS
  <2>1. Defaults \in Settings
    BY DEF Defaults, Settings
  <2>2. SettingsInv
    <3>1. \A k \in Keys : Reaches(k, inbox, k \in told, config[k], stored[k])
      BY DEF ExtensionInit, Reaches
    <3> QED
      BY <2>1, <3>1 DEF ExtensionInit, SettingsInv
  <2>3. TotalsInv
    BY DEF ExtensionInit, TotalsInv
  <2>4. HiddenInv
    <3>1. PICK adult \in BOOLEAN : tab = NewTab(adult)
      BY DEF ExtensionInit
    <3>2. stored \in Settings /\ <<stored>> \in Seq(Settings) /\ <<>> \in Seq(Changes)
      BY <2>1 DEF ExtensionInit
    <3>3. tab \in Tabs /\ tab.page = {} /\ tab.records = {} /\ tab.observed = {}
      BY <2>1, <3>1, <3>2 DEF NewTab, Tabs
    <3> QED
      BY <3>2, <3>3 DEF HiddenInv
  <2> QED
    BY <2>2, <2>3, <2>4
<1>2. Inv /\ [ExtensionNext]_extensionVars => Inv'
  BY SettingsStep, TotalsStep, HiddenStep
<1>3. Inv => ExtensionKeepsUp
  <2> SUFFICES ASSUME Inv PROVE ExtensionKeepsUp
    OBVIOUS
  <2>1. MediaIsHidden /\ NothingIsMissed /\ TotalsAreKept
    BY DEF HiddenInv, IsDue, MediaIsHidden, NothingIsMissed, TotalsInv, TotalsAreKept
  <2>2. BackgroundAgrees
    <3> SUFFICES ASSUME inbox = <<>>, NEW k \in told PROVE config[k] = stored[k]
      BY DEF BackgroundAgrees
    <3>1. Reaches(k, inbox, k \in told, config[k], stored[k]) /\ DOMAIN inbox = {}
      BY DEF SettingsInv
    <3> QED
      BY <3>1 DEF Reaches
  <2> QED
    BY <2>1, <2>2 DEF ExtensionKeepsUp
<1> HIDE DEF Inv
<1>4. Spec => []Inv
  BY <1>1, <1>2, Parts, PTL
<1> QED
  BY <1>3, <1>4, PTL

-----------------------------------------------------------------------------
(* The window of the Windows backend.                                       *)

WindowInv ==
  /\ window = "shown" => is_active_
  /\ windowRenders \in Nat
  /\ windowRenders = 0 => requested = <<>> /\ displayed = {}

\* Every step of the window is one that an overlay may take, or none
\* (window_overlay.cpp).
LEMMA WindowStep ==
  ASSUME WindowInv, [WindowNext]_windowVars
  PROVE  WindowInv' /\ [WindowScreen!ScreenNext]_WindowScreen!screenVars
<1> USE DEF WindowScreen!ScreenNext, WindowScreen!TurnOn, WindowScreen!TurnOff,
            WindowScreen!Blank, WindowScreen!IsOff
<1>1. WindowInv'
  BY DEF WindowInv, WindowNext, windowVars, InitWindow, RenderWindow, CloseRequested,
         message_pump, DestroyWindow
<1>2. CASE InitWindow
  BY <1>2 DEF WindowInv, InitWindow
<1>3. CASE RenderWindow
  <2>1. CASE window = "shown" /\ has_bitmap
    <3>1. /\ UNCHANGED <<window, has_bitmap, screen_size>>
          /\ displayed' = PixelsCovered(requested', screen_size)
      BY <1>3, <2>1 DEF WindowInv, RenderWindow
    <3> QED
      BY <1>1, <2>1, <3>1 DEF WindowScreen!Works, WindowScreen!AskNew
  <2>2. CASE ~(window = "shown" /\ has_bitmap)
    BY <1>1, <1>3, <2>2 DEF RenderWindow
  <2> QED
    BY <2>1, <2>2
<1>4. CASE CloseRequested
  BY <1>1, <1>4 DEF CloseRequested, WindowScreen!screenVars
<1>5. CASE message_pump
  BY <1>1, <1>5 DEF message_pump
<1>6. CASE DestroyWindow
  BY <1>1, <1>6 DEF DestroyWindow
<1>7. CASE UNCHANGED windowVars
  BY <1>1, <1>7 DEF windowVars, WindowScreen!screenVars
<1> QED
  BY <1>1, <1>2, <1>3, <1>4, <1>5, <1>6, <1>7 DEF WindowNext

\* The window implements what is promised of an overlay: as long as it is there
\* with its bitmap, it shows exactly what was asked for last.
THEOREM WindowImplementsScreen == Spec => WindowScreen!ScreenSpec
<1>1. WindowInit => WindowInv /\ WindowScreen!ScreenInit
  BY DEF WindowInit, WindowInv, WindowScreen!ScreenInit, WindowScreen!Blank
<1>2. WindowInv /\ [WindowNext]_windowVars
        => WindowInv' /\ [WindowScreen!ScreenNext]_WindowScreen!screenVars
  BY WindowStep
<1>3. <<>> = <<>> /\ ~FALSE
  OBVIOUS
<1> QED
  BY <1>1, <1>2, <1>3, Parts, PTL DEF WindowScreen!ScreenSpec, WindowScreen!Settles

-----------------------------------------------------------------------------
(* The Wayland overlay.                                                     *)

Boxes == [x : Int, y : Int, width : Int, height : Int]

\* Nothing is drawn for no boxes.
LEMMA NoPicture == \A screen : PictureOf(<<>>, screen) = {}
BY DEF PictureOf

\* A picture is what its first box covers and the picture of the others.
LEMMA PictureOfMore ==
  ASSUME NEW S, NEW s \in Seq(S), s # <<>>, NEW screen
  PROVE  PictureOf(s, screen) = PixelsOf(Head(s), screen) \cup PictureOf(Tail(s), screen)
<1> DEFINE n == Len(s)
           t == Tail(s)
           P(b) == PixelsOf(b, screen)
<1>1. /\ n \in Nat \ {0} /\ DOMAIN s = 1 .. n /\ DOMAIN t = 1 .. n - 1 /\ Head(s) = s[1]
      /\ \A i \in 1 .. n - 1 : t[i] = s[i + 1]
  BY HeadTailProperties, LenProperties, EmptySeq
<1>2. /\ PictureOf(s, screen) = UNION {P(s[i]) : i \in DOMAIN s}
      /\ PictureOf(t, screen) = UNION {P(t[i]) : i \in DOMAIN t}
  BY DEF PictureOf
<1> HIDE DEF n, t, P
<1>3. ASSUME NEW pixel
      PROVE  (\E i \in DOMAIN s : pixel \in P(s[i]))
               <=> pixel \in P(Head(s)) \/ \E i \in DOMAIN t : pixel \in P(t[i])
  <2>1. ASSUME NEW i \in DOMAIN s, pixel \in P(s[i])
        PROVE  pixel \in P(Head(s)) \/ \E k \in DOMAIN t : pixel \in P(t[k])
    <3>1. CASE i = 1
      BY <1>1, <2>1, <3>1
    <3>2. CASE i # 1
      <4>1. i - 1 \in DOMAIN t /\ t[i - 1] = s[i]
        BY <1>1, <3>2
      <4> QED
        BY <2>1, <4>1
    <3> QED
      BY <3>1, <3>2
  <2>2. ASSUME pixel \in P(Head(s)) PROVE \E i \in DOMAIN s : pixel \in P(s[i])
    BY <1>1, <2>2
  <2>3. ASSUME NEW i \in DOMAIN t, pixel \in P(t[i])
        PROVE  \E k \in DOMAIN s : pixel \in P(s[k])
    <3>1. i + 1 \in DOMAIN s /\ t[i] = s[i + 1]
      BY <1>1
    <3> QED
      BY <2>3, <3>1
  <2> QED
    BY <2>1, <2>2, <2>3
<1>4. ASSUME NEW pixel
      PROVE  pixel \in PictureOf(s, screen)
               <=> pixel \in P(Head(s)) \/ pixel \in PictureOf(t, screen)
  BY <1>2, <1>3
<1>5. PictureOf(s, screen) = P(Head(s)) \cup PictureOf(t, screen)
  BY <1>4
<1> QED
  BY <1>5 DEF P, t

\* What the two buffers are, whoever draws.
BufferInv ==
  /\ current_buffer \in 0 .. 1
  /\ DOMAIN buffers = 0 .. 1
  /\ \A i \in 0 .. 1 : /\ buffers[i] = [allocated |-> buffers[i].allocated,
                                        pixels |-> buffers[i].pixels]
                       /\ buffers[i].allocated \in BOOLEAN

\* Before its first call the overlay shows nothing; as long as the compositor is
\* not behind, a call begins only when it has taken up what was committed before.
CallInv ==
  /\ renders \in Nat /\ behind \in BOOLEAN /\ commits \in Seq(0 .. 2)
  /\ renders = 0 => /\ answered = <<>> /\ last_rendered_boxes = <<>> /\ call = <<>>
                    /\ commits = <<>> /\ scanout = NoBuffer /\ ~behind
  /\ ~behind => /\ commits \in {<<>>} \cup {<<b>> : b \in 0 .. 2}
                /\ call # <<>> => commits = <<>>
  /\ call # <<>> => todo \in Seq(Boxes)

\* What was drawn last will do for what was asked for last.
NearInv == Working => answered = last_rendered_boxes \/ Alike(answered, last_rendered_boxes)

\* What is drawn of a call and what is not make up its whole picture; and the last
\* commit on its way is the buffer that holds the picture drawn last.
DrawnInv ==
  Working =>
    IF call # <<>>
      THEN buffers[current_buffer].pixels \cup PictureOf(todo, dimensions)
             = PictureOf(Head(call), dimensions)
      ELSE /\ behind => commits # <<>>
           /\ commits # <<>> =>
                /\ commits[Len(commits)] = current_buffer
                /\ buffers[current_buffer].pixels = PictureOf(last_rendered_boxes, dimensions)

\* As long as the compositor is not behind, the screen never shows the buffer that
\* is drawn or that waits to be shown.
ShownInv ==
  Working /\ ~behind =>
    IF call = <<>> /\ commits = <<>>
      THEN scanout \in {current_buffer, NoBuffer}
      ELSE scanout \in {1 - current_buffer, NoBuffer}

Untorn == BufferInv /\ CallInv /\ NearInv /\ DrawnInv /\ ShownInv

WaylandStep == Untorn' /\ [WaylandScreen!ScreenNext]_WaylandScreen!screenVars

\* An overlay that does not work promises nothing.
LEMMA WaylandOff ==
  ASSUME Untorn', ~Working'
  PROVE  WaylandStep
<1> SUFFICES [WaylandScreen!ScreenNext]_WaylandScreen!screenVars
  BY DEF WaylandStep
<1> QED
  BY DEF WaylandScreen!ScreenNext, WaylandScreen!TurnOff, WaylandScreen!IsOff

\* Nor does one whose compositor is behind.
LEMMA WaylandBehind ==
  ASSUME Untorn', Working, Working', behind, behind', UNCHANGED dimensions
  PROVE  WaylandStep
BY DEF WaylandStep, WaylandScreen!ScreenNext, WaylandScreen!StaysBehind

\* As long as buffers that are shown are not drawn on, the screen stays.
LEMMA WaylandStays ==
  ASSUME Untorn', Working, Working',
         UNCHANGED <<dimensions, answered, last_rendered_boxes, commits, scanout, behind>>,
         commits = <<>>, PixelsIn(scanout)' = PixelsIn(scanout)
  PROVE  WaylandStep
<1>1. [i \in DOMAIN commits |-> PixelsIn(commits[i])]' = [i \in DOMAIN commits |-> PixelsIn(commits[i])]
  OBVIOUS
<1> QED
  BY <1>1 DEF WaylandStep, WaylandScreen!screenVars

\* Without a working overlay there is nothing to keep but the types.
LEMMA OffKeeps ==
  ASSUME BufferInv', CallInv', ~Working'
  PROVE  Untorn'
BY DEF Untorn, NearInv, DrawnInv, ShownInv

\* The overlay begins with a blank screen, or ends (wayland_overlay.cpp).
LEMMA SurfaceStep ==
  ASSUME Untorn, InitFails \/ InitOverlay \/ DestroyOverlay \/ CompositorLeaves
  PROVE  WaylandStep
<1>1. CASE InitFails \/ CompositorLeaves
  <2>1. ~Working' /\ UNCHANGED <<drawVars, compositorVars>>
    BY <1>1 DEF InitFails, CompositorLeaves, Working
  <2>2. BufferInv' /\ CallInv'
    BY <2>1 DEF Untorn, BufferInv, CallInv, drawVars, compositorVars
  <2> QED
    BY <2>1, <2>2, OffKeeps, WaylandOff
<1>2. CASE DestroyOverlay
  <2>1. ~Working'
    BY <1>2 DEF DestroyOverlay, Working
  <2>2. BufferInv'
    BY <1>2 DEF Untorn, BufferInv, DestroyOverlay
  <2>3. CallInv'
    <3>1. <<>> \in Seq(0 .. 2)
      BY EmptySeq
    <3> QED
      BY <1>2, <3>1 DEF Untorn, CallInv, DestroyOverlay
  <2> QED
    BY <2>1, <2>2, <2>3, OffKeeps, WaylandOff
<1>3. CASE InitOverlay
  <2>1. /\ renders = 0 /\ ~Working
        /\ UNCHANGED <<current_buffer, last_rendered_boxes, call, todo, answered, renders>>
        /\ UNCHANGED <<commits, scanout, behind>>
    BY <1>3 DEF InitOverlay, compositorVars, Working
  <2>2. BufferInv'
    BY <1>3, <2>1 DEF Untorn, BufferInv, InitOverlay, allocate_shm_buffers
  <2>3. CallInv'
    BY <2>1 DEF Untorn, CallInv
  <2>4. /\ answered' = <<>> /\ last_rendered_boxes' = <<>> /\ call' = <<>>
        /\ commits' = <<>> /\ scanout' = NoBuffer /\ ~behind'
    BY <2>1 DEF Untorn, CallInv
  <2>5. Untorn'
    BY <2>2, <2>3, <2>4 DEF Untorn, NearInv, DrawnInv, ShownInv
  <2>6. CASE Working'
    <3>1. WaylandScreen!Blank'
      BY <2>4 DEF WaylandScreen!Blank, PixelsIn
    <3> QED
      BY <2>1, <2>4, <2>5, <2>6, <3>1 DEF WaylandStep, WaylandScreen!ScreenNext, WaylandScreen!TurnOn
  <2> QED
    BY <2>5, <2>6, WaylandOff
<1> QED
  BY <1>1, <1>2, <1>3

\* A call that returns early leaves the screen to what will do for its boxes.
LEMMA SkipStep ==
  ASSUME Untorn, NEW boxes \in Requests, NEW source \in BOOLEAN,
         RenderSkips(boxes, source)
  PROVE  WaylandStep
<1>1. /\ call = <<>> /\ renders' \in Nat /\ renders' # 0
      /\ Skips(boxes, source) /\ answered' = boxes
      /\ UNCHANGED <<link, configured, dimensions, commits, scanout, behind>>
      /\ UNCHANGED <<buffers, current_buffer, last_rendered_boxes, call, todo>>
  BY DEF Untorn, CallInv, CanRender, RenderSkips, surfaceVars, compositorVars
<1>2. Working' <=> Working
  BY <1>1 DEF Working
<1>3. Working => Alike(answered', last_rendered_boxes)
  <2>1. ~boxes_differ(<<>>, <<>>)
    BY DEF boxes_differ
  <2> QED
    BY <1>1, <2>1 DEF Skips, Alike, Working
<1>4. Untorn'
  <2>1. BufferInv'
    BY <1>1 DEF Untorn, BufferInv
  <2>2. CallInv'
    BY <1>1 DEF Untorn, CallInv
  <2>3. NearInv'
    BY <1>1, <1>2, <1>3 DEF NearInv
  <2>4. DrawnInv' /\ ShownInv'
    BY <1>1, <1>2 DEF Untorn, DrawnInv, ShownInv
  <2> QED
    BY <2>1, <2>2, <2>3, <2>4 DEF Untorn
<1>5. CASE Working /\ ~behind
  <2>1. PixelsIn(scanout)' = PixelsIn(scanout)
    BY <1>1 DEF PixelsIn
  <2>2. [i \in DOMAIN commits |-> PixelsIn(commits[i])]'
          = [i \in DOMAIN commits |-> PixelsIn(commits[i])]
    BY <1>1 DEF PixelsIn
  <2>3. WaylandScreen!Works
    BY <1>1, <1>2, <1>3, <1>5, <2>1, <2>2 DEF WaylandScreen!Works, WaylandScreen!AskNear
  <2> QED
    BY <1>4, <2>3 DEF WaylandStep, WaylandScreen!ScreenNext
<1>6. CASE Working /\ behind
  BY <1>1, <1>2, <1>4, <1>6, WaylandBehind
<1>7. CASE ~Working
  BY <1>2, <1>4, <1>7, WaylandOff
<1> QED
  BY <1>5, <1>6, <1>7

\* A step that draws on the buffer in turn, and on no other.
LEMMA DrawnOn ==
  ASSUME BufferInv, NEW pixels, NEW c \in 0 .. 1,
         buffers' = [buffers EXCEPT ![c].pixels = pixels], current_buffer' = c
  PROVE  /\ BufferInv'
         /\ buffers'[c].pixels = pixels /\ buffers'[1 - c] = buffers[1 - c]
         /\ \A i \in 0 .. 1 : buffers'[i].allocated = buffers[i].allocated
<1>1. /\ buffers'[c] = [buffers[c] EXCEPT !.pixels = pixels]
      /\ \A i \in 0 .. 1 : i # c => buffers'[i] = buffers[i]
      /\ DOMAIN buffers' = 0 .. 1
  BY DEF BufferInv
<1>2. buffers[c] = [allocated |-> buffers[c].allocated, pixels |-> buffers[c].pixels]
  BY DEF BufferInv
<1>3. buffers'[c] = [allocated |-> buffers[c].allocated, pixels |-> pixels]
  BY <1>1, <1>2
<1>4. /\ buffers'[c].pixels = pixels
      /\ \A i \in 0 .. 1 : buffers'[i].allocated = buffers[i].allocated
  BY <1>1, <1>3
<1>5. 1 - c \in 0 .. 1 /\ 1 - c # c
  OBVIOUS
<1> QED
  BY <1>1, <1>3, <1>4, <1>5 DEF BufferInv

\* The buffer that a call clears is not the one on the screen, unless the call did
\* not wait for the compositor, which is behind from then on.
LEMMA BeginStep ==
  ASSUME Untorn, NEW boxes \in Requests, NEW source \in BOOLEAN,
         RenderBegins(boxes, source)
  PROVE  WaylandStep
<1> DEFINE c == 1 - current_buffer
<1>1. /\ call = <<>> /\ renders' \in Nat /\ renders' # 0
      /\ current_buffer' = c /\ buffers' = [buffers EXCEPT ![c].pixels = {}]
      /\ call' = <<boxes>> /\ todo' = boxes
      /\ UNCHANGED <<link, configured, dimensions, commits, scanout>>
      /\ UNCHANGED <<last_rendered_boxes, answered>>
      /\ behind' = (behind \/ commits # <<>>)
  BY DEF Untorn, CallInv, CanRender, RenderBegins, surfaceVars
<1>2. /\ BufferInv' /\ c \in 0 .. 1 /\ 1 - c = current_buffer /\ current_buffer \in 0 .. 1
      /\ buffers'[c].pixels = {} /\ buffers'[1 - c] = buffers[1 - c]
      /\ \A i \in 0 .. 1 : buffers'[i].allocated = buffers[i].allocated
  <2>1. c \in 0 .. 1 /\ 1 - c = current_buffer /\ current_buffer \in 0 .. 1 /\ BufferInv
    BY DEF Untorn, BufferInv
  <2> HIDE DEF c
  <2> QED
    BY <1>1, <2>1, DrawnOn
<1> HIDE DEF c
<1>3. boxes \in Seq(Boxes) /\ Head(call') = boxes /\ call' # <<>>
  BY <1>1, RequestsAssumption DEF Boxes
<1>4. Working' <=> Working
  BY <1>1, <1>2 DEF Working
<1>5. CallInv'
  BY <1>1, <1>3 DEF Untorn, CallInv
<1>6. NearInv' /\ DrawnInv'
  <2>1. NearInv'
    BY <1>1, <1>4 DEF Untorn, NearInv
  <2>2. {} \cup PictureOf(todo', dimensions') = PictureOf(Head(call'), dimensions')
    BY <1>1, <1>3
  <2>3. DrawnInv'
    BY <1>1, <1>2, <1>3, <2>2 DEF DrawnInv
  <2> QED
    BY <2>1, <2>3
<1>7. ShownInv'
  <2> SUFFICES ASSUME Working', ~behind' PROVE scanout' \in {1 - c, NoBuffer}
    BY <1>1, <1>3 DEF ShownInv, NoBuffer
  <2>1. scanout \in {current_buffer, NoBuffer}
    BY <1>1, <1>4 DEF Untorn, ShownInv
  <2> QED
    BY <1>1, <1>2, <2>1
<1>8. Untorn'
  BY <1>2, <1>5, <1>6, <1>7 DEF Untorn
<1>9. CASE Working /\ ~behind /\ commits = <<>>
  <2>1. scanout \in {1 - c, NoBuffer} /\ UNCHANGED behind
    <3>1. behind \in BOOLEAN
      BY DEF Untorn, CallInv
    <3> QED
      BY <1>1, <1>2, <1>9, <3>1 DEF Untorn, ShownInv
  <2>2. PixelsIn(scanout)' = PixelsIn(scanout)
    BY <1>1, <1>2, <2>1 DEF PixelsIn
  <2> QED
    BY <1>1, <1>4, <1>8, <1>9, <2>1, <2>2, WaylandStays
<1>10. CASE Working /\ ~behind /\ commits # <<>>
  <2>1. [i \in DOMAIN commits |-> PixelsIn(commits[i])] # <<>>
    <3>1. Len(commits) \in Nat \ {0} /\ DOMAIN commits = 1 .. Len(commits)
      BY <1>10, LenProperties, EmptySeq DEF Untorn, CallInv
    <3>2. 1 \in DOMAIN commits
      BY <3>1
    <3> QED
      BY <3>2
  <2> QED
    BY <1>1, <1>4, <1>8, <1>10, <2>1
       DEF WaylandStep, WaylandScreen!ScreenNext, WaylandScreen!FallsBehind
<1>11. CASE Working /\ behind
  BY <1>1, <1>4, <1>8, <1>11, WaylandBehind
<1>12. CASE ~Working
  BY <1>4, <1>8, <1>12, WaylandOff
<1> QED
  BY <1>9, <1>10, <1>11, <1>12

\* Nor is the one that is drawn on, and with each box less is left to draw.
LEMMA DrawStep ==
  ASSUME Untorn, DrawBox
  PROVE  WaylandStep
<1> DEFINE pixels == PixelsOf(Head(todo), dimensions)
           c == current_buffer
<1>1. /\ call # <<>> /\ todo # <<>> /\ todo \in Seq(Boxes)
      /\ todo' = Tail(todo) /\ todo' \in Seq(Boxes)
      /\ UNCHANGED <<configured, dimensions, commits, scanout, behind, current_buffer>>
      /\ UNCHANGED <<last_rendered_boxes, call, answered, renders>>
  BY HeadTailProperties DEF Untorn, CallInv, DrawBox, compositorVars
<1>2. \/ /\ buffers' = [buffers EXCEPT ![c].pixels = @ \cup pixels]
         /\ link' = link
      \/ link' = "dead" /\ UNCHANGED buffers
  BY DEF DrawBox
<1>3. CallInv' /\ c \in 0 .. 1 /\ BufferInv
  BY <1>1 DEF Untorn, CallInv, BufferInv
<1>4. CASE link' = "dead" /\ UNCHANGED buffers
  <2>1. BufferInv' /\ ~Working'
    BY <1>1, <1>3, <1>4 DEF BufferInv, Working
  <2> QED
    BY <1>3, <2>1, OffKeeps, WaylandOff
<1>5. CASE /\ buffers' = [buffers EXCEPT ![c].pixels = @ \cup pixels]
           /\ link' = link
  <2> DEFINE all == buffers[c].pixels \cup pixels
  <2>1. buffers' = [buffers EXCEPT ![c].pixels = all]
    BY <1>5
  <2>2. current_buffer' = c
    BY <1>1
  <2> HIDE DEF all, c
  <2>3. /\ BufferInv' /\ buffers'[c].pixels = all /\ buffers'[1 - c] = buffers[1 - c]
        /\ \A i \in 0 .. 1 : buffers'[i].allocated = buffers[i].allocated
    BY <1>3, <2>1, <2>2, DrawnOn
  <2>4. Working' <=> Working
    BY <1>1, <1>5, <2>3 DEF Working
  <2>5. CASE Working
    <3>1. buffers[c].pixels \cup PictureOf(todo, dimensions) = PictureOf(Head(call), dimensions)
      BY <1>1, <2>5 DEF Untorn, DrawnInv, c
    <3>2. PictureOf(todo, dimensions) = pixels \cup PictureOf(todo', dimensions)
      BY <1>1, PictureOfMore
    <3>3. all \cup PictureOf(todo', dimensions) = PictureOf(Head(call), dimensions)
      BY <3>1, <3>2 DEF all
    <3>4. DrawnInv'
      BY <1>1, <2>2, <2>3, <3>3 DEF DrawnInv
    <3>5. NearInv' /\ ShownInv'
      BY <1>1, <2>4 DEF Untorn, NearInv, ShownInv
    <3>6. Untorn'
      BY <1>3, <2>3, <3>4, <3>5 DEF Untorn
    <3>7. CASE ~behind
      <4>1. scanout \in {1 - c, NoBuffer} /\ commits = <<>>
        BY <1>1, <2>5, <3>7 DEF Untorn, CallInv, ShownInv, c
      <4>2. PixelsIn(scanout)' = PixelsIn(scanout)
        BY <1>1, <2>3, <4>1 DEF PixelsIn
      <4> QED
        BY <1>1, <2>4, <2>5, <3>6, <4>1, <4>2, WaylandStays
    <3>8. CASE behind
      BY <1>1, <2>4, <2>5, <3>6, <3>8, WaylandBehind
    <3> QED
      BY <3>7, <3>8 DEF Untorn, CallInv
  <2>6. CASE ~Working
    BY <1>3, <2>3, <2>4, <2>6, OffKeeps, WaylandOff
  <2> QED
    BY <2>5, <2>6
<1> QED
  BY <1>2, <1>4, <1>5

\* What is committed is the whole picture of the call.
LEMMA EndStep ==
  ASSUME Untorn, RenderEnds
  PROVE  WaylandStep
<1> DEFINE c == current_buffer
           b == IF buffers[c].allocated THEN c ELSE NoBuffer
<1>1. /\ call # <<>> /\ todo = <<>> /\ renders # 0 /\ renders \in Nat
      /\ last_rendered_boxes' = Head(call) /\ answered' = Head(call) /\ call' = <<>>
      /\ commits' = (IF link # "open" THEN commits ELSE Append(commits, b))
      /\ UNCHANGED <<link, configured, dimensions, buffers, current_buffer, renders, scanout, behind>>
  BY DEF Untorn, CallInv, RenderEnds, surfaceVars
<1>2. b \in 0 .. 2 /\ c \in 0 .. 1 /\ commits \in Seq(0 .. 2) /\ behind \in BOOLEAN
  BY DEF Untorn, BufferInv, CallInv, NoBuffer
<1>3. Append(commits, b) \in Seq(0 .. 2) /\ (~behind => commits = <<>>)
  BY <1>1, <1>2, AppendProperties DEF Untorn, CallInv
<1>4. BufferInv' /\ CallInv'
  <2>1. commits' \in Seq(0 .. 2)
    BY <1>1, <1>2, <1>3
  <2>2. \A x : Append(<<>>, x) = <<x>>
    OBVIOUS
  <2>3. ~behind => commits' \in {<<>>} \cup {<<x>> : x \in 0 .. 2}
    BY <1>1, <1>2, <1>3, <2>2
  <2> HIDE DEF b, c
  <2> QED
    BY <1>1, <2>1, <2>3 DEF Untorn, BufferInv, CallInv
<1>5. Working' <=> Working
  BY <1>1 DEF Working
<1>6. CASE Working
  <2>1. b = c /\ commits' = Append(commits, c)
    BY <1>1, <1>2, <1>6 DEF Working
  <2> HIDE DEF b
  <2>2. buffers[c].pixels = PictureOf(Head(call), dimensions)
    BY <1>1, <1>6, NoPicture DEF Untorn, DrawnInv
  <2>3. /\ commits' # <<>> /\ commits'[Len(commits')] = c
        /\ Len(commits') = Len(commits) + 1
    BY <1>2, <2>1, AppendProperties
  <2>4. DrawnInv' /\ NearInv'
    BY <1>1, <2>2, <2>3 DEF DrawnInv, NearInv
  <2>5. ShownInv'
    BY <1>1, <1>5, <2>3 DEF Untorn, ShownInv
  <2>6. Untorn'
    BY <1>4, <2>4, <2>5 DEF Untorn
  <2>7. CASE ~behind
    <3> DEFINE picture == PictureOf(answered', dimensions)
    <3>1. PixelsIn(c)' = picture /\ PixelsIn(scanout)' = PixelsIn(scanout)
      BY <1>1, <1>2, <2>2 DEF PixelsIn, NoBuffer
    <3>2. commits = <<>> /\ commits' = <<c>>
      BY <1>3, <2>1, <2>7
    <3>3. [i \in DOMAIN commits |-> PixelsIn(commits[i])]' = <<picture>>
      <4>1. DOMAIN commits' = {1} /\ commits'[1] = c
        BY <3>2
      <4>2. PixelsIn(commits[1])' = picture
        BY <1>1, <3>1, <4>1 DEF PixelsIn
      <4> HIDE DEF picture
      <4>3. [i \in {1} |-> picture] = <<picture>>
        OBVIOUS
      <4>4. [i \in DOMAIN commits |-> PixelsIn(commits[i])]' = [i \in {1} |-> picture]
        BY <4>1, <4>2
      <4> QED
        BY <4>3, <4>4
    <3>4. [i \in DOMAIN commits |-> PixelsIn(commits[i])] = <<>>
      BY <3>2
    <3> HIDE DEF picture
    <3>5. [i \in DOMAIN commits |-> PixelsIn(commits[i])]'
            = Append([i \in DOMAIN commits |-> PixelsIn(commits[i])], picture)
      BY <3>3, <3>4
    <3>6. WaylandScreen!Works
      BY <1>1, <1>5, <1>6, <2>7, <3>1, <3>5 DEF picture, WaylandScreen!Works, WaylandScreen!AskNew
    <3> QED
      BY <2>6, <3>6 DEF WaylandStep, WaylandScreen!ScreenNext
  <2>8. CASE behind
    BY <1>1, <1>5, <1>6, <2>6, <2>8, WaylandBehind
  <2> QED
    BY <1>2, <2>7, <2>8
<1>7. CASE ~Working
  BY <1>4, <1>5, <1>7, OffKeeps, WaylandOff
<1> QED
  BY <1>6, <1>7

\* The compositor takes up the first picture on its way; when it was behind and
\* there is no other, and none is drawn, the screen shows the last one, whole.
LEMMA ApplyStep ==
  ASSUME Untorn, Apply
  PROVE  WaylandStep
<1> DEFINE c == current_buffer
<1>1. /\ commits # <<>> /\ commits' = Tail(commits) /\ scanout' = Head(commits)
      /\ link = "open" /\ link' \in {"open", "lost"}
      /\ behind' = (behind /\ (commits' # <<>> \/ call # <<>>))
      /\ UNCHANGED <<configured, dimensions, buffers, current_buffer, last_rendered_boxes>>
      /\ UNCHANGED <<call, todo, answered, renders>>
  BY DEF Apply, drawVars
<1>2. /\ commits \in Seq(0 .. 2) /\ Tail(commits) \in Seq(0 .. 2) /\ renders # 0
      /\ behind \in BOOLEAN /\ c \in 0 .. 1
  <2>1. commits \in Seq(0 .. 2) /\ renders # 0 /\ behind \in BOOLEAN /\ c \in 0 .. 1
    BY <1>1 DEF Untorn, CallInv, BufferInv
  <2>2. Tail(commits) \in Seq(0 .. 2)
    BY <1>1, <2>1, HeadTailProperties
  <2> QED
    BY <2>1, <2>2
<1>3. ~behind => \E b \in 0 .. 2 : commits = <<b>> /\ call = <<>>
  BY <1>1 DEF Untorn, CallInv
<1>4. BufferInv' /\ CallInv'
  <2>1. BufferInv'
    BY <1>1 DEF Untorn, BufferInv
  <2>2. \A b : Tail(<<b>>) = <<>>
    OBVIOUS
  <2>3. ~behind' => commits' = <<>>
    BY <1>1, <1>3, <2>2
  <2>4. CallInv'
    BY <1>1, <1>2, <2>3 DEF Untorn, CallInv
  <2> QED
    BY <2>1, <2>4
<1>5. Working' => Working
  BY <1>1 DEF Working
<1>6. CASE Working'
  <2>1. NearInv'
    BY <1>1, <1>5 DEF Untorn, NearInv
  <2>2. CASE call = <<>> /\ commits' = <<>>
    <3>1. /\ commits[Len(commits)] = c
          /\ buffers[c].pixels = PictureOf(last_rendered_boxes, dimensions)
      BY <1>1, <1>5, <1>6, <2>2 DEF Untorn, DrawnInv
    <3>2. Len(commits) = 1 /\ Head(commits) = commits[1]
      <4>1. /\ Len(commits) \in Nat \ {0} /\ Head(commits) = commits[1]
            /\ Len(Tail(commits)) = Len(commits) - 1
        BY <1>1, <1>2, HeadTailProperties, LenProperties, EmptySeq
      <4>2. Tail(commits) = <<>>
        BY <1>1, <2>2
      <4>3. Len(Tail(commits)) = 0
        BY <4>2, EmptySeq
      <4> QED
        BY <4>1, <4>3
    <3>3. scanout' = c /\ ~behind'
      BY <1>1, <2>2, <3>1, <3>2
    <3>4. Untorn'
      BY <1>1, <1>4, <2>1, <2>2, <3>3 DEF Untorn, DrawnInv, ShownInv
    <3>5. PixelsIn(scanout)' = PictureOf(last_rendered_boxes, dimensions)
      BY <1>1, <1>2, <3>1, <3>3 DEF PixelsIn, NoBuffer
    <3>6. [i \in DOMAIN commits |-> PixelsIn(commits[i])]' = <<>>
      BY <2>2
    <3>7. CASE behind
      <4>1. WaylandScreen!Current'
        BY <1>1, <1>5, <1>6, <3>4, <3>5, <3>6 DEF Untorn, NearInv, WaylandScreen!Current
      <4> QED
        BY <1>1, <1>5, <1>6, <3>3, <3>4, <3>7, <4>1
           DEF WaylandStep, WaylandScreen!ScreenNext, WaylandScreen!CatchesUp
    <3>8. CASE ~behind
      <4> DEFINE p == PixelsIn(c)
      <4>1. commits = <<c>>
        BY <1>3, <3>1, <3>2, <3>8
      <4>2. PixelsIn(scanout)' = p
        BY <1>1, <3>3 DEF PixelsIn
      <4>3. [i \in DOMAIN commits |-> PixelsIn(commits[i])] = <<p>>
        BY <4>1
      <4> HIDE DEF p
      <4>4. <<p>> # <<>> /\ Head(<<p>>) = p /\ Tail(<<p>>) = <<>>
        OBVIOUS
      <4>5. WaylandScreen!Works
        BY <1>1, <1>5, <1>6, <3>3, <3>6, <3>8, <4>2, <4>3, <4>4
           DEF WaylandScreen!Works, WaylandScreen!Show
      <4> QED
        BY <3>4, <4>5 DEF WaylandStep, WaylandScreen!ScreenNext
    <3> QED
      BY <1>2, <3>7, <3>8
  <2>3. CASE ~(call = <<>> /\ commits' = <<>>)
    <3>1. behind /\ behind'
      <4>1. \A b : Tail(<<b>>) = <<>>
        OBVIOUS
      <4> QED
        BY <1>1, <1>2, <1>3, <2>3, <4>1
    <3>2. DrawnInv'
      <4>1. CASE call # <<>>
        BY <1>1, <1>5, <4>1 DEF Untorn, DrawnInv
      <4>2. CASE call = <<>>
        <5>1. /\ commits[Len(commits)] = c
              /\ buffers[c].pixels = PictureOf(last_rendered_boxes, dimensions)
          BY <1>1, <1>5, <1>6, <4>2 DEF Untorn, DrawnInv
        <5>2. /\ Len(commits) \in Nat \ {0} /\ Len(Tail(commits)) = Len(commits) - 1
              /\ \A i \in 1 .. Len(Tail(commits)) : Tail(commits)[i] = commits[i + 1]
          BY <1>1, <1>2, HeadTailProperties, LenProperties, EmptySeq
        <5>3. Len(Tail(commits)) # 0
          BY <1>1, <1>2, <2>3, <4>2, EmptySeq
        <5>4. commits'[Len(commits')] = c
          <6> DEFINE n == Len(commits)
                     k == Len(Tail(commits))
          <6>1. n \in Nat \ {0} /\ k = n - 1 /\ k # 0 /\ commits[n] = c
            BY <5>1, <5>2, <5>3
          <6>2. Tail(commits)[k] = commits[k + 1]
            <7>1. k \in 1 .. Len(Tail(commits))
              BY <6>1
            <7> QED
              BY <5>2, <7>1
          <6> HIDE DEF n, k
          <6>3. k + 1 = n
            BY <6>1
          <6> QED
            BY <1>1, <6>1, <6>2, <6>3 DEF k
        <5> QED
          BY <1>1, <2>3, <4>2, <5>1, <5>4 DEF DrawnInv
      <4> QED
        BY <4>1, <4>2
    <3>3. Untorn'
      BY <1>4, <2>1, <3>1, <3>2 DEF Untorn, ShownInv
    <3> QED
      BY <1>1, <1>5, <1>6, <3>1, <3>3, WaylandBehind
  <2> QED
    BY <2>2, <2>3
<1>7. CASE ~Working'
  BY <1>4, <1>7, OffKeeps, WaylandOff
<1> QED
  BY <1>6, <1>7

\* The Wayland overlay does what is promised of an overlay, however far the
\* compositor falls behind: while it keeps pace, no step shows anything but a
\* whole picture of boxes that were asked for, although the two buffers are drawn
\* in turn without waiting for a release; and when it has caught up, it shows the
\* picture that was drawn last, which will do for what was asked for last
\* (WaylandOverlay::render_boxes).
THEOREM WaylandStaysWhole ==
  Spec => WaylandScreen!ScreenInit /\ [][WaylandScreen!ScreenNext]_WaylandScreen!screenVars
<1>1. OverlayInit => Untorn /\ WaylandScreen!ScreenInit
  <2> SUFFICES ASSUME OverlayInit PROVE Untorn /\ WaylandScreen!ScreenInit
    OBVIOUS
  <2>1. ~Working /\ WaylandScreen!ScreenInit
    BY DEF OverlayInit, Working, WaylandScreen!ScreenInit, WaylandScreen!Blank, PixelsIn
  <2>2. BufferInv
    BY DEF OverlayInit, BufferInv
  <2>3. CallInv
    <3>1. <<>> \in Seq(0 .. 2)
      BY EmptySeq
    <3> QED
      BY <3>1 DEF OverlayInit, CallInv
  <2> QED
    BY <2>1, <2>2, <2>3 DEF Untorn, NearInv, DrawnInv, ShownInv
<1>2. Untorn /\ [OverlayNext]_overlayVars
        => Untorn' /\ [WaylandScreen!ScreenNext]_WaylandScreen!screenVars
  <2> SUFFICES ASSUME Untorn, [OverlayNext]_overlayVars PROVE WaylandStep
    BY DEF WaylandStep
  <2>1. CASE UNCHANGED overlayVars
    <3>1. Untorn'
      BY <2>1 DEF overlayVars, surfaceVars, drawVars, compositorVars, Untorn, BufferInv,
                  CallInv, NearInv, DrawnInv, ShownInv, Working
    <3>2. UNCHANGED WaylandScreen!screenVars
      BY <2>1 DEF overlayVars, surfaceVars, drawVars, compositorVars,
                  WaylandScreen!screenVars, Working, PixelsIn
    <3> QED
      BY <3>1, <3>2 DEF WaylandStep
  <2>2. CASE Render
    BY <2>2, SkipStep, BeginStep DEF Render
  <2> QED
    BY <2>1, <2>2, SurfaceStep, DrawStep, EndStep, ApplyStep DEF OverlayNext
<1> QED
  BY <1>1, <1>2, Parts, PTL

\* Both overlays keep their promises for all requests and sizes and any number of
\* calls, once what the runs check of fairness is given: that the compositor of
\* the Wayland overlay catches up in the end.
THEOREM OverlaysKeepPromises ==
  Spec /\ WaylandScreen!Settles => OverlaysImplementScreen
BY WaylandStaysWhole, WindowImplementsScreen, PTL
   DEF OverlaysImplementScreen, WaylandScreen!ScreenSpec
=============================================================================
