---------------------------- MODULE PipelineProofs ----------------------------
(***************************************************************************)
(* Proofs about Pipeline for every set of regions, every set of frame      *)
(* sizes and every MaxPublish.                                             *)
(***************************************************************************)
EXTENDS Pipeline, FiniteSetTheorems, TLAPS

-----------------------------------------------------------------------------
(* The type invariant.                                                      *)

\* The number of boxes in a published list is a natural number.
LEMMA BoxCount ==
  ASSUME NEW boxes, boxes \subseteq Regions
  PROVE  Cardinality(boxes) \in Nat
BY RegionsAssumption, FS_Subset, FS_CardinalityType

\* A step of the AI thread keeps every variable in its type.
LEMMA AiTyping == TypeOK /\ AiThread => TypeOK'
<1> SUFFICES ASSUME TypeOK, AiThread PROVE TypeOK'
  OBVIOUS
<1> USE DEF TypeOK, AiGoto, AiPcs, flags, setup, shared, mainVars, locals, clientVars
<1>1. CASE AiHead
  BY <1>1 DEF AiHead
<1>2. CASE AiCheckPaused
  BY <1>2 DEF AiCheckPaused
<1>3. CASE AiCapture
  BY <1>3 DEF AiCapture
<1>4. CASE AiCaptureFails
  BY <1>4 DEF AiCaptureFails
<1>5. CASE AiTrack
  BY <1>5 DEF AiTrack
<1>6. CASE AiPublish
  BY <1>6 DEF AiPublish
<1>7. CASE AiBump
  BY <1>7 DEF AiBump
<1>8. CASE AiClear
  BY <1>8 DEF AiClear
<1>9. CASE AiClearBump
  BY <1>9 DEF AiClearBump
<1> QED
  BY <1>1, <1>2, <1>3, <1>4, <1>5, <1>6, <1>7, <1>8, <1>9 DEF AiThread

\* A step of the main loop keeps every variable in its type.
LEMMA MainTyping == TypeOK /\ MainThread => TypeOK'
<1> SUFFICES ASSUME TypeOK, MainThread PROVE TypeOK'
  OBVIOUS
<1> USE DEF TypeOK, MainGoto, MainPcs, Clients, locals, Commands, Disconnected, Rendered,
            flags, setup, shared, aiVars, clientVars
<1>1. CASE MainHead
  <2>1. UNCHANGED <<g_running, visual_blur_paused, setup, shields, shared, aiVars,
                    current_seq, current_boxes, current_frame, last_processed_seq,
                    active_box_count, screen, clientVars>>
    BY <1>1 DEF MainHead
  <2>2. main_pc' \in MainPcs /\ worker_running' \in BOOLEAN
    BY <1>1 DEF MainHead
  <2> QED
    BY <2>1, <2>2
<1>2. CASE MainPoll
  BY <1>2 DEF MainPoll
<1>3. CASE MainReadEof
  BY <1>3 DEF MainReadEof
<1>4. CASE MainCommand
  BY <1>4, ZenonT(40) DEF MainCommand, Handle
<1>5. CASE MainLoadSeq
  BY <1>5 DEF MainLoadSeq
<1>6. CASE MainCopy
  BY <1>6 DEF MainCopy
<1>7. CASE MainRender
  BY <1>7, BoxCount DEF MainRender
<1>8. CASE MainDraw
  BY <1>8 DEF MainDraw
<1>9. CASE MainJoin
  BY <1>9 DEF MainJoin
<1>10. CASE MainCleanup
  BY <1>10 DEF MainCleanup
<1> QED
  BY <1>1, <1>2, <1>3, <1>4, <1>5, <1>6, <1>7, <1>8, <1>9, <1>10
     DEF MainThread

\* So does a signal or a step of the client.
LEMMA EnvironmentTyping ==
  TypeOK /\ (Signal \/ ClientConnect \/ ClientStep \/ ClientVanish) => TypeOK'
BY ZenonT(40) DEF TypeOK, Signal, ClientConnect, ClientStep, ClientSend, ClientClose,
       ClientVanish, ClientGoto, Clients, Commands, flags, setup, shared, aiVars,
       mainVars, locals, clientVars

\* Every variable of the daemon keeps its type.
THEOREM Typing == Spec => []TypeOK
<1>1. Init => TypeOK
  <2> SUFFICES ASSUME Init PROVE TypeOK
    OBVIOUS
  <2>1. /\ ai_pc \in AiPcs /\ main_pc \in MainPcs
        /\ client \in Clients /\ request \in Commands
    BY DEF Init, AiPcs, MainPcs, Clients, Commands
  <2>2. /\ g_running \in BOOLEAN /\ worker_running \in BOOLEAN
        /\ visual_blur_paused \in BOOLEAN
    BY DEF Init
  <2> QED
    BY <2>1, <2>2 DEF Init, TypeOK
<1>2. TypeOK /\ [Next]_vars => TypeOK'
  <2> SUFFICES ASSUME TypeOK, [Next]_vars PROVE TypeOK'
    OBVIOUS
  <2>1. CASE UNCHANGED vars
    BY <2>1 DEF TypeOK, vars, flags, setup, shared, aiVars, mainVars, locals, clientVars
  <2>2. CASE Finished
    BY <2>1, <2>2 DEF Finished
  <2> QED
    BY <2>1, <2>2, AiTyping, MainTyping, EnvironmentTyping DEF Next
<1> QED
  BY <1>1, <1>2, PTL DEF Spec

-----------------------------------------------------------------------------
(* The publish handshake.                                                   *)

\* The sequence numbers main holds never run ahead of the AI thread's, so a
\* bump always makes the two differ.
SeqOrder ==
  /\ last_processed_seq <= raw_frame_seq
  /\ current_seq <= raw_frame_seq

HandshakeInv == TypeOK /\ SeqOrder /\ NoLostPublish

\* The AI thread publishes only into the window between publish and bump.
LEMMA AiHandshake == HandshakeInv /\ AiThread => SeqOrder' /\ NoLostPublish'
<1> SUFFICES ASSUME HandshakeInv, AiThread PROVE SeqOrder' /\ NoLostPublish'
  OBVIOUS
<1> USE DEF HandshakeInv, TypeOK, SeqOrder, NoLostPublish, UpToDate, AiGoto,
            shared, mainVars, locals
<1>1. CASE AiHead
  BY <1>1 DEF AiHead
<1>2. CASE AiCheckPaused
  BY <1>2 DEF AiCheckPaused
<1>3. CASE AiCapture
  BY <1>3 DEF AiCapture
<1>4. CASE AiCaptureFails
  BY <1>4 DEF AiCaptureFails
<1>5. CASE AiTrack
  BY <1>5 DEF AiTrack
<1>6. CASE AiPublish
  BY <1>6 DEF AiPublish
<1>7. CASE AiBump
  BY <1>7 DEF AiBump
<1>8. CASE AiClear
  BY <1>8 DEF AiClear
<1>9. CASE AiClearBump
  BY <1>9 DEF AiClearBump
<1> QED
  BY <1>1, <1>2, <1>3, <1>4, <1>5, <1>6, <1>7, <1>8, <1>9 DEF AiThread

\* The main loop touches the handshake in two steps only: the load outside the
\* lock and the copy under it.
LEMMA MainHandshake == HandshakeInv /\ MainThread => SeqOrder' /\ NoLostPublish'
<1> SUFFICES ASSUME HandshakeInv, MainThread PROVE SeqOrder' /\ NoLostPublish'
  OBVIOUS
<1> USE DEF HandshakeInv, TypeOK, SeqOrder, NoLostPublish, UpToDate, MainGoto,
            shared, aiVars, locals
<1>1. CASE MainLoadSeq
  BY <1>1 DEF MainLoadSeq
<1>2. CASE MainCopy
  BY <1>2 DEF MainCopy
<1>3. CASE ~(MainLoadSeq \/ MainCopy)
  <2>1. UNCHANGED <<raw_frame_seq, last_processed_seq, current_seq, current_boxes,
                    latest_rendered_boxes, ai_pc>>
    BY <1>3 DEF MainThread, MainHead, MainPoll, MainReadEof, MainCommand,
                MainRender, MainDraw, MainJoin, MainCleanup
  <2> QED
    BY <2>1
<1> QED
  BY <1>1, <1>2, <1>3

\* No publish is lost: when the sequence numbers agree and the AI thread is not
\* between publish and bump, main holds the boxes published last.
THEOREM PublishHandshake == Spec => []NoLostPublish
<1>1. Init => SeqOrder /\ NoLostPublish
  BY DEF Init, SeqOrder, NoLostPublish
<1>2. HandshakeInv /\ [Next]_vars => SeqOrder' /\ NoLostPublish'
  <2> SUFFICES ASSUME HandshakeInv, [Next]_vars PROVE SeqOrder' /\ NoLostPublish'
    OBVIOUS
  <2>1. CASE AiThread
    BY <2>1, AiHandshake
  <2>2. CASE MainThread
    BY <2>2, MainHandshake
  <2>3. CASE ~(AiThread \/ MainThread)
    <3>1. UNCHANGED <<shared, mainVars, aiVars>>
      BY <2>3 DEF Next, Finished, vars, Signal, ClientConnect, ClientStep,
                  ClientSend, ClientClose, ClientVanish, ClientGoto
    <3> QED
      BY <3>1 DEF HandshakeInv, SeqOrder, NoLostPublish, UpToDate, shared,
                  mainVars, locals, aiVars
  <2> QED
    BY <2>1, <2>2, <2>3
<1>3. Spec => [](SeqOrder /\ NoLostPublish)
  BY <1>1, <1>2, Typing, PTL DEF Spec, HandshakeInv
<1> QED
  BY <1>3, PTL

-----------------------------------------------------------------------------
(* What the screen shows.                                                   *)

\* A daemon without an overlay shows nothing; a drawing main loop is unpaused,
\* because only its own command handler pauses, and it has counted the boxes.
Drawing ==
  /\ ~ready => screen = {}
  /\ main_pc = "draw" => /\ ~visual_blur_paused
                         /\ active_box_count = Cardinality(current_boxes)

ScreenInv == Drawing /\ PausedScreenIsClear /\ ShownIsCounted

\* The screen is main's: each of its steps keeps pause and count honest.
LEMMA MainScreen == TypeOK /\ ScreenInv /\ MainThread => ScreenInv'
<1> SUFFICES ASSUME TypeOK, ScreenInv, MainThread PROVE ScreenInv'
  OBVIOUS
<1> USE DEF ScreenInv, Drawing, PausedScreenIsClear, ShownIsCounted, MainGoto,
            Rendered, flags, setup, locals
<1>1. CASE MainHead
  BY <1>1 DEF MainHead
<1>2. CASE MainPoll
  BY <1>2 DEF MainPoll
<1>3. CASE MainReadEof
  BY <1>3 DEF MainReadEof
<1>4. CASE MainCommand
  BY <1>4 DEF MainCommand, Handle, TypeOK
<1>5. CASE MainLoadSeq
  BY <1>5 DEF MainLoadSeq
<1>6. CASE MainCopy
  BY <1>6 DEF MainCopy
<1>7. CASE MainRender
  BY <1>7 DEF MainRender
<1>8. CASE MainDraw
  BY <1>8 DEF MainDraw
<1>9. CASE MainJoin
  BY <1>9 DEF MainJoin
<1>10. CASE MainCleanup
  BY <1>10 DEF MainCleanup
<1> QED
  BY <1>1, <1>2, <1>3, <1>4, <1>5, <1>6, <1>7, <1>8, <1>9, <1>10
     DEF MainThread

\* The screen invariant of every reachable state.
LEMMA Screen == Spec => []ScreenInv
<1>1. Init => ScreenInv
  BY DEF Init, ScreenInv, Drawing, PausedScreenIsClear, ShownIsCounted
<1>2. TypeOK /\ ScreenInv /\ [Next]_vars => ScreenInv'
  <2> SUFFICES ASSUME TypeOK, ScreenInv, [Next]_vars PROVE ScreenInv'
    OBVIOUS
  <2>1. CASE MainThread
    BY <2>1, MainScreen
  <2>2. CASE ~MainThread
    <3>1. UNCHANGED <<visual_blur_paused, setup, mainVars, screen>>
      BY <2>2 DEF Next, AiThread, AiHead, AiCheckPaused, AiCapture, AiCaptureFails,
                  AiTrack, AiPublish, AiBump, AiClear, AiClearBump, Signal,
                  ClientConnect, ClientStep, ClientSend, ClientClose, ClientVanish,
                  ClientGoto, Finished, AiGoto, vars, flags
    <3> QED
      BY <3>1 DEF ScreenInv, Drawing, PausedScreenIsClear, ShownIsCounted, setup,
                  mainVars, locals
  <2> QED
    BY <2>1, <2>2
<1> QED
  BY <1>1, <1>2, Typing, PTL DEF Spec

\* While the blur is paused nothing covers the screen, also when a frame that
\* was in flight at PAUSE is published and copied afterwards.
THEOREM PauseClears == Spec => []PausedScreenIsClear
BY Screen, PTL DEF ScreenInv

\* Whatever covers the screen has been counted for STATUS.
THEOREM ShownCounted == Spec => []ShownIsCounted
BY Screen, PTL DEF ScreenInv

-----------------------------------------------------------------------------
(* Shutdown.                                                                *)

\* A headless daemon shows nothing, and past the join the AI thread is done.
QuietInv == StoppedIsQuiet /\ (~ready => screen = {})

\* After the join the AI thread has no step left and main clears the screen.
THEOREM StopIsQuiet == Spec => []StoppedIsQuiet
<1>1. Init => QuietInv
  BY DEF Init, QuietInv, StoppedIsQuiet, Terminated
<1>2. TypeOK /\ QuietInv /\ [Next]_vars => QuietInv'
  <2> SUFFICES ASSUME TypeOK, QuietInv, [Next]_vars PROVE QuietInv'
    OBVIOUS
  <2> USE DEF QuietInv, StoppedIsQuiet, Terminated
  <2>1. CASE AiThread
    <3>1. ai_pc # "done" /\ UNCHANGED <<main_pc, ready, screen>>
      BY <2>1 DEF AiThread, AiHead, AiCheckPaused, AiCapture, AiCaptureFails,
                  AiTrack, AiPublish, AiBump, AiClear, AiClearBump, AiGoto,
                  mainVars, locals, setup
    <3> QED
      BY <3>1
  <2>2. CASE MainThread
    <3> USE <2>2 DEF MainGoto, Rendered, aiVars, setup
    <3>1. CASE MainJoin
      BY <3>1 DEF MainJoin
    <3>2. CASE MainCleanup
      BY <3>2 DEF MainCleanup
    <3>3. CASE ~(MainJoin \/ MainCleanup)
      <4>1. /\ main_pc' \notin {"cleanup", "stopped"}
            /\ UNCHANGED ready
        BY <3>3 DEF MainThread, MainHead, MainPoll, MainReadEof, MainCommand,
                    MainLoadSeq, MainCopy, MainRender, MainDraw
      <4>2. ~ready => screen' = {}
        BY <3>3 DEF MainThread, MainHead, MainPoll, MainReadEof, MainCommand, Handle,
                    MainLoadSeq, MainCopy, MainRender, MainDraw
      <4> QED
        BY <4>1, <4>2
    <3> QED
      BY <3>1, <3>2, <3>3
  <2>3. CASE ~(AiThread \/ MainThread)
    <3>1. UNCHANGED <<main_pc, ai_pc, ready, screen>>
      BY <2>3 DEF Next, Finished, vars, Signal, ClientConnect, ClientStep,
                  ClientSend, ClientClose, ClientVanish, ClientGoto, aiVars,
                  mainVars, locals, setup
    <3> QED
      BY <3>1
  <2> QED
    BY <2>1, <2>2, <2>3
<1>3. Spec => []QuietInv
  BY <1>1, <1>2, Typing, PTL DEF Spec
<1> QED
  BY <1>3, PTL DEF QuietInv
=============================================================================
