------------------------------- MODULE Pipeline -------------------------------
(***************************************************************************)
(* The Linux daemon (platform/linux/main.cpp): the main loop, the capture  *)
(* and AI thread, one client of the IPC socket, and the SIGINT / SIGTERM   *)
(* handler.                                                                *)
(*                                                                         *)
(* The AI thread publishes the boxes of a frame under boxes_mutex and then *)
(* bumps the atomic raw_frame_seq; the main loop reads raw_frame_seq       *)
(* WITHOUT the lock, and when it differs from last_processed_seq copies    *)
(* the boxes under the lock and draws them after releasing it.  The main   *)
(* loop is also the thread that runs the IPC commands, so PAUSE, RESUME    *)
(* and STOP race only with the AI thread.                                  *)
(*                                                                         *)
(* Boxes are members of Regions: what a detection, a tracked shield and a  *)
(* drawn rectangle have in common is the explicit region they stand for.   *)
(* Geometry is the business of the tracker modules.  visual_blur_paused is *)
(* a plain bool written by the main thread and read by the AI thread; the  *)
(* read is a step of its own and sees whichever value is there.            *)
(***************************************************************************)
EXTENDS Naturals, FiniteSets

CONSTANTS
  Regions,      \* explicit regions a frame can show
  Sizes,        \* values of VideoFrame.data_size the capture can return
  MaxPublish    \* bound: how often the AI thread publishes (uint64_t in the code)

ASSUME RegionsAssumption == IsFiniteSet(Regions)
ASSUME SizesAssumption == Sizes \subseteq (Nat \ {0}) /\ IsFiniteSet(Sizes)
ASSUME MaxPublishAssumption == MaxPublish \in Nat

\* STATUS, RELAPSE, SET_PADDING and unknown commands change nothing modelled
\* here and are one command, QUERY.
Commands == {"PAUSE", "RESUME", "STOP", "QUERY"}

VARIABLES
  g_running,              \* the flag the signal handler and STOP clear
  worker_running,         \* the flag main clears before it joins the thread
  visual_blur_paused,
  ready,                  \* WaylandOverlay::is_ready(), settled by init()
  model_loaded,           \* OnnxDetector::init() succeeded
  shields,                \* regions the anchor tracker holds
  latest_rendered_boxes,  \* the published boxes, under boxes_mutex
  shared_frame_buf,       \* size of the heap buffer behind the published frame
  shared_frame,           \* size of the buffer when shared_frame.data was taken
  raw_frame_seq,
  ai_pc, ai_boxes, ai_frame,          \* AI thread: pc, its boxes, its frame's size
  main_pc, current_seq,               \* main loop: pc and its local variables
  current_boxes, current_frame,
  last_processed_seq, active_box_count,
  screen,                 \* regions covered by the committed overlay buffer
  client, request         \* the client on the IPC socket and its command

flags == <<g_running, worker_running, visual_blur_paused>>
setup == <<ready, model_loaded>>
shared == <<latest_rendered_boxes, shared_frame_buf, shared_frame, raw_frame_seq>>
aiVars == <<ai_pc, ai_boxes, ai_frame>>
locals == <<current_seq, current_boxes, current_frame, last_processed_seq,
            active_box_count>>
mainVars == <<main_pc, locals>>
clientVars == <<client, request>>
vars == <<flags, setup, shields, shared, aiVars, mainVars, screen, clientVars>>

AiPcs == {"head", "check", "capture", "track", "publish", "bump", "clear",
          "clearing", "done"}
MainPcs == {"head", "poll", "read", "load", "copy", "render", "draw", "join",
            "cleanup", "stopped"}
Clients == {"idle", "connected", "sent", "closed", "vanished"}

TypeOK ==
  /\ g_running \in BOOLEAN /\ worker_running \in BOOLEAN
  /\ visual_blur_paused \in BOOLEAN
  /\ ready \in BOOLEAN /\ model_loaded \in BOOLEAN
  /\ shields \subseteq Regions
  /\ latest_rendered_boxes \subseteq Regions
  /\ shared_frame_buf \in Sizes \cup {0} /\ shared_frame \in Sizes \cup {0}
  /\ raw_frame_seq \in Nat
  /\ ai_pc \in AiPcs /\ ai_boxes \subseteq Regions /\ ai_frame \in Sizes \cup {0}
  /\ main_pc \in MainPcs /\ current_seq \in Nat
  /\ current_boxes \subseteq Regions /\ current_frame \in Sizes \cup {0}
  /\ last_processed_seq \in Nat /\ active_box_count \in Nat
  /\ screen \subseteq Regions
  /\ client \in Clients /\ request \in Commands

Init ==
  /\ g_running = TRUE /\ worker_running = TRUE /\ visual_blur_paused = FALSE
  /\ ready \in BOOLEAN /\ model_loaded \in BOOLEAN
  /\ shields = {} /\ latest_rendered_boxes = {}
  /\ shared_frame_buf = 0 /\ shared_frame = 0 /\ raw_frame_seq = 0
  /\ ai_pc = "head" /\ ai_boxes = {} /\ ai_frame = 0
  /\ main_pc = "head" /\ current_seq = 0 /\ current_boxes = {} /\ current_frame = 0
  /\ last_processed_seq = 0 /\ active_box_count = 0
  /\ screen = {}
  /\ client = "idle" /\ request = "QUERY"

Terminated == main_pc = "stopped"

\* boxes_mutex is held by the AI thread between two of its steps only while it
\* clears the boxes; its other critical section and main's are one step each.
BoxesMutexFree == ai_pc # "clearing"

\* What the screen shows after WaylandOverlay::render_boxes(boxes, ...).  Its
\* early returns (nothing to clear, boxes unchanged) leave the same picture.
Rendered(boxes) == IF ready THEN boxes ELSE screen

-----------------------------------------------------------------------------
(* The AI thread.  It changes none of main's variables.                      *)

AiGoto(from, to) ==
  /\ ai_pc = from
  /\ ai_pc' = to
  /\ UNCHANGED <<flags, setup, mainVars, screen, clientVars>>

\* Mutant: the thread waits until main has taken its last publish.
AiHeadWaits ==
  /\ last_processed_seq = raw_frame_seq
  /\ \/ AiGoto("head", "check") /\ worker_running /\ g_running
        /\ raw_frame_seq < MaxPublish
     \/ AiGoto("head", "done") /\ ~(worker_running /\ g_running)
  /\ UNCHANGED <<shields, shared, ai_boxes, ai_frame>>

\* while (worker_running && g_running).  MaxPublish stops the thread from
\* starting another round; it may still leave the loop.
AiHead ==
  /\ \/ AiGoto("head", "check") /\ worker_running /\ g_running
        /\ raw_frame_seq < MaxPublish
     \/ AiGoto("head", "done") /\ ~(worker_running /\ g_running)
  /\ UNCHANGED <<shields, shared, ai_boxes, ai_frame>>

\* Mutant: a paused thread just idles and leaves its last publish in place.
AiCheckPausedIdles ==
  /\ AiGoto("check", IF visual_blur_paused THEN "head"
                     ELSE IF model_loaded THEN "capture" ELSE "clear")
  /\ UNCHANGED <<shields, shared, ai_boxes, ai_frame>>

\* The unsynchronised read of visual_blur_paused.
AiCheckPaused ==
  /\ AiGoto("check", IF ~visual_blur_paused /\ model_loaded THEN "capture" ELSE "clear")
  /\ UNCHANGED <<shields, shared, ai_boxes, ai_frame>>

\* screencap.capture_frame, preprocess and detect: a frame of some size and
\* the regions the detector reports in it.
AiCapture ==
  /\ AiGoto("capture", "track")
  /\ ai_frame' \in Sizes
  /\ ai_boxes' \in SUBSET Regions
  /\ UNCHANGED <<shields, shared>>

\* grim failed or its picture was unreadable: this round publishes nothing.
AiCaptureFails ==
  /\ AiGoto("capture", "head")
  /\ UNCHANGED <<shields, shared, ai_boxes, ai_frame>>

\* tracker.process_frame, under the tracker's own mutex: every detection is
\* tracked, and older shields are kept or dropped.
AiTrack ==
  /\ AiGoto("track", "publish")
  /\ \E kept \in SUBSET shields :
       /\ shields' = ai_boxes \cup kept
       /\ ai_boxes' = ai_boxes \cup kept
  /\ UNCHANGED <<shared, ai_frame>>

\* Mutant: the frame is appended to the buffer instead of replacing it.
AiPublishAppends ==
  /\ AiGoto("publish", "bump")
  /\ latest_rendered_boxes' = ai_boxes
  /\ IF ai_boxes # {}
       THEN /\ shared_frame_buf' = shared_frame_buf + ai_frame
            /\ shared_frame' = shared_frame_buf'
       ELSE UNCHANGED <<shared_frame_buf, shared_frame>>
  /\ ai_boxes' = {} /\ ai_frame' = 0
  /\ UNCHANGED <<shields, raw_frame_seq>>

\* The critical section that publishes boxes and frame.
AiPublish ==
  /\ AiGoto("publish", "bump")
  /\ latest_rendered_boxes' = ai_boxes
  /\ IF ai_boxes # {}
       THEN /\ shared_frame_buf' = IF shared_frame_buf < ai_frame THEN ai_frame
                                                                  ELSE shared_frame_buf
            /\ shared_frame' = shared_frame_buf'
       ELSE UNCHANGED <<shared_frame_buf, shared_frame>>
  /\ ai_boxes' = {} /\ ai_frame' = 0
  /\ UNCHANGED <<shields, raw_frame_seq>>

\* raw_frame_seq.fetch_add after the lock is released.
AiBump ==
  /\ AiGoto("bump", "head")
  /\ raw_frame_seq' = raw_frame_seq + 1
  /\ UNCHANGED <<shields, latest_rendered_boxes, shared_frame_buf,
                 shared_frame, ai_boxes, ai_frame>>

\* Paused, or no model: clear the boxes under the lock ...
AiClear ==
  /\ AiGoto("clear", "clearing")
  /\ latest_rendered_boxes' = {}
  /\ UNCHANGED <<shields, shared_frame_buf, shared_frame, raw_frame_seq,
                 ai_boxes, ai_frame>>

\* Mutant: clearing the boxes is not announced.
AiClearSilently ==
  /\ AiGoto("clearing", "head")
  /\ UNCHANGED <<shields, shared, ai_boxes, ai_frame>>

\* ... and bump the sequence number before it is released.
AiClearBump ==
  /\ AiGoto("clearing", "head")
  /\ raw_frame_seq' = raw_frame_seq + 1
  /\ UNCHANGED <<shields, latest_rendered_boxes, shared_frame_buf,
                 shared_frame, ai_boxes, ai_frame>>

AiThread ==
  \/ AiHead \/ AiCheckPaused \/ AiCapture \/ AiCaptureFails \/ AiTrack
  \/ AiPublish \/ AiBump \/ AiClear \/ AiClearBump

-----------------------------------------------------------------------------
(* The main loop.                                                           *)

\* close(client_fd); the next client brings a request of its own.
Disconnected == client' = "idle" /\ request' = "QUERY"

MainGoto(from, to) ==
  /\ main_pc = from
  /\ main_pc' = to
  /\ UNCHANGED <<setup, shared, aiVars>>

\* while (g_running); on the way out worker_running.store(false).
MainHead ==
  /\ \/ MainGoto("head", "poll") /\ g_running /\ UNCHANGED worker_running
     \/ MainGoto("head", "join") /\ ~g_running /\ worker_running' = FALSE
  /\ UNCHANGED <<g_running, visual_blur_paused, shields, locals, screen, clientVars>>

\* process_pending: poll with timeout 0, then accept.
MainPoll ==
  /\ MainGoto("poll", IF client = "idle" THEN "load" ELSE "read")
  /\ UNCHANGED <<flags, shields, locals, screen, clientVars>>

\* Mutant: an empty read returns without closing the client's socket.
MainReadEofLeaks ==
  /\ MainGoto("read", "load")
  /\ client = "closed"
  /\ UNCHANGED <<flags, shields, locals, screen, clientVars>>

\* The accepted socket is a blocking one: read waits for data or end of file.
MainReadEof ==
  /\ MainGoto("read", "load")
  /\ client = "closed"
  /\ Disconnected
  /\ UNCHANGED <<flags, shields, locals, screen>>

\* The command handler's effect on the state it shares with the AI thread.
Handle(cmd) ==
  /\ visual_blur_paused' = CASE cmd = "PAUSE" -> TRUE
                             [] cmd = "RESUME" -> FALSE
                             [] OTHER -> visual_blur_paused
  /\ shields' = IF cmd = "PAUSE" THEN {} ELSE shields
  /\ screen' = IF cmd = "PAUSE" THEN Rendered({}) ELSE screen
  /\ g_running' = (g_running /\ cmd # "STOP")

\* A command arrives, is handled and answered.  The answer to a client that is
\* gone fails quietly: harden_current_process has SIGPIPE ignored.
MainCommand ==
  /\ MainGoto("read", "load")
  /\ client \in {"sent", "vanished"}
  /\ Handle(request)
  /\ Disconnected
  /\ UNCHANGED <<worker_running, locals>>

\* Mutant: a publish right after the last one is taken for the same.
MainLoadSeqLate ==
  /\ MainGoto("load", IF raw_frame_seq > last_processed_seq + 1 THEN "copy" ELSE "head")
  /\ current_seq' = raw_frame_seq
  /\ UNCHANGED <<flags, shields, current_boxes, current_frame,
                 last_processed_seq, active_box_count, screen, clientVars>>

\* current_seq = raw_frame_seq.load(), outside the lock.
MainLoadSeq ==
  /\ MainGoto("load", IF raw_frame_seq # last_processed_seq THEN "copy" ELSE "head")
  /\ current_seq' = raw_frame_seq
  /\ UNCHANGED <<flags, shields, current_boxes, current_frame,
                 last_processed_seq, active_box_count, screen, clientVars>>

\* The critical section of the main loop.
MainCopy ==
  /\ MainGoto("copy", "render")
  /\ BoxesMutexFree
  /\ current_boxes' = latest_rendered_boxes
  /\ current_frame' = shared_frame
  /\ last_processed_seq' = current_seq
  /\ UNCHANGED <<flags, shields, current_seq, active_box_count, screen,
                 clientVars>>

\* Mutant: frames are drawn whether or not the blur is paused.
MainRenderAlways ==
  /\ MainGoto("render", "draw")
  /\ active_box_count' = Cardinality(current_boxes)
  /\ UNCHANGED <<flags, shields, current_seq, screen, current_boxes,
                 current_frame, last_processed_seq, clientVars>>

\* Mutant: the box count is only reset, never set.
MainRenderUncounted ==
  /\ IF visual_blur_paused
       THEN /\ MainGoto("render", "head")
            /\ screen' = Rendered({})
            /\ active_box_count' = 0
       ELSE /\ MainGoto("render", "draw")
            /\ UNCHANGED <<active_box_count, screen>>
  /\ UNCHANGED <<flags, shields, current_seq, current_boxes, current_frame,
                 last_processed_seq, clientVars>>

\* After the unlock: draw the copied boxes, or nothing when paused.
MainRender ==
  /\ IF visual_blur_paused
       THEN /\ MainGoto("render", "head")
            /\ screen' = Rendered({})
            /\ active_box_count' = 0
       ELSE /\ MainGoto("render", "draw")
            /\ active_box_count' = Cardinality(current_boxes)
            /\ UNCHANGED screen
  /\ UNCHANGED <<flags, shields, current_seq, current_boxes, current_frame,
                 last_processed_seq, clientVars>>

\* overlay.render_boxes reads the mosaic's pixels through current_frame and
\* commits the buffer.
MainDraw ==
  /\ MainGoto("draw", "head")
  /\ screen' = Rendered(current_boxes)
  /\ UNCHANGED <<flags, shields, locals, clientVars>>

\* Mutant: the thread is detached instead of joined.
MainDetach ==
  /\ MainGoto("join", "cleanup")
  /\ UNCHANGED <<flags, shields, locals, screen, clientVars>>

\* ai_thread.join()
MainJoin ==
  /\ MainGoto("join", "cleanup")
  /\ ai_pc = "done"
  /\ UNCHANGED <<flags, shields, locals, screen, clientVars>>

\* dns_server.stop(), ipc_server.stop() (a client in the backlog is reset),
\* and the screen is cleared.
MainCleanup ==
  /\ MainGoto("cleanup", "stopped")
  /\ screen' = Rendered({})
  /\ Disconnected
  /\ UNCHANGED <<flags, shields, locals>>

MainThread ==
  \/ MainHead \/ MainPoll \/ MainReadEof \/ MainCommand
  \/ MainLoadSeq \/ MainCopy \/ MainRender \/ MainDraw \/ MainJoin \/ MainCleanup

-----------------------------------------------------------------------------
(* The environment: SIGINT and SIGTERM, and one client at a time.           *)

Signal ==
  /\ ~Terminated
  /\ g_running
  /\ g_running' = FALSE
  /\ UNCHANGED <<worker_running, visual_blur_paused, setup, shields, shared,
                 aiVars, mainVars, screen, clientVars>>

ClientGoto(from, to) ==
  /\ client = from
  /\ client' = to
  /\ UNCHANGED <<flags, setup, shields, shared, aiVars, mainVars, screen>>

\* connect(): the backlog accepts while the listening socket is open.
ClientConnect ==
  /\ ~Terminated
  /\ ClientGoto("idle", "connected")
  /\ request' \in Commands

\* write() of the command, by send_command.
ClientSend ==
  /\ ClientGoto("connected", "sent")
  /\ UNCHANGED request

\* close() without a write: is_daemon_running(), or a client that died early.
ClientClose ==
  /\ ClientGoto("connected", "closed")
  /\ UNCHANGED request

\* The client dies while it waits for the answer.
ClientVanish ==
  /\ ClientGoto("sent", "vanished")
  /\ UNCHANGED request

ClientStep == ClientSend \/ ClientClose

\* The process is gone; any other state without a successor is a deadlock.
Finished == Terminated /\ UNCHANGED vars

Next ==
  \/ AiThread \/ MainThread
  \/ Signal \/ ClientConnect \/ ClientStep \/ ClientVanish
  \/ Finished

Spec == Init /\ [][Next]_vars

\* Both threads are scheduled.  Nothing is assumed of the client, which may
\* stay connected and silent.
DaemonFairness == WF_vars(AiThread) /\ WF_vars(MainThread)
DaemonSpec == Spec /\ DaemonFairness

\* The program's own client writes or closes right after it has connected.
FairSpec == DaemonSpec /\ WF_vars(ClientStep)

-----------------------------------------------------------------------------
(* Safety.                                                                  *)

\* The publish handshake loses nothing: when the main loop believes it is up
\* to date and the AI thread is not between its publish and its bump, the
\* boxes main copied last are the boxes published last.
UpToDate == last_processed_seq = raw_frame_seq /\ ai_pc \notin {"bump", "clearing"}
NoLostPublish == UpToDate => current_boxes = latest_rendered_boxes

\* PAUSE is effective at once and stays so: a frame that was in flight when it
\* was handled, published and copied afterwards, never reaches the screen.
PausedScreenIsClear == visual_blur_paused => screen = {}

\* STATUS never under-reports: whenever rectangles cover the screen the
\* active_boxes it reports is their number.
ShownIsCounted ==
  screen # {} /\ main_pc # "draw" => active_box_count = Cardinality(screen)

\* The thread's captures of main's locals never outlive main: past the join no
\* step of the AI thread is left, and nothing it published covers the screen
\* when the daemon has stopped.
StoppedIsQuiet ==
  /\ main_pc \in {"cleanup", "stopped"} => ai_pc = "done"
  /\ Terminated => screen = {}

\* While main reads the mosaic's pixels, the pointer it copied under the lock
\* still points into the published buffer (video_frame.hpp:28).
SourceStaysMapped ==
  main_pc = "draw" /\ current_boxes # {} => current_frame = shared_frame_buf

-----------------------------------------------------------------------------
(* Liveness.                                                                *)

\* A signal or STOP ends the daemon, whatever the AI thread was doing.
ShutdownCompletes == ~g_running ~> Terminated

\* A client is answered, or dropped by the daemon's exit.
ClientAnswered == (client # "idle") ~> (client = "idle")

\* Boxes published while the blur is active are drawn, unless a later publish
\* supersedes them, the user pauses, or the daemon leaves.
PublishedIsShown ==
  \A boxes \in SUBSET Regions :
    (/\ ready /\ ~visual_blur_paused
     /\ latest_rendered_boxes = boxes /\ last_processed_seq # raw_frame_seq)
      ~> \/ screen = boxes
         \/ latest_rendered_boxes # boxes
         \/ visual_blur_paused
         \/ ~g_running \/ Terminated

\* While the blur stays paused the AI thread empties what was published last,
\* whether it had been announced and drawn before the pause or was in flight
\* when it came.  The bound leaves room for one publish in flight and the round
\* that empties it.  It says nothing of the tracker: AiTrack may fill it again
\* after PAUSE has reset it, and then the first frame after RESUME brings those
\* shields back.
PauseDrains ==
  (visual_blur_paused /\ raw_frame_seq + 1 < MaxPublish)
    ~> latest_rendered_boxes = {} \/ ~visual_blur_paused \/ ~g_running \/ Terminated
=============================================================================
