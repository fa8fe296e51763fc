---------------------------- MODULE PipeWireCapture ----------------------------
(***************************************************************************)
(* PipeWireCapture (pipewire_capture.cpp): a caller that initialises,      *)
(* starts and stops a capture, and the thread of the PipeWire loop that    *)
(* lends every frame to the caller's callback.  Callbacks of the loop run  *)
(* under its lock, which start takes while it connects; stop takes no lock *)
(* and relies on having stopped the thread before it destroys anything.    *)
(* One thread calls; init is not called again while a thread of the loop   *)
(* runs, since it would free the Impl under it.                            *)
(***************************************************************************)
EXTENDS Naturals

CONSTANTS
  Sizes,     \* the sizes a format can have
  MaxStarts  \* bound: calls of start

Resources == {"loop", "context", "core", "stream"}
DataTypes == {"dmabuf", "memory", "other", "empty"}

VARIABLES
  has_impl,
  held,          \* the resources whose pointers are set
  loop_thread,   \* whether the thread of the loop runs
  is_running,
  connected,     \* whether the stream delivers
  format,        \* width and height of the frames, <<0, 0>> before a format
  buffer,        \* what the loop's thread holds of the stream: a kind, or None
  lent,         \* the frame the callback is working on, if any
  caller,        \* where the caller is: "idle" or inside start or stop
  stopped,       \* the last call that changed something was a stop
  starts

callerVars == <<has_impl, held, loop_thread, is_running, connected, caller, stopped, starts>>
streamVars == <<format, buffer, lent>>
captureVars == <<callerVars, streamVars>>

None == "none"

CaptureInit ==
  /\ has_impl = FALSE /\ held = {} /\ loop_thread = FALSE
  /\ is_running = FALSE /\ connected = FALSE /\ format = <<0, 0>>
  /\ buffer = None /\ lent = {}
  /\ caller = "idle" /\ stopped = FALSE /\ starts = 0

-----------------------------------------------------------------------------
(* The caller                                                               *)

\* init: a new Impl with its loop and context; without a context no loop.
InitCapture ==
  /\ caller = "idle" /\ ~loop_thread
  /\ has_impl' = TRUE
  /\ held' \in {{}, {"loop", "context"}}
  /\ is_running' = FALSE /\ connected' = FALSE /\ format' = <<0, 0>> /\ stopped' = FALSE
  /\ UNCHANGED <<loop_thread, buffer, lent, caller, starts>>

\* start refuses without a loop or while it runs, or starts the loop's thread;
\* a thread that is left from a start that failed is kept.
StartLoop ==
  /\ caller = "idle" /\ has_impl /\ "loop" \in held /\ ~is_running
  /\ starts < MaxStarts /\ starts' = starts + 1
  /\ stopped' = FALSE
  /\ \/ ~loop_thread /\ UNCHANGED <<loop_thread, caller>>
     \/ loop_thread' = TRUE /\ caller' = "connect"
  /\ UNCHANGED <<has_impl, held, is_running, connected, streamVars>>

\* Under the lock of the loop: core, stream and connection.  Each can fail,
\* and what was set by then stays, the thread included.
StartConnect ==
  /\ caller = "connect" /\ buffer = None
  /\ \/ held' = held \ {"core"} /\ UNCHANGED connected /\ caller' = "idle"
     \/ held' = (held \cup {"core"}) \ {"stream"} /\ UNCHANGED connected /\ caller' = "idle"
     \/ held' = held \cup {"core", "stream"} /\ UNCHANGED connected /\ caller' = "idle"
     \/ held' = held \cup {"core", "stream"} /\ connected' = TRUE /\ caller' = "started"
  /\ UNCHANGED <<has_impl, loop_thread, is_running, stopped, starts, streamVars>>

\* The lock is given back before is_running is set: frames may come first.
StartReturns ==
  /\ caller = "started"
  /\ is_running' = TRUE /\ caller' = "idle"
  /\ UNCHANGED <<has_impl, held, loop_thread, connected, stopped, starts, streamVars>>

\* stop, also in the destructor: nothing to do unless a start succeeded.
StopBegins ==
  /\ caller = "idle" /\ has_impl /\ is_running
  /\ is_running' = FALSE /\ caller' = "stopping"
  /\ UNCHANGED <<has_impl, held, loop_thread, connected, stopped, starts, streamVars>>

\* Mutant: the thread of the loop is not stopped first.
StopLoopLater ==
  /\ caller = "stopping"
  /\ caller' = "destroy"
  /\ UNCHANGED <<has_impl, held, loop_thread, is_running, connected, stopped, starts, streamVars>>

\* pw_thread_loop_stop waits for the thread, and so for the callback it is in.
StopLoop ==
  /\ caller = "stopping" /\ buffer = None
  /\ loop_thread' = FALSE /\ caller' = "destroy"
  /\ UNCHANGED <<has_impl, held, is_running, connected, stopped, starts, streamVars>>

StopDestroys ==
  /\ caller = "destroy"
  /\ held' = {} /\ connected' = FALSE
  /\ caller' = "idle" /\ stopped' = TRUE
  /\ UNCHANGED <<has_impl, loop_thread, is_running, starts, streamVars>>

-----------------------------------------------------------------------------
(* The thread of the loop                                                   *)

LoopRuns == loop_thread /\ connected

\* on_stream_param_changed; a parameter that is no video format is ignored.
on_stream_param_changed ==
  /\ LoopRuns /\ buffer = None
  /\ format' \in Sizes
  /\ UNCHANGED <<callerVars, buffer, lent>>

\* on_stream_process takes a buffer from the stream; one with data is lent to
\* the callback as a frame of the size last agreed on,
ProcessDequeues ==
  /\ LoopRuns /\ buffer = None
  /\ buffer' \in DataTypes
  /\ lent' = IF buffer' = "empty" THEN {}
             ELSE {[mapped |-> buffer' = "memory", size |-> format]}
  /\ UNCHANGED <<callerVars, format>>

\* and goes back to the stream once the callback has returned.
ProcessQueues ==
  /\ buffer # None
  /\ buffer' = None /\ lent' = {}
  /\ UNCHANGED <<callerVars, format>>

CaptureNext ==
  \/ InitCapture \/ StartLoop \/ StartConnect \/ StartReturns
  \/ StopBegins \/ StopLoop \/ StopDestroys
  \/ on_stream_param_changed \/ ProcessDequeues \/ ProcessQueues

-----------------------------------------------------------------------------
\* A frame is lent: while the callback works on it the stream that owns its
\* memory is there, the thread that lends it runs, and its size is the format's.
FrameIsLent ==
  /\ buffer # None => loop_thread /\ {"core", "stream"} \subseteq held
  /\ \A f \in lent : f.size = format /\ buffer \in DataTypes \ {"empty"}

\* A stop that has returned is final: no callback is at work, none will be, and
\* nothing is left that init and start had made.
StopIsFinal == stopped => buffer = None /\ ~loop_thread /\ ~connected /\ held = {}
=============================================================================
