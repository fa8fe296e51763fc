-------------------------------- MODULE Overlay --------------------------------
(***************************************************************************)
(* WaylandOverlay (wayland_overlay.cpp) and the compositor it draws for:   *)
(* two buffers of shared memory that the overlay fills in turn and the     *)
(* compositor shows in place.  The overlay never waits for a buffer to be  *)
(* released, and after init it never reads its connection at all, however  *)
(* far the compositor is behind.                                           *)
(*                                                                         *)
(* A picture is the set of pixels that are not transparent; which colour   *)
(* they have, frosted or fixed, is left out.                               *)
(***************************************************************************)
EXTENDS Boxes

CONSTANTS
  Requests,     \* the sequences of boxes render_boxes is called with
  Configures,   \* the sizes a compositor may ask for; <<0, 0>> leaves it open
  Default,      \* width and height until the compositor asks: 1920 by 1080
  MaxUnread,    \* bound: events that fit into the connection unread
  MaxRenders    \* bound: calls of render_boxes

ASSUME RequestsAssumption ==
  Requests \subseteq Seq([x : Int, y : Int, width : Int, height : Int])

NoBuffer == 2

VARIABLES
  link,                 \* the connection: "closed", "open", "lost", or "dead"
                        \* once the daemon has written through a null pointer
  configured,
  dimensions,           \* width and height
  buffers,              \* for each of the two: allocated, and its pixels
  current_buffer,
  last_rendered_boxes,
  call,                 \* the boxes of the call that is drawing, if one is
  todo,                 \* those of them not drawn yet
  answered,             \* the boxes of the last call that has returned
  renders,
  commits,              \* what was attached and committed, not yet applied
  scanout,              \* the buffer on the screen, if any
  unread,               \* events that the compositor has sent since init
  behind                \* history: a call began to draw before the compositor had
                        \*   taken up the one before, and it has not caught up since

surfaceVars == <<link, configured, dimensions>>
drawVars == <<buffers, current_buffer, last_rendered_boxes, call, todo, answered, renders>>
compositorVars == <<commits, scanout, unread, behind>>
overlayVars == <<surfaceVars, drawVars, compositorVars>>

\* The pixels a box covers: corners rounded down and kept on the screen.
PixelsOf(b, size) ==
  LET Column(v) == Least((v * size[1]) \div One, size[1])
      Row(v) == Least((v * size[2]) \div One, size[2])
  IN (Column(b.x) .. Column(Right(b)) - 1) \X (Row(b.y) .. Row(Bottom(b)) - 1)

PictureOf(boxes, size) == UNION {PixelsOf(boxes[i], size) : i \in DOMAIN boxes}

Differs(v, w) == 1000 * (v - w) > 3 * One \/ 1000 * (w - v) > 3 * One

boxes_differ(a, b) ==
  \/ Len(a) # Len(b)
  \/ \E i \in DOMAIN a : \/ Differs(a[i].x, b[i].x) \/ Differs(a[i].width, b[i].width)
                         \/ Differs(a[i].y, b[i].y) \/ Differs(a[i].height, b[i].height)

OverlayInit ==
  /\ link = "closed" /\ configured = FALSE /\ dimensions = Default
  /\ buffers = [i \in 0..1 |-> [allocated |-> FALSE, pixels |-> {}]]
  /\ current_buffer = 0 /\ last_rendered_boxes = <<>>
  /\ call = <<>> /\ todo = <<>> /\ answered = <<>> /\ renders = 0
  /\ commits = <<>> /\ scanout = NoBuffer /\ unread = 0 /\ behind = FALSE

-----------------------------------------------------------------------------
(* init, dispatch_events and the destructor                                 *)

\* init fails before there is a surface (no compositor, no layer shell): main
\* goes on without one, and every call of render_boxes returns at once.
InitFails ==
  /\ link = "closed" /\ renders = 0
  /\ link' = "lost"
  /\ UNCHANGED <<configured, dimensions, drawVars, compositorVars>>

\* Each buffer is allocated, or not, which nobody notices.
allocate_shm_buffers ==
  \E allocated \in [0..1 -> BOOLEAN] :
    buffers' = [i \in 0..1 |-> [buffers[i] EXCEPT !.allocated = allocated[i]]]

\* The answer to the first commit: the compositor's size, or its leave to choose.
layer_surface_configure ==
  \E size \in Configures :
    /\ configured' = TRUE
    /\ dimensions' = IF size[1] > 0 /\ size[2] > 0 THEN size ELSE dimensions

\* init succeeds.  The answer to its commit may come after the roundtrip: then
\* nothing reads it any more, and the overlay stays as it is.
InitOverlay ==
  /\ link = "closed" /\ renders = 0
  /\ link' = "open"
  /\ layer_surface_configure \/ UNCHANGED <<configured, dimensions>>
  /\ allocate_shm_buffers
  /\ UNCHANGED <<current_buffer, last_rendered_boxes, call, todo, answered, renders>>
  /\ UNCHANGED compositorVars

\* The destructor gives up buffers, surface and connection.
DestroyOverlay ==
  /\ link \in {"open", "lost"} /\ call = <<>> /\ renders > 0
  /\ link' = "closed" /\ configured' = FALSE
  /\ buffers' = [i \in 0..1 |-> [allocated |-> FALSE, pixels |-> {}]]
  /\ commits' = <<>> /\ scanout' = NoBuffer /\ unread' = 0 /\ behind' = FALSE
  /\ UNCHANGED <<dimensions, current_buffer, last_rendered_boxes, call, todo, answered, renders>>

-----------------------------------------------------------------------------
(* render_boxes                                                             *)

Skips(boxes, source) ==
  \/ ~configured
  \/ boxes = <<>> /\ last_rendered_boxes = <<>>
  \/ ~boxes_differ(boxes, last_rendered_boxes) /\ ~source

CanRender ==
  /\ call = <<>> /\ link \in {"open", "lost"}
  /\ renders < MaxRenders /\ renders' = renders + 1

\* Mutant: the boxes of a call are remembered though they are not drawn.
RenderSkipsDrifting(boxes, source) ==
  /\ CanRender /\ Skips(boxes, source)
  /\ answered' = boxes
  /\ last_rendered_boxes' = IF configured THEN boxes ELSE last_rendered_boxes
  /\ UNCHANGED <<surfaceVars, compositorVars, buffers, current_buffer, call, todo>>

\* The early returns: no surface, nothing to clear, or nothing new to show.
RenderSkips(boxes, source) ==
  /\ CanRender /\ Skips(boxes, source)
  /\ answered' = boxes
  /\ UNCHANGED <<surfaceVars, compositorVars>>
  /\ UNCHANGED <<buffers, current_buffer, last_rendered_boxes, call, todo>>

\* The other buffer is taken and cleared, whoever is still reading it.
RenderBegins(boxes, source) ==
  /\ CanRender /\ ~Skips(boxes, source)
  /\ current_buffer' = 1 - current_buffer
  /\ buffers' = [buffers EXCEPT ![current_buffer'].pixels = {}]
  /\ call' = <<boxes>> /\ todo' = boxes
  /\ behind' = (behind \/ commits # <<>>)
  /\ UNCHANGED <<surfaceVars, commits, scanout, unread, last_rendered_boxes, answered>>

\* One box is drawn; through a null pointer if there is no buffer.
DrawBox ==
  /\ call # <<>> /\ todo # <<>> /\ link # "dead"
  /\ todo' = Tail(todo)
  /\ LET pixels == PixelsOf(Head(todo), dimensions)
     IN IF buffers[current_buffer].allocated \/ pixels = {}
          THEN /\ buffers' = [buffers EXCEPT ![current_buffer].pixels = @ \cup pixels]
               /\ UNCHANGED link
          ELSE link' = "dead" /\ UNCHANGED buffers
  /\ UNCHANGED <<configured, dimensions, compositorVars, current_buffer>>
  /\ UNCHANGED <<last_rendered_boxes, call, answered, renders>>

\* The buffer, or a null one, is attached and committed; errors of a lost
\* connection are not looked at.
RenderEnds ==
  /\ call # <<>> /\ todo = <<>>
  /\ last_rendered_boxes' = Head(call)
  /\ commits' = IF link # "open" THEN commits
                ELSE Append(commits, IF buffers[current_buffer].allocated
                                       THEN current_buffer ELSE NoBuffer)
  /\ answered' = Head(call) /\ call' = <<>>
  /\ UNCHANGED <<surfaceVars, buffers, current_buffer, todo, renders, scanout, unread, behind>>

-----------------------------------------------------------------------------
(* The compositor                                                           *)

\* A commit is applied: the buffer that was shown is released, an event that
\* the overlay will not read.  When no more of them fit, or when a surface
\* that was unmapped by a null buffer is given another one, the client is cut.
Apply ==
  /\ link = "open" /\ commits # <<>>
  /\ commits' = Tail(commits)
  /\ scanout' = Head(commits)
  /\ behind' = (behind /\ (commits' # <<>> \/ call # <<>>))
  /\ unread' = IF scanout = NoBuffer THEN unread ELSE unread + 1
  /\ link' = IF \/ unread' > MaxUnread
                \/ scanout = NoBuffer /\ unread > 0
               THEN "lost" ELSE link
  /\ UNCHANGED <<configured, dimensions, drawVars>>

\* It closes the surface, or ends.  configured stays set: closed is not read.
CompositorLeaves ==
  /\ link = "open"
  /\ link' = "lost"
  /\ UNCHANGED <<configured, dimensions, drawVars, compositorVars>>

Render ==
  \E boxes \in Requests, source \in BOOLEAN :
    RenderSkips(boxes, source) \/ RenderBegins(boxes, source)

OverlayNext ==
  \/ InitFails \/ InitOverlay \/ DestroyOverlay
  \/ Render \/ DrawBox \/ RenderEnds
  \/ Apply \/ CompositorLeaves

\* The compositor takes up what is committed, and a call that draws goes on.
OverlayFairness == WF_overlayVars(Apply) /\ WF_overlayVars(DrawBox \/ RenderEnds)

-----------------------------------------------------------------------------
\* The overlay works: it was configured, has both its buffers, and the
\* compositor still serves it.
Working ==
  link = "open" /\ configured /\ \A i \in 0..1 : buffers[i].allocated

PixelsIn(buffer) == IF buffer = NoBuffer THEN {} ELSE buffers[buffer].pixels

Alike(a, b) == ~boxes_differ(a, b)

WaylandScreen == INSTANCE Screen WITH
  Picture <- PictureOf,
  Near <- Alike,
  on <- Working,
  behind <- behind,
  size <- dimensions,
  asked <- answered,
  drawn <- last_rendered_boxes,
  owed <- [i \in DOMAIN commits |-> PixelsIn(commits[i])],
  visible <- PixelsIn(scanout)

\* "Zero flicker" (README.md:42): what is on the screen changes only when the
\* compositor takes up a commit.  Two buffers are not enough for that: the one
\* on the screen is cleared if a call begins before the commit before it was
\* taken up (wayland_overlay.cpp:241-245).
NothingFlickers ==
  [][Working /\ Working' /\ scanout' = scanout
       => PixelsIn(scanout)' = PixelsIn(scanout)]_overlayVars
=============================================================================
