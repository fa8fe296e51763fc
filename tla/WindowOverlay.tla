----------------------------- MODULE WindowOverlay -----------------------------
(***************************************************************************)
(* WindowsOverlay (window_overlay.cpp): one bitmap that every call clears  *)
(* and redraws, and a layered window that takes a copy of it.  The message *)
(* pump is the only way in which the window's end reaches the overlay, and *)
(* nothing of it reaches is_active_.                                       *)
(***************************************************************************)
EXTENDS Boxes

CONSTANTS
  WindowRequests,  \* the sequences of boxes render_boxes is called with
  Metrics,         \* the sizes of the screen, as the system reports them
  PixelsCovered(_, _),  \* PixelsCovered(boxes, size): corners rounded down, clamped
  MaxWindowRenders \* bound: calls of render_boxes

VARIABLES
  window,         \* hwnd_: "none", "shown", "destroyed"
  screen_size,    \* screen_width_ and screen_height_
  has_bitmap,     \* whether bitmap_pixels_ is set
  bitmap,         \* the pixels of it that are not transparent
  is_active_,
  displayed,      \* what the window shows
  closing,        \* whether a message that destroys the window is queued
  requested,      \* the boxes of the last call
  windowRenders

windowVars == <<window, screen_size, has_bitmap, bitmap, is_active_, displayed,
                closing, requested, windowRenders>>

WindowInit ==
  /\ window = "none" /\ screen_size = <<1920, 1080>>
  /\ has_bitmap = FALSE /\ bitmap = {} /\ is_active_ = FALSE
  /\ displayed = {} /\ closing = FALSE /\ requested = <<>> /\ windowRenders = 0

\* init: without a window it fails; without a bitmap it does not.
InitWindow ==
  /\ window = "none" /\ windowRenders = 0
  /\ screen_size' \in Metrics
  /\ \/ UNCHANGED <<window, has_bitmap, is_active_>>
     \/ window' = "shown" /\ is_active_' = TRUE /\ has_bitmap' \in BOOLEAN
  /\ UNCHANGED <<bitmap, displayed, closing, requested, windowRenders>>

\* render_boxes: the whole picture is drawn into the bitmap, and the window
\* takes it over, if there still is one.
RenderWindow ==
  /\ windowRenders < MaxWindowRenders /\ windowRenders' = windowRenders + 1
  /\ requested' \in WindowRequests
  /\ IF is_active_ /\ has_bitmap
       THEN /\ bitmap' = PixelsCovered(requested', screen_size)
            /\ displayed' = IF window = "shown" THEN bitmap' ELSE {}
       ELSE UNCHANGED <<bitmap, displayed>>
  /\ UNCHANGED <<window, screen_size, has_bitmap, is_active_, closing>>

\* The system asks the window to close.
CloseRequested ==
  /\ window = "shown" /\ ~closing
  /\ closing' = TRUE
  /\ UNCHANGED <<window, screen_size, has_bitmap, bitmap, is_active_, displayed>>
  /\ UNCHANGED <<requested, windowRenders>>

\* message_pump: every queued message is dispatched; the default handler
\* destroys the window, WndProc posts a quit message that nobody looks at.
message_pump ==
  /\ closing
  /\ closing' = FALSE /\ window' = "destroyed" /\ displayed' = {}
  /\ UNCHANGED <<screen_size, has_bitmap, bitmap, is_active_, requested, windowRenders>>

\* The destructor gives up bitmap and window.
DestroyWindow ==
  /\ windowRenders > 0 /\ (has_bitmap \/ window = "shown")
  /\ has_bitmap' = FALSE /\ bitmap' = {} /\ closing' = FALSE /\ displayed' = {}
  /\ window' = IF window = "shown" THEN "destroyed" ELSE window
  /\ is_active_' = FALSE
  /\ UNCHANGED <<screen_size, requested, windowRenders>>

WindowNext ==
  InitWindow \/ RenderWindow \/ CloseRequested \/ message_pump \/ DestroyWindow

\* The window shows what was asked for last, exactly, as long as it is there.
Same(a, b) == a = b

WindowScreen == INSTANCE Screen WITH
  Picture <- PixelsCovered,
  Near <- Same,
  on <- window = "shown" /\ has_bitmap,
  behind <- FALSE,
  size <- screen_size,
  asked <- requested,
  drawn <- requested,
  owed <- <<>>,
  visible <- displayed
=============================================================================
