-------------------------------- MODULE Screen --------------------------------
(***************************************************************************)
(* What an overlay promises whoever calls render_boxes, and nothing of     *)
(* how: while it is on and the screen keeps pace, the screen shows a whole *)
(* picture at a time, in the order they were drawn; while the screen is    *)
(* behind it may show anything, but it catches up, and then it shows the   *)
(* last picture; and what was drawn last never strays from what was asked  *)
(* for last by more than Near lets pass, however many small steps it took. *)
(***************************************************************************)
EXTENDS Sequences

CONSTANTS
  Picture(_, _),  \* Picture(boxes, size): the pixels that cover the boxes
  Near(_, _)      \* Near(a, b): the difference is too small to draw again

VARIABLES
  on,       \* whether the overlay works; when it does not it promises nothing
  behind,   \* whether a picture was drawn before the screen had taken up the one
            \*   before, and the screen has not caught up since
  size,     \* width and height of the screen in pixels
  asked,    \* the boxes of the last call that has returned
  drawn,    \* the boxes that were drawn last
  owed,     \* the pictures on their way to the screen
  visible   \* the picture on the screen

screenVars == <<on, behind, size, asked, drawn, owed, visible>>

Blank == asked = <<>> /\ drawn = <<>> /\ owed = <<>> /\ visible = {}

\* The screen shows what was drawn last, which will do for what was asked.
Current ==
  /\ owed = <<>> /\ visible = Picture(drawn, size)
  /\ asked = drawn \/ Near(asked, drawn)

ScreenInit == ~on /\ Blank

\* The overlay starts, with nothing on the screen; or it stops working.
TurnOn == ~on /\ on' /\ ~behind' /\ Blank'
TurnOff == on /\ ~on'

\* A call that leaves the screen as it is, since what is drawn will do.
AskNear == Near(asked', drawn) /\ UNCHANGED <<drawn, owed, visible>>

\* A call that draws, and either waits for the screen to take it up or does not.
AskNew ==
  /\ drawn' = asked'
  /\ \/ owed' = Append(owed, Picture(asked', size)) /\ UNCHANGED visible
     \/ visible' = Picture(asked', size) /\ owed' = <<>>

\* The screen takes up the oldest picture on its way.
Show ==
  /\ owed # <<>>
  /\ visible' = Head(owed) /\ owed' = Tail(owed)
  /\ UNCHANGED <<asked, drawn>>

Works ==
  /\ on /\ on' /\ UNCHANGED size
  /\ ~behind /\ ~behind'
  /\ AskNear \/ AskNew \/ Show

\* A call does not wait for a picture on its way; while the screen is behind
\* nothing is promised of what it shows, but when it has caught up it is current.
FallsBehind == on /\ on' /\ UNCHANGED size /\ ~behind /\ behind' /\ owed # <<>>
StaysBehind == on /\ on' /\ UNCHANGED size /\ behind /\ behind'
CatchesUp == on /\ on' /\ UNCHANGED size /\ behind /\ ~behind' /\ Current'

IsOff == ~on /\ ~on'

ScreenNext == TurnOn \/ TurnOff \/ Works \/ FallsBehind \/ StaysBehind \/ CatchesUp \/ IsOff

\* Whatever is on its way arrives, and the screen catches up, unless the overlay
\* stops working or calls never cease.
Settles == []<>(~on \/ (owed = <<>> /\ ~behind))

ScreenSpec == ScreenInit /\ [][ScreenNext]_screenVars /\ Settles
=============================================================================
