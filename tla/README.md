# Formal specifications of degoonification

TLA+ specifications of the parts of degoonification that keep state: what they
promise, checked with TLC on small instances, and proved with TLAPS for every
value of the constants where that is possible. Definitions keep the names of
the C++ code; `PROJECT.json` maps each of them to the lines it stands for.

* [The system](#1-the-system)
* [Modules](#2-modules)
* [Runs and what they show](#3-runs-and-what-they-show)
* [Disagreements between the code and its documentation](#4-disagreements-between-the-code-and-its-documentation)
* [Proofs](#5-proofs)
* [What is not modelled](#6-what-is-not-modelled)
* [Plan](#7-plan)

To check a model, `tlc -config Pipeline.cfg Pipeline`; to check the proofs of
a module, `tlapm PipelineProofs.tla`.

## 1. The system

Degoonification watches the screen, hides explicit regions under an overlay,
answers the DNS queries for blocked names itself, and counts days.

| Component | State | Operations | Talks to |
|---|---|---|---|
| Linux daemon (`platform/linux/main.cpp`) | run flags, pause flag, published boxes and frame with a sequence number, counters | main loop, AI thread, command handler, signal handler | everything below |
| Screen capture (`capture/screencopy_capture.cpp`) | the frame buffer of the last capture | `capture_frame` spawns `grim`, reads its picture | called by the AI thread |
| ONNX detector, preprocessing (`inference/`) | the model | `init`, `detect` | called by the AI thread |
| Anchor tracker (`inference/visual_anchor_tracker.hpp`) | shields: box, times, anchor pixels | `process_frame`, `reset`, `set_config` | AI thread; main thread on PAUSE and SET_PADDING |
| Wayland overlay (`overlay/wayland_overlay.cpp`) | two buffers, last boxes, `configured` | `init`, `render_boxes`, `dispatch_events` | main thread, compositor |
| PipeWire capture (`capture/pipewire_capture.cpp`) | loop, context, core, stream, frame format | `init`, `start`, `stop`, callbacks of the loop thread | no caller yet |
| IPC server (`ipc/`) | listening socket | `init`, `process_pending`, `stop` | main thread, clients |
| Command line and dashboard (`cli/`) | none but the request in progress | start, stop, restart, pause, ... | IPC server, systemd |
| DNS sinkhole (`network/dns_server.cpp`) | two sockets, run flag, three counters | `init`, `start`, `stop`, `run_loop` | clients, upstream resolver, the two matchers |
| DNS packet codec (`network/dns_packet.cpp`) | none | `parse`, `build_sinkhole_response` | the sinkhole |
| Domain tree (`core/engine_shared/src/radix_tree.cpp`) | nodes, terminal marks, rule count | `insert`, `matches`, `load_from_file`, `clear` | the sinkhole, the C API |
| Bloom filter (`core/engine_shared/src/bloom_filter.cpp`) | bits, shape, a file | `add`, `contains`, `save_to_file`, `load_from_file`, `clear` | the sinkhole, the C API |
| Smoothing tracker (`core/engine_shared/src/temporal_smoothing.cpp`) | boxes with times | `process_frame`, `reset` | the C API |
| C API (`core/engine_shared/src/c_api.cpp`) | handles | one function per operation above | Flutter, through FFI |
| Watchdog (`platform/linux/watchdog/`) | the worker's pid, restart count, stop flag | `run`, signal handler; one-shot hardening | operating system |
| Browser extension (`apps/browser_extension/`) | settings and statistics in storage, a copy in each script | background page, popup, content scripts | the browser's storage and messages |
| Windows backend (`platform/windows/`) | window, bitmap, size, boxes | `init`, `render_boxes`, `message_pump` | no caller yet |
| Android application (`platform/android/app/`) | projection, display, reader; VPN interface; overlay boxes; streak | start and stop of three services | the Android framework |
| Flutter client (`apps/mobile_desktop_client/`) | streak record | `logRelapse`, getters | C API |

What is hard, and what makes each part correct:

* **Daemon.** Two threads share boxes and a frame under a mutex, but the
  sequence number that announces them is read outside it, the pause flag is a
  plain `bool`, and a frame is in flight for hundreds of milliseconds. A
  publish must not be lost; PAUSE must hold against a frame in flight; the AI
  thread, which captures `main`'s locals by reference, must be gone before they
  are; and every client must be answered by the loop that also draws and
  checks for the stop signal.
* **Domain tree.** `insert` skips a rule under a broader one and drops the
  subtree under a new one. Whatever the order, the tree must answer like the
  list of all rules ever inserted.
* **Bloom filter.** Bits are meaningful only together with the shape they were
  set under, which a load replaces. A key must never be forgotten, also across
  failed saves and loads.
* **DNS sinkhole.** One thread serves everyone over sockets that another thread
  closes, and waits at most 300 ms for a resolver that may lose, delay or
  reorder. Sockets must outlive their user, blocked names must be sinkholed
  whatever the resolver does, and an answer should reach its own client.
* **Detector, trackers.** Boxes go from the canvas of the network to the frame, are
  matched, smoothed, padded, merged and aged by a clock. What was just detected
  should be covered, what stands still should stay covered, and what is gone
  uncovered; merging must leave nothing to merge.
* **Lifecycle, watchdog.** Daemons, terminals and a service manager around one socket
  path; fork, crash, restart and stop in any order. A path left behind by a crash must
  not keep its successor out, and no command may wait for ever for a daemon.
* **Overlays.** Two buffers that the compositor shows in place, over a connection
  that may go away. The screen must come to the last picture drawn, and what is
  drawn must not drift away from what is asked for by small steps.
* **PipeWire capture.** A loop thread lends frames of a stream that `stop`
  destroys: it must be done with them first.
* **Packet codec.** Offsets out of a packet lead back into it. Parsing must stay within it
  and end, and an answer must match its question.
* **Extension, Android.** State copied between scripts, or services, that are
  created, killed and called back in no fixed order. Copies must follow what they
  copy, and a stop must leave nothing covered, captured or running.

`PROJECT.json` lists these, line by line, as hazards, each with the properties
that cover it, or a note that says why none does.

## 2. Modules

| Module | Models | Lines of TLA+ |
|---|---|---|
| `Pipeline` | daemon: main loop, AI thread, client, signal | 470 |
| `PipelineProofs` | its theorems | 320 |
| `FoldProofs` | induction over numbers and folds, for `BlocklistProofs` and `VisionProofs` | 260 |
| `DomainRules` | abstract: what a blocklist promises | 25 |
| `RadixTree` | the domain tree, implementing `DomainRules` | 115 |
| `BloomFilter` | the Bloom filter with its file | 92 |
| `DnsPacket` | the packet codec, byte by byte | 153 |
| `MCBlocklist` | tree, filter and codec side by side, with small names, hashes and packets | 53 |
| `BlocklistProofs` | the theorems of tree, filter and codec | 3183 |
| `DnsServer`, `MCDnsServer` | sinkhole worker, main thread, clients, resolver | 330 |
| `DnsServerProofs` | its theorems | 700 |
| `Boxes` | arithmetic of boxes and their merging, which both trackers share | 98 |
| `Detector` | from a frame to the network's canvas, and from its proposals to boxes | 200 |
| `Hysteresis` | abstract: what a smoothing tracker promises | 58 |
| `TemporalSmoothing` | the smoothing tracker behind the C API, implementing `Hysteresis` | 151 |
| `VisualAnchor` | the daemon's anchor tracker | 250 |
| `MCVision` | the three above side by side, with small screens | 71 |
| `VisionProofs` | sums and boxes; the theorems of trackers and detector | 5940 |
| `Lifecycle`, `MCLifecycle` | daemons, the socket path, the service manager, commands and dashboard | 464 |
| `LifecycleProofs` | its theorems | 675 |
| `Screen` | abstract: what an overlay promises | 76 |
| `Overlay` | the Wayland overlay with its compositor, implementing `Screen` | 231 |
| `WindowOverlay` | the Windows overlay, implementing `Screen` | 92 |
| `PipeWireCapture` | the PipeWire capture and its loop thread | 147 |
| `Extension` | background page, content script, popup and storage | 235 |
| `AndroidDefense` | activity, capture, overlay and VPN service | 188 |
| `MCFrontends` | the last five side by side | 67 |
| `FrontendsProofs` | their theorems | 1945 |
| `Watchdog`, `MCWatchdog` | supervisor process, its workers, signals | 217 |
| `WatchdogProofs` | its theorems | 255 |

Components that share no state are checked in one run by a `part` variable, which
says which of them a behaviour explores (`MCBlocklist`, `MCVision`, `MCFrontends`);
components that do interact are in one module or composed: the compositor with the
overlay, the service manager with daemons and commands. `Pipeline` stands above
`VisualAnchor`, `Detector` and `Overlay`: it takes from them only that a frame leads to
some set of boxes and that the screen shows what was drawn, and they say what the
boxes are and how a drawing gets to the screen.

Definitions whose comment starts with "Mutant:" are variants of the definition
they precede with a plausible bug. Nothing uses them: substituting one for the
original has to break the property that `PROJECT.json` pairs it with, which
shows that the property depends on that piece of code.

### Pipeline

Each thread has a program counter, and one action per stretch of code between
two accesses to shared state. For the AI thread: the loop's test (`AiHead`),
the read of `visual_blur_paused` (`AiCheckPaused`), capture and detection
(`AiCapture`, `AiCaptureFails`), the tracker (`AiTrack`), the critical section
that publishes (`AiPublish`), the increment of `raw_frame_seq` after it
(`AiBump`), and the clearing branch, which increments before it unlocks
(`AiClear`, `AiClearBump`). For the main loop: its test (`MainHead`),
`process_pending` with its poll, its blocking read and the command handler
(`MainPoll`, `MainReadEof`, `MainCommand`), the read of the sequence number
without the lock (`MainLoadSeq`), the copy under it (`MainCopy`), the use of
the copy (`MainRender`, `MainDraw`), the join and the cleanup. `Signal` and the
client's steps interleave with all of them.

A box is a member of `Regions`; coordinates are the trackers' business. A frame
is its `data_size`, which is what decides whether the shared buffer is
reallocated. `screen` is what the committed overlay buffer covers; the early
returns of `render_boxes` leave it what it already is. The capture may fail,
the model may be missing and the overlay may not be ready. SIGPIPE is ignored
(`anti_tamper.cpp` does that before any thread starts), so a client that dies
before its answer does no harm. The atomics of the code are sequentially
consistent or acquire/release and order the plain data around them; the one
racing plain variable, `visual_blur_paused`, is read in a step of its own.

### DomainRules, RadixTree, BloomFilter

A name is its sequence of labels from the top-level domain down, so a parent is
a prefix, and a node is the path that leads to it. `Insert` is the whole of
`insert`: the nodes created on the way, the return under a broader rule, the
dropped subtree, the count. `Matches` is the descent of `matches`, which needs
every node on the way to be there: that this amounts to "some rule is a prefix"
is a fact about the shape of the tree, not a definition. `DomainRules` says
only which names are blocked; `ImplementsDomainRules` maps its variable to the
set of names that `Matches` answers true for.

The Bloom filter's hash functions are constants, arbitrary functions to
naturals; the arithmetic wraps at `Word` (2^64 in the code). `added` is a history
variable: whose bits this filter's content is made of. `Save` may succeed, leave
a short file (it overwrites in place) or not open the file; `Load` changes
nothing unless the whole file is there; `Construct` is a new process with a
filter of another shape.

### DnsServer

A query is a datagram of a kind: blocked, clean or garbage. The worker's actions
follow `run_loop` from the poll to the reply; the upstream socket is the
sequence `answers`, which outlives the wait that an answer missed.
`UpstreamAnswers` takes the outstanding queries in any order and at any time, and
`WorkerForward` may lose the datagram. `taken` and `replies` are history
variables. The main thread may fail to initialise, and otherwise starts, stops,
joins and closes.

### Watchdog

`supervisor` is the place in `run()`: the outer test (`head`), the inner loop
(`watch`), the test after it (`decide`), the blocking `waitpid` after the kill
(`reap`). Workers are numbered in the order they are forked, and end cleanly or
not; `reaped` is how many the supervisor has waited for. A forked worker has the
supervisor's signal handler until it installs one: what `run()` sends it
before that is lost on it (`"deaf"`). Signals reach the supervisor, alone or with
its whole process group, between any two steps. What the worker function does is
external: it exits or crashes at any moment.

### Boxes, TemporalSmoothing, VisualAnchor, Detector

A box is four integers, in units of a thousandth of the screen (`Boxes`), in pixels of a
frame (`VisualAnchor`) or of the scaled picture (`Detector`); what the code computes with
floats is rounded down. Ratios and thresholds are percentages. `Merged` is
`merge_overlapping_boxes`, which both trackers copy: rounds in which each box
takes in what overlaps it, until a round changes nothing.

`TemporalSmoothing` is one handle of the C API: `dg_tracker_create` with its defaults,
`dg_tracker_process` with the buffer it truncates to, null handles and refused calls.
The caller brings the time, so it may go back. `Hysteresis` knows neither boxes that
grow nor matching: a set of detections with times, which have to be covered while
they are within the window. `detections` is the history variable that the
refinement maps to it.

`VisualAnchor` is `process_frame` in its four stages: old shields follow a scroll or
decay, detections are matched and smoothed, stale ones are dropped, the rest is
padded and merged. A frame is a picture at a scroll position and `Colour` gives
the grey level of each pixel; anchors, the search along the vertical axis and the
error threshold are the code's own. `unseen` is `now - last_seen_ms`. Points of a narrow
side that fall on the same pixel are separate anchors, as in the code's vector, and
weigh in the average and in the minimum of four accordingly. SET_PADDING may set any
ratio, a negative one too, since neither the command line nor the daemon checks it.

`Detector` is `preprocess` (scale, centre) and `detect` (best class, thresholds, mapping
back, suppression). The network is external: it proposes anything. `detect_fails` is
every early return.

### Lifecycle

Each daemon has its place in `init`, the loop, and `stop`; `path` is the daemon whose
socket the path in the file system names, alive or not. A daemon may crash at any step.
The commands of `main_cli.cpp` and `tui_dashboard.cpp` run step by step between
them: probes, which may give up at any time, connect, write, read, the calls of
systemctl or of nohup, waiting, and the dashboard's keys with raw mode. A daemon is
launched by the installed unit, which restarts it when it failed, by a transient unit,
or by nohup, which starts any number. A write to a socket that the daemon has closed
kills the command (`WriteKills`), since it does not ignore SIGPIPE, and an empty
answer parses to a status of defaults (`ReadsNothing`), as in the code. `degoon padding`
asks for any number of `Paddings`, and a dashboard for a step up or down from what it saw.

### Overlay, WindowOverlay, Screen

`Overlay` draws box by box (`DrawBox`) into one of two buffers and commits it; `Apply`,
an action of the compositor, puts the oldest commit on the screen, where the buffer is
shown in place: drawing into it later changes what is seen. A call never waits for the
compositor, so any number of commits may be on their way. `behind` is a history variable:
a call has begun to draw while a commit was on its way, and the compositor has not
caught up since. As long as it is behind, the screen may show anything, a buffer that is
being cleared included (`overlay_flicker` shows that it does); `Screen` promises that
before this the screen is whole, and that whoever catches up is current.
`Near` of the abstract `Screen` is the tolerance of `boxes_differ`, and what the module
shows is that the tolerance is against what was drawn. The compositor may close the surface, go away,
or cut a client that does not read its events; a failed allocation is not noticed by the
code, and neither here. `WindowOverlay` is the same on a layered window, which takes up a
picture within the call, so `owed` is always empty there.

### PipeWireCapture, Extension, AndroidDefense

`PipeWireCapture` has one action per piece of `start` and `stop` that the loop thread can
come between, and one per step of its callbacks; `start` may fail at each resource,
and leaves what it had.

`Extension` gives each script its queue of messages and of changes of the storage; a
read of the storage is answered with what was there when it was asked. A page adds
elements at any time; the content script's observer, its scan and its changes of settings
hide them. The two do not look for the same, and each has its operator: both hide what
`Hides` says, a scan also the pictures of marked posts, whatever `blurImages` says
(`ScanHides`, lines 192 to 195 of `content.js`), and the observer also the background of an
added element that looks suspicious (`ObserverHides`, lines 166 to 169). `fresh` and
`observed` are history: what no scan has seen yet, and what the observer has seen since
the settings changed.

`AndroidDefense` runs on the main thread, which takes clicks, dialogs and queued intents,
beside the capture thread, whose frame may be in the works while anything happens.
The process may die and the activity may be created anew.

### DnsPacket

A packet is a sequence of bytes, and a name is followed label by label and pointer by
pointer as in the loop of `parse`, whose rounds end the name, jump, take a label or find
the packet bad, one of the four; `reads` collects every offset that was read. `Build` is
`build_sinkhole_response`, byte for byte.

## 3. Runs and what they show

| Run | Instance | Shows |
|---|---|---|
| `pipeline` | 1 region, 1 frame size, 3 publishes: 314 thousand states | five invariants and four liveness properties of the daemon |
| `pipeline_silent_client` | 1 publish | violation: a silent client stops the daemon from stopping |
| `pipeline_source` | 2 frame sizes | violation: pixels read from a buffer that was freed |
| `blocklist` | 6 names, 2 keys, 2 shapes, 46 thousand packets: 94 thousand states | the tree implements the rule list; the filter forgets nothing; the codec stays in its packet and answers the question |
| `dns_server` | 4 queries: 16 thousand states | four invariants and two liveness properties of the sinkhole |
| `dns_late_answer` | the same | violation: answers go to the wrong clients |
| `watchdog` | no limit and a limit of 3, 4 forks: 218 states | three invariants and two liveness properties of the supervisor |
| `vision` | a screen of 1000 by 1000, 3 calls or frames: 42 thousand states | the smoothing tracker implements `Hysteresis`; six more properties of trackers and detector |
| `lifecycle` | 2 terminals, 2 commands, 2 daemons, 1 crash, 2 paddings: 118 thousand states | three properties of the socket path and the commands |
| `frontends` | see below: 799 thousand states | both overlays implement `Screen`; safety of capture, extension and Android |
| `overlay_flicker` | 4 calls | violation: the buffer on the screen is cleared |
| `extension_restart` | 2 toggles or restarts | violation: the background page does not load the saved settings |

### Properties of the daemon

* `NoLostPublish`: when the main loop takes itself to be up to date, and no
  publish is half done, it has the boxes published last. This is the handshake
  of an unlocked counter with locked data.
* `PausedScreenIsClear`: PAUSE clears the screen at once, and no frame that was
  captured, tracked, published or copied before it is drawn after it.
* `ShownIsCounted`: the `active_boxes` of STATUS is the number of rectangles on
  the screen whenever there are any. (It may report boxes that PAUSE has just
  removed, until the next frame.)
* `StoppedIsQuiet`: past the join no step of the AI thread is left, and a
  stopped daemon leaves nothing on the screen.
* `ShutdownCompletes`, `ClientAnswered`, `PublishedIsShown`, `PauseDrains`: a
  stop ends the daemon; a client is answered, or dropped at the exit;
  boxes are drawn unless superseded; a paused daemon empties what it published
  last, announced or in flight (but not its tracker, which a frame in flight may
  fill again: the first frame after RESUME may bring those shields back).

### Properties of the blocklist

* `TreeShape`: every node is reachable and leads to a rule, and no rule lies
  below another one. `SizeCoversRules`: `size()` never under-reports (it may
  over-report, since dropped rules stay counted).
* `ImplementsDomainRules`: after any inserts and clears, in any order, exactly
  the names with an inserted rule as a prefix are blocked.
* `NoFalseNegatives`: a key that was added, here or by the process that saved
  the loaded file, is found.

### Properties of the sinkhole

* `SocketsOutliveWorker`: the worker uses no socket that `stop` has closed.
* `CountersAddUp`: the statistics equal the numbers of queries received,
  sinkholed and forwarded, at every moment.
* `RepliesAreSound`: one reply per query at most; the sinkhole exactly for the
  blocked ones; no answer is given twice or to a query older than its own.
* `StopReturns` and `BlockedIsSinkholed`: `stop` returns whatever the worker was
  waiting for, and a blocked query in the socket is sinkholed unless the server
  is stopped, whatever the resolver does to those before it.

### Properties of the watchdog

* `OneWorker`: a worker is forked only after the one before it failed and was
  waited for, and `run()` returns with none left, running or as a zombie.
* `LimitKept`: `max_restarts_` bounds the workers, the first one included.
* `CrashIsRestarted`: a worker that failed has a successor unless a stop was
  requested, the limit is reached or `fork()` fails.
* `StopEnds`: a stop ends the supervisor, also when it comes just after a worker
  was reaped (the kill and the second `waitpid` then find no process). The one
  exception is part of the property: a worker that the stop reached before it
  had a handler of its own goes on, and the supervisor waits for it.

### Properties of detector and trackers

* `ImplementsHysteresis`: whatever boxes were matched with, grown to and merged into, a
  caller with room for them is handed out boxes that cover every detection within
  the window, and nothing once there is none.
* `MergeIsComplete`: in both trackers, no two of the boxes handed out still overlap.
* `LoneDetectionIsHidden`: although a matched shield moves only part of the way, it hides
  the middle of a region that was reported alone, and a fresh one all of it. Of the edges
  of a region that was matched nothing is promised, nor of any region under a negative
  padding.
* `StillPictureIsHeld`: on a page that stands still a shield that was seen in the last
  frame is held in the next, however late that comes and whatever it reports: where it was
  unless a report overlaps it, and moved by the smoothing and no further if just one
  thing is reported. "Seen" is `unseen` being zero, and so asks that frames are some time
  apart; a shield that has room for fewer than four anchors is excepted.
* `CutUncovers`: once frames have shown nothing but pictures in which nothing was ever
  reported, for the decay time altogether, nothing is drawn. The time may be one long
  frame or add up from short ones (`quiet` is the sum).
* `DetectionsAreFaithful`: each pixel that the network saw within an explicit proposal
  lies below the box that the proposal became, and no candidate is dropped without a kept
  one that stands for it. The first part holds up to less than half a pixel of the canvas
  at the near edge, since `preprocess` steps by the exact scale and `detect` divides by the
  size that it was rounded to.

### Properties of the lifecycle

* `AloneIsReachable`: a daemon that was launched when no other could touch the path, and
  that none followed, can be reached as long as it runs, whatever a crash left behind.
  The premise is needed: two terminals that both found no daemon start two, and one
  of them has no path; and a daemon that is slow to end removes the path of its
  successor. Both happen in the run.
* `CommandsEnd`: every command ends, and a dashboard after `q`, whatever daemons do. A
  command that SIGPIPE kills has ended too, whatever it leaves undone.

### Properties of overlays, capture, extension and Android

* `OverlaysImplementScreen`: while the compositor keeps pace, a whole picture at a time, in
  order; however far it falls behind, it comes to the last one, whole; and that is
  never further from the last request than the tolerance, however many small steps
  led there.
* `CaptureIsSafe`: a lent frame is valid as long as the callback works on it, and after a
  `stop` no callback is at work and nothing is left.
* `ExtensionKeepsUp`: what a scan looks for is hidden once a scan has seen it, and what the
  observer looks for once that has, by the settings of the moment (`MediaIsHidden`); what
  both look for is hidden unless it still waits for the observer (`NothingIsMissed`); the
  background page acts by every setting it was told of since its first read was answered;
  totals agree with the storage unless something was counted before that.
  Two things are seen by no one, as in the code: a picture in a marked post that
  comes while `blurImages` is off stays bare until the next scan, and a background that
  comes while the defence is off, or inside another element, stays so for good.
* `AndroidStopsClean`: after a stop nothing is covered, except by a frame that was in the
  works; one projection, and one more for each time the activity lost track;
  one VPN thread and one interface, or neither.

### Property of the codec

* `AnswersMatchQuestions`: no byte beyond the packet is read, wherever pointers lead, and
  the sinkhole answer parses again to the same identifier, question and name.

### Bounds

* `MaxPublish` stops the AI thread from starting another round, never in the
  middle of one; the counter is 64 bits wide in the code. Three publishes let one
  be announced and on the screen, the next be in flight through a PAUSE, and the
  third be the round that empties it, with a RESUME and a STOP anywhere between.
  The safety part also passes with two regions, two frame sizes and three
  publishes (2.5 million states). `NoLostPublish` and the other invariants are
  proved without the bound mattering.
* One client at a time, but any number in sequence: the daemon accepts one per
  round and answers it before the next, so more clients only wait in the
  backlog.
* The six names of `MCBlocklist` nest four deep, fork, and leave one level
  without a rule of its own; the two keys share a bit in one of the two shapes.
  Both properties are proved for all names and hashes.
* The four queries of `MCDnsServer` are two that are forwarded, so that an
  answer can be late for one and meet the other, one blocked and one garbage. A
  third forwarded query gives 354 thousand states, with the same result. A query
  arrives at most once; a resend with the same content is another query.
* `MaxForks`: four forks of a supervisor that gives up after three, and of one that never
  does, let every worker but the first be a restart, the limit bite before the
  bound, and a stop come before, between and after all of them.
* `vision`: three calls (`MaxCalls`) or frames (`MaxFrames`) of at most two detections: a
  box is detected, matched and grown, and outlives or leaves its window, with two
  windows, paddings and thresholds, and buffers of one and three boxes. The
  three smoothing boxes meet only when padded or grown, so that one round of merging
  is not enough. The anchor tracker sees a page at two scroll positions and a film, with
  frames 150 and 300 ms apart, so that one frame is past the decay time of 280 ms, and two
  add up to more than it. The paddings are a small one and one that takes
  away more than a box. The detector has a canvas
  of 16 pixels (640 in the code), six sizes of frame and up to three proposals, in
  which a chain of overlaps and a tie fit.
* `lifecycle`: two terminals with two commands between them, two daemons and one crash,
  enough for a crash before, and a race during, a start. `MaxKeys` is the number of
  keys that are typed and not read yet. The paddings are 0.90, from which `+` goes back to
  the most a dashboard asks for, and one below zero.
* `frontends`: `MaxRenders` is five and `MaxWindowRenders` three: both buffers are used
  twice, and small steps add up past the tolerance. `MaxUnread` of two events stands
  for a socket buffer that fills up. `MaxStarts` is three calls of `start`. `MaxEvents`
  is two toggles, blocked sites or restarts of the browser, `MaxClicks` four clicks,
  `MaxIntents` three that wait, `MaxDeaths` two ends of the process or the
  activity: enough for a start, a death, a second start and a stop.
* `MaxHops` is 3, for 64 in the code, so that a short packet runs past it. Packets
  have a header and up to five bytes of name out of eight values: pointers to the name
  itself, into the header, past the end, labels that are cut off or hold a dot.
* How many commits are on their way is bounded only by the calls (`MaxRenders`): nothing in
  the overlay waits for the compositor.
* In the extension, `MaxPage` is two elements at a time out of a canvas, a picture inside a
  marked post, and a background with a telling name, on sites of both kinds.

### Fairness

`WF_vars(AiThread)`, `WF_vars(MainThread)`, `WF_vars(Worker)`: the operating
system schedules each thread, no step of theirs waits for more than a timeout of
poll, a process that ends, or a mutex that is held for a copy. The steps that do
wait without bound (the read of a client's command, the joins) are disabled until
what they wait for has happened, so fairness does not presuppose it. The capture
is taken to end: `grim` captures one picture and exits.
`WF_vars(ClientStep)` says that a client which has connected writes or closes:
both functions of `ipc_client.cpp` that connect do so in their next statement.
`pipeline_silent_client` shows what happens to other clients. `WF_vars(Supervisor)` is
scheduling again: its two steps that wait, in the inner loop and in the blocking
`waitpid`, are disabled until the worker has ended or a stop is there.
`WF_vars(WorkerStops)` says that a worker which has handled the signal ends, as
the daemon does by `ShutdownCompletes`; a worker that was told nothing need never
end. Nothing is assumed
of signals, of clients that might connect, of DNS clients and of the resolver, and
`main` need never call `stop`.

In `Lifecycle`, each daemon, its leaving of the loop and its service of each client are
weakly fair, and so are the steps of each terminal: processes are scheduled, and
the main loop looks at `g_running` in every round, and accepts clients in turn. Users
need neither give commands nor press keys, nothing crashes or is restarted by
necessity, and a probe loop need not succeed. In `Overlay` the compositor applies what was
committed while the connection is there (`WF_overlayVars(Apply)`), and a call that draws
goes on to its end; nothing is assumed of the compositor's events. `Settles` says that the
compositor catches up again and again; with calls that never cease it need not, and
the run shows it for the bounded number of calls it has. The other modules need none: their properties are about safety.

## 4. Disagreements between the code and its documentation

1. `pipeline_silent_client`: `ipc_server.hpp:27` says that requests are processed
   "without blocking", but the accepted socket is a blocking one. A client that
   connects and writes nothing holds up the drawing, the other clients, and the
   exit on a signal or STOP.
2. `pipeline_source`: `video_frame.hpp:28` calls the data pointer valid when
   mapped. The main loop copies the pointer under the lock and reads the pixels
   after it, while the AI thread may resize the buffer behind it for a larger
   frame. The daemon captures one screen; the step needs a resolution that
   grows, such as a changed output.
3. `dns_late_answer`: `dns_server.cpp:139` says that the worker waits briefly for
   the upstream response, but it relays whatever the upstream socket holds. After
   one answer that takes longer than 300 ms, each forwarded client may get the
   answer to an earlier client's query (clients drop it for its id, so that they
   see a resolver that fails).
4. `overlay_flicker`: the README promises "Zero flicker" (line 42), and
   `wayland_overlay.cpp:238` means to eliminate it, but `render_boxes` takes the two
   buffers in turn without waiting for a release. Two drawings before the compositor
   takes up the first (PAUSE draws 16 ms after another) clear the buffer that is on
   the screen, and the shields are gone for a moment.
5. `extension_restart`: `background.js:14` says that the saved configuration is loaded, but
   the page asks for a key `config` that nothing writes, and is given its own
   defaults: after a restart, or if a setting is changed before the answer, it acts by
   these while the popup shows the saved ones.

Three more were seen while reading, and no run is about them:

* `watchdog_supervisor.hpp:20` says that the supervisor exits only on a signal sent to it.
  It also returns when its worker exits with 0, which is what a STOP over IPC makes the
  daemon do (`SupWaited`), and at its limit of restarts (`SupGivesUp`).
* `tui_dashboard.hpp:14` says that the dashboard runs until `q` or Ctrl+C, but raw mode takes
  away the signal that the key stands for, and the character is not looked at.
* `main.cpp:298` says that Wayland events are processed, but `wl_display_dispatch_pending`
  hands out only what was read before, and nothing reads the connection: releases pile up
  until the compositor cuts it (`Apply`), and the daemon goes on drawing into nothing.

What else the modules show of the code, without a sentence in it that says otherwise:

* A command that connects just before the daemon closes is killed by SIGPIPE in its
  write; a restart then starts nothing, and a dashboard leaves the terminal raw.
* Two starts at the same time may leave two daemons, one of them without a path.
* The overlay does not see `closed`, or a `configure` that comes after `init`. A buffer that could not be allocated is drawn into
  through a null pointer, or attached as none.
* A PipeWire `start` that fails half-way leaves its thread and its resources,
  and the `stop` after it returns early.
* A name of 64 labels or more is not read to its end, and the type of the question is
  then taken from the middle of it; a label that holds a dot comes back as two.
* A padding is checked nowhere: from -100% down every box is drawn empty and hides nothing.
* What the background page counts before its first read is answered is overwritten.
* On Android, a frame in the works at a stop covers the screen again; an
  activity that was created anew starts a second projection, and the first is
  not stopped by anyone; a VPN that the system refused counts as running; and the list of blocked
  domains of the VPN service is read by nothing, so it filters nothing.

## 5. Proofs

All theorems hold for every value of the constants under the assumptions named in
the modules, which say what the code gives:

* sets that the environment chooses from are finite where something is counted
  (regions, queries, proposals), sizes, times and bounds are natural numbers, restart
  limits are integers, hashes are functions to naturals, names are non-empty sequences
  of labels, there is a daemon (`MaxDaemons` is at least 1);
* datagrams are sequences of bytes, and the limit of hops is a natural number;
* boxes have integers for coordinates; what a detector reports lies on the screen,
  since `onnx_detector.cpp:177` clamps it, and has more than a two-hundredth of it on each
  side in `VisualAnchor`, since line 182 drops what is smaller;
* scrolls are integers, and so are the paddings that SET_PADDING is given, of any size and
  sign; times between frames are naturals.

Some theorems need more, and say so themselves: `One >= 400` (on a smaller frame rounding to whole
pixels counts), `ColoursAreNumbers`, `StepsTakeTime` (two frames are never at the same
instant), `PicturesDiffer` (any two pictures differ everywhere by at least the error
threshold), and `WaylandScreen!Settles`, the liveness part of `Screen`. The instance of the
runs satisfies each.

| Theorem | States | Argument |
|---|---|---|
| `PipelineProofs!Typing` | `TypeOK` | inductive |
| `PipelineProofs!PublishHandshake` | `NoLostPublish` | with `SeqOrder` (the main loop never has a number that was not given out), `HandshakeInv` is inductive |
| `PipelineProofs!PauseClears`, `ShownCounted` | `PausedScreenIsClear`, `ShownIsCounted` | `ScreenInv` adds what holds between the decision to draw and the drawing: the blur is not paused and the boxes have been counted |
| `PipelineProofs!StopIsQuiet` | `StoppedIsQuiet` | `QuietInv` adds that an overlay that never was ready shows nothing |
| `BlocklistProofs!TreeTyping`, `ShapeIsKept` | `TreeTypeOK`, `TreeShape` | inductive, on lemmas about prefixes: prefixes of one sequence are ordered, a walk stops at the first rule |
| `BlocklistProofs!SizeIsEnough` | `SizeCoversRules` | `SizeInv`: the rules are finitely many; an insert adds one to the count and at most one to them |
| `BlocklistProofs!TreeImplementsRules` | `ImplementsDomainRules` | under `TreeShape`, `Matches` is "some rule is a prefix"; an insert adds the names under its rule, whether it creates, drops or skips |
| `BlocklistProofs!AddedIsFound` | `NoFalseNegatives` | `FileSound`: the same holds of what is in the file |
| `BlocklistProofs!AnswersStayMatched` | `AnswersMatchQuestions` | `PacketInv`: packet and answer are what `Parse` and `Build` make of the datagram. `ParseType` bounds what is read and shows that a label that was read has at most 191 bytes; `EncodedSpells`: the answer spells each label behind its length, where its bounds in the name are; `NameFollowed`: a reader follows these bounds one hop each, from the question or through the pointer of the record; `BuildAnswers` and `AnswerReads` put both into the layout of the answer |
| `DnsServerProofs!ServerTyping` | `TypeOK` | with `Serving`: who works on a query has one |
| `DnsServerProofs!SocketsStayOpen` | `SocketsOutliveWorker` | `SocketInv` ties the main thread's place to the flag, the sockets and the worker |
| `DnsServerProofs!StatisticsAddUp` | `CountersAddUp` | `CountInv`, with `ArriveOnce`: no query is in the socket and received, or twice in either |
| `DnsServerProofs!RepliesStaySound` | `RepliesAreSound` | `ReplyInv`: a forwarded query is at the resolver, in the answers, or relayed, in one of the three (`AskedOnce`), and each was forwarded once; what is being served has no reply yet (`ServedIsFresh`) |
| `WatchdogProofs!Typing`, `OneWorkerAtATime`, `LimitHolds` | `TypeOK`, `OneWorker`, `LimitKept` | `PlaceInv` ties the place in `run()` to the workers: at the outer test all are reaped and failed, and counted by `restart_count`; in between all but the last are |
| `LifecycleProofs!Typing` | `TypeOK` | with `CliInv`, which types a terminal by the place it is at, and `LaunchedInOrder` |
| `LifecycleProofs!AloneAnswers` | `AloneIsReachable` | `AloneInv`: from the launch of a daemon that is alone, no other unlinks or binds, and the path is its own once it is past its `bind` |
| `FrontendsProofs!CaptureStaysSafe` | `CaptureIsSafe` | `CaptureInv`: the place in `start` or `stop` decides which resources are held and whether the loop thread may run |
| `FrontendsProofs!AndroidStaysClean` | `AndroidStopsClean` | `UncoverInv`, and `ProjectionInv`: the intents that wait are played forward, so that what the service will have been told is compared with what the activity knows |
| `FrontendsProofs!ExtensionStays` | `ExtensionKeepsUp` | three invariants: `SettingsInv` (what a script has, with the changes in its queue, is what is stored), `TotalsInv`, `HiddenInv` (by which of the two ways each element has been looked at) |
| `FrontendsProofs!WindowImplementsScreen` | the Windows half of `OverlaysImplementScreen` | `WindowInv`: the last boxes are those of the bitmap |
| `FrontendsProofs!WaylandStaysWhole` | each step of `Overlay` is one of `Screen`, however many commits are on their way | `Untorn`: `NearInv` (what was asked for is near what was drawn), `DrawnInv` (what is drawn and what is left to draw make up the picture; between calls the last commit is the current buffer, whole), `ShownInv` (as long as the compositor is not behind, the buffer on the screen is neither the one that is drawn into nor the one that waits) |
| `FrontendsProofs!OverlaysKeepPromises` | `OverlaysImplementScreen` | both, given `WaylandScreen!Settles` (commits arrive, and the compositor catches up), which is liveness and is checked by TLC |
| `VisionProofs!VisionTyping` | `VisionTypeOK` | the invariants of the two trackers below; what the detector returns lies within the scaled picture, and that within the canvas, by the arithmetic of the letterbox |
| `VisionProofs!SmoothingImplementsHysteresis` | `ImplementsHysteresis` | `SmoothInv`: each detection within the window lies in a box that is no older, and there is an injection from the boxes to detections of the same time, so that boxes are no more than detections and go when these go |
| `VisionProofs!MergingEnds` | `MergeIsComplete` | a round of merging that keeps the number of boxes left none to merge; `SmoothInv` and `AnchorInv` say that the boxes are boxes |
| `VisionProofs!DetectionsStayFaithful` | `DetectionsAreFaithful` | the inequalities of scaling and back for one side, twice; the suppression keeps, box by box, a kept one for each that it has seen |
| `VisionProofs!LoneRegionStaysHidden` | `LoneDetectionIsHidden` | a shield that overlaps the region by the threshold and moves its share towards it covers the middle; padding, merging and dropping keep what is covered covered |
| `VisionProofs!StillPicturesAreHeld` | `StillPictureIsHeld` | `FineInv`: a shield seen in the last frame fits that frame, its anchors differ from it by less than the threshold on average; then each detection ingested leaves every such shield held or moved by it |
| `VisionProofs!CutsUncover` | `CutUncovers` | `SeenInv`: every anchor has a colour of a picture that something was reported of; `CutInv`: during a quiet time every shield is at least as old as it |

`TypeOK` and the shape of the tree are not enough on their own: each property
above speaks of one moment of a handshake, and its invariant says what holds in
between. The invariants were checked by TLC before they were proved.

Matching, merging, dropping and suppressing are folds over sequences, and the error of a
shield is a sum over a set. The prover cannot apply the library's induction theorems,
which take an operator, so `FoldProofs` holds what replaces them: `NumbersAll`,
induction over a set of numbers by its least element, `FoldExists` and `FoldRuns`, by
which a fold is the last of a sequence of intermediate results, each made from the one
before; and `VisionProofs` adds `SubsetsAll`, induction over the subsets of a finite set, by which a sum does
not depend on the order it is added up in. An invariant of a loop is then an invariant of
the intermediate results.

Only model-checked: all liveness properties, `Settles` among them (the proof system has
neither fairness nor `ENABLED`), and the violations, which need only their
counterexample.

## 6. What is not modelled

* **Process hardening**: system calls made once. That SIGPIPE is ignored in the daemon is
  assumed by `Pipeline`.
* **Traffic redirection script, build-time tools**: sequences of commands without a state of
  the program.
* **Flutter client**: screens over a record that one thread writes, and bindings that
  forward to the C API.
* **Android detector and administration**: inference, and callbacks that show a
  message or press Home.
* **Generated headers** of the Wayland protocols: the messages that matter are in `Overlay`.

Left out within modelled components:

* daemon: RELAPSE, STATUS and SET_PADDING change nothing that the daemon's other thread
  reads but the tracker's configuration (`VisualAnchor!set_config`), and are one
  command that changes nothing in `Pipeline`;
* blocklist: trimming and lower-casing of names; `element_count_` of the filter;
* DNS server: another process on its port (`SO_REUSEADDR`); flags of packets;
* trackers: colours are grey levels, coordinates are integers, moving a tracker to another
  object;
* C API: the wrappers of the tree and the filter, which only forward;
* lifecycle: texts, logs, and the enabling of the service at login;
* vision: a padding that is no number (`stof` reads "nan");
* overlay: the colours of a box, frosted or fixed; text rendering;
* Windows: the capture, which is a header without an implementation;
* PipeWire: a second caller, and an `init` while the loop runs;
* extension: the rewriting of search addresses, the static page of blocked sites, and a
  picture or video that also has a background of its own;
* Android: the streak record, the tour through the permissions, and an overlap of
  the capture threads of two instances of the service.

## 7. Plan

Every component that keeps state has a module, and every safety property that a passing
run checks has a theorem. What could still be added, in this order:

1. The hazards that no property covers. For most the code has the step and promises nothing
   against it, as their notes say: two daemons that start at the same time, a restart that
   is killed or goes on beside the old daemon, a worker that hears nothing, a late frame or
   a lost projection on Android. One needs more of the model: the frame in flight at PAUSE
   that fills the tracker again after its reset, for which `Pipeline` would have to see the
   shields of `VisualAnchor`.
2. The safety part of the liveness properties, such as how far a stop has got at each
   place of the main loop, as step invariants that a reader can follow to the fairness
   argument TLC makes.
3. Fewer assumptions in the theorems of the trackers: `One >= 400` covers every screen, but
   the exact bound under which rounding counts is not known.
