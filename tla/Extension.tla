------------------------------- MODULE Extension -------------------------------
(***************************************************************************)
(* The browser extension: the background page (background.js), the content *)
(* script of one page (content.js), the popup (popup.js) and the storage   *)
(* they share.  Storage answers a read later than it took it, and tells    *)
(* every context of a change through an event; each context has its own    *)
(* queue of both, and keeps a copy of the settings that begins with the    *)
(* defaults.  What SafeSearch rewrites changes no state and is left out.   *)
(***************************************************************************)
EXTENDS Integers, Sequences, FiniteSets

CONSTANTS
  Media,      \* what a page can hold: [kind, mark, inner] with a kind of Kinds; mark says
              \*   what tells on it, its own "name" or the "post" around it, or "none";
              \*   inner that it comes inside another element that is added
  Toggles,    \* the keys the popup is used to change
  MaxPage,    \* bound: elements in a page
  MaxEvents   \* bound: toggles, requests for blocked sites and restarts

Kinds == {"video", "image", "canvas", "background"}
Keys == {"enabled", "blockAdultSites", "blurVideos", "blurImages", "strictMode"}
Defaults == [k \in Keys |-> k # "strictMode"]

ASSUME TogglesAssumption == Toggles \subseteq Keys

VARIABLES
  stored,        \* the settings in storage, as the popup wrote them
  stored_stats,  \* totalBlockedSites and totalBlockedMedia in storage
  events,        \* how many of them there were
  config,        \* the background page's settings
  stats,         \* and its totals
  loaded,        \* whether its first read has been answered
  snapshot,      \* what that read found of the totals
  inbox,         \* changes of settings it has not been told of yet
  uncounted,     \* BLOCKED_MEDIA messages it has not been told of yet
  early,         \* it counted something before the first read was answered
  told,          \* the settings it was told of since then
  tab            \* the page, its content script and what waits for it; as history the
                 \*   elements that no scan has seen since they came, and those the
                 \*   observer has seen since the settings changed last

storageVars == <<stored, stored_stats, events>>
backgroundVars == <<config, stats, loaded, snapshot, inbox, uncounted, early, told>>
extensionVars == <<storageVars, backgroundVars, tab>>

\* A content script at document_start: the read of the settings is on its way.
NewTab(adult) ==
  [onAdultSite |-> adult, config |-> Defaults, read |-> <<stored>>, inbox |-> <<>>,
   page |-> {}, records |-> {}, shielded |-> {}, ready |-> FALSE,
   fresh |-> {}, observed |-> {}]

StartBackground(total) ==
  /\ config' = Defaults /\ stats' = [sites |-> 0, media |-> 0]
  /\ loaded' = FALSE /\ snapshot' = total
  /\ inbox' = <<>> /\ uncounted' = 0 /\ early' = FALSE /\ told' = {}

ExtensionInit ==
  /\ stored = Defaults /\ stored_stats = [sites |-> 0, media |-> 0]
  /\ events = 0
  /\ config = Defaults /\ stats = stored_stats /\ loaded = FALSE
  /\ snapshot = stored_stats /\ inbox = <<>> /\ uncounted = 0 /\ early = FALSE /\ told = {}
  /\ \E adult \in BOOLEAN : tab = NewTab(adult)

-----------------------------------------------------------------------------
(* Popup and browser                                                        *)

\* A toggle of the popup writes one key; whoever listens is told of it.
PopupToggles(key) ==
  /\ events < MaxEvents /\ events' = events + 1
  /\ stored' = [stored EXCEPT ![key] = ~@]
  /\ LET change == [key |-> key, newValue |-> ~stored[key]]
     IN inbox' = Append(inbox, change) /\ tab' = [tab EXCEPT !.inbox = Append(@, change)]
  /\ UNCHANGED stored_stats
  /\ UNCHANGED <<config, stats, loaded, snapshot, uncounted, early, told>>

\* The browser starts again: storage is all that is left.
BrowserRestarts ==
  /\ events < MaxEvents /\ events' = events + 1
  /\ StartBackground(stored_stats)
  /\ tab' = NewTab(tab.onAdultSite)
  /\ UNCHANGED <<stored, stored_stats>>

-----------------------------------------------------------------------------
(* The background page                                                      *)

\* storage.local.get({config, stats}) is answered: nothing writes a key named
\* config, so the defaults given with the read overwrite what it was told.
BackgroundLoads ==
  /\ ~loaded
  /\ loaded' = TRUE /\ config' = Defaults /\ stats' = snapshot /\ told' = {}
  /\ UNCHANGED <<storageVars, tab, snapshot, inbox, uncounted, early>>

\* storage.onChanged: only three of the keys are the background's.
BackgroundIsTold ==
  /\ inbox # <<>> /\ inbox' = Tail(inbox)
  /\ LET change == Head(inbox) IN
       IF change.key \in {"blockAdultSites", "enforceSafeSearch", "enabled"}
         THEN /\ config' = [config EXCEPT ![change.key] = change.newValue]
              /\ told' = told \cup {change.key}
         ELSE UNCHANGED <<config, told>>
  /\ UNCHANGED <<storageVars, tab, stats, loaded, snapshot, uncounted, early>>

\* One more of what was blocked is counted and all totals are written, of
\* which the content script is told like of any change; of totals that change
\* several times in a row it is told once, since it only scans again.
Count(what) ==
  /\ stats' = [stats EXCEPT ![what] = @ + 1]
  /\ stored_stats' = stats'
  /\ early' = (early \/ ~loaded)
  /\ LET change == [key |-> "stats", newValue |-> FALSE]
     IN tab' = IF tab.inbox # <<>> /\ tab.inbox[Len(tab.inbox)] = change THEN tab
               ELSE [tab EXCEPT !.inbox = Append(@, change)]

\* onBeforeRequest for a blocked site.
BackgroundBlocks ==
  /\ events < MaxEvents /\ events' = events + 1
  /\ config.enabled /\ config.blockAdultSites
  /\ Count("sites")
  /\ UNCHANGED <<stored, config, loaded, snapshot, inbox, uncounted, told>>

\* onMessage of type BLOCKED_MEDIA.
BackgroundCounts ==
  /\ uncounted > 0 /\ uncounted' = uncounted - 1
  /\ Count("media")
  /\ UNCHANGED <<stored, events, config, loaded, snapshot, inbox, told>>

-----------------------------------------------------------------------------
(* The content script                                                       *)

isSuspicious(m, c) == tab.onAdultSite \/ c.strictMode \/ m.mark # "none"

\* What both a scan and the observer hide, for settings c.
Hides(m, c) ==
  c.enabled /\ IF tab.onAdultSite THEN m.kind # "background"
               ELSE \/ m.kind = "video" /\ c.blurVideos
                    \/ m.kind = "image" /\ c.blurImages /\ isSuspicious(m, c)

\* A scan also hides the pictures of marked posts, whatever blurImages says.
ScanHides(m, c) ==
  \/ Hides(m, c)
  \/ c.enabled /\ ~tab.onAdultSite /\ m.kind = "image" /\ m.mark = "post"

\* The observer also hides a background, of the element itself that was added.
ObserverHides(m, c) ==
  \/ Hides(m, c)
  \/ c.enabled /\ ~tab.onAdultSite /\ m.kind = "background" /\ ~m.inner /\ isSuspicious(m, c)

\* shieldElement, once for each element: it is blurred, and reported.
Shield(found, next) ==
  LET new == found \ tab.shielded IN
  /\ tab' = [next EXCEPT !.shielded = @ \cup new]
  /\ uncounted' = uncounted + Cardinality(new)
  /\ UNCHANGED <<storageVars, config, stats, loaded, snapshot, inbox, early, told>>

scanDOM(c) == {m \in tab.page : ScanHides(m, c)}

\* The settings become c, and the whole page is scanned.
Resettle(c, next) ==
  Shield(scanDOM(c), [next EXCEPT !.config = c, !.fresh = {}, !.observed = {}])

\* The read is answered, with what was stored when it was made, which may be
\* older than a change the script was told of in between.
TabLoads ==
  /\ tab.read # <<>>
  /\ Resettle(tab.read[1], [tab EXCEPT !.read = <<>>])

Changed(c, change) ==
  IF change.key \in Keys THEN [c EXCEPT ![change.key] = change.newValue] ELSE c

\* Mutant: a change of the settings does not scan the page again.
TabIsToldUnscanned ==
  /\ tab.inbox # <<>>
  /\ LET c == Changed(tab.config, Head(tab.inbox))
     IN Shield({}, [tab EXCEPT !.config = c, !.inbox = Tail(@), !.fresh = {}, !.observed = {}])

TabIsTold ==
  /\ tab.inbox # <<>>
  /\ Resettle(Changed(tab.config, Head(tab.inbox)), [tab EXCEPT !.inbox = Tail(@)])

\* The parser or a script of the page adds an element: a mutation record waits.
PageAdds(m) ==
  /\ m \notin tab.page /\ Cardinality(tab.page) < MaxPage
  /\ tab' = [tab EXCEPT !.page = @ \cup {m}, !.records = @ \cup {m}, !.fresh = @ \cup {m}]
  /\ UNCHANGED <<storageVars, backgroundVars>>

\* The observer takes all records at once; disabled, it drops them.
Observes ==
  /\ tab.records # {}
  /\ Shield({m \in tab.records : ObserverHides(m, tab.config)},
            [tab EXCEPT !.records = {}, !.observed = @ \cup tab.records])

DomContentLoaded ==
  /\ ~tab.ready
  /\ Shield(scanDOM(tab.config), [tab EXCEPT !.ready = TRUE, !.fresh = {}])

ExtensionNext ==
  \/ \E key \in Toggles : PopupToggles(key)
  \/ BrowserRestarts
  \/ BackgroundLoads \/ BackgroundIsTold \/ BackgroundBlocks \/ BackgroundCounts
  \/ TabLoads \/ TabIsTold \/ Observes \/ DomContentLoaded
  \/ \E m \in Media : PageAdds(m)

-----------------------------------------------------------------------------
\* Whatever order settings, elements and the answer to the read come in, by the
\* script's present settings everything is hidden that a scan looks for, if one
\* was made since it came, and everything that the observer looks for, if it saw
\* it since the settings changed.  The two do not look for the same: a picture
\* in a marked post that comes while blurImages is off is hidden only by the next
\* scan, and a background that came while the defence was off by none.
MediaIsHidden ==
  \A m \in tab.page :
    \/ m \notin tab.fresh /\ ScanHides(m, tab.config)
    \/ m \in tab.observed /\ ObserverHides(m, tab.config)
      => m \in tab.shielded

\* Every element is seen by a scan or by the observer: what waits for neither is
\* hidden if both look for it.
NothingIsMissed ==
  \A m \in tab.page \ tab.records : Hides(m, tab.config) => m \in tab.shielded

\* The background page acts by the stored value of every setting it was told of
\* since its first read was answered, once no change is on its way.
BackgroundAgrees ==
  loaded /\ inbox = <<>> => \A k \in told : config[k] = stored[k]

\* Unless something was counted before the first read was answered, no total is
\* lost: what is stored is what the background page has.
TotalsAreKept == loaded /\ ~early => stats = stored_stats

\* "Load saved config & stats" (background.js:14): once its first read is answered
\* and no change is on its way, the background page has the saved settings, those
\* that were saved before the browser was started included.
SavedConfigIsLoaded ==
  loaded /\ inbox = <<>> => \A k \in {"enabled", "blockAdultSites"} : config[k] = stored[k]
=============================================================================
