---------------------------- MODULE FigureRuntime ----------------------------
(***************************************************************************)
(* One figure of an open page: mountFigures and mount of                   *)
(* app/src/figures/runtime/client.ts, and the Transport of transport.ts    *)
(* that owns its time.  An event handler, a frame callback and the         *)
(* continuation of an import are one action each, as in the browser.       *)
(*                                                                         *)
(* Positions are counted in 1/Q of the timeline's unit, so that a discrete *)
(* timeline (which shows the floor) has positions between two shown ones.  *)
(* Widths, labels, the resize observer, which draws the same position at   *)
(* another width, and the debugging handle host.__fig are left out.        *)
(***************************************************************************)
EXTENDS Integers, FiniteSets

CONSTANTS
  Params,     \* the values the figure's parameters can take together
  Length,     \* duration, in 1/Q, under each of them
  Keys,       \* positions of the keyframes under each of them
  Opening,    \* the opening positions a chapter block or poster asks for
  Q,          \* parts of a unit a frame may advance by
  MaxSets,    \* bound: parameter changes
  None        \* nothing announced yet

VARIABLES
  host,       \* the host's place, classes, dataset, children and __fig
  loads,      \* imports of the figure's module under way
  mounts,     \* times mount has built the controls and marked the host ready
  reduced,    \* prefers-reduced-motion, read at mount
  discrete,   \* the timeline snaps to its units
  p,          \* the parameters
  t,          \* Transport.t
  playing, last,
  frames,     \* frame callbacks requested and not cancelled
  raf,        \* Transport.raf, the request pause cancels
  at,         \* mount's t: the position the SVG on show was rendered at
  timer,      \* an announcement is due
  live,       \* what the live region describes
  sets        \* parameter changes so far

settings == <<reduced, discrete>>
loading  == <<host, loads, mounts>>
clock    == <<t, playing, last, frames, raf>>
picture  == <<p, at, timer, live, sets>>
vars     == <<loading, settings, clock, picture>>

Duration == Length[p]
LongestLength == CHOOSE d \in {Length[q] : q \in Params} :
                   \A q \in Params : Length[q] <= d
Within(d, x) == IF x < 0 THEN 0 ELSE IF x > d THEN d ELSE x
Clamp(x) == Within(Duration, x)
Shown(x) == IF discrete THEN x - (x % Q) ELSE x

\* mount has run to its end: the controls and the transport answer.
Mounted == host.fig

----------------------------------------------------------------------------
(* mountFigures and mount *)

Init ==
  /\ host = [connected |-> TRUE, loading |-> FALSE, ready |-> FALSE,
             static |-> TRUE, error |-> FALSE, fig |-> FALSE]
  /\ loads = 0 /\ mounts = 0
  /\ reduced \in BOOLEAN /\ discrete \in BOOLEAN
  /\ p \in Params
  /\ t = 0 /\ playing = FALSE /\ last = FALSE /\ frames = {} /\ raf = 0
  /\ at = 0 /\ timer = FALSE /\ live = None /\ sets = 0

\* Mutant: the selector forgets the hosts that are loading.
MountFigures_Again ==
  /\ host.connected /\ ~host.ready
  /\ host' = [host EXCEPT !.loading = TRUE]
  /\ loads' = loads + 1
  /\ UNCHANGED <<mounts, settings, clock, picture>>

\* The reader calls mountFigures after every hydration; the selector skips a
\* host that is ready or loading.  A host that is gone is not selected.
MountFigures ==
  /\ host.connected /\ ~host.ready /\ ~host.loading
  /\ host' = [host EXCEPT !.loading = TRUE]
  /\ loads' = loads + 1
  /\ UNCHANGED <<mounts, settings, clock, picture>>

\* The import fails: the reason is recorded, the next call tries again.
ImportFails ==
  /\ loads > 0
  /\ loads' = loads - 1
  /\ host' = [host EXCEPT !.loading = FALSE, !.error = TRUE]
  /\ UNCHANGED <<mounts, settings, clock, picture>>

\* The module arrives.  mount may throw on the host's parameters before it
\* marks the host ready, on the timeline's positions once it has, or in the
\* render that ends it, after the static SVG was taken away.  What a figure that
\* threw would do with further clicks is not followed.
Arrives(outcome) ==
  LET built == outcome \in {"mounted", "renderThrows"}
  IN /\ loads > 0
     /\ loads' = loads - 1
     /\ IF ~host.connected
          THEN /\ host' = [host EXCEPT !.loading = FALSE]
               /\ UNCHANGED <<mounts, t, at>>
          ELSE /\ host' = [host EXCEPT
                    !.loading = FALSE,
                    !.ready   = outcome # "paramsThrow",
                    !.static  = ~built,
                    !.error   = @ \/ outcome # "mounted",
                    !.fig     = outcome = "mounted"]
               /\ mounts' = mounts + IF host'.ready THEN 1 ELSE 0
               /\ IF built THEN \E x \in Opening : t' = Clamp(x) /\ at' = Shown(t')
                           ELSE UNCHANGED <<t, at>>
     /\ UNCHANGED <<settings, p, playing, last, frames, raf, timer, live, sets>>

ModuleArrives ==
  \E outcome \in {"mounted", "paramsThrow", "timelineThrows", "renderThrows"} :
    Arrives(outcome)

\* React replaces the article, or a cell its output.
Detach ==
  /\ host.connected
  /\ host' = [host EXCEPT !.connected = FALSE]
  /\ UNCHANGED <<loads, mounts, settings, clock, picture>>

----------------------------------------------------------------------------
(* Transport *)

Fresh == CHOOSE i \in 1..(Cardinality(frames) + 1) : i \notin frames

Request(others) == raf' = Fresh /\ frames' = others \union {raf'}

\* Mutant: the frame under way is not cancelled.
Stop_NoCancel == playing' = FALSE /\ UNCHANGED frames

\* pause(): stop, cancel the frame, show and announce the position.
Stop == playing' = FALSE /\ frames' = IF playing THEN frames \ {raf} ELSE frames

\* seek(x, "user"): draw and announce even if the shown position stays.
UserSeek(x) == t' = Clamp(x) /\ at' = Shown(Clamp(x)) /\ timer' = TRUE

Play ==
  /\ Mounted /\ host.connected
  /\ ~reduced /\ ~playing
  /\ t' = IF t >= Duration THEN 0 ELSE t
  /\ playing' = TRUE /\ last' = FALSE
  /\ Request(frames)
  /\ UNCHANGED <<loading, settings, picture>>

\* Mutant: the position playback stopped at is drawn, not announced.
Pause_Silent ==
  /\ Mounted /\ playing
  /\ Stop
  /\ at' = Shown(t)
  /\ UNCHANGED <<loading, settings, t, last, raf, p, timer, live, sets>>

\* The pause button, or the observer that sees the figure scrolled away.
Pause ==
  /\ Mounted /\ playing
  /\ Stop
  /\ at' = Shown(t) /\ timer' = TRUE
  /\ UNCHANGED <<loading, settings, t, last, raf, p, live, sets>>

\* Mutant: a playback at its end asks for more frames.
Over_Detached(next) == playing /\ ~host.connected

\* The frame that finds the figure gone, or moves it to its end, is the last.
Over(next) == playing /\ (~host.connected \/ (last /\ next >= Duration))

\* tick: nothing after a pause; the first frame of a playback only starts the
\* clock.
Frame ==
  \E f \in frames, passed \in 1..Q :
    LET next == IF playing /\ host.connected /\ last
                  THEN Within(Duration, t + passed) ELSE t
        ends == Over(next)
    IN /\ t' = next
       /\ playing' = (playing /\ ~ends)
       /\ last' = playing
       /\ IF playing' THEN Request(frames \ {f})
                      ELSE frames' = frames \ {f} /\ UNCHANGED raf
       /\ at' = IF ends \/ Shown(next) # Shown(t) THEN Shown(next) ELSE at
       /\ timer' = (timer \/ ends)
       /\ UNCHANGED <<loading, settings, p, live, sets>>

\* What the scrubber, the step buttons and the event buttons may seek to.
Scrubbed == {x \in 0..Duration : x = Shown(x)}
Stepped  == LET d == IF discrete THEN Q ELSE 1 IN {Clamp(t - d), Clamp(t + d)}
Jumped   == LET later   == {k \in Keys[p] : k > Shown(t)}
                earlier == {k \in Keys[p] : k < Shown(t)}
            IN {k \in later : \A l \in later : k <= l}
                 \union {k \in earlier : \A l \in earlier : k >= l}

\* step and jumpKey pause first, the scrubber too; with reduced motion the
\* buttons jump between keyframes if there are any.
Seek ==
  /\ Mounted /\ host.connected
  /\ Stop
  /\ \E x \in Scrubbed \union
        (IF reduced /\ Keys[p] # {} THEN Jumped ELSE Stepped) : UserSeek(x)
  /\ UNCHANGED <<loading, settings, last, raf, p, live, sets>>

\* jumpKey with no keyframe on that side only pauses; it is offered to
\* readers with reduced motion, for whom nothing plays.

\* set: new parameters under the transport's feet, playing or not.
SetParam(q) ==
  /\ Mounted /\ host.connected
  /\ sets < MaxSets
  /\ sets' = sets + 1
  /\ p' = q
  /\ t' = Within(Length[q], t)
  /\ at' = Shown(t') /\ timer' = TRUE
  /\ UNCHANGED <<loading, settings, playing, last, frames, raf, live>>

\* 350 ms after the last change.
Announce ==
  /\ timer
  /\ timer' = FALSE
  /\ live' = [p |-> p, at |-> at]
  /\ UNCHANGED <<loading, settings, clock, p, at, sets>>

----------------------------------------------------------------------------
Next ==
  \/ MountFigures \/ ImportFails \/ ModuleArrives \/ Detach
  \/ Play \/ Pause \/ Frame \/ Seek \/ \E q \in Params : SetParam(q)
  \/ Announce

\* The browser calls frames back and fires timers; readers and networks owe
\* nothing.
Spec == Init /\ [][Next]_vars /\ WF_vars(Frame) /\ WF_vars(Announce)

----------------------------------------------------------------------------
TypeOK ==
  /\ host \in [connected: BOOLEAN, loading: BOOLEAN, ready: BOOLEAN,
               static: BOOLEAN, error: BOOLEAN, fig: BOOLEAN]
  /\ loads \in Nat /\ mounts \in Nat /\ frames \subseteq Nat /\ raf \in Nat
  /\ p \in Params /\ t \in 0..Duration /\ at \in 0..LongestLength
  /\ live \in [p: Params, at: 0..LongestLength] \union {None}

\* One loop of frames, and only while playing: play, pause and play again
\* within one frame does not start a second loop that would double the pace,
\* no frame is left to move a paused figure, and the frame under way is the
\* one pause cancels.
OneLoop == TypeOK /\ frames = IF playing THEN {raf} ELSE {}

\* The picture is of the position the transport shows, through clamping,
\* changes of parameters and pauses.  The exception is playing again from the
\* end: the last picture stays until the shown position leaves 0.
PictureFollows ==
  (Mounted /\ at # Shown(t)) => (playing /\ Shown(t) = 0)

\* What shown() says of itself, "the position the figure renders", of a figure
\* at rest and of one whose clock has moved since play.
RendersShown == (Mounted /\ (playing => t # 0)) => at = Shown(t)

\* A figure at rest has been announced as it stands: a reader who cannot see
\* it never hears of an earlier position or of earlier parameters.
AnnouncedAtRest ==
  (~playing /\ ~timer /\ live # None) => live = [p |-> p, at |-> at]

\* The picture and what is announced of it tell of one position.
PictureTold == PictureFollows /\ AnnouncedAtRest

\* However often mountFigures is called and imports fail, at most one import
\* is under way and the host gets its controls and transport at most once;
\* until then the static SVG stays.
MountedOnce ==
  /\ loads = IF host.loading THEN 1 ELSE 0
  /\ mounts = IF host.ready THEN 1 ELSE 0
  /\ ~host.ready => host.static

\* What the catch of mountFigures says: "Keep the static figure visible".
StaticKept == (host.error /\ ~host.fig) => host.static

\* Playback comes to an end by itself, and soon for a figure that is gone.
PlaybackEnds == playing ~> ~playing
=============================================================================
