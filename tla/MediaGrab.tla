------------------------------ MODULE MediaGrab ------------------------------
(***************************************************************************)
(* The pictures notifications take: which camera, turned to a preset and   *)
(* back again, for the first delivery that needs the picture, and reused   *)
(* by the others (src/custom_components/supernotify/media_grab.py).        *)
(*                                                                         *)
(* Each notification has a prefetch, the task that deliver() starts and    *)
(* gives up after its timeout (Notification.tla has the rest of deliver),  *)
(* and then the grabs of its deferred deliveries, which run concurrently,  *)
(* once for each envelope and without a timeout.  Nothing keeps the grabs  *)
(* of one camera apart.                                                    *)
(*                                                                         *)
(* A step is what happens up to the answer of one service call.  How a     *)
(* picture is reprocessed and where it is stored is left aside, as are     *)
(* notifications that come with the path of a picture; a camera stands for *)
(* the entity that turns it as well.                                       *)
(***************************************************************************)
EXTENDS Integers, Sequences

CONSTANTS
    Notifications,        \* the notifications that need a picture
    Grabs,                \* their prefetches and the grabs of their deliveries
    NotificationOf,       \* whose each grab is
    PrefetchOf,           \* the prefetch of each notification
    Cameras,              \* camera entities
    Feeds,                \* snapshot URLs and image entities
    ImageEntities,        \* the image entities of these
    Requests,             \* what the notifications may name, a camera or feed each
    Configured,           \* the cameras that have a configuration
    AlternativesOf,       \* their alternative cameras, in the order given
    Presets,              \* positions a camera can be turned to
    Home,                 \* the default preset of each camera, if it has one
    PresetOf,             \* the preset each notification asks for, if any
    Faults,               \* whether services may fail
    NoCamera, NoPreset, NoFile

Sources == Cameras \cup Feeds
Deferred == Grabs \ {PrefetchOf[n] : n \in Notifications}

ASSUME MediaGrabAssumption ==
    /\ NotificationOf \in [Grabs -> Notifications]
    /\ PrefetchOf \in [Notifications -> Grabs]
    /\ \A n \in Notifications : NotificationOf[PrefetchOf[n]] = n
    /\ Cameras \cap Feeds = {}
    /\ ImageEntities \subseteq Feeds
    /\ Requests \subseteq [Notifications -> Sources]
    /\ Configured \subseteq Cameras
    /\ AlternativesOf \in [Configured -> Seq(Cameras)]
    /\ Home \in [Cameras -> Presets \cup {NoPreset}]
    /\ PresetOf \in [Notifications -> Presets \cup {NoPreset}]
    /\ \A c \in Cameras \ Configured : Home[c] = NoPreset
    /\ Faults \in BOOLEAN
    /\ NoCamera \notin Sources
    /\ NoPreset \notin Presets
    /\ NoFile \notin Presets \cup Feeds

VARIABLES
    asked,                \* the camera or feed each notification names
    stage,                \* where each grab stands
    source,               \* the camera or feed it uses
    held,                 \* whether it has the path of a picture
    position,             \* the preset each camera is turned to
    cached,               \* whether each notification has _raw_image_path
    raw,                  \* what the raw picture of each notification shows
    astray                \* cameras that someone failed to turn back

vars == <<asked, stage, source, held, position, cached, raw, astray>>

Stages == {"idle", "moving", "aimed", "restoring", "done", "cut"}
Underway == {"moving", "aimed", "restoring"}
Pictures == Presets \cup Feeds

-----------------------------------------------------------------------------
(* select_avail_camera                                                     *)

\* A camera or its tracker is there, is not, or has no entity at all.
CameraStates == [Cameras -> {"on", "off", "unknown"}]

\* The places of alternatives: those with a configuration come first.
Before(c, i, j) ==
    LET HasConfiguration(k) == AlternativesOf[c][k] \in Configured
    IN  IF HasConfiguration(i) = HasConfiguration(j) THEN i <= j ELSE HasConfiguration(i)

\* The first alternative of those at some places, as a set of one, or of none.
FirstOf(c, places) ==
    {AlternativesOf[c][i] : i \in {k \in places : \A j \in places : Before(c, k, j)}}

AlternativesOn(states, c) ==
    {i \in DOMAIN AlternativesOf[c] : states[AlternativesOf[c][i]] = "on"}

\* Mutant: that there may be no camera at all is not looked at.
SelectOrNoCamera(states, c) ==
    LET on == AlternativesOn(states, c)
    IN  IF c \notin Configured \/ states[c] = "on" THEN {c}
        ELSE IF on # {} THEN FirstOf(c, on)
        ELSE IF states[c] = "unknown" THEN {c}
        ELSE IF AlternativesOf[c] = <<>> THEN {NoCamera}
        ELSE FirstOf(c, DOMAIN AlternativesOf[c])

\* The camera itself if it is there or nothing is known of it, or else the first of its
\* alternatives that is there; when none is, the camera if it has no entity, and after
\* that the first alternative, in whatever state it may be.  None may remain.
SelectAvailCamera(states, c) ==
    LET on == AlternativesOn(states, c)
    IN  IF c \notin Configured \/ states[c] = "on" THEN {c}
        ELSE IF on # {} THEN FirstOf(c, on)
        ELSE IF states[c] = "unknown" THEN {c}
        ELSE FirstOf(c, DOMAIN AlternativesOf[c])

SourcesFor(states, s) == IF s \in Feeds THEN {s} ELSE SelectAvailCamera(states, s)

-----------------------------------------------------------------------------
Init ==
    /\ asked \in Requests
    /\ stage = [g \in Grabs |-> "idle"]
    /\ source = [g \in Grabs |-> NoCamera]
    /\ held = [g \in Grabs |-> FALSE]
    /\ position \in [Cameras -> Presets]
    /\ \A c \in Cameras : Home[c] # NoPreset => position[c] = Home[c]
    /\ cached = [n \in Notifications |-> FALSE]
    /\ raw = [n \in Notifications |-> NoFile]
    /\ astray = {}

\* The prefetch begins once; a delivery grabs for each envelope, after the prefetch.
MayBegin(g) ==
    IF g \in Deferred
    THEN /\ stage[g] \in {"idle", "done"}
         /\ stage[PrefetchOf[NotificationOf[g]]] \in {"done", "cut"}
    ELSE stage[g] = "idle"

\* Whether a camera is turned for this grab, and whether it is to be turned back.
Turns(n, s) == s \in Cameras /\ PresetOf[n] # NoPreset
TurnsBack(n, s) == Turns(n, s) /\ Home[s] # NoPreset

\* The path is remembered on the notification, in place of what was remembered.
Finish(g, found) ==
    /\ stage' = [stage EXCEPT ![g] = "done"]
    /\ held' = [held EXCEPT ![g] = found]
    /\ cached' = [cached EXCEPT ![NotificationOf[g]] = found]

Reuse(g) ==
    /\ MayBegin(g)
    /\ cached[NotificationOf[g]]
    /\ stage' = [stage EXCEPT ![g] = "done"]
    /\ held' = [held EXCEPT ![g] = TRUE]
    /\ UNCHANGED <<asked, source, position, cached, raw, astray>>

\* Mutant: the picture that has been taken is not looked for.
BeginAnew(g) ==
    /\ MayBegin(g)
    /\ \E states \in CameraStates :
       \E s \in SourcesFor(states, asked[NotificationOf[g]]) :
        /\ stage' = [stage EXCEPT ![g] =
                        IF Turns(NotificationOf[g], s) THEN "moving" ELSE "aimed"]
        /\ source' = [source EXCEPT ![g] = s]
    /\ held' = [held EXCEPT ![g] = FALSE]
    /\ UNCHANGED <<asked, position, cached, raw, astray>>

Begin(g) ==
    /\ MayBegin(g)
    /\ ~cached[NotificationOf[g]]
    /\ \E states \in CameraStates :
       \E s \in SourcesFor(states, asked[NotificationOf[g]]) :
        /\ stage' = [stage EXCEPT ![g] =
                        IF Turns(NotificationOf[g], s) THEN "moving" ELSE "aimed"]
        /\ source' = [source EXCEPT ![g] = s]
    /\ held' = [held EXCEPT ![g] = FALSE]
    /\ UNCHANGED <<asked, position, cached, raw, astray>>

BeginWithoutCamera(g) ==
    /\ MayBegin(g)
    /\ ~cached[NotificationOf[g]]
    /\ \E states \in CameraStates : SourcesFor(states, asked[NotificationOf[g]]) = {}
    /\ source' = [source EXCEPT ![g] = NoCamera]
    /\ Finish(g, FALSE)
    /\ UNCHANGED <<asked, position, raw, astray>>

\* Errors of the service are logged and no more; the camera may have turned.
MoveToPreset(g) ==
    /\ stage[g] = "moving"
    /\ stage' = [stage EXCEPT ![g] = "aimed"]
    /\ \/ position' = [position EXCEPT ![source[g]] = PresetOf[NotificationOf[g]]]
       \/ Faults /\ UNCHANGED position
    /\ UNCHANGED <<asked, source, held, cached, raw, astray>>

Shown(s) == IF s \in Cameras THEN position[s] ELSE s

\* What a snapshot finds and leaves: a picture, or an error, or the path of no file, for
\* a camera whose file has not come when the wait for it is over and for an image entity
\* whose picture could not be written.  A URL has its path once the file is written.
Snapped(g, found) ==
    \/ /\ found = TRUE
       /\ raw' = [raw EXCEPT ![NotificationOf[g]] = Shown(source[g])]
    \/ /\ Faults /\ found = FALSE
       /\ UNCHANGED raw
    \/ /\ Faults /\ found = TRUE
       /\ source[g] \in Cameras \cup ImageEntities
       /\ UNCHANGED raw

\* Mutant: the camera is turned back only if there is a picture.
SnapOrGiveUp(g) ==
    /\ stage[g] = "aimed"
    /\ \E found \in BOOLEAN :
        /\ Snapped(g, found)
        /\ IF found /\ TurnsBack(NotificationOf[g], source[g])
           THEN /\ stage' = [stage EXCEPT ![g] = "restoring"]
                /\ held' = [held EXCEPT ![g] = found]
                /\ UNCHANGED cached
           ELSE Finish(g, found)
    /\ UNCHANGED <<asked, source, position, astray>>

Snap(g) ==
    /\ stage[g] = "aimed"
    /\ \E found \in BOOLEAN :
        /\ Snapped(g, found)
        /\ IF TurnsBack(NotificationOf[g], source[g])
           THEN /\ stage' = [stage EXCEPT ![g] = "restoring"]
                /\ held' = [held EXCEPT ![g] = found]
                /\ UNCHANGED cached
           ELSE Finish(g, found)
    /\ UNCHANGED <<asked, source, position, astray>>

Restore(g) ==
    /\ stage[g] = "restoring"
    /\ \/ /\ position' = [position EXCEPT ![source[g]] = Home[source[g]]]
          /\ astray' = astray \ {source[g]}
       \/ /\ Faults
          /\ astray' = astray \cup {source[g]}
          /\ UNCHANGED position
    /\ Finish(g, held[g])
    /\ UNCHANGED <<asked, source, raw>>

\* The wait for the prefetch is over, and it is cancelled wherever it stands: the call
\* it was making may yet have its effect, and nothing after it is done.
TimesOut(g) ==
    /\ g \notin Deferred
    /\ stage[g] \in Underway
    /\ stage' = [stage EXCEPT ![g] = "cut"]
    /\ LET n == NotificationOf[g]
           s == source[g]
       IN  /\ position' \in {position} \cup
                (IF stage[g] = "moving" THEN {[position EXCEPT ![s] = PresetOf[n]]} ELSE {})
                \cup (IF stage[g] = "restoring" THEN {[position EXCEPT ![s] = Home[s]]} ELSE {})
           /\ raw' \in {raw} \cup
                (IF stage[g] = "aimed" THEN {[raw EXCEPT ![n] = Shown(s)]} ELSE {})
           /\ astray' = IF Turns(n, s) THEN astray \cup {s} ELSE astray
    /\ UNCHANGED <<asked, source, held, cached>>

Next ==
    \E g \in Grabs :
        \/ Reuse(g) \/ Begin(g) \/ BeginWithoutCamera(g)
        \/ MoveToPreset(g) \/ Snap(g) \/ Restore(g) \/ TimesOut(g)

Spec == Init /\ [][Next]_vars

-----------------------------------------------------------------------------
(* Correctness.                                                            *)

\* The variables keep to their sets, and a grab that is under way has a source: it is
\* never aimed at the camera that select_avail_camera did not find.
TypeOK ==
    /\ asked \in Requests
    /\ stage \in [Grabs -> Stages]
    /\ source \in [Grabs -> Sources \cup {NoCamera}]
    /\ held \in [Grabs -> BOOLEAN]
    /\ position \in [Cameras -> Presets]
    /\ cached \in [Notifications -> BOOLEAN]
    /\ raw \in [Notifications -> Pictures \cup {NoFile}]
    /\ astray \subseteq Cameras
    /\ \A g \in Grabs : stage[g] \in Underway => source[g] \in Sources

\* A camera away from its default preset is being used by someone who will turn it
\* back, or somebody's turning it back has failed or was cut short since it was last
\* there: no path through a grab, and no mixing of grabs, forgets it.
AwayIsAccountedFor ==
    \A c \in Cameras :
        Home[c] # NoPreset /\ position[c] # Home[c] =>
            \/ c \in astray
            \/ \E g \in Grabs : /\ stage[g] \in {"aimed", "restoring"}
                                /\ source[g] = c
                                /\ Turns(NotificationOf[g], c)

\* When the prefetch has a picture the deliveries share it: none of them uses the
\* camera again, and the path stays on the notification.
PrefetchedIsShared ==
    \A n \in Notifications :
        stage[PrefetchOf[n]] = "done" /\ held[PrefetchOf[n]] =>
            /\ cached[n]
            /\ \A g \in Deferred : NotificationOf[g] = n => stage[g] \notin Underway

=============================================================================
