--------------------------- MODULE MediaGrabProofs ---------------------------
(***************************************************************************)
(* Theorems about MediaGrab, for any notifications, cameras and presets,   *)
(* whatever fails and whenever the prefetches time out.                    *)
(***************************************************************************)
EXTENDS MediaGrab, TLAPS

(***************************************************************************)
(* select_avail_camera: when the camera asked for or one of its            *)
(* alternatives is there, what is selected is there; and a camera that is  *)
(* there is never passed over for another.                                 *)
(***************************************************************************)
THEOREM SelectionFindsAvailable ==
    ASSUME NEW c \in Configured, NEW states \in CameraStates,
           NEW s \in SelectAvailCamera(states, c)
    PROVE  /\ states[c] = "on" => s = c
           /\ states[c] = "on" \/ AlternativesOn(states, c) # {} => states[s] = "on"
<1>1. CASE states[c] = "on"
    BY <1>1 DEF SelectAvailCamera
<1>2. CASE states[c] # "on" /\ AlternativesOn(states, c) # {}
    <2>1. s \in FirstOf(c, AlternativesOn(states, c))
        BY <1>2 DEF SelectAvailCamera
    <2>. QED  BY <1>2, <2>1 DEF FirstOf, AlternativesOn
<1>3. CASE states[c] # "on" /\ AlternativesOn(states, c) = {}
    BY <1>3
<1>. QED  BY <1>1, <1>2, <1>3

\* Whatever states the cameras are in, only cameras are selected for cameras.
LEMMA SelectsSources ==
    ASSUME NEW s \in Sources, NEW states \in CameraStates,
           NEW x \in SourcesFor(states, s)
    PROVE  x \in Sources
<1>1. CASE s \in Feeds \/ s \notin Configured
    BY <1>1 DEF SourcesFor, SelectAvailCamera, Sources
<1>2. CASE s \notin Feeds /\ s \in Configured
    <2>1. AlternativesOf[s] \in Seq(Cameras)
        BY <1>2, MediaGrabAssumption
    <2>2. \A i \in DOMAIN AlternativesOf[s] : AlternativesOf[s][i] \in Cameras
        BY <2>1
    <2>3. \A places : places \subseteq DOMAIN AlternativesOf[s] =>
              FirstOf(s, places) \subseteq Cameras
        BY <2>2 DEF FirstOf
    <2>4. AlternativesOn(states, s) \subseteq DOMAIN AlternativesOf[s]
        BY DEF AlternativesOn
    <2>5. SelectAvailCamera(states, s) \subseteq Cameras \cup {s}
        BY <2>3, <2>4 DEF SelectAvailCamera
    <2>. QED  BY <1>2, <2>5 DEF SourcesFor, Sources
<1>. QED  BY <1>1, <1>2

-----------------------------------------------------------------------------
(* The types need to know that a camera is only being turned for a preset, *)
(* and only turned back to one.                                            *)

Turning ==
    \A g \in Grabs :
        /\ stage[g] = "moving" => Turns(NotificationOf[g], source[g])
        /\ stage[g] = "restoring" => TurnsBack(NotificationOf[g], source[g])

TypeInv == TypeOK /\ Turning

\* The types and the turning of cameras hold at first.
LEMMA InitTyped == Init => TypeInv
<1>. SUFFICES ASSUME Init PROVE TypeInv
    OBVIOUS
<1>1. TypeOK
    BY MediaGrabAssumption DEF Init, TypeOK, Stages, Underway, Pictures
<1>2. Turning
    BY DEF Init, Turning
<1>. QED  BY <1>1, <1>2 DEF TypeInv

\* Finishing a grab keeps the types of what it changes.
LEMMA FinishTyped ==
    ASSUME TypeInv, NEW g \in Grabs, NEW found \in BOOLEAN, Finish(g, found)
    PROVE  /\ stage' \in [Grabs -> Stages]
           /\ held' \in [Grabs -> BOOLEAN]
           /\ cached' \in [Notifications -> BOOLEAN]
           /\ \A h \in Grabs : stage'[h] = IF h = g THEN "done" ELSE stage[h]
BY MediaGrabAssumption DEF TypeInv, TypeOK, Finish, Stages

\* They are kept by the choice of a camera,
LEMMA BeginTyped ==
    ASSUME TypeInv, NEW g \in Grabs, Begin(g)
    PROVE  TypeInv'
<1>0. PICK states \in CameraStates :
        \E s \in SourcesFor(states, asked[NotificationOf[g]]) :
            /\ stage' = [stage EXCEPT ![g] =
                            IF Turns(NotificationOf[g], s) THEN "moving" ELSE "aimed"]
            /\ source' = [source EXCEPT ![g] = s]
    BY DEF Begin
<1>1. PICK s \in SourcesFor(states, asked[NotificationOf[g]]) :
        /\ stage' = [stage EXCEPT ![g] =
                        IF Turns(NotificationOf[g], s) THEN "moving" ELSE "aimed"]
        /\ source' = [source EXCEPT ![g] = s]
    BY <1>0
<1>2. asked[NotificationOf[g]] \in Sources
    BY MediaGrabAssumption DEF TypeInv, TypeOK
<1>3. s \in Sources
    BY <1>2, SelectsSources
<1>4. TypeOK'
    BY <1>1, <1>3 DEF TypeInv, TypeOK, Begin, Stages, Underway
<1>5. Turning'
    BY <1>1 DEF TypeInv, TypeOK, Turning
<1>. QED  BY <1>4, <1>5 DEF TypeInv

\* by a snapshot,
LEMMA SnapTyped ==
    ASSUME TypeInv, NEW g \in Grabs, Snap(g)
    PROVE  TypeInv'
<1>1. PICK found \in BOOLEAN :
        /\ Snapped(g, found)
        /\ IF TurnsBack(NotificationOf[g], source[g])
           THEN /\ stage' = [stage EXCEPT ![g] = "restoring"]
                /\ held' = [held EXCEPT ![g] = found]
                /\ UNCHANGED cached
           ELSE Finish(g, found)
    BY DEF Snap
<1>2. source[g] \in Sources /\ Shown(source[g]) \in Pictures
    BY DEF Snap, TypeInv, TypeOK, Underway, Shown, Sources, Pictures
<1>3. raw' \in [Notifications -> Pictures \cup {NoFile}]
    BY <1>1, <1>2, MediaGrabAssumption DEF Snapped, TypeInv, TypeOK
<1>4. CASE TurnsBack(NotificationOf[g], source[g])
    <2>1. TypeOK'
        BY <1>1, <1>2, <1>3, <1>4 DEF TypeInv, TypeOK, Snap, Stages, Underway
    <2>2. Turning'
        BY <1>1, <1>4 DEF TypeInv, TypeOK, Turning, Snap
    <2>. QED  BY <2>1, <2>2 DEF TypeInv
<1>5. CASE ~TurnsBack(NotificationOf[g], source[g])
    <2>1. Finish(g, found)
        BY <1>1, <1>5
    <2>2. TypeOK'
        BY <1>3, <2>1, FinishTyped DEF TypeInv, TypeOK, Snap, Underway
    <2>3. Turning'
        BY <2>1, FinishTyped DEF TypeInv, Turning, Snap
    <2>. QED  BY <2>2, <2>3 DEF TypeInv
<1>. QED  BY <1>4, <1>5

\* by the turning back,
LEMMA RestoreTyped ==
    ASSUME TypeInv, NEW g \in Grabs, Restore(g)
    PROVE  TypeInv'
<1>1. Finish(g, held[g]) /\ held[g] \in BOOLEAN
    BY DEF Restore, TypeInv, TypeOK
<1>2. source[g] \in Cameras /\ Home[source[g]] \in Presets
    BY MediaGrabAssumption DEF Restore, TypeInv, Turning, TurnsBack, Turns
<1>3. position' \in [Cameras -> Presets] /\ astray' \subseteq Cameras
    BY <1>2 DEF Restore, TypeInv, TypeOK
<1>4. TypeOK'
    BY <1>1, <1>3, FinishTyped DEF TypeInv, TypeOK, Restore, Underway
<1>5. Turning'
    BY <1>1, FinishTyped DEF TypeInv, Turning, Restore
<1>. QED  BY <1>4, <1>5 DEF TypeInv

\* by the end of the wait for the prefetch,
LEMMA TimesOutTyped ==
    ASSUME TypeInv, NEW g \in Grabs, TimesOut(g)
    PROVE  TypeInv'
<1>. DEFINE n == NotificationOf[g]
            s == source[g]
<1>1. n \in Notifications /\ s \in Sources /\ Shown(s) \in Pictures
    BY MediaGrabAssumption
    DEF TimesOut, TypeInv, TypeOK, Shown, Sources, Pictures
<1>2. stage[g] = "moving" => PresetOf[n] \in Presets
    BY <1>1, MediaGrabAssumption DEF TypeInv, Turning, Turns
<1>3. stage[g] = "restoring" => Home[s] \in Presets
    BY <1>1, MediaGrabAssumption DEF TypeInv, Turning, TurnsBack, Turns
<1>4. position' \in [Cameras -> Presets]
    BY <1>2, <1>3 DEF TimesOut, TypeInv, TypeOK
<1>5. raw' \in [Notifications -> Pictures \cup {NoFile}]
    BY <1>1 DEF TimesOut, TypeInv, TypeOK
<1>6. astray' \subseteq Cameras
    BY <1>1 DEF TimesOut, TypeInv, TypeOK, Turns
<1>7. stage' = [stage EXCEPT ![g] = "cut"] /\ UNCHANGED <<asked, source, held, cached>>
    BY DEF TimesOut
<1>8. TypeOK'
    BY <1>4, <1>5, <1>6, <1>7 DEF TypeInv, TypeOK, Stages, Underway
<1>9. Turning'
    BY <1>7 DEF TypeInv, TypeOK, Turning
<1>. QED  BY <1>8, <1>9 DEF TypeInv

\* and so by every step.
LEMMA StepTyped == TypeInv /\ [Next]_vars => TypeInv'
<1>. SUFFICES ASSUME TypeInv, [Next]_vars PROVE TypeInv'
    OBVIOUS
<1>1. ASSUME NEW g \in Grabs, Reuse(g) PROVE TypeInv'
    BY <1>1 DEF Reuse, TypeInv, TypeOK, Turning, Stages, Underway
<1>2. ASSUME NEW g \in Grabs, Begin(g) PROVE TypeInv'
    BY <1>2, BeginTyped
<1>3. ASSUME NEW g \in Grabs, BeginWithoutCamera(g) PROVE TypeInv'
    <2>1. Finish(g, FALSE) /\ source' = [source EXCEPT ![g] = NoCamera]
        BY <1>3 DEF BeginWithoutCamera
    <2>2. TypeOK'
        BY <1>3, <2>1, FinishTyped DEF BeginWithoutCamera, TypeInv, TypeOK, Underway
    <2>3. Turning'
        BY <2>1, FinishTyped DEF TypeInv, TypeOK, Turning
    <2>. QED  BY <2>2, <2>3 DEF TypeInv
<1>4. ASSUME NEW g \in Grabs, MoveToPreset(g) PROVE TypeInv'
    <2>1. PresetOf[NotificationOf[g]] \in Presets
        BY <1>4, MediaGrabAssumption DEF MoveToPreset, TypeInv, Turning, Turns
    <2>2. TypeOK'
        BY <1>4, <2>1 DEF MoveToPreset, TypeInv, TypeOK, Stages, Underway
    <2>3. Turning'
        BY <1>4 DEF MoveToPreset, TypeInv, TypeOK, Turning
    <2>. QED  BY <2>2, <2>3 DEF TypeInv
<1>5. ASSUME NEW g \in Grabs, Snap(g) PROVE TypeInv'
    BY <1>5, SnapTyped
<1>6. ASSUME NEW g \in Grabs, Restore(g) PROVE TypeInv'
    BY <1>6, RestoreTyped
<1>7. ASSUME NEW g \in Grabs, TimesOut(g) PROVE TypeInv'
    BY <1>7, TimesOutTyped
<1>8. CASE UNCHANGED vars
    BY <1>8 DEF vars, TypeInv, TypeOK, Turning
<1>. QED  BY <1>1, <1>2, <1>3, <1>4, <1>5, <1>6, <1>7, <1>8 DEF Next

(***************************************************************************)
(* Every variable keeps its type; grabs under way have something to grab.  *)
(***************************************************************************)
THEOREM GrabTypeCorrect == Spec => []TypeOK
<1>1. TypeInv => TypeOK
    BY DEF TypeInv
<1>. QED  BY <1>1, InitTyped, StepTyped, PTL DEF Spec

\* The inductive invariant holds in every state.
LEMMA TypeInvariant == Spec => []TypeInv
BY InitTyped, StepTyped, PTL DEF Spec

-----------------------------------------------------------------------------
(***************************************************************************)
(* A camera that is not at its default preset is accounted for.  With the  *)
(* types this is inductive: whoever turns a camera stands at "aimed" or    *)
(* "restoring" until it has turned it back or left it astray, and a camera *)
(* stops being astray only in being turned back.                           *)
(***************************************************************************)
UsedBy(g, c) ==
    /\ stage[g] \in {"aimed", "restoring"}
    /\ source[g] = c
    /\ Turns(NotificationOf[g], c)

\* A step of one grab that leaves the positions of cameras and the cameras astray as
\* they were, and does not end or begin a use of a camera, keeps every camera accounted
\* for.
LEMMA StillAccountedFor ==
    ASSUME AwayIsAccountedFor, UNCHANGED <<position, astray>>,
           \A g \in Grabs, c \in Cameras : Home[c] # NoPreset /\ UsedBy(g, c) => UsedBy(g, c)'
    PROVE  AwayIsAccountedFor'
BY DEF AwayIsAccountedFor, UsedBy

\* A camera away from its default preset is in use or was left astray by a failure
\* (the turning back in snap_notification_image).
THEOREM NoCameraForgotten == Spec => []AwayIsAccountedFor
<1>1. Init => AwayIsAccountedFor
    BY DEF Init, AwayIsAccountedFor
<1>2. TypeInv /\ AwayIsAccountedFor /\ [Next]_vars => AwayIsAccountedFor'
    <2>. SUFFICES ASSUME TypeInv, AwayIsAccountedFor, [Next]_vars
                  PROVE  AwayIsAccountedFor'
        OBVIOUS
    <2>1. ASSUME NEW g \in Grabs, Reuse(g) PROVE AwayIsAccountedFor'
        BY <2>1, StillAccountedFor
        DEF Reuse, MayBegin, UsedBy, TypeInv, TypeOK, Turns
    <2>2. ASSUME NEW g \in Grabs, Begin(g) PROVE AwayIsAccountedFor'
        BY <2>2, StillAccountedFor
        DEF Begin, MayBegin, UsedBy, TypeInv, TypeOK, Turns
    <2>3. ASSUME NEW g \in Grabs, BeginWithoutCamera(g) PROVE AwayIsAccountedFor'
        BY <2>3, StillAccountedFor
        DEF BeginWithoutCamera, Finish, MayBegin, UsedBy, TypeInv, TypeOK, Turns
    <2>4. ASSUME NEW g \in Grabs, MoveToPreset(g) PROVE AwayIsAccountedFor'
        <3>. SUFFICES ASSUME NEW c \in Cameras, Home[c] # NoPreset, position'[c] # Home[c],
                             c \notin astray
                      PROVE  \E h \in Grabs : UsedBy(h, c)'
            BY <2>4 DEF MoveToPreset, AwayIsAccountedFor, UsedBy
        <3>1. CASE c = source[g]
            BY <2>4, <3>1 DEF MoveToPreset, UsedBy, TypeInv, TypeOK, Turning, Turns
        <3>2. CASE c # source[g]
            <4>1. position'[c] = position[c]
                BY <2>4, <3>2 DEF MoveToPreset, TypeInv, TypeOK
            <4>2. PICK h \in Grabs : UsedBy(h, c)
                BY <4>1 DEF AwayIsAccountedFor, UsedBy
            <4>. QED  BY <2>4, <3>2, <4>2 DEF MoveToPreset, UsedBy, TypeInv, TypeOK, Turns
        <3>. QED  BY <3>1, <3>2
    <2>5. ASSUME NEW g \in Grabs, Snap(g) PROVE AwayIsAccountedFor'
        <3>1. UNCHANGED <<position, astray, source>>
            BY <2>5 DEF Snap
        <3>2. \A h \in Grabs : h # g => stage'[h] = stage[h]
            BY <2>5 DEF Snap, Finish, TypeInv, TypeOK
        <3>3. \A c \in Cameras : Home[c] # NoPreset /\ UsedBy(g, c) => UsedBy(g, c)'
            BY <2>5 DEF Snap, UsedBy, TurnsBack, Turns, TypeInv, TypeOK
        <3>4. \A h \in Grabs, c \in Cameras :
                  Home[c] # NoPreset /\ UsedBy(h, c) => UsedBy(h, c)'
            BY <3>1, <3>2, <3>3 DEF UsedBy, Turns
        <3>. QED  BY <3>1, <3>4, StillAccountedFor
    <2>6. ASSUME NEW g \in Grabs, Restore(g) PROVE AwayIsAccountedFor'
        <3>. SUFFICES ASSUME NEW c \in Cameras, Home[c] # NoPreset, position'[c] # Home[c],
                             c \notin astray'
                      PROVE  \E h \in Grabs : UsedBy(h, c)'
            BY DEF AwayIsAccountedFor, UsedBy
        <3>1. c # source[g]
            BY <2>6 DEF Restore, TypeInv, TypeOK
        <3>2. position'[c] = position[c] /\ c \notin astray
            BY <2>6, <3>1 DEF Restore, TypeInv, TypeOK
        <3>3. PICK h \in Grabs : UsedBy(h, c)
            BY <3>2 DEF AwayIsAccountedFor, UsedBy
        <3>. QED  BY <2>6, <3>1, <3>3 DEF Restore, Finish, UsedBy, TypeInv, TypeOK, Turns
    <2>7. ASSUME NEW g \in Grabs, TimesOut(g) PROVE AwayIsAccountedFor'
        <3>. SUFFICES ASSUME NEW c \in Cameras, Home[c] # NoPreset, position'[c] # Home[c],
                             c \notin astray'
                      PROVE  \E h \in Grabs : UsedBy(h, c)'
            BY DEF AwayIsAccountedFor, UsedBy
        <3>1. c \notin astray
            BY <2>7 DEF TimesOut
        <3>2. Turns(NotificationOf[g], source[g]) => c # source[g]
            BY <2>7 DEF TimesOut
        <3>3. stage[g] \in {"moving", "restoring"} => Turns(NotificationOf[g], source[g])
            BY DEF TypeInv, Turning, TurnsBack
        <3>4. position'[c] = position[c]
            BY <2>7, <3>2, <3>3 DEF TimesOut, TypeInv, TypeOK
        <3>5. PICK h \in Grabs : UsedBy(h, c)
            BY <3>1, <3>4 DEF AwayIsAccountedFor, UsedBy
        <3>6. h # g
            BY <3>2, <3>5 DEF UsedBy
        <3>. QED  BY <2>7, <3>5, <3>6 DEF TimesOut, UsedBy, TypeInv, TypeOK, Turns
    <2>8. CASE UNCHANGED vars
        BY <2>8 DEF vars, AwayIsAccountedFor, Turns
    <2>. QED  BY <2>1, <2>2, <2>3, <2>4, <2>5, <2>6, <2>7, <2>8 DEF Next
<1>. QED  BY <1>1, <1>2, TypeInvariant, PTL DEF Spec

-----------------------------------------------------------------------------
(***************************************************************************)
(* A picture the prefetch has is shared.  For that, deliveries must not    *)
(* have begun before the prefetch has ended.                               *)
(***************************************************************************)
PrefetchFirst ==
    \A g \in Deferred :
        stage[g] # "idle" => stage[PrefetchOf[NotificationOf[g]]] \in {"done", "cut"}

SharingInv == PrefetchFirst /\ PrefetchedIsShared

\* What a step of one grab leaves alone, and what it may find and leave.
LEMMA OneGrabMoves ==
    ASSUME TypeInv, NEW g \in Grabs,
           \/ Reuse(g) \/ Begin(g) \/ BeginWithoutCamera(g)
           \/ MoveToPreset(g) \/ Snap(g) \/ Restore(g) \/ TimesOut(g)
    PROVE  /\ \A h \in Grabs \ {g} : stage'[h] = stage[h] /\ held'[h] = held[h]
           /\ \A n \in Notifications \ {NotificationOf[g]} : cached'[n] = cached[n]
           /\ MayBegin(g) \/ stage[g] \in Underway
           /\ stage'[g] = "done" => held'[g] = cached'[NotificationOf[g]]
           /\ cached[NotificationOf[g]] /\ stage[g] \notin Underway =>
                /\ stage'[g] = "done"
                /\ UNCHANGED cached
<1>1. CASE Reuse(g)
    BY <1>1 DEF Reuse, TypeInv, TypeOK
<1>2. CASE Begin(g)
    BY <1>2 DEF Begin, TypeInv, TypeOK
<1>3. CASE BeginWithoutCamera(g)
    BY <1>3, MediaGrabAssumption DEF BeginWithoutCamera, Finish, TypeInv, TypeOK
<1>4. CASE MoveToPreset(g)
    BY <1>4 DEF MoveToPreset, TypeInv, TypeOK, Underway
<1>5. CASE Snap(g)
    BY <1>5, MediaGrabAssumption DEF Snap, Finish, TypeInv, TypeOK, Underway
<1>6. CASE Restore(g)
    BY <1>6, MediaGrabAssumption DEF Restore, Finish, TypeInv, TypeOK, Underway
<1>7. CASE TimesOut(g)
    BY <1>7 DEF TimesOut, TypeInv, TypeOK
<1>. QED  BY <1>1, <1>2, <1>3, <1>4, <1>5, <1>6, <1>7

\* Every step keeps what the sharing of pictures rests on.
LEMMA StepShared == TypeInv /\ SharingInv /\ [Next]_vars => SharingInv'
<1>. SUFFICES ASSUME TypeInv, SharingInv, [Next]_vars PROVE SharingInv'
    OBVIOUS
<1>1. CASE UNCHANGED vars
    BY <1>1 DEF vars, SharingInv, PrefetchFirst, PrefetchedIsShared
<1>2. CASE Next
    <2>. PICK g \in Grabs :
            \/ Reuse(g) \/ Begin(g) \/ BeginWithoutCamera(g)
            \/ MoveToPreset(g) \/ Snap(g) \/ Restore(g) \/ TimesOut(g)
        BY <1>2 DEF Next
    <2>. DEFINE n == NotificationOf[g]
                prefetch(m) == PrefetchOf[m]
    <2>1. /\ \A h \in Grabs \ {g} : stage'[h] = stage[h] /\ held'[h] = held[h]
          /\ \A m \in Notifications \ {n} : cached'[m] = cached[m]
          /\ MayBegin(g) \/ stage[g] \in Underway
          /\ stage'[g] = "done" => held'[g] = cached'[n]
          /\ cached[n] /\ stage[g] \notin Underway =>
                stage'[g] = "done" /\ UNCHANGED cached
        BY OneGrabMoves
    <2>2. n \in Notifications /\ prefetch(n) \in Grabs
        BY MediaGrabAssumption
    <2>3. g \notin Deferred => g = prefetch(n) /\ stage[g] \notin {"done", "cut"}
        BY <2>1, MediaGrabAssumption DEF Deferred, MayBegin, Underway
    <2>4. g \in Deferred => stage[prefetch(n)] \in {"done", "cut"}
        BY <2>1 DEF MayBegin, SharingInv, PrefetchFirst, Underway
    <2>5. PrefetchFirst'
        <3>. SUFFICES ASSUME NEW h \in Deferred, stage'[h] # "idle"
                      PROVE  stage'[prefetch(NotificationOf[h])] \in {"done", "cut"}
            BY DEF PrefetchFirst, Deferred
        <3>1. stage[prefetch(NotificationOf[h])] \in {"done", "cut"}
            BY <2>1, <2>4 DEF SharingInv, PrefetchFirst, Deferred
        <3>2. prefetch(NotificationOf[h]) \in Grabs \ Deferred
            BY MediaGrabAssumption DEF Deferred
        <3>3. prefetch(NotificationOf[h]) # g
            BY <2>3, <3>1, <3>2
        <3>. QED  BY <2>1, <3>1, <3>2, <3>3
    <2>6. PrefetchedIsShared'
        <3>. SUFFICES ASSUME NEW m \in Notifications,
                             stage'[prefetch(m)] = "done", held'[prefetch(m)]
                      PROVE  /\ cached'[m]
                             /\ \A h \in Deferred :
                                    NotificationOf[h] = m => stage'[h] \notin Underway
            BY DEF PrefetchedIsShared
        <3>0. prefetch(m) \in Grabs \ Deferred /\ NotificationOf[prefetch(m)] = m
            BY MediaGrabAssumption DEF Deferred
        <3>1. CASE g = prefetch(m)
            <4>1. stage[prefetch(m)] \notin {"done", "cut"}
                BY <2>3, <3>0, <3>1
            <4>2. \A h \in Deferred : NotificationOf[h] = m => stage[h] = "idle"
                BY <4>1 DEF SharingInv, PrefetchFirst
            <4>3. \A h \in Deferred : h # g /\ h \in Grabs
                BY <3>0, <3>1 DEF Deferred
            <4>. QED  BY <2>1, <3>0, <3>1, <4>2, <4>3 DEF Underway
        <3>2. CASE g # prefetch(m)
            <4>1. /\ cached[m]
                  /\ \A h \in Deferred : NotificationOf[h] = m => stage[h] \notin Underway
                BY <2>1, <3>0, <3>2 DEF SharingInv, PrefetchedIsShared
            <4>2. n = m => g \in Deferred
                BY <2>3, <3>2
            <4>3. cached'[m]
                BY <2>1, <4>1, <4>2
            <4>4. \A h \in Deferred : NotificationOf[h] = m => stage'[h] \notin Underway
                BY <2>1, <4>1, <4>2 DEF Deferred, Underway
            <4>. QED  BY <4>3, <4>4
        <3>. QED  BY <3>1, <3>2
    <2>. QED  BY <2>5, <2>6 DEF SharingInv
<1>. QED  BY <1>1, <1>2

\* A picture of the prefetch is shared by the deliveries of its notification
\* (the early return of grab_image).
THEOREM PicturesAreShared == Spec => []PrefetchedIsShared
<1>1. Init => SharingInv
    BY MediaGrabAssumption DEF Init, SharingInv, PrefetchFirst, PrefetchedIsShared, Deferred
<1>2. SharingInv => PrefetchedIsShared
    BY DEF SharingInv
<1>. QED  BY <1>1, <1>2, StepShared, TypeInvariant, PTL DEF Spec

=============================================================================
