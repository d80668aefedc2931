---------------------------- MODULE AlexaAnnounce ----------------------------
(***************************************************************************)
(* Announcements on media players whose volume and music are put aside for *)
(* the time of the speech and brought back after it                        *)
(* (src/custom_components/supernotify/transports/alexa_media_player.py).   *)
(*                                                                         *)
(* Several announcements are made at the same time, and each call of a     *)
(* service is a step.  The services of players give no response, so they   *)
(* are not waited for (hass_api.py:224-226): a call may be refused at      *)
(* once, which the code sees; one that is accepted is under way, and the   *)
(* player changes in a step of its own, after later calls, after another   *)
(* announcement looked at it, after deliver() has ended, or never.  Users  *)
(* turn the volume and start and stop music at any time.  home and marks   *)
(* are history: what the user wants of a player, and why it may be         *)
(* otherwise.                                                              *)
(***************************************************************************)
EXTENDS Keeping, SequencesExt

CONSTANTS
    Players,
    Absent,               \* players that Home Assistant has no state of
    Untold,               \* players whose volume it does not know
    Levels, NoLevel,      \* volumes, and not one
    Fallback,             \* the one assumed where it is not known: volume_fallback
    Attended,             \* players whose users do something with them
    Tasks,                \* the tasks that make an announcement each
    Requests, NoRequest,  \* the announcements they may make, and not one
    MaxUnderway           \* bound on the calls that are under way to one player

ASSUME AlexaAnnounceAssumption ==
    /\ Absent \cup Untold \cup Attended \subseteq Players
    /\ NoLevel \notin Levels /\ Fallback \in Levels
    /\ NoRequest \notin Requests
    /\ MaxUnderway \in Nat \ {0}
    /\ \A r \in Requests : r.players \in Seq(Players)

There == Players \ Absent

VARIABLES
    volume, playback,     \* of each player that is there
    underway,             \* the calls each of them has accepted and not yet obeyed
    home,                 \* what the user of the player last wanted of both
    request,              \* what each task announces
    stage,                \* how far it is
    states,               \* the volume and music it found
    todo,                 \* the calls it is about to make
    refused,              \* the players that refused to change their volume
    marks                 \* why a player may not be as the user wants it

vars == <<volume, playback, underway, home, request, stage, states, todo, refused, marks>>

Calls == [op : {"pause", "stop", "play", "volume"}, player : Players, level : Levels \cup {NoLevel}]
Call(op, p, l) == [op |-> op, player |-> p, level |-> l]

\* A template that fails, and what is no number, is no volume.
VolumeOf(r) == IF r.volume \in Levels THEN r.volume ELSE NoLevel

NeedsRestore(r) == VolumeOf(r) # NoLevel \/ r.pause

\* Mutant: a volume that is not known is taken as it is.
SnapshotAsTold(r) ==
    [p \in IF NeedsRestore(r) THEN ToSet(r.players) \cap There ELSE {} |->
        [volume |-> IF p \in Untold THEN NoLevel ELSE volume[p], playing |-> playback[p] = "playing"]]

\* All players are looked at in one step.
Snapshot(r) ==
    [p \in IF NeedsRestore(r) THEN ToSet(r.players) \cap There ELSE {} |->
        [volume |-> IF p \in Untold THEN Fallback ELSE volume[p], playing |-> playback[p] = "playing"]]

\* The calls before the announcement: music is paused, to be resumed, or stopped.
PreAnnounce(r, found) ==
    LET quieten(p) == IF ~found[p].playing THEN <<>>
                      ELSE IF r.pause THEN <<Call("pause", p, NoLevel)>>
                      ELSE IF VolumeOf(r) # NoLevel THEN <<Call("stop", p, NoLevel)>> ELSE <<>>
        turn(p)    == IF VolumeOf(r) # NoLevel THEN <<Call("volume", p, VolumeOf(r))>> ELSE <<>>
        players    == Keep(r.players, DOMAIN found)
    IN  FlattenSeq([i \in DOMAIN players |-> quieten(players[i]) \o turn(players[i])])

\* Mutant: what is playing is looked up once more.
PostAnnounceAnew(r, found) ==
    LET players == Keep(r.players, DOMAIN found)
        music   == Keep(players, {p \in DOMAIN found : r.pause /\ playback[p] = "playing"})
    IN  (IF r.restore /\ VolumeOf(r) # NoLevel
         THEN [i \in DOMAIN players |-> Call("volume", players[i], found[players[i]].volume)] ELSE <<>>)
        \o [i \in DOMAIN music |-> Call("play", music[i], NoLevel)]

\* And those after it: the volumes first, then the music.
PostAnnounce(r, found) ==
    LET players == Keep(r.players, DOMAIN found)
        music   == Keep(players, {p \in DOMAIN found : r.pause /\ found[p].playing})
    IN  (IF r.restore /\ VolumeOf(r) # NoLevel
         THEN [i \in DOMAIN players |-> Call("volume", players[i], found[players[i]].volume)] ELSE <<>>)
        \o [i \in DOMAIN music |-> Call("play", music[i], NoLevel)]

Over(t) == stage[t] \in {"done", "raised"} \/ (stage[t] = "after" /\ todo[t] = <<>>)
Busy(t, p) == stage[t] # "idle" /\ ~Over(t) /\ p \in DOMAIN states[t]
Quiet(p) == underway[p] = <<>> /\ \A t \in Tasks : ~Busy(t, p)

Mark(players, mark) == [p \in There |-> IF p \in players THEN marks[p] \cup {mark} ELSE marks[p]]

Init ==
    /\ volume \in [There -> Levels]
    /\ playback \in [There -> {"playing", "idle"}]
    /\ underway = [p \in There |-> <<>>]
    /\ home = [p \in There |-> [volume |-> volume[p], playing |-> playback[p] = "playing"]]
    /\ request = [t \in Tasks |-> NoRequest]
    /\ stage = [t \in Tasks |-> "idle"]
    /\ states = [t \in Tasks |-> <<>>]
    /\ todo = [t \in Tasks |-> <<>>]
    /\ refused = [t \in Tasks |-> {}]
    /\ marks = [p \in There |-> {}]

\* What an announcement does to a player that it does not undo by itself.
MarksOf(r, p) ==
    {m \in {"overlapped", "untold", "unrestored", "unsaid"} :
        \/ m = "overlapped" /\ ~Quiet(p)
        \/ m = "untold"     /\ VolumeOf(r) # NoLevel /\ p \in Untold
        \/ m = "unrestored" /\ VolumeOf(r) # NoLevel /\ ~(r.restore /\ r.message)
        \/ m = "unsaid"     /\ r.pause /\ ~r.message}

\* deliver() up to its first call.
Begin(t, r) ==
    /\ stage[t] = "idle"
    /\ request' = [request EXCEPT ![t] = r]
    /\ IF r.players = <<>>
       THEN stage' = [stage EXCEPT ![t] = "done"] /\ UNCHANGED <<states, todo, marks>>
       ELSE /\ stage' = [stage EXCEPT ![t] = "before"]
            /\ states' = [states EXCEPT ![t] = Snapshot(r)]
            /\ todo' = [todo EXCEPT ![t] = PreAnnounce(r, Snapshot(r))]
            /\ marks' = [p \in There |->
                            IF p \in DOMAIN Snapshot(r) THEN marks[p] \cup MarksOf(r, p) ELSE marks[p]]
    /\ UNCHANGED <<volume, playback, underway, home, refused>>

\* _safe_service: a call is refused, or accepted and put under way.
CallPlayer(t, result) ==
    LET c == Head(todo[t])
    IN  /\ stage[t] \in {"before", "after"} /\ todo[t] # <<>>
        /\ todo' = [todo EXCEPT ![t] = Tail(@)]
        /\ \/ /\ result = "accepted" /\ Len(underway[c.player]) < MaxUnderway
              /\ underway' = [underway EXCEPT ![c.player] = Append(@, c)]
              /\ UNCHANGED <<marks, refused>>
           \/ /\ result = "refused"
              /\ marks' = Mark({c.player}, "failed")
              /\ refused' = IF c.op = "volume" /\ stage[t] = "before"
                            THEN [refused EXCEPT ![t] = @ \cup {c.player}] ELSE refused
              /\ UNCHANGED underway
        /\ UNCHANGED <<volume, playback, home, request, stage, states>>

\* What a call does to its player; music that was stopped cannot be resumed.
Played(op, now) ==
    CASE op = "pause" /\ now = "playing" -> "paused"
      [] op = "stop"                     -> "idle"
      [] op = "play" /\ now = "paused"   -> "playing"
      [] OTHER                           -> now

\* A call under way comes before one that was made earlier, of the volume or of the music.
Overtakes(p, i) ==
    \E j \in 1 .. (i - 1) : (underway[p][j].op = "volume") = (underway[p][i].op = "volume")

\* A player obeys one of the calls it has accepted, in whatever order.
Obey(p, i) ==
    LET c == underway[p][i]
    IN  /\ i \in DOMAIN underway[p]
        /\ volume' = IF c.op = "volume" THEN [volume EXCEPT ![p] = c.level] ELSE volume
        /\ playback' = [playback EXCEPT ![p] = Played(c.op, @)]
        /\ underway' = [underway EXCEPT ![p] = RemoveAt(@, i)]
        /\ marks' = [marks EXCEPT ![p] = @ \cup (IF c.op = "stop" THEN {"stopped"} ELSE {})
                                            \cup (IF Overtakes(p, i) THEN {"overtaken"} ELSE {})]
        /\ UNCHANGED <<home, request, stage, states, todo, refused>>

\* Or it does not: the call comes to nothing, which the code does not see.
Lose(p, i) ==
    /\ i \in DOMAIN underway[p]
    /\ underway' = [underway EXCEPT ![p] = RemoveAt(@, i)]
    /\ marks' = Mark({p}, "failed")
    /\ UNCHANGED <<volume, playback, home, request, stage, states, todo, refused>>

NeedsPost(t) == NeedsRestore(request[t]) /\ DOMAIN states[t] # {}

\* The announcement, whose own result changes nothing here; the volume is given with it if
\* some player refused it.  A service without a domain ends the delivery.
Announce(t) ==
    LET r == request[t]
    IN  /\ stage[t] = "before" /\ todo[t] = <<>>
        /\ stage' = [stage EXCEPT ![t] =
                CASE r.malformed -> "raised"
                  [] ~r.malformed /\ r.message /\ (NeedsPost(t) \/ r.wait) -> "speaking"
                  [] OTHER -> "done"]
        /\ \/ UNCHANGED underway
           \/ /\ ~r.malformed /\ refused[t] # {}
              /\ \A p \in ToSet(r.players) \cap There : Len(underway[p]) < MaxUnderway
              /\ underway' = [p \in There |->
                    IF p \in ToSet(r.players) THEN Append(underway[p], Call("volume", p, VolumeOf(r)))
                    ELSE underway[p]]
        /\ marks' = IF r.malformed THEN Mark(DOMAIN states[t], "failed") ELSE marks
        /\ UNCHANGED <<volume, playback, home, request, states, todo, refused>>

\* The estimated time of the speech is over.
EndSpeech(t) ==
    /\ stage[t] = "speaking"
    /\ stage' = [stage EXCEPT ![t] = IF NeedsPost(t) THEN "after" ELSE "done"]
    /\ todo' = IF NeedsPost(t) THEN [todo EXCEPT ![t] = PostAnnounce(request[t], states[t])] ELSE todo
    /\ UNCHANGED <<volume, playback, underway, home, request, states, refused, marks>>

\* A user turns the volume, or starts or stops the music; whatever else the player does is
\* then as wanted, unless it is in the middle of an announcement or of a call.
UserActs(p, v, now) ==
    /\ <<v, now>> # <<volume[p], playback[p]>>
    /\ volume' = [volume EXCEPT ![p] = v]
    /\ playback' = [playback EXCEPT ![p] = now]
    /\ home' = [home EXCEPT ![p] = [volume |-> v, playing |-> now = "playing"]]
    /\ marks' = [marks EXCEPT ![p] = IF Quiet(p) THEN {} ELSE @ \cup {"meanwhile"}]
    /\ UNCHANGED <<underway, request, stage, states, todo, refused>>

Next ==
    \/ \E t \in Tasks :
        \/ \E r \in Requests : Begin(t, r)
        \/ \E result \in {"accepted", "refused"} : CallPlayer(t, result)
        \/ Announce(t)
        \/ EndSpeech(t)
    \/ \E p \in There, i \in 1 .. MaxUnderway : Obey(p, i) \/ Lose(p, i)
    \/ \E p \in There \cap Attended, v \in Levels, now \in {"playing", "idle"} : UserActs(p, v, now)

Spec == Init /\ [][Next]_vars

-----------------------------------------------------------------------------
(* Correctness.                                                            *)

\* The variables keep to their sets; in particular every volume that is set is one.
TypeOK ==
    /\ volume \in [There -> Levels]
    /\ playback \in [There -> {"playing", "paused", "idle"}]
    /\ request \in [Tasks -> Requests \cup {NoRequest}]
    /\ stage \in [Tasks -> {"idle", "before", "speaking", "after", "done", "raised"}]
    /\ \A t \in Tasks :
        /\ DOMAIN states[t] \subseteq There
        /\ \A p \in DOMAIN states[t] : states[t][p].volume \in Levels
        /\ \A i \in DOMAIN todo[t] :
            todo[t][i] \in Calls /\ (todo[t][i].op = "volume" => todo[t][i].level \in Levels)
    /\ refused \in [Tasks -> SUBSET Players]
    /\ DOMAIN underway = There
    /\ \A p \in There : \A i \in DOMAIN underway[p] :
        underway[p][i] \in Calls /\ (underway[p][i].op = "volume" => underway[p][i].level \in Levels)

\* When nothing is announced on a player and no call to it is under way, its volume and its
\* music are as its user wants them, unless the announcements were not to bring them back, a
\* call failed, one of them overtook an earlier one, or the user acted in the middle; the
\* volume also if it was not known, or an announcement looked at the player while another one,
\* or a call that one had made, was still at work; music stands that, unless one of them stops
\* what another had paused.
PlayersLeftAsFound ==
    \A p \in There : Quiet(p) =>
        /\ volume[p] # home[p].volume =>
                marks[p] \cap {"overlapped", "overtaken", "failed", "untold", "unrestored", "meanwhile"} # {}
        /\ (playback[p] = "playing") # home[p].playing =>
                marks[p] \cap {"overtaken", "failed", "stopped", "unsaid", "meanwhile"} # {}
=============================================================================
