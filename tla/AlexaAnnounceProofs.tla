------------------------- MODULE AlexaAnnounceProofs -------------------------
(***************************************************************************)
(* Proofs about AlexaAnnounce: what announcements put aside on a player is *)
(* brought back, for any players, volumes and announcements.               *)
(***************************************************************************)
EXTENDS AlexaAnnounce, FoldLemmas, SequenceTheorems, TLAPS

-----------------------------------------------------------------------------
(* The invariant.                                                          *)

Reasons == {"overlapped", "overtaken", "untold", "unrestored", "unsaid", "stopped", "failed", "meanwhile"}

\* The calls that are under way: a volume that is set is one.
Accepted == {c \in Calls : c.op = "volume" => c.level \in Levels}

\* The variables that belong to players, and those of the announcements.
PlayersTyped ==
    /\ volume \in [There -> Levels]
    /\ playback \in [There -> {"playing", "paused", "idle"}]
    /\ underway \in [There -> Seq(Accepted)]
    /\ home \in [There -> [volume : Levels, playing : BOOLEAN]]
    /\ marks \in [There -> SUBSET Reasons]

TasksTyped ==
    /\ request \in [Tasks -> Requests \cup {NoRequest}]
    /\ stage \in [Tasks -> {"idle", "before", "speaking", "after", "done", "raised"}]
    /\ DOMAIN states = Tasks /\ DOMAIN todo = Tasks
    /\ refused \in [Tasks -> SUBSET Players]

\* The players an announcement puts aside.
Aside(r) == IF NeedsRestore(r) THEN ToSet(r.players) \cap There ELSE {}

\* A call that may be planned for a request, before the announcement and after it.
Planned(c, r, found, when) ==
    /\ c \in Calls /\ c.player \in DOMAIN found
    /\ c.op = "volume" =>
        /\ VolumeOf(r) \in Levels
        /\ c.level = IF when = "before" THEN VolumeOf(r) ELSE found[c.player].volume
    /\ c.op = "pause" => when = "before" /\ r.pause /\ found[c.player].playing

\* An announcement has found the players it puts aside, and its calls are of its plan.
OnPlan(t) ==
    /\ request[t] \in Requests
    /\ DOMAIN states[t] = Aside(request[t])
    /\ \A p \in DOMAIN states[t] : states[t][p].volume \in Levels
    /\ todo[t] \in Seq(Calls)
    /\ \A i \in DOMAIN todo[t] : Planned(todo[t][i], request[t], states[t], stage[t])
    /\ refused[t] # {} => VolumeOf(request[t]) \in Levels
    /\ stage[t] \in {"speaking", "after"} => request[t].message

\* One that has not begun has nothing.
Unbegun(t) == states[t] = <<>> /\ todo[t] = <<>> /\ refused[t] = {}

PlansInv ==
    \A t \in Tasks : (stage[t] = "idle" => Unbegun(t)) /\ (stage[t] # "idle" => OnPlan(t))

\* What an announcement does for good was marked, and so was that two are made at once.
MarksInv ==
    \A t \in Tasks, p \in There : Busy(t, p) =>
        /\ \A u \in Tasks \ {t} : Busy(u, p) => "overlapped" \in marks[p]
        /\ VolumeOf(request[t]) # NoLevel =>
            /\ p \in Untold => "untold" \in marks[p]
            /\ ~ (request[t].restore /\ request[t].message) => "unrestored" \in marks[p]
        /\ request[t].pause /\ ~ request[t].message => "unsaid" \in marks[p]

VolumeExcused(p) ==
    marks[p] \cap {"overlapped", "overtaken", "failed", "untold", "unrestored", "meanwhile"} # {}
MusicExcused(p) == marks[p] \cap {"overtaken", "failed", "stopped", "unsaid", "meanwhile"} # {}

\* A call is still to be made, or will be.
Ahead(t, c) == stage[t] = "after" => \E i \in DOMAIN todo[t] : todo[t][i] = c

\* A player of volume now comes to volume v when it obeys the calls s in their order,
TurnsTo(s, now, v) ==
    \/ now = v /\ \A i \in DOMAIN s : s[i].op # "volume"
    \/ \E i \in DOMAIN s : /\ s[i].op = "volume" /\ s[i].level = v
                          /\ \A j \in DOMAIN s : s[j].op = "volume" => j <= i

\* and one whose music is playing or paused comes to play, as long as none of them stops it.
PlaysOn(s, now) ==
    \/ now = "playing" /\ \A i \in DOMAIN s : s[i].op \notin {"pause", "play"}
    \/ \E i \in DOMAIN s : /\ s[i].op = "play"
                          /\ \A j \in DOMAIN s : s[j].op \in {"pause", "play"} => j <= i

\* A player comes to the volume its user wants by the calls that are under way to it, or an
\* announcement will bring it back, which remembers what the user wants.
VolumeInv ==
    \A p \in There : VolumeExcused(p) \/
        /\ \A t \in Tasks :
            Busy(t, p) /\ VolumeOf(request[t]) # NoLevel => states[t][p].volume = home[p].volume
        /\ \/ TurnsTo(underway[p], volume[p], home[p].volume)
           \/ \E t \in Tasks :
                /\ Busy(t, p) /\ VolumeOf(request[t]) # NoLevel
                /\ Ahead(t, Call("volume", p, home[p].volume))

\* Music that its user wants comes to play by them, or an announcement that has paused it
\* will resume it.
MusicInv ==
    \A p \in There : MusicExcused(p) \/
        /\ ~ home[p].playing => playback[p] = "idle"
        /\ home[p].playing => playback[p] # "idle"
        /\ home[p].playing =>
            \/ PlaysOn(underway[p], playback[p])
            \/ \E t \in Tasks :
                /\ Busy(t, p) /\ request[t].pause /\ states[t][p].playing
                /\ Ahead(t, Call("play", p, NoLevel))

IInv == PlayersTyped /\ TasksTyped /\ PlansInv /\ MarksInv /\ VolumeInv /\ MusicInv
-----------------------------------------------------------------------------
(* Plans.                                                                  *)

\* The calls of a plan.
Plan(r, found, when) == {c \in Calls : Planned(c, r, found, when)}

\* Of a list of calls: the others of it are those after the first.
LEMMA AfterTheFirst ==
    ASSUME NEW s \in Seq(Calls), s # <<>>
    PROVE  /\ Tail(s) \in Seq(Calls) /\ 1 \in DOMAIN s /\ s[1] = Head(s)
           /\ \A i \in DOMAIN Tail(s) : i + 1 \in DOMAIN s /\ Tail(s)[i] = s[i + 1]
           /\ \A i \in DOMAIN s : s[i] # Head(s) => \E j \in DOMAIN Tail(s) : Tail(s)[j] = s[i]
           /\ Tail(s) = <<>> => \A i \in DOMAIN s : s[i] = Head(s)
<1>1. /\ Len(s) \in Nat /\ DOMAIN s = 1 .. Len(s) /\ Len(s) > 0
      /\ Tail(s) \in Seq(Calls) /\ Len(Tail(s)) = Len(s) - 1
      /\ DOMAIN Tail(s) = 1 .. Len(Tail(s))
      /\ \A i \in 1 .. Len(Tail(s)) : Tail(s)[i] = s[i + 1]
      /\ Head(s) = s[1]
  BY EmptySeq, HeadTailProperties
<1> DEFINE t == Tail(s)
<1> HIDE DEF t
<1>2. \A i \in DOMAIN s : s[i] # s[1] => (i - 1) \in DOMAIN t /\ t[i - 1] = s[i]
  BY <1>1 DEF t
<1>3. t = <<>> => \A i \in DOMAIN s : i = 1
  <2>1. t = <<>> => Len(t) = 0
    BY EmptySeq
  <2>. QED  BY <1>1, <2>1 DEF t
<1>4. \A i \in DOMAIN t : i + 1 \in DOMAIN s /\ t[i] = s[i + 1]
  BY <1>1 DEF t
<1>5. \A i \in DOMAIN s : s[i] # Head(s) => \E j \in DOMAIN t : t[j] = s[i]
  BY <1>1, <1>2
<1>6. t = <<>> => \A i \in DOMAIN s : s[i] = Head(s)
  BY <1>1, <1>3
<1>7. t \in Seq(Calls) /\ 1 \in DOMAIN s /\ s[1] = Head(s)
  BY <1>1 DEF t
<1>. QED  BY <1>4, <1>5, <1>6, <1>7 DEF t

\* The players that are put aside are in a list.
LEMMA PlayersKept ==
    ASSUME NEW r \in Requests, NEW S \in SUBSET ToSet(r.players)
    PROVE  /\ Keep(r.players, S) \in Seq(Players)
           /\ \A i \in DOMAIN Keep(r.players, S) : Keep(r.players, S)[i] \in S
           /\ \A p \in S : \E i \in DOMAIN Keep(r.players, S) : Keep(r.players, S)[i] = p
<1>1. r.players \in Seq(Players)
  BY AlexaAnnounceAssumption
<1>2. Keep(r.players, S) \in Seq(Players) /\ Range(Keep(r.players, S)) = Range(r.players) \cap S
  BY <1>1, KeepProperties
<1>3. Range(r.players) = ToSet(r.players)
  BY DEF Range, ToSet
<1> DEFINE kept == Keep(r.players, S)
<1>4. {kept[i] : i \in DOMAIN kept} = S
  BY <1>2, <1>3 DEF Range
<1> HIDE DEF kept
<1>5. (\A i \in DOMAIN kept : kept[i] \in S) /\ \A p \in S : \E i \in DOMAIN kept : kept[i] = p
  BY <1>4
<1>. QED  BY <1>2, <1>5 DEF kept

\* The calls before the announcement are planned.
LEMMA PrePlanned ==
    ASSUME NEW r \in Requests, NEW found, DOMAIN found \subseteq ToSet(r.players)
    PROVE  PreAnnounce(r, found) \in Seq(Plan(r, found, "before"))
<1> DEFINE players == Keep(r.players, DOMAIN found)
           quieten(p) == IF ~found[p].playing THEN <<>>
                         ELSE IF r.pause THEN <<Call("pause", p, NoLevel)>>
                         ELSE IF VolumeOf(r) # NoLevel THEN <<Call("stop", p, NoLevel)>> ELSE <<>>
           turn(p)    == IF VolumeOf(r) # NoLevel THEN <<Call("volume", p, VolumeOf(r))>> ELSE <<>>
           pieces     == [i \in DOMAIN players |-> quieten(players[i]) \o turn(players[i])]
           P          == Plan(r, found, "before")
<1>1. /\ players \in Seq(Players)
      /\ \A i \in DOMAIN players : players[i] \in DOMAIN found
  BY PlayersKept
<1>2. DOMAIN found \subseteq Players
  <2>1. r.players \in Seq(Players)
    BY AlexaAnnounceAssumption
  <2>. QED  BY <2>1 DEF ToSet
<1>3. ASSUME NEW p \in DOMAIN found PROVE quieten(p) \o turn(p) \in Seq(P)
  <2>1. p \in Players
    BY <1>2
  <2>2. quieten(p) \in Seq(P)
    <3>1. Call("pause", p, NoLevel) \in Calls /\ Call("stop", p, NoLevel) \in Calls
      BY <2>1 DEF Call, Calls
    <3>2. r.pause /\ found[p].playing => Call("pause", p, NoLevel) \in P
      BY <3>1 DEF Plan, Planned, Call
    <3>3. Call("stop", p, NoLevel) \in P
      BY <3>1 DEF Plan, Planned, Call
    <3> HIDE DEF P
    <3>. QED  BY <3>2, <3>3, EmptySeq
  <2>3. turn(p) \in Seq(P)
    <3>1. ASSUME VolumeOf(r) # NoLevel PROVE Call("volume", p, VolumeOf(r)) \in P
      <4>1. VolumeOf(r) \in Levels
        BY <3>1 DEF VolumeOf
      <4>2. Call("volume", p, VolumeOf(r)) \in Calls
        BY <2>1, <4>1 DEF Call, Calls
      <4>. QED  BY <4>1, <4>2 DEF Plan, Planned, Call
    <3> HIDE DEF P
    <3>. QED  BY <3>1, EmptySeq
  <2> HIDE DEF P, quieten, turn
  <2>. QED  BY <2>2, <2>3, ConcatProperties
<1>4. Len(players) \in Nat /\ DOMAIN players = 1 .. Len(players)
  BY <1>1
<1>5. PreAnnounce(r, found) = FlattenSeq(pieces)
  BY DEF PreAnnounce
<1>6. pieces \in Seq(Seq(P))
  <2>1. \A i \in DOMAIN players : quieten(players[i]) \o turn(players[i]) \in Seq(P)
    BY <1>1, <1>3
  <2> HIDE DEF P, quieten, turn, players
  <2>. QED  BY <1>4, <2>1, SeqDef
<1> HIDE DEF P, pieces
<1>7. FlattenSeq(pieces) \in Seq(P)
  BY <1>6, FlattenProperties
<1>. QED  BY <1>5, <1>7 DEF P

\* So are those after it, and what is to be brought back is in them.
LEMMA PostPlanned ==
    ASSUME NEW r \in Requests, NEW found, DOMAIN found \subseteq ToSet(r.players),
           \A p \in DOMAIN found : found[p].volume \in Levels
    PROVE  /\ PostAnnounce(r, found) \in Seq(Plan(r, found, "after"))
           /\ \A p \in DOMAIN found :
                /\ r.restore /\ VolumeOf(r) # NoLevel =>
                    Call("volume", p, found[p].volume) \in Range(PostAnnounce(r, found))
                /\ r.pause /\ found[p].playing =>
                    Call("play", p, NoLevel) \in Range(PostAnnounce(r, found))
<1> DEFINE players == Keep(r.players, DOMAIN found)
           resumed == {p \in DOMAIN found : r.pause /\ found[p].playing}
           music   == Keep(players, resumed)
           P       == Plan(r, found, "after")
           turns   == [i \in DOMAIN players |-> Call("volume", players[i], found[players[i]].volume)]
           volumes == IF r.restore /\ VolumeOf(r) # NoLevel THEN turns ELSE <<>>
           plays   == [i \in DOMAIN music |-> Call("play", music[i], NoLevel)]
<1>1. /\ players \in Seq(Players)
      /\ \A i \in DOMAIN players : players[i] \in DOMAIN found
      /\ \A p \in DOMAIN found : \E i \in DOMAIN players : players[i] = p
  BY PlayersKept
<1>2. DOMAIN found \subseteq Players
  <2>1. r.players \in Seq(Players)
    BY AlexaAnnounceAssumption
  <2>. QED  BY <2>1 DEF ToSet
<1>3. PostAnnounce(r, found) = volumes \o plays
  BY DEF PostAnnounce
<1> HIDE DEF players
<1>4. music \in Seq(Players) /\ {music[i] : i \in DOMAIN music} = resumed
  <2>1. Keep(players, resumed) \in Seq(Players)
        /\ Range(Keep(players, resumed)) = Range(players) \cap resumed
    BY <1>1, KeepProperties
  <2>2. Range(players) = DOMAIN found
    BY <1>1 DEF Range
  <2>. QED  BY <2>1, <2>2 DEF Range
<1> HIDE DEF music
<1>5. /\ Len(players) \in Nat /\ DOMAIN players = 1 .. Len(players)
      /\ Len(music) \in Nat /\ DOMAIN music = 1 .. Len(music)
  BY <1>1, <1>4
<1>6. VolumeOf(r) # NoLevel => turns \in Seq(P)
  <2>1. ASSUME VolumeOf(r) # NoLevel, NEW p \in DOMAIN found
        PROVE  Call("volume", p, found[p].volume) \in P
    <3>1. VolumeOf(r) \in Levels
      BY <2>1 DEF VolumeOf
    <3>2. Call("volume", p, found[p].volume) \in Calls
      BY <1>2 DEF Call, Calls
    <3>. QED  BY <3>1, <3>2 DEF Plan, Planned, Call
  <2> HIDE DEF P
  <2>. QED  BY <1>1, <1>5, <2>1, SeqDef
<1>7. plays \in Seq(P)
  <2>1. ASSUME NEW p \in DOMAIN found PROVE Call("play", p, NoLevel) \in P
    <3>1. Call("play", p, NoLevel) \in Calls
      BY <1>2 DEF Call, Calls
    <3>. QED  BY <3>1 DEF Plan, Planned, Call
  <2> HIDE DEF P
  <2>2. \A i \in DOMAIN music : music[i] \in DOMAIN found
    BY <1>4
  <2>. QED  BY <1>5, <2>1, <2>2, SeqDef
<1>8. volumes \in Seq(P)
  BY <1>6, EmptySeq
<1>9. \A p \in DOMAIN found :
        Call("volume", p, found[p].volume) \in Range(turns)
  BY <1>1 DEF Range
<1>10. \A p \in resumed : Call("play", p, NoLevel) \in Range(plays)
  BY <1>4 DEF Range
<1> HIDE DEF P, turns, plays
<1>11. volumes \o plays \in Seq(P) /\ Range(volumes \o plays) = Range(volumes) \cup Range(plays)
  BY <1>7, <1>8, ConcatRange
<1>. QED  BY <1>3, <1>9, <1>10, <1>11 DEF P

-----------------------------------------------------------------------------
(* Calls under way.                                                        *)

\* With nothing under way a player is what it comes to.
LEMMA NothingUnderway ==
    ASSUME NEW now, NEW v
    PROVE  /\ TurnsTo(<<>>, now, v) <=> now = v
           /\ PlaysOn(<<>>, now) <=> now = "playing"
<1>1. DOMAIN <<>> = {}
  OBVIOUS
<1>. QED  BY <1>1 DEF TurnsTo, PlaysOn

\* A call that comes last decides.
LEMMA LastDecides ==
    ASSUME NEW s \in Seq(Accepted), NEW c \in Accepted, NEW now, NEW v
    PROVE  /\ Append(s, c) \in Seq(Accepted)
           /\ c.op = "volume" => TurnsTo(Append(s, c), now, c.level)
           /\ c.op # "volume" /\ TurnsTo(s, now, v) => TurnsTo(Append(s, c), now, v)
           /\ c.op = "play" => PlaysOn(Append(s, c), now)
           /\ c.op \notin {"pause", "play"} /\ PlaysOn(s, now) => PlaysOn(Append(s, c), now)
<1> DEFINE a == Append(s, c)
<1>1. /\ Len(s) \in Nat /\ DOMAIN s = 1 .. Len(s) /\ a \in Seq(Accepted)
      /\ DOMAIN a = 1 .. (Len(s) + 1) /\ a[Len(s) + 1] = c
      /\ \A i \in 1 .. Len(s) : a[i] = s[i]
  BY AppendProperties
<1> HIDE DEF a
<1>2. \A i \in DOMAIN a : i <= Len(s) + 1 /\ (i \in DOMAIN s \/ i = Len(s) + 1)
  BY <1>1
<1>3. Len(s) + 1 \in DOMAIN a /\ \A i \in DOMAIN s : i \in DOMAIN a /\ i <= Len(s) /\ a[i] = s[i]
  BY <1>1
<1>4. c.op = "volume" => TurnsTo(a, now, c.level)
  BY <1>1, <1>2, <1>3 DEF TurnsTo
<1>5. c.op # "volume" /\ TurnsTo(s, now, v) => TurnsTo(a, now, v)
  BY <1>1, <1>2, <1>3 DEF TurnsTo
<1>6. c.op = "play" => PlaysOn(a, now)
  BY <1>1, <1>2, <1>3 DEF PlaysOn
<1>7. c.op \notin {"pause", "play"} /\ PlaysOn(s, now) => PlaysOn(a, now)
  BY <1>1, <1>2, <1>3 DEF PlaysOn
<1>. QED  BY <1>1, <1>4, <1>5, <1>6, <1>7 DEF a

\* What is left of calls without one of them.
LEMMA WithoutOne ==
    ASSUME NEW s \in Seq(Accepted), NEW i \in DOMAIN s
    PROVE  /\ RemoveAt(s, i) \in Seq(Accepted)
           /\ Len(s) \in Nat /\ DOMAIN s = 1 .. Len(s) /\ i \in 1 .. Len(s)
           /\ DOMAIN RemoveAt(s, i) = 1 .. (Len(s) - 1)
           /\ \A j \in 1 .. (Len(s) - 1) : RemoveAt(s, i)[j] = IF j < i THEN s[j] ELSE s[j + 1]
<1> DEFINE front == SubSeq(s, 1, i - 1)
           back  == SubSeq(s, i + 1, Len(s))
<1>1. Len(s) \in Nat /\ DOMAIN s = 1 .. Len(s) /\ i \in 1 .. Len(s)
  OBVIOUS
<1>2. front \in Seq(Accepted) /\ Len(front) = i - 1 /\ \A j \in 1 .. (i - 1) : front[j] = s[j]
  BY <1>1, SubSeqProperties
<1>3. /\ back \in Seq(Accepted) /\ Len(back) = Len(s) - i
      /\ \A j \in 1 .. (Len(s) - i) : back[j] = s[i + j]
  BY <1>1, SubSeqProperties
<1> HIDE DEF front, back
<1>4. /\ front \o back \in Seq(Accepted) /\ Len(front \o back) = Len(s) - 1
      /\ \A j \in 1 .. (Len(s) - 1) :
            (front \o back)[j] = IF j <= i - 1 THEN front[j] ELSE back[j - (i - 1)]
  <2>1. /\ front \o back \in Seq(Accepted) /\ Len(front \o back) = Len(front) + Len(back)
        /\ \A j \in 1 .. (Len(front) + Len(back)) :
            (front \o back)[j] = IF j <= Len(front) THEN front[j] ELSE back[j - Len(front)]
    BY <1>2, <1>3, ConcatProperties
  <2>2. Len(front) + Len(back) = Len(s) - 1
    BY <1>1, <1>2, <1>3
  <2>. QED  BY <1>2, <2>1, <2>2
<1>5. RemoveAt(s, i) = front \o back
  BY DEF RemoveAt, front, back
<1> DEFINE left == front \o back
<1> HIDE DEF left
<1>6. DOMAIN left = 1 .. (Len(s) - 1)
  BY <1>4 DEF left
<1>7. ASSUME NEW j \in 1 .. (Len(s) - 1)
      PROVE  left[j] = IF j < i THEN s[j] ELSE s[j + 1]
  <2>1. CASE j < i
    <3>1. j \in 1 .. (i - 1) /\ j <= i - 1
      BY <1>1, <2>1
    <3>. QED  BY <1>2, <1>4, <2>1, <3>1 DEF left
  <2>2. CASE ~ (j < i)
    <3>1. j - (i - 1) \in 1 .. (Len(s) - i) /\ ~ (j <= i - 1) /\ i + (j - (i - 1)) = j + 1
      BY <1>1, <2>2
    <3>. QED  BY <1>3, <1>4, <2>2, <3>1 DEF left
  <2>. QED  BY <2>1, <2>2
<1>. QED  BY <1>1, <1>4, <1>5, <1>6, <1>7 DEF left

\* What players come to stays when they obey a call before which there is no other of its kind.
LEMMA FirstDecidesNothing ==
    ASSUME NEW s \in Seq(Accepted), NEW i \in DOMAIN s, NEW now, NEW v,
           \A j \in 1 .. (i - 1) : (s[j].op = "volume") # (s[i].op = "volume")
    PROVE  /\ TurnsTo(s, now, v) =>
                TurnsTo(RemoveAt(s, i), IF s[i].op = "volume" THEN s[i].level ELSE now, v)
           /\ s[i].op # "stop" /\ now \in {"playing", "paused"} /\ PlaysOn(s, now) =>
                PlaysOn(RemoveAt(s, i), Played(s[i].op, now))
<1> DEFINE left == RemoveAt(s, i)
<1>1. /\ Len(s) \in Nat /\ DOMAIN s = 1 .. Len(s) /\ i \in 1 .. Len(s)
      /\ DOMAIN left = 1 .. (Len(s) - 1)
      /\ \A j \in 1 .. (Len(s) - 1) : left[j] = IF j < i THEN s[j] ELSE s[j + 1]
  BY WithoutOne
<1> HIDE DEF left
<1>2. \A j \in DOMAIN s : j < i => j \in DOMAIN left /\ left[j] = s[j]
  BY <1>1
<1>3. \A j \in DOMAIN s : j > i => j - 1 \in DOMAIN left /\ left[j - 1] = s[j]
  BY <1>1
<1>4. \A j \in DOMAIN left : IF j < i THEN j \in DOMAIN s /\ left[j] = s[j]
                             ELSE j + 1 \in DOMAIN s /\ left[j] = s[j + 1]
  BY <1>1
<1>5. s[i] \in Accepted /\ s[i].op \in {"pause", "stop", "play", "volume"}
  BY DEF Accepted, Calls
<1>6. \A j \in DOMAIN s : j < i => (s[j].op = "volume") # (s[i].op = "volume")
  BY <1>1
<1>7. ASSUME TurnsTo(s, now, v)
      PROVE  TurnsTo(left, IF s[i].op = "volume" THEN s[i].level ELSE now, v)
  <2>1. CASE now = v /\ \A j \in DOMAIN s : s[j].op # "volume"
    BY <1>1, <1>4, <2>1 DEF TurnsTo
  <2>2. CASE ~ (now = v /\ \A j \in DOMAIN s : s[j].op # "volume")
    <3>1. PICK k \in DOMAIN s : /\ s[k].op = "volume" /\ s[k].level = v
                               /\ \A j \in DOMAIN s : s[j].op = "volume" => j <= k
      BY <1>7, <2>2 DEF TurnsTo
    <3>2. CASE k = i
      <4>1. \A j \in DOMAIN left : left[j].op # "volume"
        BY <1>1, <1>4, <1>6, <3>1, <3>2
      <4>. QED  BY <3>1, <3>2, <4>1 DEF TurnsTo
    <3>3. CASE k < i
      <4>1. s[i].op # "volume"
        BY <1>6, <3>1, <3>3
      <4>2. k \in DOMAIN left /\ left[k] = s[k]
        BY <1>2, <3>3
      <4>3. \A j \in DOMAIN left : left[j].op = "volume" => j <= k
        BY <1>1, <1>4, <3>1, <3>3
      <4>. QED  BY <3>1, <4>1, <4>2, <4>3 DEF TurnsTo
    <3>4. CASE k > i
      <4>1. k - 1 \in DOMAIN left /\ left[k - 1] = s[k]
        BY <1>3, <3>4
      <4>2. \A j \in DOMAIN left : left[j].op = "volume" => j <= k - 1
        BY <1>1, <1>4, <3>1, <3>4
      <4>. QED  BY <3>1, <4>1, <4>2 DEF TurnsTo
    <3>. QED  BY <1>1, <3>2, <3>3, <3>4
  <2>. QED  BY <2>1, <2>2
<1>8. ASSUME s[i].op # "stop", now \in {"playing", "paused"}, PlaysOn(s, now)
      PROVE  PlaysOn(left, Played(s[i].op, now))
  <2>1. CASE now = "playing" /\ \A j \in DOMAIN s : s[j].op \notin {"pause", "play"}
    <3>1. s[i].op = "volume"
      BY <1>5, <1>8, <2>1
    <3>2. Played(s[i].op, now) = now
      BY <3>1 DEF Played
    <3>. QED  BY <1>1, <1>4, <2>1, <3>2 DEF PlaysOn
  <2>2. CASE ~ (now = "playing" /\ \A j \in DOMAIN s : s[j].op \notin {"pause", "play"})
    <3>1. PICK k \in DOMAIN s : /\ s[k].op = "play"
                               /\ \A j \in DOMAIN s : s[j].op \in {"pause", "play"} => j <= k
      BY <1>8, <2>2 DEF PlaysOn
    <3>2. CASE k = i
      <4>1. Played(s[i].op, now) = "playing"
        BY <1>8, <3>1, <3>2 DEF Played
      <4>2. \A j \in DOMAIN left : left[j].op \notin {"pause", "play"}
        <5>1. ASSUME NEW j \in DOMAIN left PROVE left[j].op \notin {"pause", "play"}
          <6>1. CASE j < i
            BY <1>1, <1>4, <1>6, <3>1, <3>2, <6>1
          <6>2. CASE ~ (j < i)
            BY <1>1, <1>4, <3>1, <3>2, <6>2
          <6>. QED  BY <6>1, <6>2
        <5>. QED  BY <5>1
      <4>. QED  BY <4>1, <4>2 DEF PlaysOn
    <3>3. CASE k < i
      <4>1. k \in DOMAIN left /\ left[k] = s[k]
        BY <1>2, <3>3
      <4>2. \A j \in DOMAIN left : left[j].op \in {"pause", "play"} => j <= k
        BY <1>1, <1>4, <3>1, <3>3
      <4>. QED  BY <3>1, <4>1, <4>2 DEF PlaysOn
    <3>4. CASE k > i
      <4>1. k - 1 \in DOMAIN left /\ left[k - 1] = s[k]
        BY <1>3, <3>4
      <4>2. \A j \in DOMAIN left : left[j].op \in {"pause", "play"} => j <= k - 1
        BY <1>1, <1>4, <3>1, <3>4
      <4>. QED  BY <3>1, <4>1, <4>2 DEF PlaysOn
    <3>. QED  BY <1>1, <3>2, <3>3, <3>4
  <2>. QED  BY <2>1, <2>2
<1>. QED  BY <1>7, <1>8 DEF left

-----------------------------------------------------------------------------
(* Types and plans.                                                        *)

\* The invariant holds before anything is announced.
LEMMA IInvInit == Init => IInv
<1> SUFFICES ASSUME Init PROVE IInv
  OBVIOUS
<1>1. \A t \in Tasks : stage[t] = "idle" /\ states[t] = <<>> /\ todo[t] = <<>> /\ refused[t] = {}
  BY DEF Init
<1>2. \A t \in Tasks : \A p \in There : ~ Busy(t, p)
  BY <1>1 DEF Busy
<1>3. PlayersTyped
  <2>1. underway \in [There -> Seq(Accepted)]
    BY EmptySeq DEF Init
  <2>. QED  BY <2>1 DEF Init, PlayersTyped
<1>4. TasksTyped
  BY DEF Init, TasksTyped
<1>5. PlansInv
  BY <1>1 DEF PlansInv, Unbegun
<1>6. MarksInv
  BY <1>2 DEF MarksInv
<1>7. VolumeInv
  <2>1. \A p \in There : volume[p] = home[p].volume /\ underway[p] = <<>>
    BY DEF Init
  <2>. QED  BY <1>2, <2>1, NothingUnderway DEF VolumeInv
<1>8. MusicInv
  <2>1. \A p \in There : /\ home[p].playing = (playback[p] = "playing") /\ underway[p] = <<>>
                        /\ playback[p] \in {"playing", "idle"}
    BY DEF Init
  <2>2. ASSUME NEW p \in There
        PROVE  /\ ~ home[p].playing => playback[p] = "idle"
               /\ home[p].playing => playback[p] = "playing" /\ PlaysOn(underway[p], playback[p])
    BY <2>1, NothingUnderway
  <2>. QED  BY <2>2 DEF MusicInv
<1>. QED  BY <1>3, <1>4, <1>5, <1>6, <1>7, <1>8 DEF IInv

\* Marks stay marks.
LEMMA MarkTyped ==
    ASSUME PlayersTyped, NEW players, NEW mark \in Reasons
    PROVE  /\ Mark(players, mark) \in [There -> SUBSET Reasons]
           /\ \A p \in There : marks[p] \subseteq Mark(players, mark)[p]
           /\ \A p \in players \cap There : mark \in Mark(players, mark)[p]
BY DEF PlayersTyped, Mark

\* What an announcement finds has the types of what it found.
LEMMA SnapshotTyped ==
    ASSUME PlayersTyped, NEW r \in Requests
    PROVE  /\ DOMAIN Snapshot(r) = Aside(r) /\ Aside(r) \subseteq There
           /\ Aside(r) \subseteq ToSet(r.players)
           /\ \A p \in Aside(r) :
                /\ Snapshot(r)[p].volume \in Levels
                /\ p \notin Untold => Snapshot(r)[p].volume = volume[p]
                /\ Snapshot(r)[p].playing = (playback[p] = "playing")
BY AlexaAnnounceAssumption DEF PlayersTyped, Snapshot, Aside

\* What is aside of a player that is there.
LEMMA AsideIsThere ==
    ASSUME NEW r \in Requests
    PROVE  Aside(r) \subseteq There /\ Aside(r) \subseteq ToSet(r.players)
BY DEF Aside

\* The calls of a plan are planned.
LEMMA PlanIsPlanned ==
    ASSUME NEW r, NEW found, NEW when, NEW s \in Seq(Plan(r, found, when))
    PROVE  s \in Seq(Calls) /\ \A i \in DOMAIN s : Planned(s[i], r, found, when)
<1> DEFINE P == Plan(r, found, when)
<1>1. P \subseteq Calls /\ \A c \in P : Planned(c, r, found, when)
  BY DEF Plan
<1> HIDE DEF P
<1>2. s \in Seq(P)
  BY DEF P
<1>3. \A i \in DOMAIN s : s[i] \in P
  BY <1>2
<1>4. s \in Seq(Calls)
  BY <1>1, <1>2, SeqMonotonic
<1>. QED  BY <1>1, <1>3, <1>4

\* Each step of an announcement keeps to the plan: it begins with one,
LEMMA BeginOnPlan ==
    ASSUME IInv, NEW t \in Tasks, NEW r \in Requests, Begin(t, r)
    PROVE  PlansInv'
<1>1. PlayersTyped /\ TasksTyped /\ PlansInv
  BY DEF IInv
<1>2. /\ request' = [request EXCEPT ![t] = r] /\ refused' = refused
      /\ stage[t] = "idle" /\ Unbegun(t)
  BY <1>1 DEF Begin, PlansInv
<1>3. ASSUME NEW u \in Tasks, u # t
      PROVE  (stage'[u] = "idle" => Unbegun(u)') /\ (stage'[u] # "idle" => OnPlan(u)')
  <2>1. /\ request'[u] = request[u] /\ stage'[u] = stage[u] /\ states'[u] = states[u]
        /\ todo'[u] = todo[u] /\ refused'[u] = refused[u]
    BY <1>1, <1>2, <1>3 DEF Begin, TasksTyped
  <2>. QED  BY <1>1, <2>1 DEF PlansInv, Unbegun, OnPlan
<1>4. request'[t] = r /\ refused'[t] = {}
  BY <1>1, <1>2 DEF TasksTyped, Unbegun
<1>5. CASE r.players = <<>>
  <2>1. stage'[t] = "done" /\ states'[t] = <<>> /\ todo'[t] = <<>>
    BY <1>1, <1>2, <1>5 DEF Begin, TasksTyped, Unbegun
  <2>2. Aside(r) = {}
    BY <1>5 DEF Aside, ToSet
  <2>3. OnPlan(t)'
    BY <1>4, <2>1, <2>2, EmptySeq DEF OnPlan
  <2>. QED  BY <1>3, <2>1, <2>3 DEF PlansInv
<1>6. CASE r.players # <<>>
  <2>1. /\ stage'[t] = "before" /\ states'[t] = Snapshot(r)
        /\ todo'[t] = PreAnnounce(r, Snapshot(r))
    BY <1>1, <1>2, <1>6 DEF Begin, TasksTyped
  <2>2. /\ DOMAIN Snapshot(r) = Aside(r) /\ Aside(r) \subseteq ToSet(r.players)
        /\ \A p \in Aside(r) : Snapshot(r)[p].volume \in Levels
    BY <1>1, SnapshotTyped
  <2>3. PreAnnounce(r, Snapshot(r)) \in Seq(Plan(r, Snapshot(r), "before"))
    BY <2>2, PrePlanned
  <2>4. /\ PreAnnounce(r, Snapshot(r)) \in Seq(Calls)
        /\ \A i \in DOMAIN PreAnnounce(r, Snapshot(r)) :
            Planned(PreAnnounce(r, Snapshot(r))[i], r, Snapshot(r), "before")
    BY <2>3, PlanIsPlanned
  <2>5. OnPlan(t)'
    BY <1>4, <2>1, <2>2, <2>4 DEF OnPlan
  <2>. QED  BY <1>3, <2>1, <2>5 DEF PlansInv
<1>. QED  BY <1>5, <1>6

\* makes the first of its calls,
LEMMA CallOnPlan ==
    ASSUME IInv, NEW t \in Tasks, NEW result, CallPlayer(t, result)
    PROVE  /\ PlansInv'
           /\ Planned(Head(todo[t]), request[t], states[t], stage[t])
           /\ Head(todo[t]).player \in There /\ OnPlan(t)
<1> DEFINE c == Head(todo[t])
<1>1. PlayersTyped /\ TasksTyped /\ PlansInv
  BY DEF IInv
<1>2. /\ stage[t] \in {"before", "after"} /\ todo[t] # <<>>
      /\ todo' = [todo EXCEPT ![t] = Tail(@)]
      /\ request' = request /\ stage' = stage /\ states' = states
      /\ \/ refused' = refused
         \/ c.op = "volume" /\ refused' = [refused EXCEPT ![t] = @ \cup {c.player}]
  BY DEF CallPlayer
<1>3. OnPlan(t)
  BY <1>1, <1>2 DEF PlansInv
<1>4. /\ Tail(todo[t]) \in Seq(Calls) /\ 1 \in DOMAIN todo[t] /\ todo[t][1] = c
      /\ \A i \in DOMAIN Tail(todo[t]) :
            i + 1 \in DOMAIN todo[t] /\ Tail(todo[t])[i] = todo[t][i + 1]
  BY <1>2, <1>3, AfterTheFirst DEF OnPlan
<1>5. Planned(c, request[t], states[t], stage[t])
  BY <1>3, <1>4 DEF OnPlan
<1>6. c.player \in There
  BY <1>3, <1>5, AsideIsThere DEF OnPlan, Planned
<1>7. OnPlan(t)'
  <2>1. todo'[t] = Tail(todo[t])
    BY <1>1, <1>2 DEF TasksTyped
  <2>2. \A i \in DOMAIN todo'[t] : Planned(todo'[t][i], request[t], states[t], stage[t])
    BY <1>3, <1>4, <2>1 DEF OnPlan
  <2>3. refused'[t] # {} => VolumeOf(request[t]) \in Levels
    BY <1>1, <1>2, <1>3, <1>5 DEF OnPlan, Planned, TasksTyped
  <2>. QED  BY <1>2, <1>3, <1>4, <2>1, <2>2, <2>3 DEF OnPlan
<1>8. ASSUME NEW u \in Tasks, u # t
      PROVE  (stage'[u] = "idle" => Unbegun(u)') /\ (stage'[u] # "idle" => OnPlan(u)')
  <2>1. todo'[u] = todo[u] /\ refused'[u] = refused[u]
    BY <1>1, <1>2, <1>8 DEF TasksTyped
  <2>. QED  BY <1>1, <1>2, <2>1 DEF PlansInv, Unbegun, OnPlan
<1>9. PlansInv'
  BY <1>2, <1>7, <1>8 DEF PlansInv
<1>. QED  BY <1>3, <1>5, <1>6, <1>9

\* has its announcement made,
LEMMA AnnounceOnPlan ==
    ASSUME IInv, NEW t \in Tasks, Announce(t)
    PROVE  PlansInv' /\ OnPlan(t)
<1>1. TasksTyped /\ PlansInv
  BY DEF IInv
<1>2. /\ stage[t] = "before" /\ todo[t] = <<>>
      /\ request' = request /\ states' = states /\ todo' = todo /\ refused' = refused
      /\ stage' = [stage EXCEPT ![t] =
                CASE request[t].malformed -> "raised"
                  [] ~request[t].malformed /\ request[t].message /\ (NeedsPost(t) \/ request[t].wait) -> "speaking"
                  [] OTHER -> "done"]
  BY DEF Announce
<1>3. /\ \A u \in Tasks : u # t => stage'[u] = stage[u]
      /\ stage'[t] \in {"raised", "speaking", "done"}
      /\ stage'[t] = "speaking" => request[t].message
  BY <1>1, <1>2 DEF TasksTyped
<1>4. OnPlan(t)
  BY <1>1, <1>2 DEF PlansInv
<1>5. OnPlan(t)'
  <2>1. DOMAIN todo[t] = {}
    BY <1>2
  <2>. QED  BY <1>2, <1>3, <1>4, <2>1 DEF OnPlan
<1>6. ASSUME NEW u \in Tasks, u # t
      PROVE  (stage'[u] = "idle" => Unbegun(u)') /\ (stage'[u] # "idle" => OnPlan(u)')
  BY <1>1, <1>2, <1>3, <1>6 DEF PlansInv, Unbegun, OnPlan
<1>7. PlansInv'
  BY <1>3, <1>5, <1>6 DEF PlansInv
<1>. QED  BY <1>4, <1>7

\* and then has calls to make that bring back what it has put aside.
LEMMA SpeechOnPlan ==
    ASSUME IInv, NEW t \in Tasks, EndSpeech(t)
    PROVE  /\ PlansInv' /\ OnPlan(t)
           /\ \A p \in DOMAIN states[t] :
                /\ stage'[t] = "after"
                /\ request[t].restore /\ VolumeOf(request[t]) # NoLevel =>
                    \E i \in DOMAIN todo'[t] :
                        todo'[t][i] = Call("volume", p, states[t][p].volume)
                /\ request[t].pause /\ states[t][p].playing =>
                    \E i \in DOMAIN todo'[t] : todo'[t][i] = Call("play", p, NoLevel)
<1> DEFINE post == PostAnnounce(request[t], states[t])
<1>1. TasksTyped /\ PlansInv
  BY DEF IInv
<1>2. /\ stage[t] = "speaking"
      /\ request' = request /\ states' = states /\ refused' = refused
      /\ stage' = [stage EXCEPT ![t] = IF NeedsPost(t) THEN "after" ELSE "done"]
      /\ todo' = IF NeedsPost(t) THEN [todo EXCEPT ![t] = post] ELSE todo
  BY DEF EndSpeech
<1>3. OnPlan(t)
  BY <1>1, <1>2 DEF PlansInv
<1>4. /\ DOMAIN states[t] \subseteq ToSet(request[t].players) /\ request[t] \in Requests
      /\ \A p \in DOMAIN states[t] : states[t][p].volume \in Levels
  BY <1>3, AsideIsThere DEF OnPlan
<1>5. /\ post \in Seq(Plan(request[t], states[t], "after"))
      /\ \A p \in DOMAIN states[t] :
            /\ request[t].restore /\ VolumeOf(request[t]) # NoLevel =>
                Call("volume", p, states[t][p].volume) \in Range(post)
            /\ request[t].pause /\ states[t][p].playing => Call("play", p, NoLevel) \in Range(post)
  BY <1>4, PostPlanned
<1>6. post \in Seq(Calls) /\ \A i \in DOMAIN post : Planned(post[i], request[t], states[t], "after")
  BY <1>5, PlanIsPlanned
<1> HIDE DEF post
<1>7. CASE NeedsPost(t)
  <2>1. stage'[t] = "after" /\ todo'[t] = post
    BY <1>1, <1>2, <1>7 DEF TasksTyped
  <2>2. OnPlan(t)'
    BY <1>2, <1>3, <1>6, <2>1 DEF OnPlan
  <2>3. ASSUME NEW u \in Tasks, u # t
        PROVE  (stage'[u] = "idle" => Unbegun(u)') /\ (stage'[u] # "idle" => OnPlan(u)')
    <3>1. todo'[u] = todo[u] /\ stage'[u] = stage[u]
      BY <1>1, <1>2, <2>3 DEF TasksTyped
    <3>. QED  BY <1>1, <1>2, <3>1 DEF PlansInv, Unbegun, OnPlan
  <2>4. PlansInv'
    BY <2>1, <2>2, <2>3 DEF PlansInv
  <2>. QED  BY <1>3, <1>5, <2>1, <2>4 DEF Range
<1>8. CASE ~ NeedsPost(t)
  <2>1. DOMAIN states[t] = {}
    BY <1>3, <1>8 DEF OnPlan, NeedsPost, Aside
  <2>2. stage'[t] = "done" /\ todo' = todo /\ \A u \in Tasks : u # t => stage'[u] = stage[u]
    BY <1>1, <1>2, <1>8 DEF TasksTyped
  <2>3. OnPlan(t)'
    BY <1>2, <1>3, <2>1, <2>2 DEF OnPlan, Planned
  <2>4. ASSUME NEW u \in Tasks, u # t
        PROVE  (stage'[u] = "idle" => Unbegun(u)') /\ (stage'[u] # "idle" => OnPlan(u)')
    BY <1>1, <1>2, <2>2, <2>4 DEF PlansInv, Unbegun, OnPlan
  <2>5. PlansInv'
    BY <2>2, <2>3, <2>4 DEF PlansInv
  <2>. QED  BY <1>3, <2>1, <2>5
<1>. QED  BY <1>7, <1>8

-----------------------------------------------------------------------------
(* What each step does to the players.                                     *)

\* Who is busy with a player, and what is to be called, is as it was for other tasks.
LEMMA OthersBusyAsBefore ==
    ASSUME NEW u \in Tasks, stage'[u] = stage[u], states'[u] = states[u], todo'[u] = todo[u]
    PROVE  /\ \A p : Busy(u, p)' <=> Busy(u, p)
           /\ \A k : Ahead(u, k)' <=> Ahead(u, k)
BY DEF Busy, Over, Ahead

\* A call keeps busy whom it kept busy, until there are no calls left after it.
LEMMA BusyAfterCall ==
    ASSUME IInv, NEW t \in Tasks, NEW result, CallPlayer(t, result), NEW u \in Tasks, NEW p
    PROVE  /\ Busy(u, p)' => Busy(u, p)
           /\ u = t /\ p \in DOMAIN states[t] => Busy(t, p)
           /\ \A k : Busy(u, p) /\ Ahead(u, k) /\ (u = t => stage[t] = "before" \/ k # Head(todo[t]))
                        => Busy(u, p)' /\ Ahead(u, k)'
<1>1. /\ stage[t] \in {"before", "after"} /\ todo[t] # <<>> /\ stage' = stage /\ states' = states
      /\ todo' = [todo EXCEPT ![t] = Tail(@)] /\ DOMAIN todo = Tasks
  BY DEF CallPlayer, IInv, TasksTyped
<1>2. CASE u # t
  <2>1. stage'[u] = stage[u] /\ states'[u] = states[u] /\ todo'[u] = todo[u]
    BY <1>1, <1>2
  <2>. QED  BY <1>2, <2>1, OthersBusyAsBefore
<1>3. CASE u = t
  <2>1. todo'[t] = Tail(todo[t])
    BY <1>1
  <2>2. Busy(t, p) <=> p \in DOMAIN states[t]
    BY <1>1 DEF Busy, Over
  <2>3. todo[t] \in Seq(Calls)
    BY <1>1 DEF IInv, PlansInv, OnPlan
  <2>4. \A i \in DOMAIN todo[t] :
            todo[t][i] # Head(todo[t]) => \E j \in DOMAIN Tail(todo[t]) : Tail(todo[t])[j] = todo[t][i]
    BY <1>1, <2>3, AfterTheFirst
  <2>5. Busy(t, p)' => Busy(t, p)
    BY <1>1, <2>2 DEF Busy
  <2>6. ASSUME NEW k, Busy(t, p), Ahead(t, k), stage[t] = "before" \/ k # Head(todo[t])
        PROVE  Busy(t, p)' /\ Ahead(t, k)'
    <3>1. CASE stage[t] = "before"
      BY <1>1, <2>2, <2>6, <3>1 DEF Busy, Over, Ahead
    <3>2. CASE stage[t] = "after"
      <4>1. \E j \in DOMAIN Tail(todo[t]) : Tail(todo[t])[j] = k
        BY <2>4, <2>6, <3>2 DEF Ahead
      <4>2. Tail(todo[t]) # <<>>
        BY <4>1
      <4>. QED  BY <1>1, <2>1, <2>2, <2>6, <3>2, <4>1, <4>2 DEF Busy, Over, Ahead
    <3>. QED  BY <1>1, <3>1, <3>2
  <2>. QED  BY <1>3, <2>2, <2>5, <2>6
<1>. QED  BY <1>2, <1>3

\* A call.
LEMMA CallPlayerKeeps ==
    ASSUME IInv, NEW t \in Tasks, NEW result, CallPlayer(t, result)
    PROVE  IInv'
<1> DEFINE c == Head(todo[t])
<1>1. PlayersTyped /\ TasksTyped /\ PlansInv /\ MarksInv /\ VolumeInv /\ MusicInv
  BY DEF IInv
<1>2. /\ PlansInv' /\ OnPlan(t) /\ c.player \in There
      /\ Planned(c, request[t], states[t], stage[t])
  BY CallOnPlan
<1>3. /\ stage[t] \in {"before", "after"}
      /\ todo' = [todo EXCEPT ![t] = Tail(@)]
      /\ volume' = volume /\ playback' = playback
      /\ \/ /\ underway' = [underway EXCEPT ![c.player] = Append(@, c)]
            /\ marks' = marks /\ refused' = refused
         \/ /\ marks' = Mark({c.player}, "failed") /\ underway' = underway
            /\ \/ refused' = refused
               \/ refused' = [refused EXCEPT ![t] = @ \cup {c.player}]
      /\ home' = home /\ request' = request /\ stage' = stage /\ states' = states
  BY DEF CallPlayer
<1>4. /\ c \in Calls /\ c.op \in {"pause", "stop", "play", "volume"} /\ c.player \in Players
      /\ c.player \in DOMAIN states[t]
      /\ c.op = "volume" => c.level \in Levels /\ VolumeOf(request[t]) \in Levels
  <2>1. c \in Calls /\ c.player \in DOMAIN states[t]
    BY <1>2 DEF Planned
  <2>2. c.op = "volume" => c.level \in Levels /\ VolumeOf(request[t]) \in Levels
    BY <1>2 DEF Planned, OnPlan
  <2>. QED  BY <2>1, <2>2 DEF Calls
<1>5. Busy(t, c.player)
  BY <1>4, BusyAfterCall
<1> HIDE DEF c
<1>6. /\ marks' \in [There -> SUBSET Reasons]
      /\ \A p \in There : marks[p] \subseteq marks'[p]
      /\ underway' = underway => "failed" \in marks'[c.player]
  <2>1. "failed" \in Reasons
    BY DEF Reasons
  <2>2. /\ Mark({c.player}, "failed") \in [There -> SUBSET Reasons]
        /\ \A p \in There : marks[p] \subseteq Mark({c.player}, "failed")[p]
        /\ "failed" \in Mark({c.player}, "failed")[c.player]
    BY <1>1, <1>2, <2>1, MarkTyped
  <2>3. marks \in [There -> SUBSET Reasons] /\ underway[c.player] \in Seq(Accepted)
    BY <1>1, <1>2 DEF PlayersTyped
  <2>4. Append(underway[c.player], c) # underway[c.player]
    BY <1>4, <2>3
  <2>. QED  BY <1>1, <1>2, <1>3, <2>2, <2>3, <2>4 DEF PlayersTyped
<1>7. PlayersTyped'
  <2>1. c \in Accepted
    BY <1>4 DEF Accepted
  <2>2. \A p \in There : Append(underway[p], c) \in Seq(Accepted)
    BY <1>1, <2>1 DEF PlayersTyped
  <2>3. underway' \in [There -> Seq(Accepted)]
    <3>1. underway \in [There -> Seq(Accepted)]
      BY <1>1 DEF PlayersTyped
    <3>. QED  BY <1>2, <1>3, <2>2, <3>1
  <2>. QED  BY <1>1, <1>3, <1>6, <2>3 DEF PlayersTyped
<1>8. TasksTyped'
  BY <1>1, <1>3, <1>4 DEF TasksTyped
<1>9. MarksInv'
  BY <1>1, <1>3, <1>6, BusyAfterCall DEF MarksInv
<1>10. VolumeInv'
  <2>1. SUFFICES ASSUME NEW p \in There, ~ VolumeExcused(p)'
        PROVE  /\ \A u \in Tasks : Busy(u, p)' /\ VolumeOf(request[u]) # NoLevel =>
                    states[u][p].volume = home[p].volume
               /\ TurnsTo(underway'[p], volume'[p], home[p].volume) \/ \E u \in Tasks :
                    /\ Busy(u, p)' /\ VolumeOf(request[u]) # NoLevel
                    /\ Ahead(u, Call("volume", p, home[p].volume))'
    BY <1>3 DEF VolumeInv
  <2>2. /\ ~ VolumeExcused(p) /\ underway[p] \in Seq(Accepted) /\ c \in Accepted
        /\ p = c.player => underway'[p] = Append(underway[p], c)
        /\ p # c.player => underway'[p] = underway[p]
    BY <1>1, <1>3, <1>4, <1>6, <2>1 DEF VolumeExcused, PlayersTyped, Accepted
  <2>3. /\ \A u \in Tasks : Busy(u, p) /\ VolumeOf(request[u]) # NoLevel =>
                states[u][p].volume = home[p].volume
        /\ TurnsTo(underway[p], volume[p], home[p].volume) \/ \E u \in Tasks :
                /\ Busy(u, p) /\ VolumeOf(request[u]) # NoLevel
                /\ Ahead(u, Call("volume", p, home[p].volume))
    BY <1>1, <2>2 DEF VolumeInv
  <2>4. CASE p = c.player /\ c.op = "volume"
    <3>1. TurnsTo(underway'[p], volume'[p], c.level) /\ VolumeOf(request[t]) # NoLevel
      <4>1. TurnsTo(Append(underway[p], c), volume'[p], c.level)
        BY <2>2, <2>4, LastDecides
      <4>. QED  BY <1>4, <2>2, <2>4, <4>1, AlexaAnnounceAssumption
    <3>2. CASE stage[t] = "before"
      <4>1. Busy(t, p)'
        BY <1>3, <1>5, <2>4, <3>2 DEF Busy, Over
      <4>2. Ahead(t, Call("volume", p, home[p].volume))'
        BY <1>3, <3>2 DEF Ahead
      <4>. QED  BY <2>3, <3>1, <4>1, <4>2, BusyAfterCall
    <3>3. CASE stage[t] = "after"
      <4>1. c.level = states[t][p].volume
        BY <1>2, <2>4, <3>3 DEF Planned, c
      <4>. QED  BY <1>5, <2>3, <2>4, <3>1, <4>1, BusyAfterCall
    <3>. QED  BY <1>3, <3>2, <3>3
  <2>5. CASE ~ (p = c.player /\ c.op = "volume")
    <3>1. TurnsTo(underway[p], volume[p], home[p].volume) =>
            TurnsTo(underway'[p], volume'[p], home[p].volume)
      <4>1. CASE p # c.player
        BY <1>3, <2>2, <4>1
      <4>2. CASE p = c.player
        <5>1. TurnsTo(underway[p], volume[p], home[p].volume) =>
                TurnsTo(Append(underway[p], c), volume[p], home[p].volume)
          BY <2>2, <2>5, <4>2, LastDecides
        <5>. QED  BY <1>3, <2>2, <4>2, <5>1
      <4>. QED  BY <4>1, <4>2
    <3>2. Call("volume", p, home[p].volume) # c
      BY <2>5 DEF Call
    <3>3. \A u \in Tasks : \A k : k # c /\ Busy(u, p) /\ Ahead(u, k) => Busy(u, p)' /\ Ahead(u, k)'
      BY BusyAfterCall DEF c
    <3>4. \A u \in Tasks : Busy(u, p)' => Busy(u, p)
      BY BusyAfterCall
    <3>5. ASSUME NEW u \in Tasks, Busy(u, p), Ahead(u, Call("volume", p, home[p].volume))
          PROVE  Busy(u, p)' /\ Ahead(u, Call("volume", p, home[p].volume))'
      BY <1>3, <3>2, <3>3, <3>5 DEF Ahead
    <3>. QED  BY <2>3, <3>1, <3>4, <3>5
  <2>. QED  BY <2>4, <2>5
<1>11. MusicInv'
  <2>1. SUFFICES ASSUME NEW p \in There, ~ MusicExcused(p)'
        PROVE  /\ ~ home[p].playing => playback'[p] = "idle"
               /\ home[p].playing => playback'[p] # "idle"
               /\ home[p].playing => PlaysOn(underway'[p], playback'[p]) \/ \E u \in Tasks :
                    /\ Busy(u, p)' /\ request[u].pause /\ states[u][p].playing
                    /\ Ahead(u, Call("play", p, NoLevel))'
    BY <1>3 DEF MusicInv
  <2>2. /\ ~ MusicExcused(p) /\ underway[p] \in Seq(Accepted) /\ c \in Accepted
        /\ p = c.player => underway'[p] = Append(underway[p], c)
        /\ p # c.player => underway'[p] = underway[p]
    BY <1>1, <1>3, <1>4, <1>6, <2>1 DEF MusicExcused, PlayersTyped, Accepted
  <2>3. /\ ~ home[p].playing => playback[p] = "idle"
        /\ home[p].playing => playback[p] # "idle"
        /\ home[p].playing => PlaysOn(underway[p], playback[p]) \/ \E u \in Tasks :
                /\ Busy(u, p) /\ request[u].pause /\ states[u][p].playing
                /\ Ahead(u, Call("play", p, NoLevel))
    BY <1>1, <2>2 DEF MusicInv
  <2>4. CASE p = c.player /\ c.op = "pause"
    <3>1. request[t].pause /\ states[t][p].playing /\ stage[t] = "before"
      BY <1>2, <2>4 DEF Planned, c
    <3>2. Busy(t, p)' /\ Ahead(t, Call("play", p, NoLevel))'
      BY <1>3, <1>5, <2>4, <3>1 DEF Busy, Over, Ahead
    <3>. QED  BY <1>3, <2>3, <3>1, <3>2
  <2>5. CASE p = c.player /\ c.op = "play"
    <3>1. PlaysOn(underway'[p], playback'[p])
      <4>1. PlaysOn(Append(underway[p], c), playback'[p])
        BY <2>2, <2>5, LastDecides
      <4>. QED  BY <2>2, <2>5, <4>1
    <3>. QED  BY <1>3, <2>3, <3>1
  <2>6. CASE p # c.player \/ c.op \notin {"pause", "play"}
    <3>1. PlaysOn(underway[p], playback[p]) => PlaysOn(underway'[p], playback'[p])
      <4>1. CASE p # c.player
        BY <1>3, <2>2, <4>1
      <4>2. CASE p = c.player
        <5>1. PlaysOn(underway[p], playback[p]) => PlaysOn(Append(underway[p], c), playback[p])
          BY <2>2, <2>6, <4>2, LastDecides
        <5>. QED  BY <1>3, <2>2, <4>2, <5>1
      <4>. QED  BY <4>1, <4>2
    <3>2. Call("play", p, NoLevel) # c
      BY <2>6 DEF Call
    <3>. QED  BY <1>3, <2>3, <3>1, <3>2, BusyAfterCall DEF c
  <2>. QED  BY <2>4, <2>5, <2>6
<1>. QED  BY <1>2, <1>7, <1>8, <1>9, <1>10, <1>11 DEF IInv

\* The beginning.
LEMMA BeginKeeps ==
    ASSUME IInv, NEW t \in Tasks, NEW r \in Requests, Begin(t, r)
    PROVE  IInv'
<1>1. PlayersTyped /\ TasksTyped /\ PlansInv /\ MarksInv /\ VolumeInv /\ MusicInv
  BY DEF IInv
<1>2. PlansInv'
  BY BeginOnPlan
<1>3. /\ stage[t] = "idle" /\ request' = [request EXCEPT ![t] = r]
      /\ volume' = volume /\ playback' = playback /\ home' = home /\ refused' = refused
      /\ underway' = underway
  BY DEF Begin
<1>4. ASSUME NEW u \in Tasks, u # t
      PROVE  /\ stage'[u] = stage[u] /\ states'[u] = states[u] /\ todo'[u] = todo[u]
             /\ request'[u] = request[u]
  BY <1>1, <1>4 DEF Begin, TasksTyped
<1>5. request'[t] = r /\ \A p \in There : ~ Busy(t, p)
  BY <1>1, <1>3 DEF TasksTyped, Busy
<1>6. \A u \in Tasks : u # t => /\ \A p : Busy(u, p)' <=> Busy(u, p)
                                /\ \A k : Ahead(u, k)' <=> Ahead(u, k)
  BY <1>4, OthersBusyAsBefore
<1>7. /\ marks' \in [There -> SUBSET Reasons]
      /\ \A p \in There : marks[p] \subseteq marks'[p]
      /\ \A p \in There : Busy(t, p)' =>
            /\ p \in Aside(r) /\ states'[t] = Snapshot(r)
            /\ marks'[p] = marks[p] \cup MarksOf(r, p)
  <2>1. CASE r.players = <<>>
    <3>1. marks' = marks /\ stage'[t] = "done"
      BY <1>1, <1>3, <2>1 DEF Begin, TasksTyped
    <3>. QED  BY <1>1, <3>1 DEF PlayersTyped, Busy, Over
  <2>2. CASE r.players # <<>>
    <3>1. /\ states'[t] = Snapshot(r)
          /\ marks' = [p \in There |->
                            IF p \in DOMAIN Snapshot(r) THEN marks[p] \cup MarksOf(r, p) ELSE marks[p]]
      BY <1>1, <1>3, <2>2 DEF Begin, TasksTyped
    <3>2. DOMAIN Snapshot(r) = Aside(r)
      BY <1>1, SnapshotTyped
    <3>3. \A p : MarksOf(r, p) \subseteq Reasons
      BY DEF MarksOf, Reasons
    <3>. QED  BY <1>1, <3>1, <3>2, <3>3 DEF PlayersTyped, Busy
  <2>. QED  BY <2>1, <2>2
<1>8. PlayersTyped'
  BY <1>1, <1>3, <1>7 DEF PlayersTyped
<1>9. TasksTyped'
  BY <1>1, <1>3 DEF TasksTyped, Begin
<1>10. ASSUME NEW p \in There, Busy(t, p)'
       PROVE  /\ ~ Quiet(p) => "overlapped" \in marks'[p]
              /\ VolumeOf(r) # NoLevel =>
                    /\ p \in Untold => "untold" \in marks'[p]
                    /\ ~ (r.restore /\ r.message) => "unrestored" \in marks'[p]
              /\ r.pause /\ ~ r.message => "unsaid" \in marks'[p]
  <2>1. MarksOf(r, p) \subseteq marks'[p]
    BY <1>7, <1>10
  <2>2. /\ ~ Quiet(p) => "overlapped" \in MarksOf(r, p)
        /\ VolumeOf(r) # NoLevel /\ p \in Untold => "untold" \in MarksOf(r, p)
        /\ VolumeOf(r) # NoLevel /\ ~ (r.restore /\ r.message) => "unrestored" \in MarksOf(r, p)
        /\ r.pause /\ ~ r.message => "unsaid" \in MarksOf(r, p)
    BY DEF MarksOf
  <2>. QED  BY <2>1, <2>2
<1>11. MarksInv'
  <2>1. ASSUME NEW u \in Tasks, NEW p \in There, Busy(u, p)'
        PROVE  /\ \A w \in Tasks \ {u} : Busy(w, p)' => "overlapped" \in marks'[p]
               /\ VolumeOf(request'[u]) # NoLevel =>
                    /\ p \in Untold => "untold" \in marks'[p]
                    /\ ~ (request'[u].restore /\ request'[u].message) => "unrestored" \in marks'[p]
               /\ request'[u].pause /\ ~ request'[u].message => "unsaid" \in marks'[p]
    <3>1. CASE u = t
      BY <1>5, <1>6, <1>10, <2>1, <3>1 DEF Quiet
    <3>2. CASE u # t
      <4>1. request'[u] = request[u] /\ Busy(u, p)
        BY <1>4, <1>6, <2>1, <3>2
      <4>2. /\ \A w \in Tasks \ {u} : Busy(w, p) => "overlapped" \in marks[p]
            /\ VolumeOf(request[u]) # NoLevel =>
                /\ p \in Untold => "untold" \in marks[p]
                /\ ~ (request[u].restore /\ request[u].message) => "unrestored" \in marks[p]
            /\ request[u].pause /\ ~ request[u].message => "unsaid" \in marks[p]
        BY <1>1, <4>1 DEF MarksInv
      <4>3. \A w \in Tasks \ {u} : Busy(w, p)' => "overlapped" \in marks'[p]
        BY <1>6, <1>7, <1>10, <4>1, <4>2 DEF Quiet
      <4>. QED  BY <1>7, <4>1, <4>2, <4>3
    <3>. QED  BY <3>1, <3>2
  <2>. QED  BY <2>1 DEF MarksInv, VolumeOf
<1>12. VolumeInv'
  <2>1. SUFFICES ASSUME NEW p \in There, ~ VolumeExcused(p)'
        PROVE  /\ \A u \in Tasks : Busy(u, p)' /\ VolumeOf(request'[u]) # NoLevel =>
                    states'[u][p].volume = home[p].volume
               /\ TurnsTo(underway[p], volume[p], home[p].volume) \/ \E u \in Tasks :
                    /\ Busy(u, p)' /\ VolumeOf(request'[u]) # NoLevel
                    /\ Ahead(u, Call("volume", p, home[p].volume))'
    BY <1>3 DEF VolumeInv, VolumeOf
  <2>2. ~ VolumeExcused(p)
    BY <1>7, <2>1 DEF VolumeExcused
  <2>3. /\ \A u \in Tasks : Busy(u, p) /\ VolumeOf(request[u]) # NoLevel =>
                states[u][p].volume = home[p].volume
        /\ TurnsTo(underway[p], volume[p], home[p].volume) \/ \E u \in Tasks :
                /\ Busy(u, p) /\ VolumeOf(request[u]) # NoLevel
                /\ Ahead(u, Call("volume", p, home[p].volume))
    BY <1>1, <2>2 DEF VolumeInv
  <2>4. ASSUME Busy(t, p)', VolumeOf(r) # NoLevel PROVE states'[t][p].volume = home[p].volume
    <3>1. p \notin Untold /\ underway[p] = <<>> /\ \A u \in Tasks : ~ Busy(u, p)
      BY <1>10, <2>1, <2>4 DEF VolumeExcused, Quiet
    <3>2. volume[p] = home[p].volume
      BY <2>3, <3>1, NothingUnderway
    <3>. QED  BY <1>1, <1>7, <2>4, <3>1, <3>2, SnapshotTyped
  <2>5. ASSUME NEW u \in Tasks, Busy(u, p), Ahead(u, Call("volume", p, home[p].volume))
        PROVE  u # t /\ Busy(u, p)' /\ Ahead(u, Call("volume", p, home[p].volume))'
    <3>1. u # t
      BY <1>5, <2>5
    <3>. QED  BY <1>3, <1>6, <2>5, <3>1 DEF Ahead
  <2>. QED  BY <1>4, <1>5, <1>6, <2>3, <2>4, <2>5
<1>13. MusicInv'
  <2>1. SUFFICES ASSUME NEW p \in There, ~ MusicExcused(p)'
        PROVE  /\ ~ home[p].playing => playback[p] = "idle"
               /\ home[p].playing => playback[p] # "idle"
               /\ home[p].playing => PlaysOn(underway[p], playback[p]) \/ \E u \in Tasks :
                    /\ Busy(u, p)' /\ request'[u].pause /\ states'[u][p].playing
                    /\ Ahead(u, Call("play", p, NoLevel))'
    BY <1>3 DEF MusicInv
  <2>2. ~ MusicExcused(p)
    BY <1>7, <2>1 DEF MusicExcused
  <2>3. /\ ~ home[p].playing => playback[p] = "idle"
        /\ home[p].playing => playback[p] # "idle"
        /\ home[p].playing => PlaysOn(underway[p], playback[p]) \/ \E u \in Tasks :
                /\ Busy(u, p) /\ request[u].pause /\ states[u][p].playing
                /\ Ahead(u, Call("play", p, NoLevel))
    BY <1>1, <2>2 DEF MusicInv
  <2>. QED  BY <1>4, <1>5, <1>6, <2>3
<1>. QED  BY <1>2, <1>8, <1>9, <1>11, <1>12, <1>13 DEF IInv

\* The announcement.
LEMMA AnnounceKeeps ==
    ASSUME IInv, NEW t \in Tasks, Announce(t)
    PROVE  IInv'
<1> DEFINE r == request[t]
<1>1. PlayersTyped /\ TasksTyped /\ PlansInv /\ MarksInv /\ VolumeInv /\ MusicInv
  BY DEF IInv
<1>2. PlansInv' /\ OnPlan(t)
  BY AnnounceOnPlan
<1>3. /\ stage[t] = "before" /\ todo[t] = <<>>
      /\ stage' = [stage EXCEPT ![t] =
                CASE r.malformed -> "raised"
                  [] ~r.malformed /\ r.message /\ (NeedsPost(t) \/ r.wait) -> "speaking"
                  [] OTHER -> "done"]
      /\ \/ underway' = underway
         \/ /\ ~r.malformed /\ refused[t] # {}
            /\ underway' = [p \in There |->
                    IF p \in ToSet(r.players) THEN Append(underway[p], Call("volume", p, VolumeOf(r)))
                    ELSE underway[p]]
      /\ volume' = volume
      /\ marks' = IF r.malformed THEN Mark(DOMAIN states[t], "failed") ELSE marks
      /\ playback' = playback /\ home' = home /\ request' = request
      /\ states' = states /\ todo' = todo /\ refused' = refused
  BY DEF Announce
<1>4. \A u \in Tasks : u # t => /\ \A p : Busy(u, p)' <=> Busy(u, p)
                                /\ \A k : Ahead(u, k)' <=> Ahead(u, k)
  <2>1. \A u \in Tasks : u # t => stage'[u] = stage[u]
    BY <1>1, <1>3 DEF TasksTyped
  <2>. QED  BY <1>3, <2>1, OthersBusyAsBefore
<1>5. \A p : Busy(t, p) <=> p \in DOMAIN states[t]
  BY <1>3 DEF Busy, Over
<1>6. DOMAIN states[t] = Aside(r) /\ Aside(r) \subseteq There
  BY <1>2, AsideIsThere DEF OnPlan
<1>7. ASSUME NEW p \in DOMAIN states[t], ~ r.malformed, r.message
      PROVE  Busy(t, p)' /\ \A k : Ahead(t, k)'
  <2>1. NeedsPost(t)
    BY <1>6, <1>7 DEF NeedsPost, Aside
  <2>2. stage'[t] = "speaking"
    BY <1>1, <1>3, <1>7, <2>1 DEF TasksTyped
  <2>. QED  BY <1>3, <1>7, <2>2 DEF Busy, Over, Ahead
<1>8. /\ marks' \in [There -> SUBSET Reasons]
      /\ \A p \in There : marks[p] \subseteq marks'[p]
      /\ r.malformed => \A p \in DOMAIN states[t] : "failed" \in marks'[p]
  <2>1. "failed" \in Reasons
    BY DEF Reasons
  <2>2. /\ Mark(DOMAIN states[t], "failed") \in [There -> SUBSET Reasons]
        /\ \A p \in There : marks[p] \subseteq Mark(DOMAIN states[t], "failed")[p]
        /\ \A p \in DOMAIN states[t] \cap There : "failed" \in Mark(DOMAIN states[t], "failed")[p]
    BY <1>1, <2>1, MarkTyped
  <2>3. marks \in [There -> SUBSET Reasons]
    BY <1>1 DEF PlayersTyped
  <2>. QED  BY <1>3, <1>6, <2>2, <2>3
<1>9. /\ underway' \in [There -> Seq(Accepted)]
      /\ \A p \in There : \A now : PlaysOn(underway[p], now) => PlaysOn(underway'[p], now)
      /\ \A p \in There : underway'[p] # underway[p] =>
            p \in DOMAIN states[t] /\ VolumeOf(r) # NoLevel /\ ~ r.malformed
  <2>1. CASE underway' = underway
    BY <1>1, <2>1 DEF PlayersTyped
  <2>2. CASE underway' # underway
    <3>1. VolumeOf(r) \in Levels /\ VolumeOf(r) # NoLevel
      BY <1>2, <1>3, <2>2, AlexaAnnounceAssumption DEF OnPlan
    <3>2. Aside(r) = ToSet(r.players) \cap There
      BY <3>1 DEF Aside, NeedsRestore
    <3>3. ASSUME NEW p \in There
          PROVE  /\ Call("volume", p, VolumeOf(r)) \in Accepted /\ underway[p] \in Seq(Accepted)
                 /\ Call("volume", p, VolumeOf(r)).op = "volume"
      BY <1>1, <3>1 DEF Call, Calls, Accepted, PlayersTyped, There
    <3>4. ASSUME NEW p \in There, NEW now
          PROVE  LET a == Append(underway[p], Call("volume", p, VolumeOf(r)))
                 IN  a \in Seq(Accepted) /\ (PlaysOn(underway[p], now) => PlaysOn(a, now))
      BY <3>3, LastDecides
    <3>5. underway' = [p \in There |->
                    IF p \in ToSet(r.players) THEN Append(underway[p], Call("volume", p, VolumeOf(r)))
                    ELSE underway[p]]
      BY <1>3, <2>2
    <3>6. ~ r.malformed
      BY <1>3, <2>2
    <3>7. underway' \in [There -> Seq(Accepted)]
      BY <3>3, <3>4, <3>5
    <3>8. \A p \in There : \A now : PlaysOn(underway[p], now) => PlaysOn(underway'[p], now)
      BY <3>4, <3>5
    <3>. QED  BY <1>6, <3>1, <3>2, <3>5, <3>6, <3>7, <3>8
  <2>. QED  BY <2>1, <2>2
<1>10. PlayersTyped'
  BY <1>1, <1>3, <1>8, <1>9 DEF PlayersTyped
<1>11. TasksTyped'
  BY <1>1, <1>3 DEF TasksTyped
<1>12. \A u \in Tasks, p \in There : Busy(u, p)' => Busy(u, p)
  <2>1. \A p : Busy(t, p)' => Busy(t, p)
    BY <1>3, <1>5 DEF Busy
  <2>. QED  BY <1>4, <2>1
<1>13. MarksInv'
  BY <1>1, <1>3, <1>8, <1>12 DEF MarksInv, VolumeOf
<1> HIDE DEF r
<1>14. VolumeInv'
  <2>1. SUFFICES ASSUME NEW p \in There, ~ VolumeExcused(p)'
        PROVE  /\ \A u \in Tasks : Busy(u, p)' /\ VolumeOf(request[u]) # NoLevel =>
                    states[u][p].volume = home[p].volume
               /\ TurnsTo(underway'[p], volume'[p], home[p].volume) \/ \E u \in Tasks :
                    /\ Busy(u, p)' /\ VolumeOf(request[u]) # NoLevel
                    /\ Ahead(u, Call("volume", p, home[p].volume))'
    BY <1>3 DEF VolumeInv, VolumeOf
  <2>2. ~ VolumeExcused(p)
    BY <1>8, <2>1 DEF VolumeExcused
  <2>3. /\ \A u \in Tasks : Busy(u, p) /\ VolumeOf(request[u]) # NoLevel =>
                states[u][p].volume = home[p].volume
        /\ TurnsTo(underway[p], volume[p], home[p].volume) \/ \E u \in Tasks :
                /\ Busy(u, p) /\ VolumeOf(request[u]) # NoLevel
                /\ Ahead(u, Call("volume", p, home[p].volume))
    BY <1>1, <2>2 DEF VolumeInv
  <2>4. \A u \in Tasks : Busy(u, p)' /\ VolumeOf(request[u]) # NoLevel =>
                states[u][p].volume = home[p].volume
    BY <1>12, <2>3
  <2>5. CASE p \in DOMAIN states[t]
    <3>1. ~ r.malformed /\ \A u \in Tasks : u # t => ~ Busy(u, p)
      BY <1>1, <1>5, <1>8, <2>1, <2>2, <2>5 DEF VolumeExcused, MarksInv
    <3>2. CASE VolumeOf(r) # NoLevel
      <4>1. r.message
        BY <1>1, <1>5, <2>2, <2>5, <3>2 DEF MarksInv, VolumeExcused, r
      <4>2. Busy(t, p)' /\ Ahead(t, Call("volume", p, home[p].volume))'
        BY <1>3, <1>7, <2>5, <3>1, <4>1 DEF Ahead
      <4>. QED  BY <2>4, <3>2, <4>2 DEF r
    <3>3. CASE VolumeOf(r) = NoLevel
      <4>1. underway'[p] = underway[p] /\ volume' = volume
        BY <1>3, <1>9, <3>3
      <4>2. \A u \in Tasks : ~ (Busy(u, p) /\ VolumeOf(request[u]) # NoLevel)
        BY <3>1, <3>3 DEF r
      <4>. QED  BY <2>3, <2>4, <4>1, <4>2
    <3>. QED  BY <3>2, <3>3
  <2>6. CASE p \notin DOMAIN states[t]
    <3>1. underway'[p] = underway[p] /\ volume' = volume
      BY <1>3, <1>9, <2>6
    <3>2. ASSUME NEW u \in Tasks, Busy(u, p), Ahead(u, Call("volume", p, home[p].volume))
          PROVE  Busy(u, p)' /\ Ahead(u, Call("volume", p, home[p].volume))'
      <4>1. u # t
        BY <1>5, <2>6, <3>2
      <4>. QED  BY <1>3, <1>4, <3>2, <4>1 DEF Ahead
    <3>. QED  BY <2>3, <2>4, <3>1, <3>2
  <2>. QED  BY <2>5, <2>6
<1>15. MusicInv'
  <2>1. SUFFICES ASSUME NEW p \in There, ~ MusicExcused(p)'
        PROVE  /\ ~ home[p].playing => playback[p] = "idle"
               /\ home[p].playing => playback[p] # "idle"
               /\ home[p].playing => PlaysOn(underway'[p], playback[p]) \/ \E u \in Tasks :
                    /\ Busy(u, p)' /\ request[u].pause /\ states[u][p].playing
                    /\ Ahead(u, Call("play", p, NoLevel))'
    BY <1>3 DEF MusicInv
  <2>2. ~ MusicExcused(p)
    BY <1>8, <2>1 DEF MusicExcused
  <2>3. /\ ~ home[p].playing => playback[p] = "idle"
        /\ home[p].playing => playback[p] # "idle"
        /\ home[p].playing => PlaysOn(underway[p], playback[p]) \/ \E u \in Tasks :
                /\ Busy(u, p) /\ request[u].pause /\ states[u][p].playing
                /\ Ahead(u, Call("play", p, NoLevel))
    BY <1>1, <2>2 DEF MusicInv
  <2>4. ASSUME NEW u \in Tasks, Busy(u, p), request[u].pause, Ahead(u, Call("play", p, NoLevel))
        PROVE  Busy(u, p)' /\ Ahead(u, Call("play", p, NoLevel))'
    <3>1. CASE u # t
      BY <1>4, <2>4, <3>1
    <3>2. CASE u = t
      <4>1. p \in DOMAIN states[t] /\ ~ r.malformed
        BY <1>5, <1>8, <2>1, <2>4, <3>2 DEF MusicExcused
      <4>2. r.message
        BY <1>1, <2>2, <2>4, <3>2 DEF MarksInv, MusicExcused, r
      <4>. QED  BY <1>7, <3>2, <4>1, <4>2
    <3>. QED  BY <3>1, <3>2
  <2>. QED  BY <1>9, <2>3, <2>4
<1>. QED  BY <1>2, <1>10, <1>11, <1>13, <1>14, <1>15 DEF IInv

\* The end of the speech.
LEMMA EndSpeechKeeps ==
    ASSUME IInv, NEW t \in Tasks, EndSpeech(t)
    PROVE  IInv'
<1>1. PlayersTyped /\ TasksTyped /\ PlansInv /\ MarksInv /\ VolumeInv /\ MusicInv
  BY DEF IInv
<1>2. /\ PlansInv' /\ OnPlan(t)
      /\ \A p \in DOMAIN states[t] :
            /\ stage'[t] = "after"
            /\ request[t].restore /\ VolumeOf(request[t]) # NoLevel =>
                \E i \in DOMAIN todo'[t] :
                    todo'[t][i] = Call("volume", p, states[t][p].volume)
            /\ request[t].pause /\ states[t][p].playing =>
                \E i \in DOMAIN todo'[t] : todo'[t][i] = Call("play", p, NoLevel)
  BY SpeechOnPlan
<1>3. /\ stage[t] = "speaking"
      /\ stage' = [stage EXCEPT ![t] = IF NeedsPost(t) THEN "after" ELSE "done"]
      /\ \E post : todo' = IF NeedsPost(t) THEN [todo EXCEPT ![t] = post] ELSE todo
      /\ volume' = volume /\ playback' = playback /\ home' = home /\ request' = request
      /\ states' = states /\ refused' = refused /\ marks' = marks /\ underway' = underway
  BY DEF EndSpeech
<1>4. \A u \in Tasks : u # t => /\ \A p : Busy(u, p)' <=> Busy(u, p)
                                /\ \A k : Ahead(u, k)' <=> Ahead(u, k)
  <2>1. \A u \in Tasks : u # t => stage'[u] = stage[u] /\ todo'[u] = todo[u]
    BY <1>1, <1>3 DEF TasksTyped
  <2>. QED  BY <1>3, <2>1, OthersBusyAsBefore
<1>5. \A p : Busy(t, p) <=> p \in DOMAIN states[t]
  BY <1>3 DEF Busy, Over
<1>6. \A u \in Tasks, p \in There : Busy(u, p)' => Busy(u, p)
  <2>1. \A p : Busy(t, p)' => Busy(t, p)
    BY <1>3, <1>5 DEF Busy
  <2>. QED  BY <1>4, <2>1
<1>7. ASSUME NEW p \in DOMAIN states[t], NEW i \in DOMAIN todo'[t]
      PROVE  Busy(t, p)'
  <2>1. stage'[t] = "after" /\ todo'[t] # <<>>
    BY <1>2, <1>7
  <2>. QED  BY <1>3, <1>7, <2>1 DEF Busy, Over
<1>8. PlayersTyped'
  BY <1>1, <1>3 DEF PlayersTyped
<1>9. TasksTyped'
  BY <1>1, <1>3 DEF TasksTyped
<1>10. MarksInv'
  BY <1>1, <1>3, <1>6 DEF MarksInv, VolumeOf
<1>11. VolumeInv'
  <2>1. SUFFICES ASSUME NEW p \in There, ~ VolumeExcused(p)
        PROVE  /\ \A u \in Tasks : Busy(u, p)' /\ VolumeOf(request[u]) # NoLevel =>
                    states[u][p].volume = home[p].volume
               /\ TurnsTo(underway[p], volume[p], home[p].volume) \/ \E u \in Tasks :
                    /\ Busy(u, p)' /\ VolumeOf(request[u]) # NoLevel
                    /\ Ahead(u, Call("volume", p, home[p].volume))'
    BY <1>3 DEF VolumeInv, VolumeOf, VolumeExcused
  <2>2. /\ \A u \in Tasks : Busy(u, p) /\ VolumeOf(request[u]) # NoLevel =>
                states[u][p].volume = home[p].volume
        /\ TurnsTo(underway[p], volume[p], home[p].volume) \/ \E u \in Tasks :
                /\ Busy(u, p) /\ VolumeOf(request[u]) # NoLevel
                /\ Ahead(u, Call("volume", p, home[p].volume))
    BY <1>1, <2>1 DEF VolumeInv
  <2>3. ASSUME NEW u \in Tasks, Busy(u, p), VolumeOf(request[u]) # NoLevel,
               Ahead(u, Call("volume", p, home[p].volume))
        PROVE  Busy(u, p)' /\ Ahead(u, Call("volume", p, home[p].volume))'
    <3>1. CASE u # t
      BY <1>3, <1>4, <2>3, <3>1 DEF Ahead
    <3>2. CASE u = t
      <4>1. p \in DOMAIN states[t] /\ states[t][p].volume = home[p].volume
        BY <1>5, <2>2, <2>3, <3>2
      <4>2. request[t].restore
        BY <1>1, <2>1, <2>3, <3>2 DEF MarksInv, VolumeExcused
      <4>3. \E i \in DOMAIN todo'[t] : todo'[t][i] = Call("volume", p, home[p].volume)
        BY <1>2, <2>3, <3>2, <4>1, <4>2
      <4>. QED  BY <1>3, <1>7, <3>2, <4>1, <4>3 DEF Ahead
    <3>. QED  BY <3>1, <3>2
  <2>. QED  BY <1>6, <2>2, <2>3
<1>12. MusicInv'
  <2>1. SUFFICES ASSUME NEW p \in There, ~ MusicExcused(p)
        PROVE  /\ ~ home[p].playing => playback[p] = "idle"
               /\ home[p].playing => playback[p] # "idle"
               /\ home[p].playing => PlaysOn(underway[p], playback[p]) \/ \E u \in Tasks :
                    /\ Busy(u, p)' /\ request[u].pause /\ states[u][p].playing
                    /\ Ahead(u, Call("play", p, NoLevel))'
    BY <1>3 DEF MusicInv, MusicExcused
  <2>2. /\ ~ home[p].playing => playback[p] = "idle"
        /\ home[p].playing => playback[p] # "idle"
        /\ home[p].playing => PlaysOn(underway[p], playback[p]) \/ \E u \in Tasks :
                /\ Busy(u, p) /\ request[u].pause /\ states[u][p].playing
                /\ Ahead(u, Call("play", p, NoLevel))
    BY <1>1, <2>1 DEF MusicInv
  <2>3. ASSUME NEW u \in Tasks, Busy(u, p), request[u].pause, states[u][p].playing,
               Ahead(u, Call("play", p, NoLevel))
        PROVE  Busy(u, p)' /\ Ahead(u, Call("play", p, NoLevel))'
    <3>1. CASE u # t
      BY <1>4, <2>3, <3>1
    <3>2. CASE u = t
      <4>1. p \in DOMAIN states[t]
        BY <1>5, <2>3, <3>2
      <4>2. \E i \in DOMAIN todo'[t] : todo'[t][i] = Call("play", p, NoLevel)
        BY <1>2, <2>3, <3>2, <4>1
      <4>. QED  BY <1>7, <3>2, <4>1, <4>2 DEF Ahead
    <3>. QED  BY <3>1, <3>2
  <2>. QED  BY <2>2, <2>3
<1>. QED  BY <1>2, <1>8, <1>9, <1>10, <1>11, <1>12 DEF IInv

\* What users do.
LEMMA UserActsKeeps ==
    ASSUME IInv, NEW q \in There, NEW v \in Levels, NEW now \in {"playing", "idle"},
           UserActs(q, v, now)
    PROVE  IInv'
<1>1. PlayersTyped /\ TasksTyped /\ PlansInv /\ MarksInv /\ VolumeInv /\ MusicInv
  BY DEF IInv
<1>2. /\ volume' = [volume EXCEPT ![q] = v]
      /\ playback' = [playback EXCEPT ![q] = now]
      /\ home' = [home EXCEPT ![q] = [volume |-> v, playing |-> now = "playing"]]
      /\ marks' = [marks EXCEPT ![q] = IF Quiet(q) THEN {} ELSE @ \cup {"meanwhile"}]
      /\ request' = request /\ stage' = stage /\ states' = states /\ todo' = todo
      /\ refused' = refused /\ underway' = underway
  BY DEF UserActs
<1>3. \A u \in Tasks : /\ \A p : Busy(u, p)' <=> Busy(u, p)
                       /\ \A k : Ahead(u, k)' <=> Ahead(u, k)
  BY <1>2, OthersBusyAsBefore
<1>4. PlayersTyped'
  <2>1. marks' \in [There -> SUBSET Reasons]
    BY <1>1, <1>2 DEF PlayersTyped, Reasons
  <2>2. [volume |-> v, playing |-> now = "playing"] \in [volume : Levels, playing : BOOLEAN]
    OBVIOUS
  <2>3. home' \in [There -> [volume : Levels, playing : BOOLEAN]]
    BY <1>1, <1>2, <2>2 DEF PlayersTyped
  <2>4. volume' \in [There -> Levels]
    BY <1>1, <1>2 DEF PlayersTyped
  <2>5. playback' \in [There -> {"playing", "paused", "idle"}]
    BY <1>1, <1>2 DEF PlayersTyped
  <2>6. underway' \in [There -> Seq(Accepted)]
    BY <1>1, <1>2 DEF PlayersTyped
  <2>. QED  BY <2>1, <2>3, <2>4, <2>5, <2>6 DEF PlayersTyped
<1>5. TasksTyped'
  BY <1>1, <1>2 DEF TasksTyped
<1>6. PlansInv'
  BY <1>1, <1>2 DEF PlansInv, OnPlan, Unbegun
<1>7. /\ \A p \in There : p # q => /\ volume'[p] = volume[p] /\ playback'[p] = playback[p]
                                   /\ home'[p] = home[p] /\ marks'[p] = marks[p]
      /\ volume'[q] = home'[q].volume
      /\ playback'[q] = now /\ (home'[q].playing <=> now = "playing")
      /\ \/ marks'[q] = {} /\ underway[q] = <<>> /\ \A u \in Tasks : ~ Busy(u, q)
         \/ "meanwhile" \in marks'[q] /\ marks[q] \subseteq marks'[q]
  BY <1>1, <1>2 DEF PlayersTyped, Quiet
<1>8. MarksInv'
  <2>1. ASSUME NEW t \in Tasks, NEW p \in There, Busy(t, p)
        PROVE  /\ \A u \in Tasks \ {t} : Busy(u, p) => "overlapped" \in marks'[p]
               /\ VolumeOf(request[t]) # NoLevel =>
                    /\ p \in Untold => "untold" \in marks'[p]
                    /\ ~ (request[t].restore /\ request[t].message) => "unrestored" \in marks'[p]
               /\ request[t].pause /\ ~ request[t].message => "unsaid" \in marks'[p]
    <3>1. marks[p] \subseteq marks'[p]
      BY <1>7, <2>1
    <3>. QED  BY <1>1, <2>1, <3>1 DEF MarksInv
  <2>. QED  BY <1>2, <1>3, <2>1 DEF MarksInv, VolumeOf
<1>9. VolumeInv'
  <2>1. SUFFICES ASSUME NEW p \in There, ~ VolumeExcused(p)'
        PROVE  /\ \A u \in Tasks : Busy(u, p) /\ VolumeOf(request[u]) # NoLevel =>
                    states[u][p].volume = home'[p].volume
               /\ TurnsTo(underway[p], volume'[p], home'[p].volume) \/ \E u \in Tasks :
                    /\ Busy(u, p) /\ VolumeOf(request[u]) # NoLevel
                    /\ Ahead(u, Call("volume", p, home'[p].volume))
    BY <1>2, <1>3 DEF VolumeInv, VolumeOf, Ahead, Call
  <2>2. CASE p = q
    BY <1>7, <2>1, <2>2, NothingUnderway DEF VolumeExcused
  <2>3. CASE p # q
    BY <1>1, <1>7, <2>1, <2>3 DEF VolumeExcused, VolumeInv
  <2>. QED  BY <2>2, <2>3
<1>10. MusicInv'
  <2>1. SUFFICES ASSUME NEW p \in There, ~ MusicExcused(p)'
        PROVE  /\ ~ home'[p].playing => playback'[p] = "idle"
               /\ home'[p].playing => playback'[p] # "idle"
               /\ home'[p].playing => PlaysOn(underway[p], playback'[p]) \/ \E u \in Tasks :
                    /\ Busy(u, p) /\ request[u].pause /\ states[u][p].playing
                    /\ Ahead(u, Call("play", p, NoLevel))
    BY <1>2, <1>3 DEF MusicInv
  <2>2. CASE p = q
    <3>1. underway[p] = <<>> /\ playback'[p] = now /\ (home'[p].playing <=> now = "playing")
      BY <1>7, <2>1, <2>2 DEF MusicExcused
    <3>. QED  BY <3>1, NothingUnderway
  <2>3. CASE p # q
    BY <1>1, <1>7, <2>1, <2>3 DEF MusicExcused, MusicInv
  <2>. QED  BY <2>2, <2>3
<1>. QED  BY <1>4, <1>5, <1>6, <1>8, <1>9, <1>10 DEF IInv

\* A player does what it was called to, or does not.
LEMMA ObeyKeeps ==
    ASSUME IInv, NEW q \in There, NEW i, Obey(q, i) \/ Lose(q, i)
    PROVE  IInv'
<1> DEFINE s == underway[q]
           c == s[i]
<1>1. PlayersTyped /\ TasksTyped /\ PlansInv /\ MarksInv /\ VolumeInv /\ MusicInv
  BY DEF IInv
<1>2. /\ i \in DOMAIN s /\ underway' = [underway EXCEPT ![q] = RemoveAt(@, i)]
      /\ home' = home /\ request' = request /\ stage' = stage /\ states' = states /\ todo' = todo
      /\ refused' = refused
      /\ \/ /\ volume' = IF c.op = "volume" THEN [volume EXCEPT ![q] = c.level] ELSE volume
            /\ playback' = [playback EXCEPT ![q] = Played(c.op, @)]
            /\ marks' = [marks EXCEPT ![q] = @ \cup (IF c.op = "stop" THEN {"stopped"} ELSE {})
                                              \cup (IF Overtakes(q, i) THEN {"overtaken"} ELSE {})]
         \/ volume' = volume /\ playback' = playback /\ marks' = Mark({q}, "failed")
  BY DEF Obey, Lose
<1>3. s \in Seq(Accepted) /\ c \in Accepted /\ RemoveAt(s, i) \in Seq(Accepted)
  <2>1. s \in Seq(Accepted)
    BY <1>1 DEF PlayersTyped
  <2>. QED  BY <1>2, <2>1, WithoutOne
<1>4. c.op \in {"pause", "stop", "play", "volume"} /\ (c.op = "volume" => c.level \in Levels)
  BY <1>3 DEF Accepted, Calls
<1>5. \A u \in Tasks : /\ \A p : Busy(u, p)' <=> Busy(u, p)
                       /\ \A k : Ahead(u, k)' <=> Ahead(u, k)
  BY <1>2, OthersBusyAsBefore
<1>6. /\ marks' \in [There -> SUBSET Reasons]
      /\ \A p \in There : marks[p] \subseteq marks'[p]
      /\ \/ /\ volume'[q] = IF c.op = "volume" THEN c.level ELSE volume[q]
            /\ playback'[q] = Played(c.op, playback[q])
            /\ c.op = "stop" => "stopped" \in marks'[q]
            /\ Overtakes(q, i) => "overtaken" \in marks'[q]
         \/ "failed" \in marks'[q]
  <2>1. "failed" \in Reasons /\ "stopped" \in Reasons /\ "overtaken" \in Reasons
    BY DEF Reasons
  <2>2. CASE marks' = Mark({q}, "failed")
    BY <1>1, <2>1, <2>2, MarkTyped
  <2>3. CASE marks' # Mark({q}, "failed")
    <3>1. /\ volume' = IF c.op = "volume" THEN [volume EXCEPT ![q] = c.level] ELSE volume
          /\ playback' = [playback EXCEPT ![q] = Played(c.op, @)]
          /\ marks' = [marks EXCEPT ![q] = @ \cup (IF c.op = "stop" THEN {"stopped"} ELSE {})
                                            \cup (IF Overtakes(q, i) THEN {"overtaken"} ELSE {})]
      BY <1>2, <2>3
    <3> HIDE DEF c, s
    <3>2. /\ marks \in [There -> SUBSET Reasons] /\ volume \in [There -> Levels]
          /\ playback \in [There -> {"playing", "paused", "idle"}]
      BY <1>1 DEF PlayersTyped
    <3>. QED  BY <2>1, <3>1, <3>2
  <2>. QED  BY <2>2, <2>3
<1>7. \A p \in There : p # q =>
        volume'[p] = volume[p] /\ playback'[p] = playback[p] /\ underway'[p] = underway[p]
  <2> HIDE DEF c, s
  <2>1. /\ volume \in [There -> Levels] /\ underway \in [There -> Seq(Accepted)]
        /\ playback \in [There -> {"playing", "paused", "idle"}]
    BY <1>1 DEF PlayersTyped
  <2>. QED  BY <1>2, <2>1
<1>8. underway'[q] = RemoveAt(s, i) /\ underway' \in [There -> Seq(Accepted)]
  BY <1>1, <1>2, <1>3 DEF PlayersTyped
<1>9. PlayersTyped'
  <2> HIDE DEF c, s
  <2>1. volume' \in [There -> Levels]
    BY <1>1, <1>2, <1>4 DEF PlayersTyped
  <2>2. playback' \in [There -> {"playing", "paused", "idle"}]
    <3>1. \A now \in {"playing", "paused", "idle"} : Played(c.op, now) \in {"playing", "paused", "idle"}
      BY DEF Played
    <3>. QED  BY <1>1, <1>2, <3>1 DEF PlayersTyped
  <2>. QED  BY <1>1, <1>2, <1>6, <1>8, <2>1, <2>2 DEF PlayersTyped
<1>10. TasksTyped'
  BY <1>1, <1>2 DEF TasksTyped
<1>11. PlansInv'
  BY <1>1, <1>2 DEF PlansInv, OnPlan, Unbegun
<1>12. MarksInv'
  BY <1>1, <1>2, <1>5, <1>6 DEF MarksInv, VolumeOf
<1>13. ~ Overtakes(q, i) => \A j \in 1 .. (i - 1) : (s[j].op = "volume") # (s[i].op = "volume")
  BY DEF Overtakes
<1> HIDE DEF c
<1>14. VolumeInv'
  <2>1. SUFFICES ASSUME NEW p \in There, ~ VolumeExcused(p)'
        PROVE  /\ \A u \in Tasks : Busy(u, p) /\ VolumeOf(request[u]) # NoLevel =>
                    states[u][p].volume = home[p].volume
               /\ \/ TurnsTo(underway'[p], volume'[p], home[p].volume)
                  \/ \E u \in Tasks :
                    /\ Busy(u, p) /\ VolumeOf(request[u]) # NoLevel
                    /\ Ahead(u, Call("volume", p, home[p].volume))
    BY <1>2, <1>5 DEF VolumeInv, VolumeOf
  <2>2. ~ VolumeExcused(p)
    BY <1>6, <2>1 DEF VolumeExcused
  <2>3. /\ \A u \in Tasks : Busy(u, p) /\ VolumeOf(request[u]) # NoLevel =>
                states[u][p].volume = home[p].volume
        /\ \/ TurnsTo(underway[p], volume[p], home[p].volume)
           \/ \E u \in Tasks :
                /\ Busy(u, p) /\ VolumeOf(request[u]) # NoLevel
                /\ Ahead(u, Call("volume", p, home[p].volume))
    BY <1>1, <2>2 DEF VolumeInv
  <2>4. TurnsTo(underway[p], volume[p], home[p].volume) =>
            TurnsTo(underway'[p], volume'[p], home[p].volume)
    <3>1. CASE p # q
      BY <1>7, <3>1
    <3>2. CASE p = q
      <4>1. volume'[q] = (IF c.op = "volume" THEN c.level ELSE volume[q]) /\ ~ Overtakes(q, i)
        BY <1>6, <2>1, <3>2 DEF VolumeExcused
      <4>2. TurnsTo(s, volume[q], home[q].volume) =>
                TurnsTo(RemoveAt(s, i), IF c.op = "volume" THEN c.level ELSE volume[q], home[q].volume)
        BY <1>2, <1>3, <1>13, <4>1, FirstDecidesNothing DEF c
      <4>. QED  BY <1>8, <3>2, <4>1, <4>2
    <3>. QED  BY <3>1, <3>2
  <2>. QED  BY <2>3, <2>4
<1>15. MusicInv'
  <2>1. SUFFICES ASSUME NEW p \in There, ~ MusicExcused(p)'
        PROVE  /\ ~ home[p].playing => playback'[p] = "idle"
               /\ home[p].playing => playback'[p] # "idle"
               /\ home[p].playing =>
                    \/ PlaysOn(underway'[p], playback'[p])
                    \/ \E u \in Tasks :
                        /\ Busy(u, p) /\ request[u].pause /\ states[u][p].playing
                        /\ Ahead(u, Call("play", p, NoLevel))
    BY <1>2, <1>5 DEF MusicInv
  <2>2. ~ MusicExcused(p)
    BY <1>6, <2>1 DEF MusicExcused
  <2>3. /\ ~ home[p].playing => playback[p] = "idle"
        /\ home[p].playing => playback[p] # "idle"
        /\ home[p].playing =>
            \/ PlaysOn(underway[p], playback[p])
            \/ \E u \in Tasks :
                /\ Busy(u, p) /\ request[u].pause /\ states[u][p].playing
                /\ Ahead(u, Call("play", p, NoLevel))
    BY <1>1, <2>2 DEF MusicInv
  <2>4. CASE p # q
    BY <1>7, <2>3, <2>4
  <2>5. CASE p = q
    <3>1. /\ playback'[q] = Played(c.op, playback[q]) /\ ~ Overtakes(q, i)
          /\ c.op # "stop" /\ c.op \in {"pause", "play", "volume"}
      BY <1>4, <1>6, <2>1, <2>5 DEF MusicExcused
    <3>2. playback[q] \in {"playing", "paused", "idle"}
      BY <1>1 DEF PlayersTyped
    <3>3. /\ playback[q] = "idle" => playback'[q] = "idle"
          /\ playback[q] # "idle" => playback'[q] # "idle"
      BY <3>1, <3>2 DEF Played
    <3>4. playback[q] # "idle" /\ PlaysOn(s, playback[q]) =>
            PlaysOn(RemoveAt(s, i), Played(c.op, playback[q]))
      BY <1>2, <1>3, <1>13, <3>1, <3>2, FirstDecidesNothing DEF c
    <3>. QED  BY <1>8, <2>3, <2>5, <3>1, <3>3, <3>4
  <2>. QED  BY <2>4, <2>5
<1>. QED  BY <1>9, <1>10, <1>11, <1>12, <1>14, <1>15 DEF IInv

\* Nothing changes when nothing does.
LEMMA StutterKeeps ==
    ASSUME IInv, UNCHANGED vars
    PROVE  IInv'
<1>1. PlayersTyped /\ TasksTyped /\ PlansInv /\ MarksInv /\ VolumeInv /\ MusicInv
  BY DEF IInv
<1>2. /\ volume' = volume /\ playback' = playback /\ home' = home /\ request' = request
      /\ underway' = underway /\ stage' = stage /\ states' = states /\ todo' = todo /\ refused' = refused /\ marks' = marks
  BY DEF vars
<1>3. PlayersTyped'
  BY <1>1, <1>2 DEF PlayersTyped
<1>4. TasksTyped'
  BY <1>1, <1>2 DEF TasksTyped
<1>5. PlansInv'
  BY <1>1, <1>2 DEF PlansInv, OnPlan, Unbegun
<1>6. MarksInv'
  BY <1>1, <1>2 DEF MarksInv, Busy, Over
<1>7. VolumeInv'
  BY <1>1, <1>2 DEF VolumeInv, VolumeExcused, Busy, Over, Ahead
<1>8. MusicInv'
  BY <1>1, <1>2 DEF MusicInv, MusicExcused, Busy, Over, Ahead
<1>. QED  BY <1>3, <1>4, <1>5, <1>6, <1>7, <1>8 DEF IInv

-----------------------------------------------------------------------------
(* The results.                                                            *)

\* Announcements and players keep to the invariant.
THEOREM AnnouncementsOnPlan == Spec => []IInv
<1>1. ASSUME IInv, [Next]_vars PROVE IInv'
  <2>1. ASSUME NEW t \in Tasks, NEW r \in Requests, Begin(t, r) PROVE IInv'
    BY <1>1, <2>1, BeginKeeps
  <2>2. ASSUME NEW t \in Tasks, NEW result, CallPlayer(t, result) PROVE IInv'
    BY <1>1, <2>2, CallPlayerKeeps
  <2>3. ASSUME NEW t \in Tasks, Announce(t) PROVE IInv'
    BY <1>1, <2>3, AnnounceKeeps
  <2>4. ASSUME NEW t \in Tasks, EndSpeech(t) PROVE IInv'
    BY <1>1, <2>4, EndSpeechKeeps
  <2>5. ASSUME NEW p \in There \cap Attended, NEW v \in Levels, NEW now \in {"playing", "idle"},
               UserActs(p, v, now)
        PROVE  IInv'
    BY <1>1, <2>5, UserActsKeeps
  <2>6. ASSUME NEW p \in There, NEW i \in 1 .. MaxUnderway, Obey(p, i) \/ Lose(p, i) PROVE IInv'
    BY <1>1, <2>6, ObeyKeeps
  <2>7. CASE UNCHANGED vars
    BY <1>1, <2>7, StutterKeeps
  <2>. QED  BY <1>1, <2>1, <2>2, <2>3, <2>4, <2>5, <2>6, <2>7 DEF Next
<1>2. IInv /\ [Next]_vars => IInv'
  BY <1>1
<1>. QED  BY <1>2, IInvInit, PTL DEF Spec

\* The variables keep to their sets, and every volume that is set is one.
THEOREM AnnouncementsTyped == Spec => []TypeOK
<1>1. ASSUME IInv PROVE TypeOK
  <2>1. PlayersTyped /\ TasksTyped /\ PlansInv
    BY <1>1 DEF IInv
  <2>2. ASSUME NEW t \in Tasks
        PROVE  /\ DOMAIN states[t] \subseteq There
               /\ \A p \in DOMAIN states[t] : states[t][p].volume \in Levels
               /\ \A i \in DOMAIN todo[t] :
                    todo[t][i] \in Calls /\ (todo[t][i].op = "volume" => todo[t][i].level \in Levels)
    <3>1. CASE stage[t] = "idle"
      BY <2>1, <3>1 DEF PlansInv, Unbegun
    <3>2. CASE stage[t] # "idle"
      <4>1. OnPlan(t)
        BY <2>1, <3>2 DEF PlansInv
      <4>2. DOMAIN states[t] \subseteq There
        BY <4>1, AsideIsThere DEF OnPlan
      <4>3. ASSUME NEW i \in DOMAIN todo[t]
            PROVE  todo[t][i] \in Calls /\ (todo[t][i].op = "volume" => todo[t][i].level \in Levels)
        BY <4>1, <4>3 DEF OnPlan, Planned
      <4>. QED  BY <4>1, <4>2, <4>3 DEF OnPlan
    <3>. QED  BY <3>1, <3>2
  <2>3. \A p \in There : \A i \in DOMAIN underway[p] :
            underway[p][i] \in Calls /\ (underway[p][i].op = "volume" => underway[p][i].level \in Levels)
    <3>1. \A p \in There : \A i \in DOMAIN underway[p] : underway[p][i] \in Accepted
      BY <2>1 DEF PlayersTyped
    <3>. QED  BY <3>1 DEF Accepted
  <2>. QED  BY <2>1, <2>2, <2>3 DEF TypeOK, PlayersTyped, TasksTyped
<1>. QED  BY <1>1, AnnouncementsOnPlan, PTL

\* When nothing is announced on a player and no call to it is under way, its volume and music
\* are as its user wants them, or one of the reasons for which they may not be is known.
THEOREM PlayersBroughtBack == Spec => []PlayersLeftAsFound
<1>1. ASSUME IInv PROVE PlayersLeftAsFound
  <2>1. PlayersTyped /\ VolumeInv /\ MusicInv
    BY <1>1 DEF IInv
  <2>2. SUFFICES ASSUME NEW p \in There, Quiet(p)
        PROVE  /\ volume[p] # home[p].volume => VolumeExcused(p)
               /\ (playback[p] = "playing") # home[p].playing => MusicExcused(p)
    BY DEF PlayersLeftAsFound, VolumeExcused, MusicExcused
  <2>3. underway[p] = <<>> /\ \A t \in Tasks : ~ Busy(t, p)
    BY <2>2 DEF Quiet
  <2>4. volume[p] # home[p].volume => VolumeExcused(p)
    BY <2>1, <2>3, NothingUnderway DEF VolumeInv
  <2>5. playback[p] \in {"playing", "paused", "idle"} /\ home[p].playing \in BOOLEAN
    BY <2>1 DEF PlayersTyped
  <2>6. ~ MusicExcused(p) => /\ ~ home[p].playing => playback[p] = "idle"
                             /\ home[p].playing => playback[p] = "playing"
    BY <2>1, <2>3, <2>5, NothingUnderway DEF MusicInv
  <2>. QED  BY <2>4, <2>5, <2>6
<1>. QED  BY <1>1, AnnouncementsOnPlan, PTL

=============================================================================
