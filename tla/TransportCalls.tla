--------------------------- MODULE TransportCalls ---------------------------
(***************************************************************************)
(* Envelopes in the hands of their transports: the calls of services that  *)
(* ServiceCalls plans, made one after the other, what call_action and      *)
(* call_service make of each, and what the calls leave behind: counters,   *)
(* data that is shared with later calls, and the snooze of a device that   *)
(* could not be reached (src/custom_components/supernotify/transport.py,   *)
(* hass_api.py, transports/mobile_push.py, transports/chime.py).           *)
(*                                                                         *)
(* A call is an await: those of envelopes of other notifications come in   *)
(* between.  Data is a function on the keys that are present, and says of  *)
(* each where it comes from: a task, the configuration, or a platform.     *)
(* What a deliver() returns is only logged, and is left out.               *)
(***************************************************************************)
EXTENDS ServiceCalls

CONSTANTS
    Tasks,                \* the tasks that deliver an envelope each
    Envelopes,            \* the envelopes they may be given
    NoEnvelope,           \* not an envelope
    Responding,           \* services that always give a response
    Apple,                \* known mobile apps of Apple's
    OwnersOf,             \* the enabled recipients that have each mobile app
    Keys                  \* the keys of data

ASSUME TransportCallsAssumption ==
    /\ NoEnvelope \notin Envelopes
    /\ Apple \subseteq Known
    /\ Known \subseteq DOMAIN OwnersOf
    /\ \A a \in DOMAIN Entries : Entries[a].data \subseteq Keys
    /\ \A e \in Envelopes :
        /\ e.delivery \in Deliveries /\ e.keys \subseteq Keys
        /\ \A i \in DOMAIN Categories : e.to[Categories[i]] \in Seq(Names)
        /\ Range(e.to.entity_id) \subseteq DOMAIN Members
        /\ EntriesOf(e) \in Seq(DOMAIN Entries)

Platforms == {"android", "ios"}
Sources == Tasks \cup {"config"} \cup Platforms
NoData == <<>>
Update(data, more) ==
    [k \in DOMAIN data \cup DOMAIN more |-> IF k \in DOMAIN more THEN more[k] ELSE data[k]]
From(source, keys) == [k \in keys |-> source]
IsData(data) == DOMAIN data \subseteq Keys /\ Range(data) \subseteq Sources

VARIABLES
    envelope,             \* what each task delivers
    stage,                \* whether it is doing so, or has raised
    left,                 \* the calls it has still to make
    log,                  \* the calls made: envelope.calls and envelope.failed_calls
    counts,               \* the counters of the envelope
    push,                 \* the data of the pushes of the envelope
    shared,               \* the data of each entry of an alias
    errors,               \* the errors of each transport
    snoozed               \* recipients and devices snoozed for a day

vars == <<envelope, stage, left, log, counts, push, shared, errors, snoozed>>

Conf1(t) == C(envelope[t])
Transports == {Conf[d].transport : d \in Deliveries}

-----------------------------------------------------------------------------
(* What a call carries.                                                    *)

\* The data of an envelope, which is copied for it alone.
OwnData(t, e) == From(t, e.keys)

\* Mutant: an entry without data is given a dictionary to keep all the same.
KeepsDataAlways(a) == a # NoEntry

\* An entry's data is the dictionary of the configuration, if there is any in it.
KeepsData(a) == a # NoEntry /\ Entries[a].data # {}

\* The data of the entry a chime is for; a fresh one if it has none.
EntryData(a) == IF KeepsData(a) THEN shared[a] ELSE NoData

ScriptKeys == {"message", "title", "priority", "chime_tune", "chime_volume", "chime_duration"}
PlayerKeys == {"media", "enqueue", "announce"}

\* The entry's data after a call for it: a script's variables are written into it, and
\* for a player the data of the envelope.
EntryDataAfter(t, c) ==
    CASE c.via = "script"       -> Update(EntryData(c.entry), From(t, ScriptKeys \cap Keys))
      [] c.via = "media_player" -> Update(EntryData(c.entry), OwnData(t, envelope[t]))
      [] OTHER                  -> EntryData(c.entry)

\* Each device has what its platform understands, a device that is not known all of it.
PlatformsOf(app) ==
    IF app \notin Known THEN Platforms ELSE IF app \in Apple THEN {"ios"} ELSE {"android"}

PlatformData(app) ==
    [k \in {k \in Keys : (k = "ttl" /\ "android" \in PlatformsOf(app))
                         \/ (k = "push" /\ "ios" \in PlatformsOf(app))} |->
        IF k = "ttl" THEN "android" ELSE "ios"]

\* The one dictionary of the envelope's pushes is updated for each.
PushAfter(t, c) ==
    IF c.via = "push" THEN Update(push[t], PlatformData(CHOOSE a \in c.to : TRUE)) ELSE push[t]

\* What is sent: of a player's data only what the service knows, of a push nothing that
\* data_keys_select takes away.
DataOf(t, c) ==
    CASE c.via \in {"script", "rest_command"} -> EntryDataAfter(t, c)
      [] c.via = "media_player" ->
            [k \in DOMAIN EntryDataAfter(t, c) \cap PlayerKeys |-> EntryDataAfter(t, c)[k]]
      [] c.via = "push" -> IF Conf1(t).drops THEN NoData ELSE PushAfter(t, c)
      [] c.via = "once" -> OwnData(t, envelope[t])
      [] OTHER -> NoData

-----------------------------------------------------------------------------
(* call_action and call_service                                            *)

NoAction(c) == c.action = <<>>

\* A service without a domain: the handler of the error fails as well.
Malformed(c) == Len(c.action) = 1

NoTarget(t, c) == Conf1(t).required = "always" /\ ~c.targeted

\* The data of a push is gone after the first device if it was filtered out of the call.
PushDataGone(t, c) == c.via = "push" /\ Conf1(t).drops /\ log[t] # <<>>

\* Mutant: only services with a response are waited for.
WaitedForResponse(t, c) == c.action \in Responding

\* A service is waited for when it gives a response, or is debugged.
Waited(t, c) == c.action \in Responding \/ Conf1(t).debug

\* What comes of a call: a service that is not waited for may fail once it was accepted.
OutcomesOf(t, c) == {"worked", "failed"} \cup IF Waited(t, c) THEN {} ELSE {"accepted"}

Waiting(t) == log[t] # <<>> /\ Last(log[t]).outcome = "waiting"

NewCounts == [delivered |-> 0, error_count |-> 0, skipped |-> 0]

\* Mutant: the errors of an envelope's calls are forgotten with the first that works.
CountedForgetting(n, outcome) ==
    IF outcome = "failed" THEN [n EXCEPT !.delivered = 0, !.error_count = @ + 1]
    ELSE [n EXCEPT !.delivered = 1]

\* Any call that gets through delivers the envelope, for good.
Counted(n, outcome) ==
    IF outcome = "failed" THEN [n EXCEPT !.error_count = @ + 1] ELSE [n EXCEPT !.delivered = 1]

\* Mutant: every device that an owner of the one that failed has is snoozed.
CoolDownAll(c) ==
    {r \in (UNION Range(OwnersOf)) \X DOMAIN OwnersOf :
        /\ c.via = "push" /\ r[1] \in OwnersOf[r[2]]
        /\ \E a \in c.to : r[1] \in OwnersOf[a]}

\* A push that failed has the device snoozed for a day, for every recipient that has it.
CoolDown(c) ==
    {r \in (UNION Range(OwnersOf)) \X DOMAIN OwnersOf :
        c.via = "push" /\ r[2] \in c.to /\ r[1] \in OwnersOf[r[2]]}

\* call_transport counts what deliver() raises, once more for the transport.
Raise(t, recorded) ==
    /\ stage' = [stage EXCEPT ![t] = "raised"]
    /\ left' = [left EXCEPT ![t] = <<>>]
    /\ counts' = [counts EXCEPT ![t].error_count = @ + 1]
    /\ errors' = [errors EXCEPT ![C(envelope'[t]).transport] = @ + 1 + recorded]

-----------------------------------------------------------------------------
Init ==
    /\ envelope = [t \in Tasks |-> NoEnvelope]
    /\ stage = [t \in Tasks |-> "idle"]
    /\ left = [t \in Tasks |-> <<>>]
    /\ log = [t \in Tasks |-> <<>>]
    /\ counts = [t \in Tasks |-> NewCounts]
    /\ push = [t \in Tasks |-> NoData]
    /\ shared = [a \in DOMAIN Entries |-> From("config", Entries[a].data)]
    /\ errors = [x \in Transports |-> 0]
    /\ snoozed = {}

\* deliver() up to its first call.  A chat that is missing is an error of the transport
\* and not of the envelope.
Deliver(t, e) ==
    /\ stage[t] = "idle"
    /\ envelope' = [envelope EXCEPT ![t] = e]
    /\ push' = [push EXCEPT ![t] = OwnData(t, e)]
    /\ IF RaisesFirst(e) THEN Raise(t, 0)
       ELSE /\ stage' = [stage EXCEPT ![t] = "sending"]
            /\ left' = [left EXCEPT ![t] = CallsOf(e)]
            /\ errors' = IF C(e).transport = "telegram" /\ ChatFails(e)
                         THEN [errors EXCEPT !["telegram"] = @ + 1] ELSE errors
            /\ UNCHANGED counts
    /\ UNCHANGED <<log, shared, snoozed>>

\* Mutant: calls are started without waiting for those before.
NextCallAtOnce(t, c) ==
    /\ stage[t] = "sending"
    /\ left[t] # <<>> /\ c = Head(left[t])

\* The next call of a task that is not waiting for one.
NextCall(t, c) ==
    /\ stage[t] = "sending" /\ ~Waiting(t)
    /\ left[t] # <<>> /\ c = Head(left[t])

\* call_action returns before calling anything.
SkipCall(t, c) ==
    /\ NextCall(t, c)
    /\ NoAction(c) \/ (NoTarget(t, c) /\ ~PushDataGone(t, c))
    /\ left' = [left EXCEPT ![t] = Tail(@)]
    /\ counts' = [counts EXCEPT ![t].skipped = 1]
    /\ UNCHANGED <<envelope, stage, log, push, shared, errors, snoozed>>

\* call_action, or deliver() on the way there, raises.
BreakCall(t, c) ==
    /\ NextCall(t, c)
    /\ ~NoAction(c)
    /\ PushDataGone(t, c) \/ (Malformed(c) /\ ~NoTarget(t, c))
    /\ UNCHANGED envelope
    /\ Raise(t, IF PushDataGone(t, c) THEN 0 ELSE 1)
    /\ UNCHANGED <<log, push, shared, snoozed>>

\* The service is called.
StartCall(t, c) ==
    /\ NextCall(t, c)
    /\ ~NoAction(c) /\ ~Malformed(c) /\ ~NoTarget(t, c) /\ ~PushDataGone(t, c)
    /\ left' = [left EXCEPT ![t] = Tail(@)]
    /\ log' = [log EXCEPT ![t] = Append(@, [call |-> c, data |-> DataOf(t, c), outcome |-> "waiting"])]
    /\ push' = [push EXCEPT ![t] = PushAfter(t, c)]
    /\ shared' = IF KeepsData(c.entry) THEN [shared EXCEPT ![c.entry] = EntryDataAfter(t, c)] ELSE shared
    /\ UNCHANGED <<envelope, stage, counts, errors, snoozed>>

\* Mutant: a call that fails ends the delivery.
EndCallAndDelivery(t, outcome) ==
    LET c == Last(log[t]).call
    IN  /\ Waiting(t) /\ outcome \in OutcomesOf(t, c)
        /\ log' = [log EXCEPT ![t][Len(log[t])].outcome = outcome]
        /\ counts' = [counts EXCEPT ![t] = Counted(@, outcome)]
        /\ left' = IF outcome = "failed" THEN [left EXCEPT ![t] = <<>>] ELSE left
        /\ errors' = IF outcome = "failed" THEN [errors EXCEPT ![Conf1(t).transport] = @ + 1] ELSE errors
        /\ snoozed' = IF outcome = "failed" THEN snoozed \cup CoolDown(c) ELSE snoozed
        /\ UNCHANGED <<envelope, stage, push, shared>>

\* It has answered, or raised.
EndCall(t, outcome) ==
    LET c == Last(log[t]).call
    IN  /\ Waiting(t) /\ outcome \in OutcomesOf(t, c)
        /\ log' = [log EXCEPT ![t][Len(log[t])].outcome = outcome]
        /\ counts' = [counts EXCEPT ![t] = Counted(@, outcome)]
        /\ errors' = IF outcome = "failed" THEN [errors EXCEPT ![Conf1(t).transport] = @ + 1] ELSE errors
        /\ snoozed' = IF outcome = "failed" THEN snoozed \cup CoolDown(c) ELSE snoozed
        /\ UNCHANGED <<envelope, stage, left, push, shared>>

Next ==
    \E t \in Tasks :
        \/ \E e \in Envelopes : Deliver(t, e)
        \/ \E c \in Range(left[t]) : SkipCall(t, c)
        \/ \E c \in Range(left[t]) : BreakCall(t, c)
        \/ \E c \in Range(left[t]) : StartCall(t, c)
        \/ \E outcome \in {"worked", "accepted", "failed"} : EndCall(t, outcome)

Spec == Init /\ [][Next]_vars

-----------------------------------------------------------------------------
(* Correctness.                                                            *)

IsCall(c) == DOMAIN c = {"action", "to", "targeted", "via", "entry"}
Outcomes == {"waiting", "worked", "accepted", "failed"}

\* The variables keep to their sets, and only the last call of a task is waited for.
TypeOK ==
    /\ envelope \in [Tasks -> Envelopes \cup {NoEnvelope}]
    /\ stage \in [Tasks -> {"idle", "sending", "raised"}]
    /\ \A t \in Tasks :
        /\ \A i \in DOMAIN left[t] : IsCall(left[t][i])
        /\ \A i \in DOMAIN log[t] :
            /\ IsCall(log[t][i].call) /\ IsData(log[t][i].data)
            /\ log[t][i].outcome \in Outcomes
            /\ log[t][i].outcome = "waiting" => i = Len(log[t])
    /\ counts \in [Tasks -> [delivered : {0, 1}, error_count : Nat, skipped : {0, 1}]]
    /\ \A t \in Tasks : IsData(push[t])
    /\ DOMAIN shared = DOMAIN Entries /\ \A a \in DOMAIN shared : IsData(shared[a])
    /\ errors \in [Transports -> Nat]
    /\ snoozed \subseteq (UNION Range(OwnersOf)) \X DOMAIN OwnersOf

Ended(t) ==
    stage[t] = "raised" \/ (stage[t] = "sending" /\ left[t] = <<>> /\ ~Waiting(t))

Results(t) == {log[t][i].outcome : i \in DOMAIN log[t]}

\* The list that record_result puts an envelope in says what Home Assistant saw of it: one
\* that counts as delivered had a call that got through, and that worked if it was waited
\* for; an error is one none of whose calls did; and one that is suppressed was not sent.
OutcomeTellsTheTruth ==
    \A t \in Tasks : Ended(t) =>
        CASE counts[t].delivered = 1 ->
                \E i \in DOMAIN log[t] :
                    \/ log[t][i].outcome = "worked"
                    \/ /\ log[t][i].outcome = "accepted" /\ ~Conf1(t).debug
                       /\ log[t][i].call.action \notin Responding
          [] counts[t].delivered = 0 /\ counts[t].error_count > 0 -> Results(t) \subseteq {"failed"}
          [] OTHER -> log[t] = <<>>

\* What a transport takes of the targets of an envelope, in one call or in several.
Taken(e) ==
    CASE C(e).transport = "email"         -> Range(e.to.email)
      [] C(e).transport = "sms"           -> Range(e.to.phone)
      [] C(e).transport \in {"alexa_devices", "notify_entity", "media"} -> Range(e.to.entity_id)
      [] C(e).transport = "mobile_push" -> Range(e.to.mobile_app_id)
      [] C(e).transport = "tts"         -> Range(e.to.entity_id) \cup (Range(e.to.mobile_app_id) \cap Known)
      [] C(e).transport = "chime"       -> {n \in (UNION {Range(Members[x]) : x \in Range(e.to.entity_id)})
                                                     \cup Range(e.to.device_id) : Domain[n] \in ChimeDomains}
      [] C(e).transport = "generic" /\ Publishes(e) ->
            {n \in Range(e.to.entity_id) : Domain[n] = "notify"}
            \cup (IF "email" \in DOMAIN e.options THEN {} ELSE Range(e.to.email))
            \cup (IF "call" \in DOMAIN e.options THEN {} ELSE Range(e.to.phone))
      [] OTHER -> {}

\* One device that cannot be reached keeps no other from being called: when a delivery that
\* called any is over, each target was in one of its calls, but for those the delivery
\* leaves out.  (Where data_keys_select takes the data of pushes away, the second raises.)
OneFailureStopsNoOther ==
    \A t \in Tasks :
        Ended(t) /\ log[t] # <<>> /\ ~Conf1(t).drops /\ counts[t].skipped = 0 =>
            Taken(envelope[t]) \ Filtered[envelope[t].delivery]
                \subseteq UNION {log[t][i].call.to : i \in DOMAIN log[t]}

\* The devices snoozed for a day, and for whom, are those whose push failed, for each of the
\* recipients that have them, whatever other calls have come to.
SnoozedExactlyFailed ==
    snoozed = UNION {OwnersOf[a] \X {a} : a \in
        {a \in DOMAIN OwnersOf : \E t \in Tasks : \E i \in DOMAIN log[t] :
            log[t][i].outcome = "failed" /\ log[t][i].call.via = "push" /\ a \in log[t][i].call.to}}

\* Whatever a call carries that is neither its envelope's, nor configured, nor for the
\* platform of the device, was left by an earlier push of the same envelope to a device of
\* that platform, or by an earlier chime of the same entry of an alias that has data.
ForeignDataAccountedFor ==
    \A t \in Tasks : \A i \in DOMAIN log[t] : \A k \in DOMAIN log[t][i].data :
        LET source == log[t][i].data[k]
            c      == log[t][i].call
        IN  \/ source \in {t, "config"}
            \/ source \in Platforms /\ \E j \in 1..i : \E a \in log[t][j].call.to : source \in PlatformsOf(a)
            \/ /\ source \in Tasks /\ c.entry # NoEntry /\ Entries[c.entry].data # {}
               /\ \E j \in DOMAIN log[source] : log[source][j].call.entry = c.entry
=============================================================================
