---------------------------- MODULE ServiceCalls ----------------------------
(***************************************************************************)
(* The calls of Home Assistant's services that each transport makes for an *)
(* envelope: which services, in what order, for whom                       *)
(* (src/custom_components/supernotify/transports/*.py).                    *)
(*                                                                         *)
(* A transport works out its calls from the envelope, the configuration of *)
(* the delivery and Home Assistant's registries; an empty sequence is a    *)
(* deliver() that returns False at once.  What the calls say is left out,  *)
(* but for what decides on them; the data that calls have from each other  *)
(* is TransportCalls.tla's.                                                *)
(***************************************************************************)
EXTENDS Keeping, Naturals, Sequences, SequencesExt

CONSTANTS
    Names,                \* entities, devices, mobile apps, addresses and numbers
    DeviceIds,            \* names that are devices of the registry
    Domain,               \* of each entity, and of the integration of each device
    Members,              \* the entities each entity stands for: itself, if not a group
    Numeric,              \* names that are the number of a chat
    Known,                \* mobile apps that are in the device registry
    Deliveries, Conf,     \* deliveries, and what is configured of each
    Filtered,             \* names each delivery leaves out for their model or maker
    Entries,              \* the entries of the chime aliases
    NoEntry               \* not one of them

ASSUME ServiceCallsAssumption ==
    /\ DOMAIN Conf = Deliveries
    /\ \A d \in Deliveries : Conf[d].required \in {"always", "never", "optional"}
    /\ DeviceIds \cup Numeric \cup Known \subseteq Names
    /\ \A n \in DOMAIN Members : Members[n] \in Seq(Names)
    /\ \A a \in DOMAIN Entries : Entries[a].at \in Seq(Names)

Categories == <<"entity_id", "device_id", "email", "phone", "mobile_app_id">>

C(e) == Conf[e.delivery]

OfDomain(names, domain) == Keep(names, {n \in Range(names) : Domain[n] = domain})

\* A call: its service; whom it is for; whether call_action will find a target in it;
\* the part of a transport that makes it, and the alias it is made for.
Ask(action, to, targeted) ==
    [action |-> action, to |-> to, targeted |-> targeted, via |-> "once", entry |-> NoEntry]

\* With names as the target in the data of the call, where an empty list is no target,
\* or as the target of the service, where it is one.
Addressed(action, names) == Ask(action, Range(names), names # <<>>)
Targeted(action, names) == Ask(action, Range(names), TRUE)

-----------------------------------------------------------------------------
(* Transports that make one call.                                          *)

\* Whatever is missing or out of range, the call is made, and for nobody in particular.
PersistentCalls(e) == <<Ask(C(e).action, {}, FALSE)>>

GotifyCalls(e) == <<Ask(C(e).action, {}, FALSE)>>

PushoverCalls(e) == <<Ask(C(e).action, {}, FALSE)>>

SmsCalls(e) == IF e.message THEN <<Addressed(C(e).action, e.to.phone)>> ELSE <<>>

MqttCalls(e) ==
    IF "topic" \in DOMAIN e.options THEN <<Ask(C(e).action, {}, FALSE)>> ELSE <<>>

\* Without addresses the service has recipients of its own.
EmailCalls(e) == <<Addressed(C(e).action, e.to.email)>>

AlexaDevicesCalls(e) ==
    IF e.to.entity_id = <<>> THEN <<>> ELSE <<Targeted(C(e).action, e.to.entity_id)>>

NotifyEntityCalls(e) ==
    IF e.to.entity_id = <<>> THEN <<>>
    ELSE <<Targeted(<<"notify", "send_message">>, e.to.entity_id)>>

MediaPlayerCalls(e) ==
    IF e.to.entity_id = <<>> \/ "snapshot_url" \notin DOMAIN e.options THEN <<>>
    ELSE <<Targeted(C(e).action, e.to.entity_id)>>

\* The device is one of the data, not of the targets.
LaMetricCalls(e) ==
    CASE "device_id" \notin DOMAIN e.options -> <<>>
      [] "device_id" \in DOMAIN e.options /\ "chart" \notin DOMAIN e.options ->
            <<Ask(<<"lametric", "message">>, {e.options.device_id}, FALSE)>>
      [] OTHER -> IF e.options.chart = "list"
                  THEN <<Ask(<<"lametric", "chart">>, {e.options.device_id}, FALSE)>> ELSE <<>>

NtfyCalls(e) ==
    IF "device_id" \in DOMAIN e.options THEN <<Targeted(C(e).action, <<e.options.device_id>>)>>
    ELSE <<>>

\* The chat is one of the data, or the first phone, or else the first address, that the
\* delivery is configured with: the targets of the envelope are not looked at.
Chats(e) ==
    IF "chat_id" \in DOMAIN e.options THEN <<e.options.chat_id>>
    ELSE C(e).target.phone \o FlattenSeq([i \in DOMAIN Categories |-> C(e).target[Categories[i]]])

ChatFails(e) == Chats(e) = <<>> \/ Head(Chats(e)) \notin Numeric

TelegramCalls(e) ==
    LET service == CASE "attach_image" \notin DOMAIN e.options \/ e.camera # "image" -> "send_message"
                     [] "as_document" \in DOMAIN e.options -> "send_document"
                     [] OTHER -> "send_photo"
    IN  IF ChatFails(e) THEN <<>>
        ELSE <<Targeted(<<"telegram_bot", service>>, <<Head(Chats(e))>>)>>

-----------------------------------------------------------------------------
(* Generic calls, in the style of their domain.                            *)

\* Mail and calls have a call each, but a single number shares that of a single address;
\* entities share the only call there is, or have one more.
GenericNtfyCalls(e) ==
    LET mails    == IF "email" \in DOMAIN e.options THEN <<>> ELSE [i \in DOMAIN e.to.email |-> {e.to.email[i]}]
        phones   == IF "call" \in DOMAIN e.options THEN <<>> ELSE [i \in DOMAIN e.to.phone |-> {e.to.phone[i]}]
        people   == IF Len(mails) = 1 /\ Len(phones) = 1 THEN <<mails[1] \cup phones[1]>>
                    ELSE mails \o phones
        entities == Range(OfDomain(e.to.entity_id, "notify"))
        results  == CASE people # <<>> /\ entities = {} -> people
                      [] Len(people) = 1 /\ entities # {} -> <<people[1] \cup entities>>
                      [] OTHER -> Append(people, entities)
        \* only what carries entities is given as a target of the service
        last     == people = <<>> \/ entities # {}
    IN  [i \in DOMAIN results |-> Ask(C(e).action, results[i], last /\ i = Len(results))]

\* script.turn_on and turn_off are given the scripts, any other is the script itself.
GenericScriptCalls(e) ==
    IF C(e).action \in {<<"script", "turn_on">>, <<"script", "turn_off">>}
    THEN <<Targeted(C(e).action, OfDomain(e.to.entity_id, "script"))>>
    ELSE <<Ask(C(e).action, {}, FALSE)>>

NotifyEventsCalls(e) == <<Ask(C(e).action, {}, FALSE)>>

\* The targets of the chosen categories, or of all, in the data of the call, unless
\* data_keys_select or the schema of the service takes them out again.
BuiltTargets(e) ==
    IF C(e).prunes THEN <<>>
    ELSE FlattenSeq([i \in DOMAIN Categories |->
        IF Categories[i] \in C(e).categories THEN e.to[Categories[i]] ELSE <<>>])

Style(e) == IF C(e).style = "none" /\ Len(C(e).action) = 2 THEN C(e).action[1] ELSE C(e).style

Publishes(e) ==
    /\ ~C(e).raw /\ C(e).action = <<"ntfy", "publish">>
    /\ Style(e) \notin {"notify", "input_text", "switch", "mqtt", "tts", "notify_events"}

GenericCalls(e) ==
    LET action == C(e).action
        style  == Style(e)
        domain == IF Len(action) = 2 THEN OfDomain(e.to.entity_id, action[1]) ELSE <<>>
        send   == style = "notify" /\ action = <<"notify", "send_message">>
    IN  CASE C(e).raw -> <<Addressed(action, BuiltTargets(e))>>
          [] Publishes(e) -> GenericNtfyCalls(e)
          [] ~C(e).raw /\ ~Publishes(e) /\ (send \/ style \in {"input_text", "switch", "siren", "light"}) ->
                <<Targeted(action, domain)>>
          [] ~C(e).raw /\ ~Publishes(e) /\ style \in {"mqtt", "rest_command"} -> <<Ask(action, {}, FALSE)>>
          [] ~C(e).raw /\ ~Publishes(e) /\ style = "notify_events" -> NotifyEventsCalls(e)
          [] ~C(e).raw /\ ~Publishes(e) /\ style = "script" -> GenericScriptCalls(e)
          [] OTHER -> <<Addressed(action, BuiltTargets(e))>>

-----------------------------------------------------------------------------
(* Transports that make a call for each of several targets.                *)

Each(names, Call(_)) == [i \in DOMAIN names |-> Call(names[i])]

DeviceCall(via, app) == [Ask(<<"notify", app>>, {app}, TRUE) EXCEPT !.via = via]

\* An app that is not in the registry is called all the same.
PushCalls(e) ==
    Each(Keep(e.to.mobile_app_id, Names \ (Known \cap Filtered[e.delivery])),
         LAMBDA a : DeviceCall("push", a))

SpeakOnPlayers(e) ==
    IF e.to.entity_id = <<>> THEN <<>>
    ELSE <<Ask(C(e).action, Range(e.to.entity_id), TRUE)>>

\* Here only apps that are in the registry are called.
SpeakOnMobiles(e) ==
    Each(Keep(e.to.mobile_app_id, Known \ Filtered[e.delivery]), LAMBDA a : DeviceCall("tts", a))

TtsCalls(e) == SpeakOnPlayers(e) \o SpeakOnMobiles(e)

-----------------------------------------------------------------------------
(* Chimes.                                                                 *)

DeviceDomains == {"alexa_devices"}
ChimeDomains == {"rest_command", "switch", "siren", "script", "media_player"} \cup DeviceDomains

EntriesOf(e) ==
    IF "chime_tune" \in DOMAIN e.options /\ e.options.chime_tune \in DOMAIN C(e).aliases
    THEN C(e).aliases[e.options.chime_tune] ELSE <<>>

\* build_aliases gives an entry the domain it is named for; one named otherwise, with
\* neither a domain nor a target, makes the whole chime fail.
Undecided(a) == ~Entries[a].targets /\ Entries[a].domain = "none"

\* What an entry is for: its own target or else those of the envelope of its domain.
EntryTargets(e, a) ==
    CASE Entries[a].targets -> Entries[a].at
      [] ~Entries[a].targets /\ Entries[a].domain \in DeviceDomains -> e.to.device_id
      [] OTHER -> OfDomain(e.to.entity_id, Entries[a].domain)

\* A dictionary in the order of its keys: of an item, and of all the items of another.
Put(chimes, c) ==
    IF \E i \in DOMAIN chimes : chimes[i].name = c.name
    THEN [i \in DOMAIN chimes |-> IF chimes[i].name = c.name THEN c ELSE chimes[i]]
    ELSE Append(chimes, c)

PutAll(chimes, more) ==
    LET put[i \in 0 .. Len(more)] == IF i = 0 THEN chimes ELSE Put(put[i - 1], more[i])
    IN  put[Len(more)]

Chime(names, a) == [i \in DOMAIN names |-> [name |-> names[i], entry |-> a]]

\* Only an entry with a target of its own takes names over from those before it.
AddEntry(e, chimes, a) ==
    LET taken == IF Entries[a].targets THEN {} ELSE {chimes[i].name : i \in DOMAIN chimes}
    IN  PutAll(chimes, Chime(Keep(EntryTargets(e, a), Names \ taken), a))

ResolveTune(e) ==
    LET entries == EntriesOf(e)
        resolved[i \in 0 .. Len(entries)] ==
            IF i = 0 THEN <<>> ELSE AddEntry(e, resolved[i - 1], entries[i])
    IN  resolved[Len(entries)]

\* Groups are expanded, and what the aliases say goes over what was there.
ExpandedTargets(e) ==
    LET entities == FlattenSeq(Each(e.to.entity_id, LAMBDA n : Members[n]))
        devices  == Keep(e.to.device_id, Names \ Filtered[e.delivery])
    IN  PutAll(PutAll(<<>>, Chime(entities \o devices, NoEntry)), ResolveTune(e))

\* A device of an alias has the alias's domain, any other that of its integration.
ChimeDomain(c) ==
    IF c.name \in DeviceIds /\ c.entry # NoEntry /\ Entries[c.entry].domain \in DeviceDomains
    THEN Entries[c.entry].domain ELSE Domain[c.name]

\* The call of the mini transport of the domain.
ChimeCall(c) ==
    LET via     == ChimeDomain(c)
        service == CASE via = "rest_command"  -> c.name
                     [] via = "alexa_devices" -> "send_sound"
                     [] via = "media_player"  -> "play_media"
                     [] OTHER                 -> "turn_on"
    IN  [action |-> <<via, service>>, to |-> {c.name}, via |-> via, entry |-> c.entry,
         targeted |-> via \notin {"rest_command", "alexa_devices"}]

\* Targets that no mini transport is for are left out.
ChimeCalls(e) ==
    LET chimes == ExpandedTargets(e)
    IN  Each(Keep(chimes, {c \in Range(chimes) : ChimeDomain(c) \in ChimeDomains}), ChimeCall)

-----------------------------------------------------------------------------
CallsOf(e) ==
    CASE C(e).transport = "sms"           -> SmsCalls(e)
      [] C(e).transport = "mqtt"          -> MqttCalls(e)
      [] C(e).transport = "email"         -> EmailCalls(e)
      [] C(e).transport = "alexa_devices" -> AlexaDevicesCalls(e)
      [] C(e).transport = "notify_entity" -> NotifyEntityCalls(e)
      [] C(e).transport = "media"         -> MediaPlayerCalls(e)
      [] C(e).transport = "lametric"      -> LaMetricCalls(e)
      [] C(e).transport = "ntfy"          -> NtfyCalls(e)
      [] C(e).transport = "telegram"      -> TelegramCalls(e)
      [] C(e).transport = "generic"       -> GenericCalls(e)
      [] C(e).transport = "gotify"        -> GotifyCalls(e)
      [] C(e).transport = "pushover"      -> PushoverCalls(e)
      [] C(e).transport = "mobile_push"   -> PushCalls(e)
      [] C(e).transport = "tts"           -> TtsCalls(e)
      [] C(e).transport = "chime"         -> ChimeCalls(e)
      [] OTHER                            -> PersistentCalls(e)

\* What makes deliver() raise before its first call: an entry of an alias that is for
\* nothing, or a grab that raises where that is not caught.
RaisesFirst(e) ==
    \/ C(e).transport = "chime" /\ \E i \in DOMAIN EntriesOf(e) : Undecided(EntriesOf(e)[i])
    \/ /\ e.camera = "raises"
       /\ \/ C(e).transport = "email"
          \/ C(e).transport = "mobile_push" /\ e.to.mobile_app_id # <<>>
          \/ C(e).transport \in {"ntfy", "gotify"} /\ CallsOf(e) # <<>>
             /\ "attach_image" \in DOMAIN e.options /\ "snapshot_url" \notin DOMAIN e.options
=============================================================================
