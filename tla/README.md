# Verification of Supernotify

TLA+ modules, TLC runs and TLAPS proofs for the Home Assistant integration
Supernotify (`src/custom_components/supernotify/`). The integration takes one
call of a notify action and turns it into many: it decides which *deliveries*
the notification goes out by, whom each of them is to reach, renders an
*envelope* for each group of targets, and calls the *transport* of the delivery
with it. Around that are snoozes, duplicate checks, camera snapshots, fallbacks,
an archive and entities that switch parts on and off.

Everything runs in one asyncio event loop. There are no threads to speak of,
but every `await` lets other tasks run: the deliveries of the same notification
(`asyncio.gather`), the image grab, other notifications, mobile actions, the
nightly housekeeping and state changes of entities. A step of these modules is
what happens between two awaits.

## Inventory

| Component | State it keeps | Operations | Talks to | What makes it correct |
|---|---|---|---|---|
| Notification (`notification.py`) | counters, results by delivery, selected deliveries, suppression, image path | `initialize`, `select_deliveries`, `deliver`, `call_transport`, `record_result`, `generate_targets`, `generate_envelopes`, `outcome` | everything below | the right deliveries are attempted, and again only after an error; fallbacks when they should, and all of them; counts agree with results; it waits for nothing for ever but a transport, and leaves nothing running |
| Snoozer (`snoozer.py`) | dictionary of snoozes | `handle_command_event`, `register_snooze`, `purge_snoozes`, `clear`, `is_global_snooze`, `filter_recipients` | mobile actions, mobile push, notifications, housekeeping | a snooze lasts as asked and affects what it is of, by whom it is asked; purging is invisible |
| Duplicate checker (`common.py`) | cache bounded in size and age | `check` | `call_transport` | nothing is held back without a reason, nothing repeated that should not be |
| Delivery registry (`delivery.py`) | deliveries, enabled flags, fallback and implicit lists | `initialize`, `enable`, `disable`, `select_targets`, `evaluate_conditions` | entities, notifications | a delivery that is off is not called; switching leaves no trace; entities show what is on |
| Scenarios (`scenario.py`) | enabled flags, conditions, customizations | `validate`, `evaluate`, `enabling_deliveries`, ... | `select_deliveries`, targets, envelopes | what is off takes no part unless the call or a scenario in force asks for it; use does not change them |
| Targets (`model.py`) | addresses by category | `+`, `-`, `remove`, `split_by_target_data`, `direct` | `generate_targets` | nothing is lost, doubled or brought back |
| Envelopes (`envelope.py`) | message, title, data, results | construction, `hash` | transports, duplicate checker | each envelope of a delivery carries its customizations |
| Transport base (`transport.py`, `hass_api.py`) | enabled flag, error statistics | `call_action`, `record_error`, `call_service` | Home Assistant services | an envelope says truly whether it was delivered |
| Mobile push (`transports/mobile_push.py`) | none of its own | `deliver` | the snoozer, when a device fails | a failing device is left alone, others are not |
| Other transports (`transports/`) | none, but for players put aside | `deliver` | services | every target is called, with its own data; players are left as they were found |
| Media grab (`media_grab.py`) | raw and processed files, camera position | `snap_notification_image`, `grab_image`, `select_avail_camera`, `cleanup` | cameras, file system | the camera is moved back; a picture is whole when it is used |
| Archive (`archive.py`) | files, time of last purge | `archive`, `cleanup` | file system, MQTT, event bus | every notification is archived; a purge removes what is old and only that |
| Action and entities (`notify.py`) | counts of sent and failed, last notification | `async_send_message`, `on_mobile_action`, `_entity_state_change_listener`, `async_nightly_tasks` | Home Assistant | a call never raises; counts are right |
| People (`people.py`) | people, their addresses and devices, enabled flags | look-up, occupancy | targets, selection | people are resolved to their own addresses |
| Schema, constants, context | configuration | validation, wiring | all | no behaviour of its own |

Hard to test are the interleavings of gathered deliveries with each other and
with switches, snoozes and purges; the timeout of the image grab; what is decided
early and used late (snoozes, lists of fallbacks); errors in one step of several;
caches at their limits; and long sequences of legal snooze commands.
`PROJECT.json` lists each of these hazards at its line, with the properties that
cover it.

## Modules

| Module | Models | State |
|---|---|---|
| `DeliveryContract` | what a notification promises its caller: selected deliveries first, fallbacks only if none of those reached anyone, nothing after the end | three variables |
| `Notification` | `deliver`, `_schedule_deliveries`, `call_transport`, `record_result`, `outcome` | `phase`: where `deliver` stands; `task`: where each `call_transport` stands; `left`: its unsent envelopes; `image`: the grab task; `pending`, `current`: the fallback loop; `ledger`: counters and results; `enabled`, `transportsOn`: the switches |
| `DeliverySelection` | startup of the registries, `initialize`, `select_deliveries`, `apply_enabled_scenarios`, scenarios, occupancy, the entities and their listener, the enquiries | `registry`, `lists`: what startup found; `on`: every enabled flag; `shown`, `pending`: its entity, and changes not yet listened to; `whereabouts`; `media`: of the scenarios; `log` |
| `Targets` | the class `Target`: categories, data, adding, subtracting, splitting by data | none, operators |
| `Envelopes` | `generate_targets`, `generate_envelopes`, `Envelope` and its hash, people and their targets | `call`; `snoozed`, `whereabouts`: what changes meanwhile; `todo`; `overrides`: which still hold a message; `already`: `_already_selected`; `sent`, `raised` |
| `Snoozer` | all of `snoozer.py`, and those who call it | `snoozes`: the values of the dictionary; `now`: the clock |
| `SnoozedNotification` | extends `Snoozer` with `initialize`'s check, `generate_targets`, and sends that may snooze a device | `call`, `suppressed`, `todo`, `outbox` |
| `DupeChecker` | `DupeChecker.check` and the `TTLCache` under it | `cache`, `clock`, and `checked`, a record of every check |
| `ServiceCalls` | which services each transport calls for an envelope | none, operators |
| `TransportCalls` | `call_action`, `call_service`, the loops of the transports over their calls, and the snooze after a failed push | `envelope`, `stage`, `left`: what each task delivers and has to call; `log`: `calls` and `failed_calls`; `counts`: of the envelope; `push`, `shared`: dictionaries that several calls write to; `errors`, `snoozed` |
| `AlexaAnnounce` | `deliver` of `alexa_media_player.py`, by several tasks | `volume`, `playback`: the players; `underway`: the calls each has accepted and not yet obeyed; `states`, `todo`, `refused`, `stage`: each announcement; `home`, `marks`: history |
| `MediaGrab` | `snap_notification_image` and what it calls, by several notifications and deliveries that share cameras | `stage`, `source`, `held`: where each grab stands, what it uses, whether it has a picture; `position`: where the cameras point; `cached`: `_raw_image_path` of each notification; `raw`: what the raw file shows; `astray`, a record of cameras that were not turned back |
| `Keeping` | the list comprehension with a condition, by which the code makes most of its lists | none, an operator |
| `FoldLemmas` | lemmas for the proofs: induction, recursive functions over lists and sets, sums, what is kept of a list | |
| `...Proofs` | theorems and proofs | |
| `MC...` | instances for TLC | |

How actions correspond to code:

* `DeliverImmediate` ... `Return` are the stretches of `deliver` between its
  awaits. `DeliverImmediate` starts the grab and the first gather; `WaitForImage`
  is the await under the timeout of 30 seconds, `GrabTimesOut` its expiry, which
  cancels the grab; `DeliverDeferred` begins the second gather. `TurnToDefault`,
  `TurnToOnError` and `DefaultFailed` are the decisions on lines 427-438, and
  `CallFallback`, `FallbackReturns` and `FallbackRaises` one turn of a loop over
  fallbacks.
* `SkipCall`, `RaiseInCall`, `StartCall` and `EnvelopeSent` of `Notification` are
  `call_transport`: everything up to the first `transport.deliver`, and then from one
  to the next. Priorities, conditions, targets and templates are data: the model lets
  them skip a call, fail it, or give it some envelopes. What the model keeps is that a
  transport or delivery that is off *always* skips. `RaiseInCall` records nothing,
  since the handler on line 519 fails too.
* `Notify` of `DeliverySelection` is `initialize` with `select_scenarios`,
  `apply_enabled_scenarios` and `select_deliveries`, which await nothing that gives
  others a turn. `SetEntity` is a user, `RefreshEntities` the action that exposes all
  entities again, and `Listen` the reaction of `_entity_state_change_listener` to one
  change; Home Assistant tells it of a state only when it changes.
* `CallTransport` of `Envelopes` is a `call_transport` up to its envelopes, in one step
  too: both rounds of `generate_targets` with the five ways of using a default target,
  the override of a call, `split_by_target_data`, `direct` and unique targets, then
  `generate_envelopes`. The same name in `SnoozedNotification` has the two rounds over
  sets of addresses, with the snoozes of `Snoozer` in place of a set of snoozed ones.
* A mobile action is a record of its parts. That its string is split at every
  underscore is kept through `Parts` and `FirstPart`, so that names with
  underscores are cut as the code cuts them.
* `Deliver`, `SkipCall`, `BreakCall`, `StartCall` and `EndCall` of `TransportCalls` are a
  transport's `deliver`: to its first call, then the ways a `call_action` may end. A
  call that is not waited for can be `accepted`. `ServiceCalls` has an operator for each
  transport, and `CallsOf` chooses among them. What a `deliver` returns is only logged.
* `Begin`, `CallPlayer`, `Announce` and `EndSpeech` of `AlexaAnnounce` are the stretches
  of that `deliver`. `CallPlayer` is only the call: Home Assistant refuses it, or takes it
  and does not wait for it (hass_api.py:224-226). What it does to the player comes later,
  as the player obeys it (`Obey`, of several calls in any order) or does not (`Lose`): after
  the next call, after another announcement has looked at the player, after `deliver` has
  ended. `UserActs` is a user of the player.
* `MoveToPreset`, `Snap` and `Restore` are the answers of the three service calls of
  a grab, and `TimesOut` the cancellation of the prefetch by `deliver`, at any of
  them. `Finish` stands for the last lines, which set the path whatever it was
  before. `SelectAvailCamera` is the choice of a camera as a function of the states
  they are in, which each grab looks at anew; it yields one camera or none.
* `Check` writes to the cache whatever it finds, as the code does.

The modules meet in these places. `DeliverySelection` decides what `Notification` is
given as its request; `Envelopes` details what `Notification` counts as the envelopes of
a call; `TransportCalls` details the results it lets an envelope have
(`EnvelopeResults`). `SnoozedNotification` composes the snoozer with the targets of
notifications and is shown to change snoozes by the snoozer's steps only
(`SnoozesKept`). `Notification` is shown to implement `DeliveryContract`
(`KeepsContract`): the contract's `reached` is the set of deliveries with a recorded
success, its `stage` is read off `phase`.

## Runs

| Run | Asks | Bounds, and why they are enough |
|---|---|---|
| `DeliverySelection` | that selection has no memory, entities tell the truth, what they show as off takes no part unless asked for, enquiries foretell what is selected | four transports, one with a delivery of its own making, five deliveries of which one is not valid; three scenarios: for when all are away, for the night (with a condition that may raise), one that is not valid; two people; six calls, of every form and mode. One notification (`MaxNotifications`): what it leaves behind is in the flags and media, which go on changing after it. A delivery, a scenario and a person can be switched (`Used`), one person moves, and two changes of an entity may wait for the listener (`MaxPending`), the fewest that can be overtaken |
| `Notification` | what is counted, when fallbacks run, which are tried and which again, order of grab and deferred deliveries, what is left running, when `deliver` may not end; the contract | three deliveries over three transports: one immediate, one deferred, and one that is a fallback of both kinds, the immediate one being a fallback on error too when it is not selected; two envelopes a call, so that tasks interleave between envelopes; one error an envelope; a delivery and a transport that can be switched at any time |
| `Snoozer` | purging, the reach of commands | two people, a device, three deliveries of which one has a name of two parts, snoozes of four types, at most two at once, three minutes: a snooze can be made, replaced, expire and be purged in any order |
| `SnoozedNotification` | what is sent to | two people and three addresses; a default target that is always merged and one for when no one else is reached, the two that can bring a snoozed person back (every use of a default is covered by the proof); calls with and without targets, a scenario's and an override |
| `DupeChecker` | reasons for duplicates and for repeats | two messages at two priorities, which is four keys over a cache of two; time to live two; five checks; the default policy (every policy is covered by the proof) |
| `MediaGrab` | where cameras are left, when pictures are shared | two notifications that want two views of cameras which stand in for each other, one of them with two deliveries, or with a feed or an image entity for its picture; every service may fail, every wait may end: that is two prefetches, or one and two deliveries, at the same camera |
| `Envelopes` | which addresses and data each envelope has | two pushes of one transport, the second with unique targets, and mail with a selection rule and a default that is always merged; two people, one with an address that is not valid and a disabled phone, both with data of their own for a push; four calls: for everyone, for one with an override, for a person and two addresses, and with personal targets, a template that fails and an override of the mail. Deliveries in any order, three sets of snoozes |
| `TransportCalls` | what is counted, who is called and snoozed, with whose data | two tasks with any two of 25 envelopes of seventeen deliveries, at least one for every branch of `ServiceCalls` that calls; two and not three, since all that tasks share is an alias's data, the snoozes and the errors of a transport; every call may work, fail, or be accepted |
| `AlexaAnnounce` | in what state players are left | two announcements at a time on three players, one missing and one of unknown volume; two calls under way to a player (`MaxUnderway`), the fewest of which one can overtake the other; two volumes, the least that differ; seven requests, for each way of being one; one player whose users act (`Attended`), at any time and as often as they like |

Three more runs each check one statement of the documentation that the code does not
keep, and end with a counterexample:

| Run | Statement | What the code does |
|---|---|---|
| `ErrorBringsFallback` | deliveries.md:129 | a delivery that fails before it sends is not counted as failed: line 519 uses an attribute never set |
| `NoDupesWithinACall` | CHANGELOG.md:345, "same message can go out to different deliveries" | digits are stripped from the names of deliveries too, so that `push1` and `push2` are duplicates of each other within a call |
| `SuccessIsUnmarred` | archiving.md:68, "no errors, skips or suppressions" | the outcome does not look at suppressed envelopes |

### More disagreements

Others can be read off a definition and have no run of their own. With the
documentation or a test:

* on-error fallbacks also run after a default fallback succeeded (deliveries.md:129;
  `DefaultFailed`), and default fallbacks when what was selected was skipped
  (deliveries.md:128 says only if no other delivery was selected; `TurnToDefault`);
* a fallback made due to an error is reported as ERROR, not as FALLBACK_DELIVERY
  (archiving.md:71; `Outcome` looks at errors first);
* names in mobile actions are cut at underscores (snoozing.md:19; `ActionTarget`);
* a personal snooze of everything suppresses a notification for all
  (test_notify_snooze.py:120; `IsGlobalSnooze`), and a delivery, transport or priority
  snooze for everyone has no effect (snoozer.py:249, snoozing.md:19);
* two notifications may turn the same camera at once, and one has the picture of the
  other's preset (multimedia.md:59; `Snap`); after a failed prefetch each delivery
  takes a picture of its own, although multimedia.md:60 has it taken once (`Begin`),
  and one that fails takes away the path another has found (`Finish`); a camera stays
  where it was turned when the prefetch times out, although the recipe
  move_a_camera_for_snapshot.md:9 has it moved back (`TimesOut`, `astray`), and one
  without a configuration always does (`TurnsBack`);
* a message that is suppressed as a duplicate begins its time to live again (`Check`;
  compare dupe_detection.md:17);
* only the first envelope that takes an override has its message, where the recipe
  channel_specific_messages.md:17 has it for a delivery, or every one of a transport
  (`GivenMessage`, `overrides`);
* the comment at the head of `alexa_media_player.py` resumes music before it restores
  volumes; the code does it the other way round (`PostAnnounce`).

And what a reader may not expect:

* a snooze of zero minutes never ends (`Until`); a device snoozed for a day after a
  failed push (mobile_push.py:390) is sent to again as soon as its owner is the target
  (`Narrow` resolves people after snoozed devices are gone);
* a retry of what failed is a duplicate, for `Check` remembers what it was asked about;
* the media of a scenario is changed for good by a notification that applies it with
  another (`MediaUpdate`);
* a delivery that a person has set to `enabled: false` is not stopped for that person,
  only not selected for them, and the data of one person goes to all who share the
  envelope (`ByPeople`, `ResolveIndirect`);
* a person whom a scenario names, and whom the delivery's own target names too, is not
  resolved to addresses when that target adds nothing else (`SecondRound`);
* a template that fails ends the delivery, as its error is counted before there is a
  counter (envelope.py:278; `fails` in `CallTransport`);
* unique targets remember what was selected, not what was reached, and what a delivery
  generates that is then suppressed is remembered too (`already`);
* what one push adds for an Android device is sent to the Apple device after it
  (`PushAfter`), and what a chime writes into the data of an alias is sent by the next
  chime of that alias (`EntryDataAfter`);
* when `data_keys_select` takes away the data of a push, the push to the second device
  raises (`PushDataGone`); so does a chime with an alias entry that has neither
  domain nor target (`Undecided`), before its first call;
* telegram takes the chat from its own configuration and ignores the targets of the
  envelope (`Chats`); the mail and phone of ntfy are not chosen by `data_keys_select`
  (`GenericNtfyCalls`); an alias brings back a device that the model filter left out
  (`ExpandedTargets`);
* an action without a dot counts as two errors of its transport (`BreakCall`);
* announcements that overlap take each other's volume for the player's own, and so does
  one that merely follows another, when the last calls of the first are still under way;
  one without a message restores nothing (`Begin`, `MarksOf`). Services of players are
  not waited for (`CallPlayer`, `Obey`, `Lose`): a player that does not change its volume
  goes unnoticed, and the volume is given with the announcement only where Home
  Assistant refuses a call at once;
* a device that one person snoozes is snoozed for all who have it (snoozer.py:268; `Reach`).

### Bounds

`MaxEnvelopes`, `MaxErrors`, `MaxSnoozes`, `MaxTime`, `MaxClock`, `MaxChecks`, `MaxPending`,
`MaxNotifications`, `MaxUnderway`, `Attended`, `Used`, `Movers`, `Tasks`, `Calls`, `Envelopes`,
`Minutes`, `SnoozableTypes`, `SnoozedSets` and `Requests` are bounds of the models; none is
the program's. `FaultyTemplates` and `Faults` say whether templates and conditions, or
the services of cameras, may fail.

### Fairness

Only `Notification` has a liveness property. Its fairness is weak fairness of the
coroutine `deliver`, of the beginning of each `call_transport`, and of the timer: the event
loop runs every task that is ready, and a timer fires. Nothing is assumed of a transport:
`gather` (notification.py:459) has no timeout, and a deferred delivery that finds no picture,
the prefetch having been cancelled, takes one inside its `transport.deliver` with no timeout
around it (mobile_push.py:313, media_grab.py:277). Nor is anything assumed of the grab
(`GrabEnds`) or of the switches. `EndsUnlessTransportHangs` therefore says that `deliver`
ends, or that some transport holds it for good: its own timeout suffices for the grab,
fallbacks and tasks never wait for each other, and a transport that does not return is the
one thing that keeps a notification from ending, which the code does allow.

## Proofs

For every value of the constants allowed by the assumptions in the modules:

* `FoldLemmas` has what the other proofs share. The library's induction theorems take an
  operator, which no prover here can be given; induction over a *set* of numbers
  (`NatInducts`, `UptoInducts`, `SubsetsInduct`) says the same and can be cited. From
  these follow that a recursive function over a list exists (`RecursionExists`), what
  `Keep`, sums, flattening and concatenation yield, and that a set has a sequence
  (`SequenceOfSet`).
* `NotificationProofs`. `TypeCorrect` first. `ControlInvariant` is the inductive
  invariant: it ties `phase` to the state of every task (which may be ready or
  sending in which phase), to the grab, and to what fallbacks there may be, and says
  that a zero counter means empty lists (`LedgerAgrees`). The last is what the
  properties need and do not say: the code decides by counters, the properties are
  about deliveries. `FallbacksWait`, `SnapshotsWait`, `NothingRunsOn` follow.
  `ImplementsContract` maps every step to a step of `DeliveryContract` or a
  stutter; lemmas on `AddEnvelope`, `AddDupes` and `AddSkips` say which deliveries
  a step can have recorded. `RecordsInvariant` is about the records themselves: counters
  are sums over the deliveries (`Balanced`), so that one that is not zero has a delivery
  to show for it (`CountersShow`), and nothing is recorded of what was not called.
  `CountersAdd` follows. `FallbacksInvariant` rests on both: of a list, each fallback that
  can only be on has been tried or is still to be (`Covered`); the second loop begins
  either before any fallback was called or after the first is over and one of its own has
  failed (`ErrorLoop`). It needs the counters to tell which of the deliveries failed.
  `SilenceIsAnswered` and `CalledTwiceOnError` follow.
* `SuppressionProofs`, on snoozes. `SnoozerTypeCorrect`; `PurgingUnnoticed`, as every question looks
  at active snoozes only; `CommandsAreBounded`, by way of the key, which holds the
  recipient and what the snooze is of (`CommandMoves`): for any names, those with
  underscores included. `ImplementsSnoozer`
  gives the first of these for notifications too. `OnlyUnsnoozedTakenUp` follows
  both rounds of `generate_targets`: a lemma on one round (`NarrowLetsThrough`), and
  `GeneratedJustified` for the two with any usage of the default.
* `SuppressionProofs`, on duplicates. `NoUnfoundedDupe`, for any policy, size and time to
  live. The invariant (`ChecksInvariant`) adds that every entry of the cache stands for a check
  that was made (`EntriesChecked`). `CacheTypeCorrect`: a cache keeps to its size, as
  writing first makes room (`WriteMakesRoom`) and a full cache has an oldest entry.
  `RepeatsCrowdedOut` adds that a check within its time which is no longer in the cache
  has been followed by checks of as many other entries as the cache holds: what is given
  up is the oldest, so that all that are kept came after it.
* `MediaGrabProofs`. `GrabTypeCorrect` needs `Turning`, that a camera is being turned
  only for a preset and back only to one. `NoCameraForgotten`: with the types, the
  property is inductive by itself; a lemma treats the steps that touch neither a
  camera nor who uses it. `PicturesAreShared` adds that deliveries begin after the
  prefetch (`PrefetchFirst`), from what one grab's step leaves alone
  (`OneGrabMoves`). `SelectionFindsAvailable` is about the choice of a camera alone.
* `DeliverySelectionProofs`. `TypeCorrect`; `EntitiesAreTrue` needs that the last
  change an entity has pending is to what it shows (`PendingLeadsToShown`): nothing
  pending then means that the last change was listened to. `SwitchesAreObeyed` joins that
  to the selection: what is shown as off is off (`ShownOffIsOff`), and what is off is in
  none of the sets a selection is made of, unless the call or a scenario in force names it. `NothingIsRemembered` compares the selection with that of an instance of the
  module (`INSTANCE ... WITH`) whose variables are what the earlier notification saw:
  every operator the outcome is made of reads the same of both. `EnquiriesAreTrue`
  follows the two computations, of the enquiry and of the selection, side by side.
* `EnvelopesProofs`. `UniqueKeptApart`, from what a call of a delivery remembers
  (`SentRemembered`): every address sent to is among those already selected, and unique
  targets are none of these, wherever people, scenarios or overrides brought them from.
  `SentIsGood` is the invariant of what is sent: types, addresses apart, addresses chosen,
  data explained. It is established at each call of a delivery: a target is *known*
  (`Known`) if its categories are apart, the data it has for single addresses is what
  people give for this delivery, and the rest of its data is the delivery's, the call's or
  a person's for all they have; people are taken up, and targets added, subtracted and
  taken apart, with known targets as their result (`NarrowKnown`, `MergedKnown`, `TargetsSound`).
  `EveryoneIsReached` follows the addresses of each person through both rounds instead
  (`OwedIsComputed`).
* `TransportCallsProofs`. Lemmas say what the start and the end of a call do to the log.
  `SnoozedAreTheFailed` follows failures device by device. `OutcomesAreTrue` rests on
  `TallyInv`, what the counters say of the log while calls are still to be made, and on
  one call at a time being waited for. `PlansAreFollowed` is the invariant that what was
  called, was skipped and is left is what the transport planned (`CallsOf`);
  `FailuresStopNothing` needs then only what each transport plans, one lemma for each.
  `ForeignDataIsExplained` has an invariant on whose data each entry of an alias and
  each envelope's pushes hold, of which `DataIsTyped` is the part `TypesAreKept` needs.
* `AlexaAnnounceProofs`. `PlayersLeftAsFound` speaks of players on which nothing is
  announced and to which no call is under way; the invariant (`AnnouncementsOnPlan`) says
  how it comes to that. The calls an announcement still has to make are of its plan
  (`PlansInv`). A volume other than the user's is one that the calls under way to the player
  turn back to it (`TurnsTo`: the last of them that sets the volume decides), or that some
  announcement is to set back, which found it as the user wants it (`VolumeInv`); likewise
  music that is silent is music that the calls under way resume (`PlaysOn`), or that some
  announcement is to resume (`MusicInv`). Where neither is so, there is a mark that says why
  (`MarksInv`: what an announcement does for good was marked as it began, and so was one that
  found another, or a call of one, at work). Players obey in any order: that a call which
  overtakes none leaves what the player comes to as it was is `FirstDecidesNothing`, that a
  new call decides what it comes to is `LastDecides`, and one that overtakes is marked. That
  the restoring call is among those to be made follows from the lists of calls (`PrePlanned`,
  `PostPlanned`), whatever the order of players. `AnnouncementsTyped` and
  `PlayersBroughtBack` follow.

The assumptions are those of the modules, which TLC evaluates for the constants of each
run. Beyond the types of constants they say that there are finitely many people, and
that the data somebody has for addresses is a dictionary with each address once. In
`Envelopes`, two properties are stated so as to be true of every configuration. The data
of an envelope is compared value by value (`OwnDataStaysOwn`): two people may give the
same value for a key, and then no one could say whose it is. And `NobodyLeftOut` leaves
out one case, which the proof came upon and in which the code does leave someone out: a
person whom a scenario has named, and whom the delivery's own target (`merge_always`)
names too. Merging that target adds nothing then, so that there is no second round
(notification.py:745), and in the first one people were resolved (notification.py:710)
before the scenario named the person.

Every invariant and every action property of the passing runs is thus proved. Only
model-checked is the liveness of `Notification` (`EndsUnlessTransportHangs`), which the
prover does not do. The three statements that the code does not keep have their
counterexamples from TLC.

## Not modelled, and why

* Contents of messages, templates and service data, beyond what decides control or
  whom it belongs to; the debug trace and the statistics.
* Discovery and validation of configuration (`schema.py`, `const.py`, `context.py`, the
  validation in `delivery.py`): which configurations are valid is a constant
  (`Conf[d].valid`, `Validates`).
* The archive: output after a notification is over, which nothing reads. A purge of
  files, in the archive and of media, is a loop over a directory that ends at its first
  failure.
* Reprocessing of pictures: a conversion. A processed picture exists as soon as it has
  been opened for writing, so another delivery may take it before it is whole
  (media_grab.py:395).
* What a picture taken inside a transport waits for: `TransportCalls` has it as something
  that may raise before the first call of an envelope (`RaisesFirst`), and `Notification`
  as a call that may not return.
* The counters of the action, which decide nothing; conditions of scenarios and
  deliveries on anything but occupancy, which skip a call at will in `Notification`.
* A cache of size 0, excluded by an assumption: `check` then always raises. Names in a
  mobile action that end in a number, which the code takes for a duration. Snooze
  targets that are lists, which do not occur.

## Plan

Modelled and checked: delivery, selection, targets and envelopes, snoozes, duplicates,
calls of services by every transport, announcements, pictures. Proved: every safety
property of the runs. What is left are hazards that no property covers (see
`PROJECT.json`), and results about the operators themselves: that adding targets loses no
address, that what `split_by_target_data` yields covers its target, that registering a
snooze leaves one for each key.
