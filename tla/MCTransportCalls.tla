-------------------------- MODULE MCTransportCalls --------------------------
(***************************************************************************)
(* Instances of TransportCalls for TLC: a delivery or two of every         *)
(* transport that differs in what it calls, an alias whose entry plays on  *)
(* a player, runs a script and calls a command, and envelopes with targets *)
(* that succeed, are filtered, shared, unknown or missing.                 *)
(***************************************************************************)
EXTENDS TransportCalls

Symmetry == Permutations(Tasks)

MCDomain ==
    [player |-> "media_player", bell |-> "script", alarm |-> "rest_command", horn |-> "siren",
     all |-> "group", list |-> "notify", echo |-> "alexa_devices", hub |-> "none"]
MCMembers ==
    [n \in {"player", "bell", "alarm", "horn", "list"} |-> <<n>>] @@ [all |-> <<"player", "horn">>]
MCNames ==
    DOMAIN MCDomain \cup {"iphone", "pixel", "tablet", "ann@", "bob@", "+1", "+2", "chat", "device"}
MCResponding == {<<"tts", "speak">>}
MCOwnersOf == [iphone |-> {"ann"}, pixel |-> {"ann", "bob"}, tablet |-> {"bob"}]

MCEntries ==
    [all    |-> [targets |-> TRUE, at |-> <<"player", "bell", "alarm">>, domain |-> "none", data |-> {"enqueue"}],
     player |-> [targets |-> FALSE, at |-> <<>>, domain |-> "media_player", data |-> {}],
     echoes |-> [targets |-> FALSE, at |-> <<>>, domain |-> "alexa_devices", data |-> {}],
     broken |-> [targets |-> FALSE, at |-> <<>>, domain |-> "none", data |-> {}]]

Nobody == [entity_id |-> <<>>, device_id |-> <<>>, email |-> <<>>, phone |-> <<>>, mobile_app_id |-> <<>>]
Default ==
    [transport |-> "generic", action |-> <<>>, required |-> "always", debug |-> FALSE,
     target |-> Nobody, style |-> "none", raw |-> FALSE, prunes |-> FALSE, drops |-> FALSE,
     categories |-> Range(Categories), aliases |-> <<>>]
For(transport, action) == [Default EXCEPT !.transport = transport, !.action = action]
MCConf ==
    [push     |-> For("mobile_push", <<>>),
     filtered |-> [For("mobile_push", <<>>) EXCEPT !.drops = TRUE, !.debug = TRUE],
     speech   |-> For("tts", <<"tts", "speak">>),
     chime    |-> [For("chime", <<>>) EXCEPT !.required = "optional",
                       !.aliases = [ding |-> <<"player", "all">>, dong |-> <<"player", "echoes">>,
                                    dang |-> <<"broken">>]],
     ntfy     |-> [For("generic", <<"ntfy", "publish">>) EXCEPT !.required = "optional"],
     any      |-> [For("generic", <<"notify", "all">>) EXCEPT !.prunes = TRUE],
     word     |-> [For("generic", <<"word">>) EXCEPT !.required = "never"],
     unset    |-> For("sms", <<>>),
     telegram |-> [For("telegram", <<"telegram_bot", "send_message">>) EXCEPT !.target.email = <<"ann@">>],
     mail     |-> [For("email", <<"notify", "smtp">>) EXCEPT !.required = "optional", !.debug = TRUE],
     text     |-> For("sms", <<"notify", "sms">>),
     topic    |-> [For("mqtt", <<"mqtt", "publish">>) EXCEPT !.required = "never"],
     screen   |-> For("media", <<"media_player", "play_media">>),
     clock    |-> [For("lametric", <<"lametric", "message">>) EXCEPT !.required = "never"],
     topics   |-> For("ntfy", <<"ntfy", "publish">>),
     gotify   |-> [For("gotify", <<"notify", "gotify">>) EXCEPT !.required = "never"],
     script   |-> For("generic", <<"script", "turn_on">>)]
MCDeliveries == DOMAIN MCConf
MCFiltered ==
    [d \in DOMAIN MCConf |-> IF d \in {"filtered", "speech"} THEN {"iphone"} ELSE {}]

Plain(d) ==
    [delivery |-> d, to |-> Nobody, options |-> <<>>, keys |-> {}, message |-> TRUE, camera |-> "none"]
MCEnvelopes ==
    {[Plain("push") EXCEPT !.to.mobile_app_id = <<"iphone", "pixel">>, !.keys = {"media"}],
     [Plain("push") EXCEPT !.to.mobile_app_id = <<"tablet", "iphone">>],
     [Plain("push") EXCEPT !.to.mobile_app_id = <<"pixel">>, !.camera = "raises"],
     [Plain("filtered") EXCEPT !.to.mobile_app_id = <<"iphone", "pixel", "tablet">>],
     [Plain("speech") EXCEPT !.to.mobile_app_id = <<"iphone", "pixel", "tablet">>, !.to.entity_id = <<"player">>],
     [Plain("chime") EXCEPT !.to.entity_id = <<"all", "player">>, !.options = [chime_tune |-> "ding"],
                            !.keys = {"announce"}],
     [Plain("chime") EXCEPT !.to.device_id = <<"echo", "hub">>, !.to.entity_id = <<"player">>,
                            !.options = [chime_tune |-> "dong"], !.keys = {"announce"}],
     [Plain("chime") EXCEPT !.to.entity_id = <<"player">>, !.options = [chime_tune |-> "dong"]],
     [Plain("chime") EXCEPT !.to.entity_id = <<"horn">>, !.options = [chime_tune |-> "dang"]],
     [Plain("ntfy") EXCEPT !.to.email = <<"ann@">>, !.to.phone = <<"+1">>, !.to.entity_id = <<"list">>],
     [Plain("ntfy") EXCEPT !.to.email = <<"ann@", "bob@">>, !.to.phone = <<"+1">>],
     [Plain("any") EXCEPT !.to.email = <<"ann@">>],
     Plain("word"),
     [Plain("unset") EXCEPT !.to.phone = <<"+1">>],
     Plain("telegram"),
     [Plain("telegram") EXCEPT !.options = [chat_id |-> "chat", attach_image |-> TRUE], !.camera = "image"],
     [Plain("mail") EXCEPT !.to.email = <<"ann@", "bob@">>, !.camera = "image"],
     [Plain("text") EXCEPT !.to.phone = <<"+1", "+2">>],
     [Plain("text") EXCEPT !.to.phone = <<"+1">>, !.message = FALSE],
     [Plain("topic") EXCEPT !.options = [topic |-> "doors"]],
     [Plain("screen") EXCEPT !.to.entity_id = <<"player">>, !.options = [snapshot_url |-> "/x"]],
     [Plain("clock") EXCEPT !.options = [device_id |-> "device", chart |-> "text"]],
     [Plain("topics") EXCEPT !.options = [device_id |-> "device", attach_image |-> TRUE], !.camera = "raises"],
     Plain("gotify"),
     [Plain("script") EXCEPT !.to.entity_id = <<"bell", "player">>]}
=============================================================================
