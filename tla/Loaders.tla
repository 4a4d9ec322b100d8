-------------------------------- MODULE Loaders --------------------------------
(***************************************************************************)
(* The load functions of the providers (kloppy._providers): the inputs     *)
(* they open, in which order, and what an input that is missing or was     *)
(* read before does to a load.                                             *)
(***************************************************************************)
EXTENDS Storage

CONSTANT Calls
(***************************************************************************)
(* The calls of a session: records [function, arguments, version, name,    *)
(* feed].  arguments maps the inputs that are given to what open_as_file   *)
(* takes; version is the data_version, "" for none; name is the            *)
(* coordinate system, "" for none; feed is what the files say: the length  *)
(* and the width of the pitch, and whether they hold one record per line.  *)
(***************************************************************************)

Function(provider, type, order, optional) ==
    [provider |-> provider, type |-> type, order |-> order, optional |-> optional]

datafactory_load == Function("datafactory", "event", <<"event_data">>, {})

impect_load ==
    Function("impect", "event", <<"event_data", "lineup_data", "squads_data", "players_data">>,
             {"squads_data", "players_data"})

metrica_load_event == Function("metrica", "event", <<"event_data", "meta_data">>, {})

metrica_load_tracking_csv == Function("metrica", "tracking", <<"home_data", "away_data">>, {})

metrica_load_tracking_epts == Function("metrica", "tracking", <<"raw_data", "meta_data">>, {})

opta_load == Function("opta", "event", <<"f7_data", "f24_data">>, {})

pff_load_tracking ==
    Function("pff", "tracking", <<"meta_data", "roster_meta_data", "raw_data">>, {})

secondspectrum_load ==
    Function("secondspectrum", "tracking", <<"meta_data", "raw_data", "additional_meta_data">>,
             {"additional_meta_data"})

skillcorner_load == Function("skillcorner", "tracking", <<"meta_data", "raw_data">>, {})

sportec_load_event == Function("sportec", "event", <<"event_data", "meta_data">>, {})

sportec_load_tracking == Function("sportec", "tracking", <<"meta_data", "raw_data">>, {})

statsbomb_load ==
    Function("statsbomb", "event", <<"event_data", "lineup_data", "three_sixty_data">>,
             {"three_sixty_data"})

statsperform_load_event == Function("opta", "event", <<"ma1_data", "ma3_data">>, {})

statsperform_load_tracking == Function("sportvu", "tracking", <<"ma1_data", "ma25_data">>, {})

tracab_load == Function("tracab", "tracking", <<"meta_data", "raw_data">>, {})

wyscout_load == Function("wyscout", "event", <<"event_data">>, {})

\* Signality reads its feeds one by one, after the metadata.
signality_load(feeds) ==
    Function("signality", "tracking", <<"meta_data", "venue_information">> \o feeds, {})

\* HawkEye goes minute by minute through the feeds of the ball and of the players;
\* zip_longest fills up the shorter list with None.
hawkeye_load(balls, players) ==
    LET minutes == 1 .. IF Len(balls) > Len(players) THEN Len(balls) ELSE Len(players)
        feed(list, n) == IF n \in DOMAIN list THEN list[n] ELSE "None"
    IN  Function("hawkeye", "tracking",
                 <<"meta_data">> \o FlattenSeq([n \in minutes |->
                                                   <<feed(balls, n), feed(players, n)>>]),
                 {"meta_data"})

----------------------------------------------------------------------------
Optional(input) == [input EXCEPT !.optional = TRUE]

\* Source.create(input, optional=True) for the inputs a function can do without;
\* None without a Source around it is like any other object.
Given(call, part) ==
    LET absent == [Required("") EXCEPT
                      !.kind = IF part \in call.function.optional THEN "nothing" ELSE "other"]
        input == IF part \in DOMAIN call.arguments THEN call.arguments[part] ELSE absent
    IN  IF part \in call.function.optional THEN Optional(input) ELSE input

Parts(call) == [n \in DOMAIN call.function.order |-> Given(call, call.function.order[n])]

\* identify_deserializer of Wyscout, identify_data_version of SkillCorner: the
\* last input is opened to look at its first record.
Identifies(call) == call.function \in {wyscout_load, skillcorner_load} /\ call.version = ""

\* The inputs in the order they are opened.
Opened(call) == (IF Identifies(call) THEN <<Last(Parts(call))>> ELSE <<>>) \o Parts(call)

\* An object of the caller is not opened anew, so that what identified it has been
\* read: the first line, or all of a document.
Consumed(call) == Identifies(call) /\ Last(Parts(call)).kind = "file"

FirstRecord(call) == IF Consumed(call) THEN 2 ELSE 1

\* No stream for an input that the deserializer reads all the same.
Absent(input) ==
    \/ input.kind = "nothing"
    \/ input.kind = "path" /\ Unreadable(input.url) = "InputNotFoundError"

Unparsable(call) ==
    \E n \in DOMAIN Parts(call) :
        Absent(Parts(call)[n]) /\ call.function.order[n] \notin call.function.optional

\* What a load raises, or "none".
Failure(call) ==
    LET obstacle == FirstObstacle(Opened(call))
        exhausted == Consumed(call) /\ ~ call.feed.lines
    IN  CASE obstacle # "none" -> obstacle
          [] obstacle = "none" /\ exhausted -> "JSONDecodeError"
          [] obstacle = "none" /\ ~ exhausted /\ Unparsable(call) -> "AttributeError"
          [] OTHER -> "none"

\* statsbomb.load_open_data: the files of a match on a server; a match need not
\* have a file of freeze frames.
load_open_data(urls) ==
    [part \in DOMAIN urls |->
        [Required(urls[part]) EXCEPT !.skip_if_missing = part = "three_sixty_data"]]

==============================================================================
