------------------------------ MODULE MCSession ------------------------------
(***************************************************************************)
(* One URL per kind of adapter and one no adapter supports; two cache      *)
(* directories and one archive.                                            *)
(***************************************************************************)
EXTENDS Session

MCKeys == {"cache", "coordinate_system", "adapters.zip.fo"}
MCValues == {"d1", "d2", "kloppy", "opta", "tracab", "none", "a1"}
MCDefault == [key \in MCKeys |->
    CASE key = "cache" -> "d1" [] key = "coordinate_system" -> "kloppy"
      [] key = "adapters.zip.fo" -> "none"]
MCSettings == {<<"cache", "d2">>, <<"coordinate_system", "tracab">>,
               <<"adapters.zip.fo", "a1">>, <<"engine", "none">>}
MCArguments == { <<>>, <<<<"cache", "d2">>>>, <<<<"adapters.zip.fo", "a1">>>>,
                 <<<<"coordinate_system", "opta">>, <<"coordinate_system", "tracab">>>>,
                 <<<<"cache", "d1">>, <<"coordinate_system", "opta">>>>,
                 <<<<"cache", "d2">>, <<"engine", "none">>>> }

MCUrls == {"events.json", "s3://bucket/tracking", "http://host/tracking",
           "zip://events.json", "ftp://host/events", "season/2.json"}
MCScheme == [url \in MCUrls |->
    CASE url = "events.json" -> "file" [] url = "s3://bucket/tracking" -> "s3"
      [] url = "http://host/tracking" -> "http" [] url = "zip://events.json" -> "zip"
      [] url = "ftp://host/events" -> "ftp" [] url = "season/2.json" -> "file"]
MCDirectories == [dir \in {"season"} |-> <<"events.json", "season/2.json">>]
MCLists == {<<"season">>, <<"http://host/tracking", "s3://bucket/tracking">>}
MCPublished == {<<"", "events.json">>, <<"", "http://host/tracking">>}

Path(url, skip) == [Required(url) EXCEPT !.skip_if_missing = skip]
Handed(kind) == [Required("events.json") EXCEPT !.kind = kind]

MCInputs ==
    {Path(url, FALSE) : url \in MCUrls \ {"season/2.json"}}
    \cup {Handed(kind) : kind \in {"data", "file", "nothing", "other"}}
    \cup {Path("zip://events.json", TRUE)}

Feed(length, width) == [length |-> length, width |-> width, lines |-> FALSE]
UnknownPitch == Feed(Unknown, Unknown)

Call(function, arguments, name, feed) ==
    [function |-> function, arguments |-> arguments, version |-> "", name |-> name,
     feed |-> feed]

Minutes == hawkeye_load(expand_inputs(<<"season">>), <<"http://host/tracking">>)

\* A match on servers without freeze frames; data of three more providers, at an
\* unknown, a standard and a small pitch; file objects whose version is told first,
\* and directories.
MCCalls ==
    { Call(statsbomb_load,
           load_open_data([event_data |-> "http://host/tracking",
                           lineup_data |-> "events.json",
                           three_sixty_data |-> "s3://bucket/tracking"]), "", UnknownPitch),
      Call(sportec_load_tracking,
           [meta_data |-> Required("http://host/tracking"),
            raw_data |-> Handed("data")], "", Feed(Num(100), Num(64))),
      Call(wyscout_load, [event_data |-> Required("zip://events.json")], "", UnknownPitch),
      Call(wyscout_load, [event_data |-> Handed("file")], "wyscout", UnknownPitch),
      Call(datafactory_load, [event_data |-> Handed("data")], "wyscout", Feed(Num(105), Num(68))),
      Call(skillcorner_load, [meta_data |-> Required("events.json"), raw_data |-> Handed("file")],
           "", [Feed(Num(105), Num(68)) EXCEPT !.lines = TRUE]),
      Call(Minutes, [part \in Range(Minutes.order) \ {"meta_data", "None"} |-> Required(part)],
           "", Feed(Num(105), Num(68))),
      Call(impect_load, [event_data |-> Required("events.json"),
                         lineup_data |-> Path("zip://events.json", TRUE)], "", UnknownPitch) }

MCProviders == {"kloppy", "opta", "tracab", "wyscout"}
MCTargets == {"tracab", "opta", "sportec", "impect"}
MCTargetDims == {MetricPitchDimensions(Centred(Num(90)), Dimension(Zero, Num(60)), FALSE,
                                       Num(90), Num(60))}
MCLandmarks ==
    {[zone |-> z, share |-> <<1, 4>>, far |-> z \in {0, 3, 5}] : z \in {0, 1, 3, 5}}
    \cup {[zone |-> z, share |-> Num(1), far |-> z # 6] : z \in {2, 4, 6}}

\* Two outputs written side by side; two contexts with the settings changed in
\* them; a dataset loaded, converted twice or loaded again; a load after an output was
\* written; and a bit of each together.
MCBudgets == { [settings |-> 0, storage |-> 6, dataset |-> 0],
               [settings |-> 7, storage |-> 0, dataset |-> 0],
               [settings |-> 1, storage |-> 0, dataset |-> 3],
               [settings |-> 0, storage |-> 4, dataset |-> 1],
               [settings |-> 1, storage |-> 2, dataset |-> 1] }

================================================================================
