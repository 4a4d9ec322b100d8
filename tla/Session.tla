------------------------------- MODULE Session -------------------------------
(***************************************************************************)
(* A session with kloppy: the settings, the files, and a dataset that a    *)
(* provider loads from some of them, into the coordinate system the        *)
(* settings or the caller name, and that is converted further.             *)
(***************************************************************************)
EXTENDS Loaders, Pitch

CONSTANTS
    Providers,       \* the names a load may end up with
    Targets,         \* the coordinate systems a dataset is converted to
    TargetDims,      \* the pitch dimensions a dataset is converted to
    Landmarks,       \* the places of the pitch that are followed, see At
    MaxTransforms,   \* bound on the conversions of a dataset
    Budgets          \* bounds on the calls of a session: [settings, storage, dataset]

VARIABLES
    dataset,         \* the coordinate system and the coordinates of a dataset
    budget           \* the calls left

vars == <<configVars, storageVars, raised, dataset, budget>>

NoDataset == [transforms |-> 0]

\* A place: so far across a zone, in the near or the far half; zone 0 is beyond
\* the edge, by so much of the whole pitch.
At(axis, place) ==
    LET near == IF place.zone = 0 THEN Minus(Low(axis), Times(place.share, axis.extent))
                ELSE Plus(axis.zones[place.zone],
                          Times(place.share, Minus(axis.zones[place.zone + 1],
                                                   axis.zones[place.zone])))
    IN  IF place.far THEN Minus(Plus(Plus(Low(axis), Low(axis)), axis.extent), near) ELSE near

ZoneCount(axis) == IF axis = "x" THEN 6 ELSE 4

Places == {p \in {"x", "y"} \X Landmarks : p[2].zone <= ZoneCount(p[1])}

Init ==
    /\ ConfigInit
    /\ StorageInit
    /\ raised = "none"
    /\ dataset = NoDataset
    /\ budget \in Budgets

----------------------------------------------------------------------------
\* The places that are followed, on a pitch with these axes.
PointsOf(axes) == [p \in Places |-> At(axes[p[1]], p[2])]

\* The points of a provider, converted when they are read.
Converted(call, pair) ==
    LET raw == PointsOf(AxesOf(pair.from.dims))
    IN  [system |-> pair.to, vertical |-> pair.from.vertical, transforms |-> 0, flipped |-> FALSE,
         first |-> FirstRecord(call),
         points |-> IF pair.from = pair.to THEN raw
                    ELSE __change_point_coordinate_system(pair.from, pair.to, raw)]

\* A call whose points become those of the system `to`.
Loaded(call, to) ==
    Converted(call, Transformer(call.function.provider, call.function.type, to,
                                call.function.type, call.feed.length, call.feed.width))

\* Every call with every system, computed once.
LoadedFeeds == [call \in Calls, to \in Providers |-> Loaded(call, to)]

\* The name a load is given, or else the one in the settings.
Target(name) == IF name = "" THEN get_config("coordinate_system") ELSE name

\* A load: the inputs are opened one after the other, and then parsed.
Load(call) ==
    /\ raised' = Failure(call)
    /\ dataset' = IF Failure(call) = "none" THEN LoadedFeeds[call, Target(call.name)]
                  ELSE dataset
    /\ OpenEach(Opened(call))
    /\ UNCHANGED configVars

\* transform_dataset with another coordinate system
ChangeTo(system) ==
    /\ dataset # NoDataset /\ dataset.transforms < MaxTransforms
    /\ IF ~ Convertible(dataset.system, system)
       THEN Fail("MissingDimensionError") /\ UNCHANGED dataset
       ELSE /\ dataset' = [dataset EXCEPT
                   !.system = system,
                   !.transforms = @ + 1,
                   !.points = IF dataset.system = system THEN @
                              ELSE __change_point_coordinate_system(dataset.system, system, @)]
            /\ Quietly
    /\ UNCHANGED <<configVars, storageVars>>

\* helpers.transform: a name is built for the size of the dataset's pitch, always
\* as a coordinate system of event data; other pitch dimensions keep the origin
\* and the direction of the y-axis.
TransformToSystem(provider) ==
    /\ dataset # NoDataset
    /\ ChangeTo(build_coordinate_system(provider, "event", dataset.system.dims.length,
                                        dataset.system.dims.width))

TransformToDimensions(dims) ==
    /\ dataset # NoDataset
    /\ ChangeTo(System(dataset.system.origin, dataset.system.vertical, dims))

\* transform_dataset to the opposite orientation: every point is flipped.
TransformToOpposite ==
    /\ dataset # NoDataset /\ dataset.transforms < MaxTransforms
    /\ IF ~ Bounded(dataset.system.dims)
       THEN Fail("MissingDimensionError") /\ UNCHANGED dataset
       ELSE /\ dataset' = [dataset EXCEPT
                   !.transforms = @ + 1,
                   !.flipped = ~ @,
                   !.points = [p \in Places |-> flip_point(dataset.system.dims[p[1]], @[p])]]
            /\ Quietly
    /\ UNCHANGED <<configVars, storageVars>>

Spend(kind) == budget[kind] > 0 /\ budget' = [budget EXCEPT ![kind] = @ - 1]

Configure == Spend("settings") /\ ConfigNext /\ UNCHANGED <<storageVars, dataset>>

UseStorage ==
    /\ Spend("storage")
    /\ \/ \E input \in Inputs, mode \in {"rb", "wb", "ab"} : OpenInPlace(input, mode)
       \/ \E input \in Inputs : OpenForReading(input)
       \/ \E items \in Lists : ReadEach(items)
       \/ \E input \in Inputs, mode \in {"wb", "ab"} : OpenForWriting(input, mode)
       \/ \E n \in DOMAIN outputs : Write(n)
       \/ \E n \in DOMAIN outputs : CloseOutput(n)
       \/ \E url \in Urls : Publish(url)
    /\ UNCHANGED <<configVars, dataset>>

UseDataset ==
    /\ Spend("dataset")
    /\ \/ \E call \in Calls : Load(call)
       \/ \E provider \in Targets : TransformToSystem(provider)
       \/ \E dims \in TargetDims : TransformToDimensions(dims)
       \/ TransformToOpposite

Next == Configure \/ UseStorage \/ UseDataset

Spec == Init /\ [][Next]_vars

----------------------------------------------------------------------------
\* Every place of the pitch is where it was: on the same marking or as far
\* between the same two, or as far beyond the edge, whatever systems the dataset
\* went through; on the other half after an odd number of flips, and on the other
\* side exactly if that or the direction of the y-axis changed (DatasetTransformer,
\* to_metric_base and from_metric_base).
LandmarksKept ==
    dataset # NoDataset =>
        LET axes == AxesOf(dataset.system.dims)
            upsideDown == dataset.vertical # dataset.system.vertical
            across(p) == IF p[1] = "y" /\ upsideDown THEN ~ dataset.flipped ELSE dataset.flipped
            place(p) == IF across(p) THEN [p[2] EXCEPT !.far = ~ @] ELSE p[2]
        IN  \A p \in Places : dataset.points[p] = At(axes[p[1]], place(p))

==============================================================================
