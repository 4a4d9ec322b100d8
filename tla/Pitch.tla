-------------------------------- MODULE Pitch --------------------------------
(***************************************************************************)
(* Pitch dimensions and the conversion of a coordinate between two of them *)
(* (kloppy.domain.models.pitch).                                           *)
(*                                                                         *)
(* A half of the pitch is cut into zones by its markings; a coordinate is  *)
(* mapped zone by zone to a pitch in metres, and from there to the other   *)
(* pitch.  Both axes are converted on their own.  Numbers are exact        *)
(* fractions; the height above the ground is left out.                     *)
(***************************************************************************)
EXTENDS Integers, Sequences

----------------------------------------------------------------------------
\* Exact fractions <<numerator, denominator>> in lowest terms.

GCD[a \in Nat, b \in Nat] == IF b = 0 THEN a ELSE GCD[b, a % b]

Abs(n) == IF n < 0 THEN -n ELSE n

\* The fraction n / d, where d is not 0 and g divides both.
Divided(n, d, g) == IF d < 0 THEN <<-(n \div g), -(d \div g)>> ELSE <<n \div g, d \div g>>

Ratio(n, d) == Divided(n, d, GCD[Abs(n), Abs(d)])

Num(n) == <<n, 1>>

Zero == Num(0)

SumOver(p, q, g) == Ratio(p[1] * (q[2] \div g) + q[1] * (p[2] \div g), p[2] * (q[2] \div g))

Plus(p, q) == SumOver(p, q, GCD[p[2], q[2]])

Minus(p, q) == Plus(p, <<-q[1], q[2]>>)

Multiplied(a, b) == <<a[1] * b[1], a[2] * b[2]>>

\* Crosswise reduction first: the products stay small.
Times(p, q) == Multiplied(Ratio(p[1], q[2]), Ratio(q[1], p[2]))

Over(p, q) == Times(p, IF q[1] < 0 THEN <<-q[2], -q[1]>> ELSE <<q[2], q[1]>>)

LessOrEqual(p, q) == Minus(p, q)[1] <= 0

Half(p) == Times(p, <<1, 2>>)

----------------------------------------------------------------------------
\* Numbers that may be missing, and the default pitch

Unknown == <<0, 0>>     \* None, where a number is optional

Known(number) == number # Unknown

DEFAULT_PITCH_LENGTH == Num(105)
DEFAULT_PITCH_WIDTH == Num(68)

OrDefault(number, default) == IF Known(number) THEN number ELSE default

----------------------------------------------------------------------------
\* Dimension, and the pitch dimensions of the laws of the game and of providers

Dimension(low, high) == [min |-> low, max |-> high]

Centred(size) ==
    IF Known(size) THEN Dimension(Half(Minus(Zero, size)), Half(size))
    ELSE Dimension(Unknown, Unknown)

Extent(dim) == Minus(dim.max, dim.min)

Bounded(dims) == \A dim \in {dims.x, dims.y} : Known(dim.min) /\ Known(dim.max)

MetricPitchDimensions(x, y, standardized, length, width) ==
    [x |-> x, y |-> y, unit |-> "metres", standardized |-> standardized,
     length |-> length, width |-> width,
     goal_width |-> <<183, 25>>, six_yard_width |-> <<458, 25>>,
     six_yard_length |-> <<11, 2>>, penalty_area_width |-> <<1008, 25>>,
     penalty_area_length |-> <<33, 2>>, circle_radius |-> <<183, 20>>,
     penalty_spot_distance |-> <<11, 1>>, penalty_arc_radius |-> <<183, 20>>]

ImperialPitchDimensions(x, y, length, width) ==
    [x |-> x, y |-> y, unit |-> "yards", standardized |-> TRUE,
     length |-> length, width |-> width,
     goal_width |-> <<8, 1>>, six_yard_width |-> <<20, 1>>,
     six_yard_length |-> <<6, 1>>, penalty_area_width |-> <<44, 1>>,
     penalty_area_length |-> <<18, 1>>, circle_radius |-> <<10, 1>>,
     penalty_spot_distance |-> <<12, 1>>, penalty_arc_radius |-> <<10, 1>>]

Lateral == {"goal_width", "six_yard_width", "penalty_area_width"}
Longitudinal == {"six_yard_length", "penalty_area_length", "circle_radius",
                 "penalty_spot_distance", "penalty_arc_radius"}

\* __post_init__ scales the markings of a pitch in metres to the two extents.
NormalizedPitchDimensions(dim, standardized, length, width) ==
    LET metric == MetricPitchDimensions(dim, dim, standardized, length, width)
    IN  [field \in DOMAIN metric |->
            CASE field = "unit" -> "normed"
              [] field \in Lateral -> Times(Over(metric[field], width), Extent(dim))
              [] field \in Longitudinal -> Times(Over(metric[field], length), Extent(dim))
              [] OTHER -> metric[field]]

HundredByHundred == Dimension(Zero, Num(100))

OptaPitchDimensions(length, width) ==
    [x |-> HundredByHundred, y |-> HundredByHundred, unit |-> "normed",
     standardized |-> TRUE, length |-> length, width |-> width,
     goal_width |-> <<48, 5>>, six_yard_width |-> <<132, 5>>,
     six_yard_length |-> <<29, 5>>, penalty_area_width |-> <<289, 5>>,
     penalty_area_length |-> <<17, 1>>, circle_radius |-> <<9, 1>>,
     penalty_spot_distance |-> <<23, 2>>, penalty_arc_radius |-> <<89, 10>>]

WyscoutPitchDimensions(length, width) ==
    [x |-> HundredByHundred, y |-> HundredByHundred, unit |-> "normed",
     standardized |-> TRUE, length |-> length, width |-> width,
     goal_width |-> <<12, 1>>, six_yard_width |-> <<26, 1>>,
     six_yard_length |-> <<6, 1>>, penalty_area_width |-> <<62, 1>>,
     penalty_area_length |-> <<16, 1>>, circle_radius |-> <<221, 25>>,
     penalty_spot_distance |-> <<10, 1>>, penalty_arc_radius |-> <<387, 50>>]

\* PitchDimensions.convert: every number on the pitch, not its real size
InCentimetres(dims) ==
    LET scaled(number) == IF Known(number) THEN Times(number, Num(100)) ELSE number
    IN  [field \in DOMAIN dims |->
            CASE field = "unit" -> "centimetres"
              [] field \in {"x", "y"} -> Dimension(scaled(dims[field].min), scaled(dims[field].max))
              [] field \in Lateral \cup Longitudinal -> scaled(dims[field])
              [] OTHER -> dims[field]]

----------------------------------------------------------------------------
\* The boundaries of the zones, from an edge of the pitch to its middle

_transformation_zones_x(dims) ==
    LET middle == Half(Extent(dims.x))
        at(distance) == Plus(dims.x.min, distance)
    IN  << dims.x.min, at(dims.six_yard_length), at(dims.penalty_spot_distance),
           at(dims.penalty_area_length),
           at(Plus(dims.penalty_spot_distance, dims.penalty_arc_radius)),
           at(Minus(middle, dims.circle_radius)), at(middle) >>

_transformation_zones_y(dims) ==
    LET outside(width) == Plus(dims.y.min, Half(Minus(Extent(dims.y), width)))
    IN  << dims.y.min, outside(dims.penalty_area_width), outside(dims.six_yard_width),
           outside(dims.goal_width), outside(Zero) >>

\* An axis of a pitch: the boundaries and the extent it is scaled by.
XAxis(dims) == [zones |-> _transformation_zones_x(dims), extent |-> Extent(dims.x)]
YAxis(dims) == [zones |-> _transformation_zones_y(dims), extent |-> Extent(dims.y)]
AxesOf(dims) == [x |-> XAxis(dims), y |-> YAxis(dims)]

Low(axis) == axis.zones[1]
Middle(axis) == axis.zones[Len(axis.zones)]

Within(v, low, high) == LessOrEqual(low, v) /\ LessOrEqual(v, high)

Breadth(axis, zone) == Minus(axis.zones[zone + 1], axis.zones[zone])

ScaleWithin(zone, v, from, to) ==
    Plus(to.zones[zone], Times(Minus(v, from.zones[zone]),
                               Over(Breadth(to, zone), Breadth(from, zone))))

\* A coordinate of the near half, scaled within its zone; beyond the edge of the
\* pitch by the ratio of the two extents.
Scale(v, from, to) ==
    LET zones == {n \in 1 .. Len(from.zones) - 1 : Within(v, from.zones[n], from.zones[n + 1])}
    IN  IF zones = {}
        THEN Plus(Low(to), Times(Minus(v, Low(from)), Over(to.extent, from.extent)))
        ELSE ScaleWithin(CHOOSE n \in zones : \A m \in zones : n <= m, v, from, to)

\* The pitch in metres everything is converted by way of.
IfabDimensions(length, width) ==
    MetricPitchDimensions(Dimension(Zero, length), Dimension(Zero, width), FALSE, length, width)

to_metric_base(from, v, ifab) ==
    LET mirror == ~ LessOrEqual(v, Middle(from))
        near == IF mirror THEN Plus(Minus(from.extent, Minus(v, Low(from))), Low(from)) ELSE v
        metres == Scale(near, from, ifab)
    IN  IF mirror THEN Minus(ifab.extent, metres) ELSE metres

\* Fault: the mirrored coordinate is taken as measured from zero
FromMetricBaseFromZero(to, v, ifab) ==
    LET mirror == ~ LessOrEqual(v, Half(ifab.extent))
        scaled == Scale(IF mirror THEN Minus(ifab.extent, v) ELSE v, ifab, to)
    IN  IF mirror THEN Minus(to.extent, scaled) ELSE scaled

from_metric_base(to, v, ifab) ==
    LET mirror == ~ LessOrEqual(v, Half(ifab.extent))
        scaled == Scale(IF mirror THEN Minus(ifab.extent, v) ELSE v, ifab, to)
    IN  IF mirror THEN Plus(Minus(Plus(to.extent, Low(to)), scaled), Low(to)) ELSE scaled

----------------------------------------------------------------------------
\* The coordinate systems of the providers, which one a dataset is converted to when
\* it is loaded, and the conversion of its points (kloppy.domain.models.common,
\* DatasetTransformer and its builder).

System(origin, vertical, dims) == [origin |-> origin, vertical |-> vertical, dims |-> dims]

BothKnown(length, width) == Known(length) /\ Known(width)

\* A pitch in metres or centimetres around its centre, undefined unless both
\* sizes are known.
MetresAroundCentre(length, width) ==
    IF BothKnown(length, width)
    THEN MetricPitchDimensions(Centred(length), Centred(width), FALSE, length, width)
    ELSE MetricPitchDimensions(Centred(Unknown), Centred(Unknown), FALSE, Unknown, Unknown)

CentreUpwards(length, width) ==
    System("center", "bottom-to-top", MetresAroundCentre(length, width))

Normalized(dim, length, width) ==
    IF BothKnown(length, width) THEN NormalizedPitchDimensions(dim, FALSE, length, width)
    ELSE NormalizedPitchDimensions(dim, TRUE, DEFAULT_PITCH_LENGTH, DEFAULT_PITCH_WIDTH)

MetresFromCorner(length, width) ==
    MetricPitchDimensions(Dimension(Zero, length), Dimension(Zero, width), FALSE, length, width)

KloppyCoordinateSystem(length, width) ==
    System("top-left", "top-to-bottom", Normalized(Dimension(Zero, Num(1)), length, width))
MetricaCoordinateSystem(length, width) == KloppyCoordinateSystem(length, width)
TracabCoordinateSystem(length, width) ==
    System("center", "bottom-to-top", InCentimetres(MetresAroundCentre(length, width)))
SecondSpectrumCoordinateSystem(length, width) == CentreUpwards(length, width)
OptaCoordinateSystem(length, width) ==
    System("bottom-left", "bottom-to-top", OptaPitchDimensions(length, width))
SportecEventDataCoordinateSystem(length, width) ==
    System("bottom-left", "bottom-to-top", MetresFromCorner(length, width))
SportecTrackingDataCoordinateSystem(length, width) == CentreUpwards(length, width)
StatsBombCoordinateSystem(length, width) ==
    System("top-left", "top-to-bottom",
           ImperialPitchDimensions(Dimension(Zero, Num(120)), Dimension(Zero, Num(80)),
                                   length, width))
PFFCoordinateSystem(length, width) == CentreUpwards(length, width)
WyscoutCoordinateSystem(length, width) ==
    System("top-left", "top-to-bottom", WyscoutPitchDimensions(length, width))
SkillCornerCoordinateSystem(length, width) == CentreUpwards(length, width)
SignalityCoordinateSystem(length, width) == CentreUpwards(length, width)
DatafactoryCoordinateSystem(length, width) ==
    System("center", "top-to-bottom", Normalized(Dimension(Num(-1), Num(1)), length, width))
SportVUCoordinateSystem(length, width) ==
    System("top-left", "top-to-bottom", MetresFromCorner(length, width))
HawkEyeCoordinateSystem(length, width) == CentreUpwards(length, width)
ImpectCoordinateSystem(length, width) ==
    System("center", "bottom-to-top",
           MetricPitchDimensions(Centred(Num(105)), Centred(Num(68)), TRUE,
                                 Num(105), Num(68)))

build_coordinate_system(provider, type, length, width) ==
    CASE provider = "tracab" -> TracabCoordinateSystem(length, width)
      [] provider = "kloppy" -> KloppyCoordinateSystem(length, width)
      [] provider = "metrica" -> MetricaCoordinateSystem(length, width)
      [] provider = "opta" -> OptaCoordinateSystem(length, width)
      [] provider = "sportec" /\ type = "event" -> SportecEventDataCoordinateSystem(length, width)
      [] provider = "sportec" /\ type = "tracking" ->
             SportecTrackingDataCoordinateSystem(length, width)
      [] provider = "statsbomb" -> StatsBombCoordinateSystem(length, width)
      [] provider = "pff" -> PFFCoordinateSystem(length, width)
      [] provider = "wyscout" -> WyscoutCoordinateSystem(length, width)
      [] provider = "skillcorner" -> SkillCornerCoordinateSystem(length, width)
      [] provider = "datafactory" -> DatafactoryCoordinateSystem(length, width)
      [] provider = "secondspectrum" -> SecondSpectrumCoordinateSystem(length, width)
      [] provider = "hawkeye" -> HawkEyeCoordinateSystem(length, width)
      [] provider = "sportvu" -> SportVUCoordinateSystem(length, width)
      [] provider = "signality" -> SignalityCoordinateSystem(length, width)
      [] provider = "impect" -> ImpectCoordinateSystem(length, width)

----------------------------------------------------------------------------
\* A conversion between pitches one of which has no fixed size.
NeedsSize(pair) ==
    /\ pair.from.dims # pair.to.dims
    /\ ~ pair.from.dims.standardized \/ ~ pair.to.dims.standardized

\* DatasetTransformerBuilder.build: the pair of systems a loaded dataset is
\* converted from and to.  Where a size is needed and not known, both are built
\* again for the default size.
Transformer(provider, type, to, toType, length, width) ==
    LET pair(l, w) == [from |-> build_coordinate_system(provider, type, l, w),
                       to |-> build_coordinate_system(to, toType, l, w)]
    IN  IF ~ BothKnown(length, width) /\ NeedsSize(pair(length, width))
        THEN pair(DEFAULT_PITCH_LENGTH, DEFAULT_PITCH_WIDTH)
        ELSE pair(length, width)

SameVertical(from, to) == from.vertical = to.vertical

\* __change_point_coordinate_system, for points that are pairs of an axis and what
\* tells them apart on it
__change_point_coordinate_system(from, to, points) ==
    LET ifab == IfabDimensions(OrDefault(from.dims.length, DEFAULT_PITCH_LENGTH),
                               OrDefault(from.dims.width, DEFAULT_PITCH_WIDTH))
        source == AxesOf(from.dims)
        target == AxesOf(to.dims)
        base == AxesOf(ifab)
        metres(p) == to_metric_base(source[p[1]], points[p], base[p[1]])
        upright(p) == IF p[1] = "y" /\ ~ SameVertical(from, to)
                      THEN Minus(base.y.extent, metres(p)) ELSE metres(p)
    IN  [p \in DOMAIN points |-> from_metric_base(target[p[1]], upright(p), base[p[1]])]

\* flip_point, on one axis: by way of Dimension.to_base and from_base
flip_point(dim, v) ==
    LET base == Over(Minus(v, dim.min), Extent(dim))
    IN  Plus(Times(Minus(Num(1), base), Extent(dim)), dim.min)

\* Neither end of a conversion may lack its boundaries, and none is needed where
\* nothing changes.
Convertible(from, to) == from = to \/ (Bounded(from.dims) /\ Bounded(to.dims))

==============================================================================
