--------------------------------- MODULE Events ---------------------------------
(***************************************************************************)
(* Loading event data: a reader and its feed.  One action per reader, a    *)
(* turn of its loop; Finish is the code after the loop.  Then the dataset  *)
(* is used: it becomes a table, and codes that are saved and read back.    *)
(***************************************************************************)
EXTENDS StatsBombEvents, WyscoutV2Events, WyscoutV3Events, OptaEvents, SportecEvents,
        DatafactoryEvents, ImpectEvents, MetricaEvents, Export

CONSTANTS Inputs,      \* records [reader, meta, feed]
          Types,       \* event_types arguments: sets of types, {} for all
          Selectors    \* of the events that become codes

VARIABLES input,   \* what is loaded
          at,      \* how many items of the feed were read
          loop,    \* the loop of the reader
          done,    \* the dataset was returned, or the reader raised
          export   \* the codes made of the dataset
vars == <<input, at, loop, done, export>>

\* The items the loop goes over.
Script(source) ==
    CASE source.reader = "opta"        -> OptaFeed(source.feed)
      [] source.reader = "datafactory" -> DatafactoryFeed(source.feed)
      [] OTHER                         -> source.feed

Begin(source) ==
    CASE source.reader = "statsbomb"   -> StartStatsBomb
      [] source.reader = "wyscout v2"  -> StartWyscoutV2
      [] source.reader = "wyscout v3"  -> StartWyscoutV3
      [] source.reader = "opta"        -> StartOpta(source.meta)
      [] source.reader = "sportec"     -> StartSportecEvents
      [] source.reader = "datafactory" -> StartDatafactory(source.meta)
      [] source.reader = "impect"      -> StartImpect(source.feed)
      [] source.reader = "metrica"     -> StartMetricaEvents(source.meta)

Closed(source, l) ==
    IF l.raised # NotRaised THEN l
    ELSE CASE source.reader = "statsbomb"   -> FinishStatsBomb(l, source.feed)
           [] source.reader = "wyscout v2"  -> FinishWyscoutV2(l, source.feed)
           [] source.reader = "wyscout v3"  -> FinishWyscoutV3(l, source.feed)
           [] source.reader = "opta"        -> FinishOpta(l)
           [] source.reader = "sportec"     -> FinishSportecEvents(l)
           [] source.reader = "datafactory" -> FinishDatafactory(l)
           [] source.reader = "impect"      -> FinishImpect(l, source.meta)
           [] source.reader = "metrica"     -> FinishMetricaEvents(l)

Init ==
    /\ input \in Inputs
    /\ at = 0
    /\ loop = Begin(input)
    /\ done = FALSE
    /\ export = NoExport

More == ~done /\ loop.raised = NotRaised /\ at < Len(Script(input))
Reading(reader) ==
    /\ input.reader = reader
    /\ More
    /\ at' = at + 1
    /\ UNCHANGED <<input, done, export>>

ReadStatsBombEvent   == Reading("statsbomb") /\ loop' = ReadStatsBomb(loop, input.feed, at + 1)
ReadWyscoutV2Event   == Reading("wyscout v2") /\ loop' = ReadWyscoutV2(loop, input.feed, at + 1)
ReadWyscoutV3Event   == Reading("wyscout v3") /\ loop' = ReadWyscoutV3(loop, input.feed, at + 1)
ReadOptaEvent        == Reading("opta") /\ loop' = ReadOpta(loop, Script(input), at + 1)
ReadSportecXmlEvent  == Reading("sportec") /\ loop' = ReadSportecEvent(loop, input.feed[at + 1])
ReadDatafactoryEvent == Reading("datafactory") /\ loop' = ReadDatafactory(loop, Script(input), at + 1)
ReadImpectEvent      == Reading("impect") /\ loop' = ReadImpect(loop, input.feed, at + 1)
ReadMetricaJsonEvent == Reading("metrica") /\ loop' = ReadMetricaEvent(loop, input.feed, at + 1)

Finish ==
    /\ ~done /\ ~More
    /\ loop' = Closed(input, loop)
    /\ done' = TRUE
    /\ UNCHANGED <<input, at, export>>
Stop == done /\ UNCHANGED vars

Loaded == done /\ loop.raised = NotRaised
\* event_types, a filter after the reader
should_include_event(event, types) == types = {} \/ event.type \in types
Chosen(types, selector) ==
    find_all(SelectSeq(loop.events, LAMBDA e : should_include_event(e, types)), selector)
MakeCodes(types, selector, every) ==
    /\ Loaded /\ export.stage = "none"
    /\ export' = Made(from_dataset(Chosen(types, selector), every))
    /\ UNCHANGED <<input, at, loop, done>>
SaveCodes ==
    /\ export.stage = "made"
    /\ export' = Stored(export, loop.periods)
    /\ UNCHANGED <<input, at, loop, done>>
LoadCodes ==
    /\ export.stage = "saved"
    /\ export' = Read(export)
    /\ UNCHANGED <<input, at, loop, done>>

Next ==
    \/ ReadStatsBombEvent \/ ReadWyscoutV2Event \/ ReadWyscoutV3Event \/ ReadOptaEvent
    \/ ReadSportecXmlEvent \/ ReadDatafactoryEvent \/ ReadImpectEvent \/ ReadMetricaJsonEvent
    \/ Finish \/ Stop
    \/ \E types \in Types, selector \in Selectors, every \in BOOLEAN : MakeCodes(types, selector, every)
    \/ SaveCodes \/ LoadCodes

Spec == Init /\ [][Next]_vars

----
(***************************************************************************)
(* Properties.                                                             *)
(***************************************************************************)
Delivered == {loop.events[k] : k \in DOMAIN loop.events}

\* Whatever a reader makes of a raw event is in the vocabulary of the domain:
\* a known type, a result that type can have, qualifiers that exist.
TypeOK ==
    \A e \in Delivered :
        /\ e.type \in EventTypes
        /\ e.result \in ResultsOf(e.type) \cup {NoResult}
        /\ Range(e.quals) \subseteq Qualifiers
        /\ e.team \in {Home, Away, Nobody} /\ e.owner \in {Home, Away, Nobody}
        /\ e.state \in {"ALIVE", "DEAD", "unknown"}

\* The ball goes out once.  An event with the result OUT is followed by a ball
\* out before anything else is played, although the item that tells it is the
\* pass itself, its receipt, a duel, the next item or a later restart; and the
\* ball does not go out again before it was played.  (Wyscout V3 delivers no
\* ball out at all; Opta tells one for each team; an injury clearance of
\* StatsBomb and a Metrica pass without an end are out without a ball out.)
Played == {"PASS", "SHOT", "TAKE_ON", "CARRY", "CLEARANCE", "INTERCEPTION", "RECOVERY", "MISCONTROL"}
Contested == {"DUEL", "GOALKEEPER"}
Untold(event) ==
    \/ input.reader = "wyscout v3"
    \/ \E raw \in Range(input.feed) :
           /\ raw.id = event.id[1]
           /\ \/ input.reader = "statsbomb" /\ raw.outcome = "INJURY_CLEARANCE"
              \/ input.reader = "metrica" /\ ~raw.ends.known
FirstAfter(k, Is(_)) ==
    LET later == {j \in k + 1 .. Len(loop.events) : Is(loop.events[j])}
    IN  IF later = {} THEN Absent ELSE loop.events[CHOOSE j \in later : \A l \in later : j <= l]
OutOnce ==
    Loaded => \A k \in DOMAIN loop.events :
        LET e == loop.events[k]
            Goes(next)    == next.type = "BALL_OUT" \/ (next.type \in Played /\ next.id[1] # e.id[1])
            Matters(next) == next.type \in {"BALL_OUT"} \cup Played \cup Contested
        IN  /\ (e.result = "OUT" /\ ~Untold(e)) => FirstAfter(k, Goes).type = "BALL_OUT"
            /\ (e.type = "BALL_OUT" /\ input.reader # "opta") => FirstAfter(k, Matters).type # "BALL_OUT"

\* Every raw event that stands for something on the pitch is delivered once, as
\* everything it stands for: no two events have the same id and type, only the
\* listed items are dropped, and an item that tells two things at once (a foul and
\* its card, a pass and the interception or the aerial duel it was, a duel of two
\* players, a formation seen to change) yields an event of each, of the team it is
\* about.  Of Impect everyone who left the pitch did so in some event, and nobody
\* came on twice.
\* (Of Wyscout V2 an interception out of a duel replaces the event before it; an
\* infraction of Wyscout V3 that nobody is punished for repeats the event before
\* it, so feeds with one are left out.  What an infraction of Wyscout V3 tells
\* besides the foul or the card is lost, V3Continues: the reader goes on with the
\* next item, although the comment there says that "we potentially have a card and
\* foul event for one raw event" (wyscout/deserializer_v3.py:966-970).)
Repeats(raw) ==
    input.reader = "wyscout v3" /\ raw.type = "infraction" /\ V3Punished \cap raw.tags = {}
Started(i) ==    \* Opta: the metadata, or the feed so far, says when the period starts
    LET period == input.feed[i].period
    IN  \/ input.meta.periods[period].start # NoDate
        \/ \E j \in 1..i : input.feed[j].type = "START_PERIOD" /\ input.feed[j].period = period
Silent(i) ==
    LET raw == input.feed[i]
        next == ItemAt(input.feed, i + 1)
    IN  CASE input.reader = "statsbomb"  -> raw.type = "OWN_GOAL_FOR"
          [] input.reader = "wyscout v2" ->
                 \/ raw.type = "OFFSIDE"
                 \/ raw.type = "FREE_KICK" /\ raw.kind \notin V2PassTypes \cup V2ShotTypes
                 \/ next.type = "DUEL" /\ "INTERCEPTION" \in next.tags
          [] input.reader = "opta" ->
                 \/ raw.type \in DeletedEvents \cup {"START_PERIOD", "END_PERIOD", "PLAYER_ON"}
                 \/ raw.period \notin DOMAIN loop.periods \/ ~Started(i)
          [] input.reader = "sportec" ->
                 raw.type = "FinalWhistle" \/ \A j \in 1..i : ~SportecKickOff(input.feed[j])
          [] input.reader = "datafactory" -> raw.kind = "goal"
          [] input.reader = "metrica" -> raw.type = "SET PIECE"
          [] OTHER -> FALSE
V3Continues(raw) == raw.type = "infraction" /\ V3Punished \cap raw.tags # {}
V3Shifts(raw, next, k) ==
    next # Absent /\ V3OfficialFormation(raw.formations[k]) # V3OfficialFormation(next.formations[k])
\* The <<type, team>> of the events an item must yield: those whose condition holds.
Told(i) ==
    LET raw  == input.feed[i]
        next == ItemAt(input.feed, i + 1)
        carded  == raw.tags \cap {"RED", "YELLOW", "SECOND_YELLOW", "red_card", "yellow_card"} # {}
        own(types)  == types \X {raw.team}
        both(types) == types \X {Home, Away}
        rows ==
          CASE input.reader = "statsbomb" -> {
                 <<raw.type = "FOUL_COMMITTED", own({"FOUL_COMMITTED"})>>,
                 <<raw.type \in {"FOUL_COMMITTED", "BAD_BEHAVIOUR"} /\ raw.kind \in CardType, own({"CARD"})>>,
                 <<raw.type \in AerialTypes /\ "aerial_won" \in raw.tags, own({"DUEL", raw.type})>>,
                 <<raw.kind = "ONE_TOUCH_INTERCEPTION", own({"INTERCEPTION", "PASS"})>>}
            [] input.reader = "wyscout v2" -> {
                 <<raw.type = "FOUL", own({"FOUL_COMMITTED"})>>,
                 <<raw.type = "FOUL" /\ carded, own({"CARD"})>>,
                 <<"INTERCEPTION" \in raw.tags, own({"INTERCEPTION"})>>,
                 <<"INTERCEPTION" \in raw.tags, own({raw.type, raw.kind} \cap {"PASS", "CLEARANCE"})>>}
            [] input.reader = "wyscout v3" -> {
                 <<raw.type = "infraction" /\ "foul" \in raw.tags, own({"FOUL_COMMITTED"})>>,
                 <<raw.type = "infraction" /\ carded /\ "foul" \notin raw.tags, own({"CARD"})>>,
                 <<V3Shifts(raw, next, 1) /\ ~V3Continues(raw), {<<"FORMATION_CHANGE", Home>>}>>,
                 <<V3Shifts(raw, next, 2) /\ ~V3Continues(raw), {<<"FORMATION_CHANGE", Away>>}>>}
            [] input.reader = "impect" -> {
                 <<raw.type = "GROUND_DUEL", both({"DUEL"})>>,
                 <<raw.type = "LOOSE_BALL_REGAIN", own({"RECOVERY"})>>,
                 <<raw.type = "LOOSE_BALL_REGAIN" /\ raw.tags \cap {"AERIAL_DUEL", "GROUND_DUEL"} # {}, both({"DUEL"})>>}
            [] OTHER -> {}
    IN  UNION {row[2] : row \in {r \in rows : r[1]}}
ChangesMade ==    \* by the records of both squads
    input.reader = "impect" =>
        /\ \A record \in Range(input.meta.substitutions[1] \o input.meta.substitutions[2]) :
               record.kind = "out" =>
                   \E e \in Delivered : /\ e.player = record.player
                                        /\ \/ e.type \in {"SUBSTITUTION", "PLAYER_OFF"}
                                           \/ e.type = "CARD" /\ e.result \in {"RED", "SECOND_YELLOW"}
        /\ \A d, e \in Delivered :
               (d.type = "SUBSTITUTION" /\ e.type = "SUBSTITUTION" /\ d.receiver = e.receiver) => d = e
EachOnce ==
    (Loaded /\ ~\E raw \in Range(input.feed) : Repeats(raw)) =>
        /\ \A j, k \in DOMAIN loop.events :
               (loop.events[j].id = loop.events[k].id /\ loop.events[j].type = loop.events[k].type) => j = k
        /\ \A i \in DOMAIN input.feed :
               LET made == {e \in Delivered : e.id[1] = input.feed[i].id}
               IN  Silent(i) \/ (made # {} /\ Told(i) \subseteq {<<e.type, e.team>> : e \in made})
        /\ ChangesMade

\* The events come in the order of the match, although ball outs, card, duels
\* and substitutions are made up and put between them, and each lies inside the
\* period it refers to.  (Of Wyscout V2 most refer to a period without an end;
\* the periods of Impect are too long from the second one on.)
MatchOrder ==
    Loaded =>
        /\ \A k \in 1 .. Len(loop.events) - 1 : ~Earlier(loop.events[k + 1], loop.events[k])
        /\ \A e \in Delivered :
               LET period == loop.periods[e.period]
               IN  /\ e.period \in DOMAIN loop.periods
                   /\ e.time >= 0
                   /\ e.ended => e.time <= period.end - period.start

\* A dataset tells the same whatever it is asked: an event is found by a selector
\* with a type and a result exactly when its row says so; a qualifier is in the row
\* exactly when the event has one, with the value the event gives first if it has
\* only one; the columns asked for are those of the whole table, for every event,
\* and so are the rows of a part of the events; and the id in a row leads to the
\* event or to another one of the same raw item (Event.matches, to_dict and the
\* transformers of records; of several qualifiers of one type the table has the
\* last and get_qualifier_value the first).
Results == ShotResult \cup PassResult \cup CarryResult \cup DuelResult \cup InterceptionResult \cup CardType
QualifierTypes == {q[1] : q \in Qualifiers}
Asked == <<Name("pass_type"), Name("card_type"), Glob({"result", "success"}), Name("record_id"),
           Computed("successful"), Constant("match", "one")>>
RowsAgree ==
    Loaded /\ export.stage = "none" =>
        LET events == loop.events
            table  == to_dict(events, <<>>)
            picked == to_dict(events, Asked)
            cell(name, k) == IF name \in DOMAIN table THEN table[name][k] ELSE None
            same(name, k) == picked[name][k] = cell(name, k)
            even(columns)  == \A name \in DOMAIN columns : Len(columns[name]) = Len(events)
        IN  /\ even(table) /\ even(picked)
            /\ \A k \in DOMAIN events :
                 /\ \A type \in EventTypes :
                        /\ matches(events[k], <<type>>) <=> cell("event_type", k) = Some(type)
                        /\ \A result \in Results :
                               matches(events[k], <<type, result>>) <=>
                                   /\ cell("event_type", k) = Some(type)
                                   /\ cell("result", k) = Some(result)
                 /\ \A type \in QualifierTypes :
                        LET values == ValuesOf(events[k], type)
                            shown  == cell(Column(type), k)
                        IN  events[k].type # "CARD" =>
                                /\ shown = None <=> values = <<>>
                                /\ Len(values) = 1 => shown = Some(ValueOf(events[k], type))
                                /\ values # <<>> => shown[1] \in Range(values)
                 /\ \A name \in {"pass_type", "card_type", "result", "success"} : same(name, k)
                 /\ picked["successful"][k] = Some(TRUE) <=> cell("success", k) = Some(TRUE)
                 /\ get_record_by_id(events, picked["record_id"][k][1])[1].id[1] = events[k].id[1]
            /\ \A selector \in Selectors :
                   to_records(find_all(events, selector), <<>>) =
                       SelectSeq(to_records(events, <<>>), LAMBDA row :
                           /\ Len(selector) > 0 => row.event_type = Some(selector[1])
                           /\ Len(selector) > 1 => row.result = Some(selector[2]))

\* Codes keep their place in the match.  Read back, there is one for each, in
\* order, with its name and labels (of a list the last item, a text of digits as
\* a number), as long after another as it was in the match, within the one period
\* the file has; saved again, the file is the same.  A file that cannot be read
\* was never serialized (SportsCodeSerializer, SportsCodeDeserializer).
Said(value) == value[2]
LabelKept(value, labels, group) ==
    CASE value[1] = "list" -> IF value[2] = <<>> THEN group \notin DOMAIN labels
                              ELSE Said(labels[group]) = Said(Last(value[2]))
      [] value[1] = "flag" -> labels[group] = Flag(TRUE)
      [] OTHER             -> Said(labels[group]) = Said(value)
CodesInPlace ==
    LET codes == export.codes
        read  == export.read.codes
        Lasts(p) == loop.periods[p].end - loop.periods[p].start
        Between(p, q) == FoldSet(LAMBDA r, sum : sum + Lasts(r), 0, {r \in DOMAIN loop.periods : p < r /\ r < q})
        After(j, k) == IF codes[j].period = codes[k].period THEN codes[k].start - codes[j].start
                       ELSE (Lasts(codes[j].period) - codes[j].start)
                            + Between(codes[j].period, codes[k].period) + codes[k].start
        Following(j, k) == read[k].start - read[j].start
    IN  /\ export.stage = "unreadable" =>
               \E code \in Range(codes) : \E group \in DOMAIN code.labels : code.labels[group] = Flag(FALSE)
        /\ export.stage = "read" =>
               /\ Len(read) = Len(codes)
               /\ \A k \in DOMAIN codes :
                      /\ read[k].code = codes[k].code
                      /\ read[k].end - read[k].start = codes[k].end - codes[k].start
                      /\ codes[k].period = 1 => read[k].start = codes[k].start
                      /\ 0 <= read[k].start /\ read[k].end <= export.read.periods[1].end
                      /\ \A group \in DOMAIN codes[k].labels :
                             LabelKept(codes[k].labels[group], read[k].labels, group)
                      /\ \A j \in 1 .. k : Following(j, k) = After(j, k) /\ Following(j, k) >= 0
               /\ deserialize(serialize(export.read.periods, read)) = export.read
=============================================================================
