-------------------------------- MODULE Export --------------------------------
(***************************************************************************)
(* What a dataset of events can be asked for: the events a selector        *)
(* matches, and a table with one row for each event.                       *)
(*                                                                         *)
(* A row is a function from names of columns to cells; a cell is None or   *)
(* <<value>>.  The columns of places and of times an event ends with are   *)
(* left out, as the events have none.                                      *)
(***************************************************************************)
EXTENDS EventModel

None == <<>>
Some(value) == <<value>>
Optional(value, absent) == IF value = absent THEN None ELSE Some(value)

is_success(result) == result \in {"GOAL", "COMPLETE", "WON", "SUCCESS"}
ResultOf(event) == IF event.type \in WithResult THEN event.result ELSE NoResult

----
\* Selectors: <<>> is no selector, <<type>>, or <<type, result>>.
MatchesType(event, selector) == selector = <<>> \/ event.type = selector[1]
\* ResultMixin.matches, and Event.matches for the other classes.  A result is
\* looked up by its name in the class of the event's own result.
matches(event, selector) ==
    /\ MatchesType(event, selector)
    /\ Len(selector) = 2 =>
           /\ event.type \in WithResult /\ event.result # NoResult
           /\ selector[2] \in ResultsOf(event.type) /\ event.result = selector[2]
find_all(events, selector) == SelectSeq(events, LAMBDA e : matches(e, selector))
get_record_by_id(events, id) ==
    LET found == SelectSeq(events, LAMBDA e : e.id = id)
    IN  IF found = <<>> THEN None ELSE Some(found[1])

----
\* Qualifier.to_dict: the column of each type of qualifier.
Column(type) ==
    CASE type = "SetPiece"      -> "set_piece_type"
      [] type = "Pass"          -> "pass_type"
      [] type = "BodyPart"      -> "body_part_type"
      [] type = "Goalkeeper"    -> "goalkeeper_type"
      [] type = "Duel"          -> "duel_type"
      [] type = "Card"          -> "card_type"
      [] type = "CounterAttack" -> "is_counter_attack"
      [] type = "UnderPressure" -> "is_under_pressure"

CommonColumns(event) ==
    [event_id         |-> Some(event.id),
     event_type       |-> Some(event.type),
     period_id        |-> Some(event.period),
     timestamp        |-> Some(event.time),
     ball_state       |-> Optional(event.state, "unknown"),
     ball_owning_team |-> Optional(event.owner, Nobody),
     team_id          |-> Optional(event.team, Nobody),
     player_id        |-> Optional(event.player, NoValue)]
OwnColumns(event) ==
    CASE event.type = "PASS" -> [receiver_player_id |-> Optional(event.receiver, NoValue)]
      [] event.type = "CARD" -> [card_type |-> Optional(event.result, NoResult)]
      [] OTHER -> <<>>
\* row.update for one qualifier after the other: the last of a type stays.
QualifierColumns(event) ==
    LET shown == Shown(event)
        last(type) == CHOOSE k \in DOMAIN shown :
                          /\ shown[k][1] = type
                          /\ \A j \in DOMAIN shown : shown[j][1] = type => j <= k
    IN  [name \in {Column(shown[k][1]) : k \in DOMAIN shown} |->
            LET type == CHOOSE t \in {shown[k][1] : k \in DOMAIN shown} : Column(t) = name
            IN  Some(shown[last(type)][2])]
ResultColumns(event) ==
    [result  |-> Optional(ResultOf(event), NoResult),
     success |-> IF ResultOf(event) = NoResult THEN None ELSE Some(is_success(event.result))]
\* What comes later overwrites.
DefaultRow(event) ==
    ResultColumns(event) @@ QualifierColumns(event) @@ OwnColumns(event) @@ CommonColumns(event)

----
\* Columns: all of them ("*"), those a pattern matches, one by name, what a
\* function returns, and a constant given by keyword.
All == [kind |-> "all"]
Glob(names) == [kind |-> "glob", names |-> names]
Name(name) == [kind |-> "name", name |-> name]
Computed(name) == [kind |-> "function", name |-> name]
Constant(name, value) == [kind |-> "constant", name |-> name, value |-> value]
Selected(row, names) == [name \in DOMAIN row \cap names |-> row[name]]
\* getattr of an event, for a name that is no column of its row.
Attribute(event, name) == IF name = "record_id" THEN Some(event.id) ELSE None
Converted(column, event) ==
    LET row == DefaultRow(event)
    IN  CASE column.kind = "all"      -> row
          [] column.kind = "glob"     -> Selected(row, column.names)
          [] column.kind = "name"     -> column.name :> (IF column.name \in DOMAIN row THEN row[column.name]
                                                         ELSE Attribute(event, column.name))
          [] column.kind = "function" -> column.name :> Some(is_success(ResultOf(event)))
          [] column.kind = "constant" -> column.name :> Some(column.value)
\* DataRecordToDictTransformer: the columns one after the other, keywords last.
Row(columns, event) ==
    IF columns = <<>> THEN DefaultRow(event)
    ELSE FoldLeft(LAMBDA row, column : Converted(column, event) @@ row, <<>>, columns)
to_records(events, columns) == [k \in DOMAIN events |-> Row(columns, events[k])]
\* Fault: a column is opened with the rows read so far only
TableOfRowsRead(events, columns) ==
    LET rows == to_records(events, columns)
        first(name) == CHOOSE k \in DOMAIN rows :
                           name \in DOMAIN rows[k] /\ \A j \in 1 .. k - 1 : name \notin DOMAIN rows[j]
    IN  [name \in UNION {DOMAIN rows[k] : k \in DOMAIN rows} |->
            [k \in 1 .. Len(rows) - first(name) + 1 |->
                LET j == k + first(name) - 1 IN IF name \in DOMAIN rows[j] THEN rows[j][name] ELSE None]]
\* to_dict: a column for every name some row has, None where a row has none.
to_dict(events, columns) ==
    LET rows == to_records(events, columns)
    IN  [name \in UNION {DOMAIN rows[k] : k \in DOMAIN rows} |->
            [k \in DOMAIN rows |-> IF name \in DOMAIN rows[k] THEN rows[k][name] ELSE None]]

----------------------------------------------------------------------------
(***************************************************************************)
(* Code data: a dataset of codes made from events, saved as a SportsCode   *)
(* file and read back.                                                     *)
(*                                                                         *)
(* A code has the id None or Some(id), a name, a period, when it starts    *)
(* and ends in that period, and labels: a function from groups to texts,   *)
(* numbers, flags, or lists of these.  The file has one clock for the      *)
(* whole match.                                                            *)
(***************************************************************************)

Text(text)     == <<"text", text>>
Number(digits) == <<"number", digits>>
Flag(is)       == <<"flag", is>>
List(items)    == <<"list", items>>
Numerals == {ToString(n) : n \in 0 .. 9}
\* parse_value: what looks like a number becomes one.
parse_value(text) == IF text \in Numerals THEN Number(text) ELSE Text(text)

\* CodeDataset.from_dataset with the mapper of the user guide: a code around each
\* event, numbered when it is written; every says whether the flag is set for
\* every event or for the successful ones only.
Around == 1
Code(event, every) ==
    LET flagged == is_success(ResultOf(event))
        labels  == [team       |-> Text(event.team),
                    half       |-> Number(ToString(event.period)),
                    digits     |-> Text(ToString(event.period)),
                    qualifiers |-> List([k \in DOMAIN Shown(event) |-> Text(Shown(event)[k][1])])]
    IN  [id |-> None, code |-> event.type, period |-> event.period,
         start |-> IF event.time > Around THEN event.time - Around ELSE 0, end |-> event.time + Around,
         labels |-> IF flagged \/ every THEN labels @@ [success |-> Flag(flagged)] ELSE labels]
from_dataset(events, every) == [k \in DOMAIN events |-> Code(events[k], every)]

----
\* The periods before that of the code, in the order of the metadata.
DurationOf(periods, ids) == FoldSet(LAMBDA p, sum : sum + (periods[p].end - periods[p].start), 0, ids)
\* Fault: the duration is added before the period is compared
RelativeStartWithOwn(periods, code) == DurationOf(periods, {p \in DOMAIN periods : p <= code.period})
RelativeStart(periods, code) == DurationOf(periods, {p \in DOMAIN periods : p < code.period})

Label(group, text) == [group |-> group, text |-> text]
\* The elements of one label: one, or one for each item of a list that is no flag.
Elements(group, value) ==
    CASE value[1] = "list" ->
            LET items == SelectSeq(value[2], LAMBDA item : item[1] # "flag")
            IN  [k \in DOMAIN items |-> Label(Some(group), items[k][2])]
      [] value[1] = "flag" -> <<Label(None, group)>>
      [] OTHER             -> <<Label(Some(group), value[2])>>
Unserializable(codes) ==
    \E k \in DOMAIN codes : \E group \in DOMAIN codes[k].labels : codes[k].labels[group] = Flag(FALSE)
Instance(periods, codes, k) ==
    LET code   == codes[k]
        groups == SetToSeq(DOMAIN code.labels)
    IN  [id     |-> IF code.id = None THEN ToString(k) ELSE code.id[1],
         start  |-> RelativeStart(periods, code) + code.start,
         end    |-> RelativeStart(periods, code) + code.end,
         code   |-> code.code,
         labels |-> FlattenSeq([g \in DOMAIN groups |-> Elements(groups[g], code.labels[groups[g]])])]
\* SportsCodeSerializer.serialize
serialize(periods, codes) == [k \in DOMAIN codes |-> Instance(periods, codes, k)]

\* parse_labels: a label without a group is a flag; of a group told more than
\* once the last text stays.
parse_labels(elements) ==
    FoldLeft(LAMBDA labels, label :
                 (IF label.group = None THEN label.text :> Flag(TRUE)
                  ELSE label.group[1] :> parse_value(label.text)) @@ labels, <<>>, elements)
\* SportsCodeDeserializer.deserialize: one period, which ends with the last code.
deserialize(instances) ==
    [periods |-> (1 :> Span(0, IF instances = <<>> THEN 0 ELSE Last(instances).end)),
     codes   |-> [k \in DOMAIN instances |->
                     [id |-> Some(instances[k].id), code |-> instances[k].code, period |-> 1,
                      start |-> instances[k].start, end |-> instances[k].end,
                      labels |-> parse_labels(instances[k].labels)]]]

----
\* sportscode.save and sportscode.load.  The file is opened before the codes are
\* serialized, and what is buffered is written even if that raises: then there is
\* a file without a document in it, which cannot be read.
save(periods, codes) == IF Unserializable(codes) THEN None ELSE Some(serialize(periods, codes))

\* A code dataset on its way: made, saved, and read back or found unreadable.
NoCodes == deserialize(<<>>)
NoExport == [stage |-> "none", codes |-> <<>>, file |-> None, read |-> NoCodes]
Made(codes) == [NoExport EXCEPT !.stage = "made", !.codes = codes]
Stored(export, periods) == [export EXCEPT !.stage = "saved", !.file = save(periods, export.codes)]
Read(export) ==
    IF export.file = None THEN [export EXCEPT !.stage = "unreadable"]
    ELSE [export EXCEPT !.stage = "read", !.read = deserialize(export.file[1])]

==============================================================================
