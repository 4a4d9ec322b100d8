------------------------------ MODULE EventModel ------------------------------
(***************************************************************************)
(* Events as the domain defines them (domain/models/event.py) and what the *)
(* readers of event data share.                                            *)
(*                                                                         *)
(* An event is a record.  Its id is a pair: the id of the raw item it was  *)
(* made from and a prefix or suffix ("" for the item itself).  Of places   *)
(* only "is there one" matters and of bodies nothing: statistics,          *)
(* coordinates and freeze frames are left out.  Qualifiers are a sequence  *)
(* of pairs <<type, value>>, in the order the code appends them.           *)
(***************************************************************************)
EXTENDS Integers, Sequences, FiniteSets, SequencesExt, TLC

Home == "home"
Away == "away"
Nobody == "nobody"
Opponent(team) == IF team = Home THEN Away ELSE Home
NotRaised == "-"
NoResult == "no result"
NoValue == "no value"

EventTypes ==
    {"GENERIC", "PASS", "SHOT", "TAKE_ON", "CARRY", "CLEARANCE", "INTERCEPTION", "DUEL",
     "SUBSTITUTION", "CARD", "PLAYER_ON", "PLAYER_OFF", "RECOVERY", "MISCONTROL", "BALL_OUT",
     "FOUL_COMMITTED", "GOALKEEPER", "PRESSURE", "FORMATION_CHANGE"}

ShotResult == {"GOAL", "OFF_TARGET", "POST", "BLOCKED", "SAVED", "OWN_GOAL"}
PassResult == {"COMPLETE", "INCOMPLETE", "OUT", "OFFSIDE"}
TakeOnResult == {"COMPLETE", "INCOMPLETE", "OUT"}
CarryResult == {"COMPLETE", "INCOMPLETE"}
DuelResult == {"WON", "LOST", "NEUTRAL"}
InterceptionResult == {"SUCCESS", "LOST", "OUT"}
CardType == {"FIRST_YELLOW", "SECOND_YELLOW", "RED"}

\* What an event of each type may have as result, NoResult apart.  (The type of
\* a card is kept in the same place.)
ResultsOf(type) ==
    CASE type = "SHOT" -> ShotResult
      [] type = "PASS" -> PassResult
      [] type = "TAKE_ON" -> TakeOnResult
      [] type = "CARRY" -> CarryResult
      [] type = "DUEL" -> DuelResult
      [] type = "INTERCEPTION" -> InterceptionResult
      [] type = "CARD" -> CardType
      [] OTHER -> {}

SetPieceType == {"GOAL_KICK", "FREE_KICK", "THROW_IN", "CORNER_KICK", "PENALTY", "KICK_OFF"}
PassType ==
    {"CROSS", "HAND_PASS", "HEAD_PASS", "HIGH_PASS", "LAUNCH", "SIMPLE_PASS", "SMART_PASS",
     "LONG_BALL", "THROUGH_BALL", "CHIPPED_PASS", "FLICK_ON", "SHOT_ASSIST", "ASSIST",
     "ASSIST_2ND", "SWITCH_OF_PLAY"}
BodyPart ==
    {"RIGHT_FOOT", "LEFT_FOOT", "HEAD", "OTHER", "HEAD_OTHER", "BOTH_HANDS", "CHEST",
     "LEFT_HAND", "RIGHT_HAND", "DROP_KICK", "KEEPER_ARM", "NO_TOUCH"}
GoalkeeperActionType ==
    {"SAVE", "CLAIM", "PUNCH", "PICK_UP", "SMOTHER", "REFLEX", "SAVE_ATTEMPT"}
DuelType == {"AERIAL", "GROUND", "LOOSE_BALL", "SLIDING_TACKLE", "TACKLE"}
Qualifiers ==
    ({"SetPiece"} \X SetPieceType) \cup ({"Pass"} \X PassType) \cup ({"BodyPart"} \X BodyPart)
    \cup ({"Goalkeeper"} \X GoalkeeperActionType) \cup ({"Duel"} \X DuelType)
    \cup ({"Card"} \X CardType)
    \cup ({"CounterAttack"} \X {"TRUE", "FALSE"}) \cup {<<"UnderPressure", "TRUE">>}

SetPiece(value)   == <<"SetPiece", value>>
PassQ(value)      == <<"Pass", value>>
Body(value)       == <<"BodyPart", value>>
Keeper(value)     == <<"Goalkeeper", value>>
DuelQ(value)      == <<"Duel", value>>
CardQ(value)      == <<"Card", value>>
CounterAttack     == <<"CounterAttack", "TRUE">>
NoCounterAttack   == <<"CounterAttack", "FALSE">>
UnderPressure     == <<"UnderPressure", "TRUE">>

\* The types whose class is a QualifierMixin; the other events may carry
\* qualifiers but do not show them.
Qualified ==
    EventTypes \ {"GENERIC", "SUBSTITUTION", "CARD", "PLAYER_ON", "PLAYER_OFF", "FORMATION_CHANGE"}
\* The types whose class is a ResultMixin.
WithResult == {"SHOT", "PASS", "TAKE_ON", "CARRY", "INTERCEPTION", "DUEL"}
Shown(event) == IF event.type \in Qualified THEN event.quals ELSE <<>>

\* QualifierMixin: the values of a type of qualifier, and the first of them.
ValuesOf(event, type) ==
    LET found == SelectSeq(Shown(event), LAMBDA q : q[1] = type)
    IN  [k \in DOMAIN found |-> found[k][2]]
ValueOf(event, type) ==
    IF ValuesOf(event, type) = <<>> THEN NoValue ELSE ValuesOf(event, type)[1]

\* What all the events made of one raw item have in common; the raw items of
\* every provider have these fields.
Generic(raw) ==
    [id |-> <<raw.id, "">>, type |-> "GENERIC", result |-> NoResult, quals |-> <<>>,
     team |-> raw.team, player |-> raw.player, receiver |-> NoValue,
     period |-> raw.period, time |-> raw.time, owner |-> Nobody, state |-> "ALIVE",
     ended |-> TRUE]    \* the Period it refers to is the finished one
\* EventFactory.build_<type>.
Build(event, type, result, quals) ==
    [event EXCEPT !.type = type, !.result = result, !.quals = quals]
Plain(event, type)     == Build(event, type, NoResult, <<>>)
Called(event, affix)   == [event EXCEPT !.id = <<@[1], affix>>]
\* The ball left the field.
BallOut(event)         == Plain([event EXCEPT !.state = "DEAD"], "BALL_OUT")

\* A chain of tests on what a raw item has: the first that holds decides.
First(tests, tags) ==
    LET hits == SelectSeq(tests, LAMBDA test : test[1] \in tags)
    IN  IF hits = <<>> THEN NoValue ELSE hits[1][2]
\* The same for qualifiers: none or one.
FirstQualifier(tests, tags) ==
    LET value == First(tests, tags) IN IF value = NoValue THEN <<>> ELSE <<value>>
\* Independent tests: each that holds adds its qualifier, in order.
AllQualifiers(tests, tags) ==
    LET hits == SelectSeq(tests, LAMBDA test : test[1] \in tags)
    IN  [k \in DOMAIN hits |-> hits[k][2]]

\* The loop of a reader: the events and periods so far, what it carries from
\* one item to the next, and how it ended.  Time is counted in half minutes.
Span(start, end)    == [start |-> start, end |-> end]
NoPeriods           == [p \in {} |-> Span(0, 0)]
Start(carry)        == [events |-> <<>>, periods |-> NoPeriods, carry |-> carry, raised |-> NotRaised]
Emit(loop, events)  == [loop EXCEPT !.events = @ \o events]
Fail(loop, error)   == [loop EXCEPT !.raised = error]
\* Neighbours in the feed; Absent stands for None.
Absent == [type |-> "absent"]
ItemAt(feed, i) == IF i \in DOMAIN feed THEN feed[i] ELSE Absent
\* When the clock of the match shows the start of each period.
FixedStart == <<0, 90, 180, 210, 240>>
\* Periods that are found in the feed: a period starts when the one before it
\* ended and ends with the last item of it.
PeriodsOf(feed) ==
    LET ids    == SetToSortSeq({feed[i].period : i \in DOMAIN feed}, <)
        last(p) == feed[CHOOSE i \in DOMAIN feed :
                          feed[i].period = p /\ (i = Len(feed) \/ feed[i + 1].period # p)].time
        End[k \in 0..Len(ids)] == IF k = 0 THEN 0 ELSE End[k - 1] + last(ids[k])
    IN  [p \in Range(ids) |-> LET k == CHOOSE j \in DOMAIN ids : ids[j] = p
                              IN  Span(End[k - 1], End[k])]
=============================================================================
