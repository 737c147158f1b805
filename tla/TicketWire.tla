----------------------------- MODULE TicketWire -----------------------------
(***************************************************************************)
(* A ticket's next action on its way from the browser to the stored ticket *)
(* and back: JSON at the gateway (lbrp/src/routes.rs), protobuf between    *)
(* gateway and custodian (custodian/src/server.rs), the domain type in the *)
(* stored ticket.  The status travels as its code.                         *)
(*                                                                         *)
(* A time is a pair of seconds and nanoseconds where it has both.          *)
(***************************************************************************)
EXTENDS Integers

CONSTANT MaxSeconds  \* the last second that chrono can represent

Null == [type |-> "null"]  \* an absent JSON or protobuf field

NoAction == [kind |-> "None"]

Timed == {"FollowUp", "Appointment"}

-----------------------------------------------------------------------------
(* Custodian: domain and protobuf. *)

\* AutoCloseSchedule: the numbers of the protobuf enum.
ScheduleNumber ==
  [EndOfDay |-> 1, Hours24 |-> 2, Hours48 |-> 3, Hours72 |-> 4]

\* Numbers that are not assigned mean the end of the day.
ProtoToAutoClose(n) ==
  IF \E s \in DOMAIN ScheduleNumber : ScheduleNumber[s] = n
  THEN CHOOSE s \in DOMAIN ScheduleNumber : ScheduleNumber[s] = n
  ELSE "EndOfDay"

\* A time that chrono cannot represent becomes the epoch, a negative number of
\* nanoseconds none.
ProtoToDt(ts) ==
  IF ts[1] \in (-MaxSeconds)..MaxSeconds
  THEN <<ts[1], IF ts[2] < 0 THEN 0 ELSE ts[2]>>
  ELSE <<0, 0>>

\* map_next_action: no action is an absent message.
MapNextAction(a) ==
  IF a.kind = "None" THEN Null
  ELSE IF a.kind \in Timed THEN [type |-> a.kind, ts |-> a.at]
  ELSE [type |-> "AutoClose", number |-> ScheduleNumber[a.schedule]]

\* proto_to_next_action: a message without a kind clears the action.
ProtoToNextAction(p) ==
  IF p = Null THEN NoAction
  ELSE IF p.type \in Timed THEN [kind |-> p.type, at |-> ProtoToDt(p.ts)]
  ELSE [kind |-> "AutoClose", schedule |-> ProtoToAutoClose(p.number)]

-----------------------------------------------------------------------------
(* Gateway: protobuf and JSON. *)

RestTimed == [FollowUp |-> "follow_up", Appointment |-> "appointment"]

RestSchedule == [EndOfDay |-> "end_of_day", Hours24 |-> "hours_24",
                 Hours48 |-> "hours_48", Hours72 |-> "hours_72"]

\* map_next_action: JSON shows whole seconds.
RestNextAction(p) ==
  IF p = Null THEN Null
  ELSE IF p.type \in Timed THEN [type |-> RestTimed[p.type], at |-> p.ts[1]]
  ELSE [type |-> "auto_close", schedule |-> RestSchedule[ProtoToAutoClose(p.number)]]

\* The schedule of a name; any other name is the end of the day.
ScheduleNamed(name) ==
  IF \E s \in DOMAIN RestSchedule : RestSchedule[s] = name
  THEN CHOOSE s \in DOMAIN RestSchedule : RestSchedule[s] = name
  ELSE "EndOfDay"

\* Variant: a day is the shortest schedule that is told apart.
ToProtoNextActionDays(input) ==
  IF input.type = "none" THEN Null
  ELSE IF input.type = "auto_close"
  THEN [type |-> "AutoClose", number |-> ScheduleNumber["EndOfDay"]]
  ELSE [type |-> CHOOSE k \in Timed : RestTimed[k] = input.type, ts |-> <<input.at, 0>>]

\* to_proto_next_action: "none" is a message without a kind.
ToProtoNextAction(input) ==
  IF input.type = "none" THEN Null
  ELSE IF input.type = "auto_close"
  THEN [type |-> "AutoClose", number |-> ScheduleNumber[ScheduleNamed(input.schedule)]]
  ELSE [type |-> CHOOSE k \in Timed : RestTimed[k] = input.type, ts |-> <<input.at, 0>>]
=============================================================================
