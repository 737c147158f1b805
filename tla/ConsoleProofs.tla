--------------------------- MODULE ConsoleProofs ---------------------------
(***************************************************************************)
(* Proofs about Console, for any tickets, titles, times, keys, changes     *)
(* from outside, requests in flight and bounds.                            *)
(***************************************************************************)
EXTENDS Console, WellFoundedInduction, TLAPS

Existing == {t \in Ids : store[t] # NoTicket}

\* What the page can show of a next action and of a ticket.
ShownAction ==
  {Null}
    \cup [type : {"follow_up", "appointment"}, at : (-MaxSeconds)..MaxSeconds]
    \cup [type : {"auto_close"}, schedule : {RestSchedule[s] : s \in DOMAIN RestSchedule}]

Shape == [id : Ids, title : Titles, status : STATUSES, next_action : ShownAction]

Row(ids) == {row \in Shape : row.id \in ids}

\* The next action that a save of the form f leaves.
Wanted(f) ==
  IF f.kind = "none" THEN Null
  ELSE IF f.kind = "auto_close" THEN [type |-> f.kind, schedule |-> f.schedule]
  ELSE [type |-> f.kind,
        at |-> IF f.at \in (-MaxSeconds)..MaxSeconds THEN f.at ELSE 0]

\* The field x of the ticket `row` is what a save of the form f leaves; a field that is
\* not sent leaves anything.
Agrees(x, f, row) ==
  CASE x = "title"       -> f.title # Blank => row.title = f.title
    [] x = "status"      -> row.status = f.status
    [] x = "next_action" -> f.kind # "unchanged" => row.next_action = Wanted(f)

ShowsAll(f, row) == \A x \in Fields : Agrees(x, f, row)

-----------------------------------------------------------------------------
\* What the DB keeps is sealed by a custodian.
StoreTyped ==
  /\ store \in [Ids -> {NoTicket} \cup [kem : Keys, body : Body]]
  /\ locked \in [Ids -> BOOLEAN]
  /\ route \in Keys

PageTyped ==
  /\ token \in BOOLEAN
  /\ page \in {"login", "tickets"}
  /\ ticket \in {Null} \cup Row(Existing)
  /\ results \subseteq Row(Existing)
  /\ form \in Form
  /\ about \in [Fields -> Existing \cup {0}]
  /\ hasty \in BOOLEAN /\ touched \in BOOLEAN /\ created \in BOOLEAN

\* What a save that was asked for carries: a form that the page let through, with the
\* fields that are foreign to its ticket explained.
GoodSave(a, ids) ==
  /\ a.loaded \in Row(ids) /\ a.id = a.loaded.id
  /\ a.form \in Form /\ a.body = UpdateBody(a.form)
  /\ can_transition(a.loaded.status, a.form.status)
  /\ a.form.kind \in {"follow_up", "appointment"} => a.form.at \in Int
  /\ a.foreign = {} \/ a.hasty \/ (a.created /\ a.foreign = {"next_action"})
  /\ (a.foreign = {} /\ ~ a.hasty /\ ~ a.touched) => ShowsAll(a.form, a.loaded)

GoodArgs(name, args, ids) ==
  /\ name \in {"login"} \cup DOMAIN RouteError
  /\ name = "get_ticket" => args.id \in Ids
  /\ name = "create_ticket" => args.title \in Titles
  /\ name = "update_ticket" => GoodSave(args, ids)

\* The ticket of an answer is a stored one, and a save's shows what was saved.
GoodAnswer(name, args, answer, ids) ==
  (answer # Null /\ IsOk(answer)) =>
    /\ name \in {"get_ticket", "create_ticket", "update_ticket"} => answer.ticket \in Row(ids)
    /\ name = "list_tickets" => answer.tickets \subseteq Row(ids)
    /\ name = "update_ticket" =>
         answer.ticket.id = args.id /\ ShowsAll(args.form, answer.ticket)

GoodCall(r, ids) ==
  /\ DOMAIN r = {"route", "args", "live", "answer"}
  /\ r.live \in BOOLEAN
  /\ GoodArgs(r.route, r.args, ids)
  /\ GoodAnswer(r.route, r.args, r.answer, ids)

CallsTyped ==
  /\ DOMAIN call = Calls
  /\ \A c \in Calls : call[c] = Idle \/ GoodCall(call[c], Existing)

\* A form is about the ticket that is loaded, and shows it until the user changes it,
\* unless answers crossed or a ticket was created over the form.
FormPlaced ==
  ticket # Null =>
    \A x \in Fields :
      /\ about[x] = ticket.id \/ hasty \/ (created /\ x = "next_action")
      /\ (about[x] = ticket.id /\ ~ hasty /\ ~ touched) => Agrees(x, form, ticket)

\* As long as the user waits for answers, there is one request at most; if it is a save,
\* the page still shows the ticket and the form it took them from; if it is a creation,
\* the form is about older tickets.
OneAtATime == \A c, d \in InFlight : c = d \/ hasty

LoginAlone ==
  /\ page = "login" => \A c, d \in InFlight : c = d
  /\ \A c \in InFlight : call[c].route = "login" => page = "login"

SavePlaced(c) ==
  /\ hasty \/ (ticket # Null /\ ticket.id = call[c].args.id)
  /\ hasty \/ touched \/ form = call[c].args.form

CreationPlaced(c) ==
  hasty \/ call[c].answer = Null \/ ~ IsOk(call[c].answer)
    \/ about["next_action"] # call[c].answer.ticket.id

FlightPlaced ==
  \A c \in InFlight :
    /\ call[c].route = "update_ticket" => SavePlaced(c)
    /\ call[c].route = "create_ticket" => CreationPlaced(c)

ConsoleInv ==
  /\ StoreTyped
  /\ PageTyped
  /\ CallsTyped
  /\ FormPlaced
  /\ OneAtATime
  /\ LoginAlone
  /\ FlightPlaced

-----------------------------------------------------------------------------
(* The page's lifecycle and the conversions.                               *)

LEMMA CodesUnique ==
  ASSUME NEW n, NEW s, <<n, s>> \in L!StatusCodes
  PROVE  \/ n = 1 /\ s = "AwaitingCustomer"
         \/ n = 2 /\ s = "AwaitingISP"
         \/ n = 3 /\ s = "AwaitingPartner"
         \/ n = 4 /\ s = "SupportHold"
         \/ n = 5 /\ s = "HandedOff"
         \/ n = 6 /\ s = "AppointmentScheduled"
         \/ n = 7 /\ s = "EbondReceived"
         \/ n = 8 /\ s = "VoicemailReceived"
         \/ n = 254 /\ s = "AutoClose"
         \/ n = 255 /\ s = "Closed"
BY DEF L!StatusCodes

LEMMA TicketStatusIs ==
  /\ L!TicketStatus = {"Open", "AwaitingCustomer", "AwaitingISP", "AwaitingPartner",
                       "SupportHold", "HandedOff", "AppointmentScheduled", "EbondReceived",
                       "VoicemailReceived", "AutoClose", "Closed"}
  /\ STATUSES = {0, 1, 2, 3, 4, 5, 6, 7, 8, 254, 255}
BY DEF L!TicketStatus, L!Awaiting, L!Terminal, STATUSES, AUTO_CLOSE, CLOSED

\* A status and its code name each other.
LEMMA CodePair ==
  ASSUME NEW n, NEW s, <<n, s>> \in L!StatusCodes
  PROVE  Code(s) = n /\ L!FromU8(L!AsByte(n)) = s
<1>1. n \in 1..255 /\ n \in 0..255 /\ s # "Open" /\ s \in L!TicketStatus
  BY CodesUnique, TicketStatusIs
<1>2. \A k \in 1..255 : <<k, s>> \in L!StatusCodes => k = n
  BY CodesUnique
<1>3. \A x \in L!TicketStatus : <<n, x>> \in L!StatusCodes => x = s
  BY CodesUnique
<1>4. Code(s) = n
  BY <1>1, <1>2 DEF Code
<1>5. L!FromU8(n) = s
  BY <1>1, <1>3 DEF L!FromU8
<1> QED BY <1>1, <1>4, <1>5 DEF L!AsByte

LEMMA CodesAre ==
  /\ Code("Open") = 0 /\ L!FromU8(L!AsByte(0)) = "Open"
  /\ Code("AwaitingCustomer") = 1 /\ L!FromU8(L!AsByte(1)) = "AwaitingCustomer"
  /\ Code("AwaitingISP") = 2 /\ L!FromU8(L!AsByte(2)) = "AwaitingISP"
  /\ Code("AwaitingPartner") = 3 /\ L!FromU8(L!AsByte(3)) = "AwaitingPartner"
  /\ Code("SupportHold") = 4 /\ L!FromU8(L!AsByte(4)) = "SupportHold"
  /\ Code("HandedOff") = 5 /\ L!FromU8(L!AsByte(5)) = "HandedOff"
  /\ Code("AppointmentScheduled") = 6 /\ L!FromU8(L!AsByte(6)) = "AppointmentScheduled"
  /\ Code("EbondReceived") = 7 /\ L!FromU8(L!AsByte(7)) = "EbondReceived"
  /\ Code("VoicemailReceived") = 8 /\ L!FromU8(L!AsByte(8)) = "VoicemailReceived"
  /\ Code("AutoClose") = 254 /\ L!FromU8(L!AsByte(254)) = "AutoClose"
  /\ Code("Closed") = 255 /\ L!FromU8(L!AsByte(255)) = "Closed"
<1>1. Code("Open") = 0
  BY DEF Code, OPEN
<1>2. L!FromU8(L!AsByte(0)) = "Open"
  <2>1. \A s : <<0, s>> \notin L!StatusCodes
    BY CodesUnique
  <2> QED BY <2>1 DEF L!FromU8, L!AsByte
<1>3. /\ <<1, "AwaitingCustomer">> \in L!StatusCodes /\ <<2, "AwaitingISP">> \in L!StatusCodes
      /\ <<3, "AwaitingPartner">> \in L!StatusCodes /\ <<4, "SupportHold">> \in L!StatusCodes
      /\ <<5, "HandedOff">> \in L!StatusCodes
      /\ <<6, "AppointmentScheduled">> \in L!StatusCodes
      /\ <<7, "EbondReceived">> \in L!StatusCodes /\ <<8, "VoicemailReceived">> \in L!StatusCodes
      /\ <<254, "AutoClose">> \in L!StatusCodes /\ <<255, "Closed">> \in L!StatusCodes
  BY DEF L!StatusCodes
<1> QED BY <1>1, <1>2, <1>3, CodePair

\* to_u8 and from_u8 are inverse to each other on the codes that are assigned.
LEMMA CodeOfStatus ==
  ASSUME NEW s \in L!TicketStatus
  PROVE  Code(s) \in STATUSES /\ L!FromU8(L!AsByte(Code(s))) = s
BY CodesAre, TicketStatusIs

LEMMA StatusOfCode ==
  ASSUME NEW n \in STATUSES
  PROVE  L!FromU8(L!AsByte(n)) \in L!TicketStatus /\ Code(L!FromU8(L!AsByte(n))) = n
BY CodesAre, TicketStatusIs

LEMMA OnwardIs ==
  /\ Onward(1) = {0, 4, 6, 7, 8} /\ Onward(2) = {0, 4, 7} /\ Onward(3) = {0, 4, 5}
  /\ Onward(4) = {0, 1, 2, 3, 6} /\ Onward(5) = {0, 3} /\ Onward(6) = {0, 1, 4}
  /\ Onward(7) = {0, 2} /\ Onward(8) = {0, 1}
BY DEF Onward, OPEN, AWAITING_CUSTOMER, AWAITING_ISP, AWAITING_PARTNER, SUPPORT_HOLD,
       HANDED_OFF, APPOINTMENT_SCHEDULED, EBOND_RECEIVED, VOICEMAIL_RECEIVED

LEMMA AllowedTransitionsAre ==
  /\ L!AllowedTransitions("Open") = L!TicketStatus \ {"Open"}
  /\ L!AllowedTransitions("AwaitingCustomer") =
       {"Open", "SupportHold", "AppointmentScheduled", "EbondReceived", "VoicemailReceived"}
         \cup {"AutoClose", "Closed"}
  /\ L!AllowedTransitions("AwaitingISP") =
       {"Open", "SupportHold", "EbondReceived"} \cup {"AutoClose", "Closed"}
  /\ L!AllowedTransitions("AwaitingPartner") =
       {"Open", "SupportHold", "HandedOff"} \cup {"AutoClose", "Closed"}
  /\ L!AllowedTransitions("SupportHold") =
       {"Open", "AppointmentScheduled"}
         \cup {"AwaitingCustomer", "AwaitingISP", "AwaitingPartner"} \cup {"AutoClose", "Closed"}
  /\ L!AllowedTransitions("HandedOff") = {"Open", "AwaitingPartner"} \cup {"AutoClose", "Closed"}
  /\ L!AllowedTransitions("AppointmentScheduled") =
       {"Open", "AwaitingCustomer", "SupportHold"} \cup {"AutoClose", "Closed"}
  /\ L!AllowedTransitions("EbondReceived") = {"Open", "AwaitingISP"} \cup {"AutoClose", "Closed"}
  /\ L!AllowedTransitions("VoicemailReceived") =
       {"Open", "AwaitingCustomer"} \cup {"AutoClose", "Closed"}
BY DEF L!AllowedTransitions, L!Terminal, L!Awaiting

\* What the page lets through, the lifecycle allows.
LEMMA SameLifecycle ==
  ASSUME NEW s \in L!TicketStatus, NEW n \in STATUSES, can_transition(Code(s), n)
  PROVE  L!CanTransitionTo(s, L!FromU8(L!AsByte(n)))
<1> DEFINE to == L!FromU8(L!AsByte(n))
<1>1. CASE n = Code(s)
  BY <1>1, CodeOfStatus DEF L!CanTransitionTo
<1>2. CASE n # Code(s)
  <2>1. /\ Code(s) \in STATUSES /\ Code(s) \notin {255, 254}
        /\ n \in Onward(Code(s)) \cup {255, 254}
    BY <1>2 DEF can_transition, allowed_transitions, is_terminal, CLOSED, AUTO_CLOSE
  <2>2. s # "Closed" /\ s # "AutoClose"
    BY <2>1, CodesAre
  <2>3. CASE s = "Open"
    <3>1. n # 0 /\ to \in L!TicketStatus /\ Code(to) = n
      BY <1>2, <2>3, CodesAre, StatusOfCode
    <3>2. to # "Open"
      BY <3>1, CodesAre
    <3> QED BY <2>3, <3>1, <3>2, AllowedTransitionsAre DEF L!CanTransitionTo
  <2>4. CASE s = "AwaitingCustomer"
    <3>1. n \in {0, 4, 6, 7, 8, 254, 255}
      BY <2>1, <2>4, CodesAre, OnwardIs
    <3>2. to \in {"Open", "SupportHold", "AppointmentScheduled", "EbondReceived",
                  "VoicemailReceived", "AutoClose", "Closed"}
      BY <3>1, CodesAre
    <3> QED BY <2>4, <3>2, AllowedTransitionsAre DEF L!CanTransitionTo
  <2>5. CASE s = "AwaitingISP"
    <3>1. n \in {0, 4, 7, 254, 255}
      BY <2>1, <2>5, CodesAre, OnwardIs
    <3>2. to \in {"Open", "SupportHold", "EbondReceived", "AutoClose", "Closed"}
      BY <3>1, CodesAre
    <3> QED BY <2>5, <3>2, AllowedTransitionsAre DEF L!CanTransitionTo
  <2>6. CASE s = "AwaitingPartner"
    <3>1. n \in {0, 4, 5, 254, 255}
      BY <2>1, <2>6, CodesAre, OnwardIs
    <3>2. to \in {"Open", "SupportHold", "HandedOff", "AutoClose", "Closed"}
      BY <3>1, CodesAre
    <3> QED BY <2>6, <3>2, AllowedTransitionsAre DEF L!CanTransitionTo
  <2>7. CASE s = "SupportHold"
    <3>1. n \in {0, 1, 2, 3, 6, 254, 255}
      BY <2>1, <2>7, CodesAre, OnwardIs
    <3>2. to \in {"Open", "AwaitingCustomer", "AwaitingISP", "AwaitingPartner",
                  "AppointmentScheduled", "AutoClose", "Closed"}
      BY <3>1, CodesAre
    <3> QED BY <2>7, <3>2, AllowedTransitionsAre DEF L!CanTransitionTo
  <2>8. CASE s = "HandedOff"
    <3>1. n \in {0, 3, 254, 255}
      BY <2>1, <2>8, CodesAre, OnwardIs
    <3>2. to \in {"Open", "AwaitingPartner", "AutoClose", "Closed"}
      BY <3>1, CodesAre
    <3> QED BY <2>8, <3>2, AllowedTransitionsAre DEF L!CanTransitionTo
  <2>9. CASE s = "AppointmentScheduled"
    <3>1. n \in {0, 1, 4, 254, 255}
      BY <2>1, <2>9, CodesAre, OnwardIs
    <3>2. to \in {"Open", "AwaitingCustomer", "SupportHold", "AutoClose", "Closed"}
      BY <3>1, CodesAre
    <3> QED BY <2>9, <3>2, AllowedTransitionsAre DEF L!CanTransitionTo
  <2>10. CASE s = "EbondReceived"
    <3>1. n \in {0, 2, 254, 255}
      BY <2>1, <2>10, CodesAre, OnwardIs
    <3>2. to \in {"Open", "AwaitingISP", "AutoClose", "Closed"}
      BY <3>1, CodesAre
    <3> QED BY <2>10, <3>2, AllowedTransitionsAre DEF L!CanTransitionTo
  <2>11. CASE s = "VoicemailReceived"
    <3>1. n \in {0, 1, 254, 255}
      BY <2>1, <2>11, CodesAre, OnwardIs
    <3>2. to \in {"Open", "AwaitingCustomer", "AutoClose", "Closed"}
      BY <3>1, CodesAre
    <3> QED BY <2>11, <3>2, AllowedTransitionsAre DEF L!CanTransitionTo
  <2> QED BY <2>2, <2>3, <2>4, <2>5, <2>6, <2>7, <2>8, <2>9, <2>10, <2>11, TicketStatusIs
<1> QED BY <1>1, <1>2

\* The names and numbers of the schedules and of the timed actions tell them apart.
LEMMA Conversions ==
  /\ DOMAIN ScheduleNumber = DOMAIN RestSchedule
  /\ \A s \in DOMAIN ScheduleNumber :
       /\ ProtoToAutoClose(ScheduleNumber[s]) = s
       /\ ScheduleNamed(RestSchedule[s]) = s
  /\ \A k \in Timed :
       RestTimed[k] \in {"follow_up", "appointment"} /\ k # "None" /\ k # "null"
  /\ \A r \in {"follow_up", "appointment"} :
       \E k \in Timed : RestTimed[k] = r /\ (CHOOSE x \in Timed : RestTimed[x] = r) = k
<1>1. DOMAIN ScheduleNumber = {"EndOfDay", "Hours24", "Hours48", "Hours72"}
  BY DEF ScheduleNumber
<1>2. DOMAIN RestSchedule = {"EndOfDay", "Hours24", "Hours48", "Hours72"}
  BY DEF RestSchedule
<1>3. ASSUME NEW s \in DOMAIN ScheduleNumber
      PROVE  ProtoToAutoClose(ScheduleNumber[s]) = s
  <2>1. \A x \in DOMAIN ScheduleNumber : ScheduleNumber[x] = ScheduleNumber[s] => x = s
    BY <1>1 DEF ScheduleNumber
  <2> QED BY <2>1 DEF ProtoToAutoClose
<1>4. ASSUME NEW s \in DOMAIN RestSchedule
      PROVE  ScheduleNamed(RestSchedule[s]) = s
  <2>1. \A x \in DOMAIN RestSchedule : RestSchedule[x] = RestSchedule[s] => x = s
    BY <1>2 DEF RestSchedule
  <2> QED BY <2>1 DEF ScheduleNamed
<1>5. RestTimed["FollowUp"] = "follow_up" /\ RestTimed["Appointment"] = "appointment"
  BY DEF RestTimed
<1>6. ASSUME NEW r \in {"follow_up", "appointment"}
      PROVE  \E k \in Timed : RestTimed[k] = r /\ (CHOOSE x \in Timed : RestTimed[x] = r) = k
  <2>1. \A x, y \in Timed : RestTimed[x] = RestTimed[y] => x = y
    BY <1>5 DEF Timed
  <2>2. PICK k \in Timed : RestTimed[k] = r
    BY <1>5 DEF Timed
  <2>3. (CHOOSE x \in Timed : RestTimed[x] = r) = k
    BY <2>1, <2>2
  <2> QED BY <2>2, <2>3
<1> QED BY <1>1, <1>2, <1>3, <1>4, <1>5, <1>6 DEF Timed

\* Whatever next action is stored, the page can show it.
LEMMA ActionIsShown ==
  ASSUME NEW a \in NextAction
  PROVE  RestNextAction(MapNextAction(a)) \in ShownAction
<1>1. CASE a = NoAction
  <2>1. a.kind = "None"
    BY <1>1 DEF NoAction
  <2>2. MapNextAction(a) = Null
    BY <2>1 DEF MapNextAction
  <2>3. RestNextAction(Null) = Null
    BY DEF RestNextAction
  <2> QED BY <2>2, <2>3 DEF ShownAction
<1>2. CASE a \in [kind : Timed, at : ((-MaxSeconds)..MaxSeconds) \X Nat]
  <2> DEFINE p == [type |-> a.kind, ts |-> a.at]
  <2>1. a.kind \in Timed /\ a.kind # "None" /\ a.kind # "null"
    BY <1>2, Conversions
  <2>2. a.at[1] \in (-MaxSeconds)..MaxSeconds
    BY <1>2
  <2>3. MapNextAction(a) = p
    BY <2>1 DEF MapNextAction
  <2>4. p # Null /\ p.type = a.kind /\ p.ts = a.at
    BY <2>1 DEF Null
  <2> HIDE DEF p
  <2>5. RestNextAction(p) = [type |-> RestTimed[a.kind], at |-> a.at[1]]
    BY <2>1, <2>4 DEF RestNextAction
  <2> QED BY <2>1, <2>2, <2>3, <2>5, Conversions DEF ShownAction
<1>3. CASE a \in [kind : {"AutoClose"}, schedule : DOMAIN ScheduleNumber]
  <2> DEFINE p == [type |-> "AutoClose", number |-> ScheduleNumber[a.schedule]]
  <2>1. a.kind = "AutoClose" /\ a.schedule \in DOMAIN ScheduleNumber /\ "AutoClose" \notin Timed
    BY <1>3 DEF Timed
  <2>2. MapNextAction(a) = p
    BY <2>1 DEF MapNextAction
  <2>3. p # Null /\ p.type = "AutoClose" /\ p.number = ScheduleNumber[a.schedule]
    BY DEF Null
  <2> HIDE DEF p
  <2>4. RestNextAction(p) = [type |-> "auto_close", schedule |-> RestSchedule[a.schedule]]
    BY <2>1, <2>3, Conversions DEF RestNextAction
  <2> QED BY <2>1, <2>2, <2>4, Conversions DEF ShownAction
<1> QED BY <1>1, <1>2, <1>3 DEF NextAction

\* A next action that the form asks for arrives as the page will show it.
LEMMA ActionArrives ==
  ASSUME NEW f \in Form, f.kind # "unchanged",
         f.kind \in {"follow_up", "appointment"} => f.at \in Int
  PROVE  LET a == ProtoToNextAction(ToProtoNextAction(NextActionInput(f)))
         IN  a \in NextAction /\ RestNextAction(MapNextAction(a)) = Wanted(f)
<1> DEFINE i == NextActionInput(f)
           p == ToProtoNextAction(i)
           a == ProtoToNextAction(p)
<1>0. f.kind \in {"none", "auto_close", "follow_up", "appointment"}
  BY DEF Form, Kinds
<1>1. CASE f.kind = "none"
  <2>1. i = [type |-> "none"]
    BY <1>1 DEF NextActionInput
  <2>2. p = Null
    BY <2>1 DEF ToProtoNextAction
  <2>3. a = NoAction /\ a.kind = "None"
    BY <2>2 DEF ProtoToNextAction, NoAction
  <2>4. RestNextAction(MapNextAction(a)) = Null
    BY <2>3 DEF RestNextAction, MapNextAction
  <2> QED BY <1>1, <2>3, <2>4 DEF Wanted, NextAction
<1>2. CASE f.kind = "auto_close"
  <2>1. i = [type |-> "auto_close", schedule |-> f.schedule]
    BY <1>2 DEF NextActionInput
  <2>2. PICK s \in DOMAIN RestSchedule : f.schedule = RestSchedule[s]
    BY DEF Form
  <2>3. p = [type |-> "AutoClose", number |-> ScheduleNumber[s]]
    BY <2>1, <2>2, Conversions DEF ToProtoNextAction
  <2>4. p # Null /\ p.type \notin Timed /\ p.number = ScheduleNumber[s]
    BY <2>3 DEF Null, Timed
  <2> HIDE DEF p
  <2>5. a = [kind |-> "AutoClose", schedule |-> s]
    BY <2>2, <2>4, Conversions DEF ProtoToNextAction
  <2> HIDE DEF a
  <2>6. a \in [kind : {"AutoClose"}, schedule : DOMAIN ScheduleNumber]
    BY <2>2, <2>5, Conversions
  <2> DEFINE q == [type |-> "AutoClose", number |-> ScheduleNumber[s]]
  <2>7. MapNextAction(a) = q
    BY <2>5 DEF MapNextAction, Timed
  <2>8. q # Null /\ q.type \notin Timed /\ q.number = ScheduleNumber[s]
    BY DEF Null, Timed
  <2> HIDE DEF q
  <2>9. RestNextAction(q) = [type |-> "auto_close", schedule |-> RestSchedule[s]]
    BY <2>2, <2>8, Conversions DEF RestNextAction
  <2>10. Wanted(f) = [type |-> "auto_close", schedule |-> f.schedule]
    BY <1>2 DEF Wanted
  <2> QED BY <2>2, <2>6, <2>7, <2>9, <2>10 DEF NextAction, a, p
<1>3. CASE f.kind \in {"follow_up", "appointment"}
  <2>1. i = [type |-> f.kind, at |-> f.at] /\ f.kind # "none" /\ f.kind # "auto_close"
    BY <1>3 DEF NextActionInput
  <2>1a. i.type = f.kind /\ i.at = f.at
    BY <2>1
  <2>2. PICK k \in Timed : /\ RestTimed[k] = i.type
                           /\ (CHOOSE x \in Timed : RestTimed[x] = i.type) = k
    BY <1>3, <2>1a, Conversions
  <2>3. p = [type |-> k, ts |-> <<f.at, 0>>]
    BY <2>1, <2>1a, <2>2 DEF ToProtoNextAction
  <2>4. p # Null /\ p.type = k /\ p.ts = <<f.at, 0>>
    BY <2>2, <2>3, Conversions DEF Null
  <2> HIDE DEF p
  <2> DEFINE at == IF f.at \in (-MaxSeconds)..MaxSeconds THEN f.at ELSE 0
  <2>5. ProtoToDt(<<f.at, 0>>) = <<at, 0>>
    BY DEF ProtoToDt
  <2>6. at \in (-MaxSeconds)..MaxSeconds
    BY ConsoleAssumption
  <2> HIDE DEF at
  <2>7. a = [kind |-> k, at |-> <<at, 0>>]
    BY <2>2, <2>4, <2>5 DEF ProtoToNextAction
  <2> HIDE DEF a
  <2>8. a \in [kind : Timed, at : ((-MaxSeconds)..MaxSeconds) \X Nat]
    BY <2>2, <2>6, <2>7
  <2> DEFINE q == [type |-> k, ts |-> <<at, 0>>]
  <2>9. MapNextAction(a) = q
    BY <2>2, <2>7, Conversions DEF MapNextAction
  <2>10. q # Null /\ q.type = k /\ q.ts[1] = at
    BY <2>2, Conversions DEF Null
  <2> HIDE DEF q
  <2>11. RestNextAction(q) = [type |-> f.kind, at |-> at]
    BY <2>1a, <2>2, <2>10 DEF RestNextAction
  <2>12. Wanted(f) = [type |-> f.kind, at |-> at]
    BY <2>1 DEF Wanted, at
  <2> QED BY <2>8, <2>9, <2>11, <2>12 DEF NextAction, a, p
<1> QED BY <1>0, <1>1, <1>2, <1>3

\* A stored ticket t as the page shows it.
ShownAs(t, body) == ApiTicket(DomainToProto(t, body))

LEMMA TicketIsShown ==
  ASSUME NEW t \in Ids, NEW body \in Body
  PROVE  /\ ShownAs(t, body) \in Shape
         /\ ShownAs(t, body) = [id |-> t, title |-> body.title, status |-> Code(body.status),
                                next_action |-> RestNextAction(MapNextAction(body.next_action))]
<1>1. body.title \in Titles /\ body.status \in L!TicketStatus /\ body.next_action \in NextAction
  BY DEF Body
<1>2. ShownAs(t, body) = [id |-> t, title |-> body.title, status |-> Code(body.status),
                          next_action |-> RestNextAction(MapNextAction(body.next_action))]
  BY DEF ShownAs, ApiTicket, DomainToProto
<1>3. Code(body.status) \in STATUSES
  BY <1>1, CodeOfStatus
<1>4. RestNextAction(MapNextAction(body.next_action)) \in ShownAction
  BY <1>1, ActionIsShown
<1> QED BY <1>1, <1>2, <1>3, <1>4 DEF Shape

\* A save of the form f makes a ticket of a ticket, which agrees with the form; and if
\* the ticket did so before, the page shows it as before.
LEMMA SaveShown ==
  ASSUME NEW t \in Ids, NEW body \in Body, NEW f \in Form,
         f.kind \in {"follow_up", "appointment"} => f.at \in Int
  PROVE  LET new == Updated(body, UpdateRequest(UpdateBody(f)))
         IN  /\ new \in Body
             /\ new.status = L!FromU8(L!AsByte(f.status))
             /\ ShowsAll(f, ShownAs(t, new))
             /\ ShowsAll(f, ShownAs(t, body)) => ShownAs(t, new) = ShownAs(t, body)
<1> DEFINE req == UpdateRequest(UpdateBody(f))
           new == Updated(body, req)
           action == ProtoToNextAction(ToProtoNextAction(NextActionInput(f)))
<1>1. /\ f.title \in Titles /\ f.status \in STATUSES
      /\ body.title \in Titles /\ body.next_action \in NextAction
  BY DEF Form, Body
<1>2. /\ DOMAIN req = Sent(f)
      /\ "title" \in Sent(f) <=> f.title # Blank
      /\ "status" \in Sent(f)
      /\ "next_action" \in Sent(f) <=> f.kind # "unchanged"
  BY DEF UpdateRequest, UpdateBody, Sent, Fields
<1>3. /\ f.title # Blank => req.title = f.title
      /\ req.status = f.status
      /\ f.kind # "unchanged" => req.next_action = ToProtoNextAction(NextActionInput(f))
  BY <1>2 DEF UpdateRequest, UpdateBody
<1> HIDE DEF req
<1>4. /\ new.title = IF f.title # Blank THEN f.title ELSE body.title
      /\ new.status = L!FromU8(L!AsByte(f.status))
      /\ new.next_action = IF f.kind # "unchanged" THEN action ELSE body.next_action
      /\ new = [title |-> new.title, status |-> new.status, next_action |-> new.next_action]
  BY <1>2, <1>3 DEF Updated
<1> HIDE DEF new
<1>5. f.kind # "unchanged" =>
        action \in NextAction /\ RestNextAction(MapNextAction(action)) = Wanted(f)
  BY ActionArrives
<1> HIDE DEF action
<1>6. new.title \in Titles /\ new.status \in L!TicketStatus /\ new.next_action \in NextAction
  BY <1>1, <1>4, <1>5, StatusOfCode
<1>7. new \in Body
  BY <1>4, <1>6 DEF Body
<1> DEFINE row == ShownAs(t, body)
           after == ShownAs(t, new)
<1>8. /\ row = [id |-> t, title |-> body.title, status |-> Code(body.status),
                next_action |-> RestNextAction(MapNextAction(body.next_action))]
      /\ after = [id |-> t, title |-> new.title, status |-> Code(new.status),
                  next_action |-> RestNextAction(MapNextAction(new.next_action))]
  BY <1>7, TicketIsShown
<1>9. Code(new.status) = f.status
  BY <1>1, <1>4, StatusOfCode
<1>10. /\ after.title = IF f.title # Blank THEN f.title ELSE row.title
       /\ after.status = f.status
       /\ after.next_action = IF f.kind # "unchanged" THEN Wanted(f) ELSE row.next_action
  BY <1>4, <1>5, <1>8, <1>9
<1>11. ShowsAll(f, after)
  BY <1>10 DEF ShowsAll, Agrees, Fields
<1>12. ASSUME ShowsAll(f, row) PROVE after = row
  <2>1. /\ f.title # Blank => row.title = f.title
        /\ row.status = f.status
        /\ f.kind # "unchanged" => row.next_action = Wanted(f)
    BY <1>12 DEF ShowsAll, Agrees, Fields
  <2>2. after.title = row.title /\ after.status = row.status
        /\ after.next_action = row.next_action
    BY <1>10, <2>1
  <2> QED BY <1>8, <2>2
<1> QED BY <1>4, <1>7, <1>11, <1>12 DEF new, req

-----------------------------------------------------------------------------
(* The invariant holds at first, and no step breaks it.                    *)

\* Tickets are never removed, and what was good stays good when there are more.
LEMMA Grows ==
  ASSUME NEW E, NEW F, E \subseteq F
  PROVE  /\ Row(E) \subseteq Row(F)
         /\ \A r : GoodCall(r, E) => GoodCall(r, F)
<1>1. Row(E) \subseteq Row(F)
  BY DEF Row
<1>2. ASSUME NEW a, GoodSave(a, E) PROVE GoodSave(a, F)
  BY <1>1, <1>2 DEF GoodSave
<1>3. ASSUME NEW r, GoodCall(r, E) PROVE GoodCall(r, F)
  <2>1. GoodArgs(r.route, r.args, F)
    BY <1>2, <1>3 DEF GoodCall, GoodArgs
  <2>2. GoodAnswer(r.route, r.args, r.answer, F)
    BY <1>1, <1>3 DEF GoodCall, GoodAnswer
  <2> QED BY <1>3, <2>1, <2>2 DEF GoodCall
<1> QED BY <1>1, <1>3

LEMMA PageKept ==
  ASSUME PageTyped, Existing \subseteq Existing', UNCHANGED <<token, page, pageVars, history>>
  PROVE  PageTyped'
<1>1. Row(Existing) \subseteq Row(Existing)'
  BY Grows DEF Row
<1>2. /\ token' = token /\ page' = page /\ ticket' = ticket /\ results' = results
      /\ form' = form /\ about' = about /\ hasty' = hasty /\ touched' = touched
      /\ created' = created
  BY DEF pageVars, history
<1>3. about' \in [Fields -> Existing' \cup {0}]
  BY <1>2 DEF PageTyped
<1> QED BY <1>1, <1>2, <1>3 DEF PageTyped

LEMMA CallsKept ==
  ASSUME CallsTyped, Existing \subseteq Existing', UNCHANGED call
  PROVE  CallsTyped'
BY Grows DEF CallsTyped

\* One request changes.
LEMMA CallSet ==
  ASSUME CallsTyped, Existing \subseteq Existing', NEW c \in Calls, NEW r,
         call' = [call EXCEPT ![c] = r],
         r = Idle \/ GoodCall(r, Existing')
  PROVE  CallsTyped'
<1>1. DOMAIN call' = Calls /\ call'[c] = r /\ \A d \in Calls \ {c} : call'[d] = call[d]
  BY DEF CallsTyped
<1>2. ASSUME NEW d \in Calls PROVE call'[d] = Idle \/ GoodCall(call'[d], Existing')
  BY <1>1, Grows DEF CallsTyped
<1> QED BY <1>1, <1>2 DEF CallsTyped

\* A request is told from an idle one by its fields.
LEMMA NotIdle ==
  /\ \A r, E : GoodCall(r, E) => r # Idle
  /\ \A c \in Calls : call[c] # Idle /\ CallsTyped => GoodCall(call[c], Existing)
<1>1. DOMAIN Idle = {"route"}
  BY DEF Idle
<1>2. ASSUME NEW r, NEW E, GoodCall(r, E) PROVE r # Idle
  BY <1>1, <1>2 DEF GoodCall
<1> QED BY <1>2 DEF CallsTyped

\* A step behind the page: tickets change or are added, and no request does.
LEMMA BackendKeeps ==
  ASSUME ConsoleInv, StoreTyped', Existing \subseteq Existing',
         UNCHANGED <<token, page, pageVars, call, history>>
  PROVE  ConsoleInv'
<1>1. PageTyped' /\ CallsTyped'
  BY PageKept, CallsKept DEF ConsoleInv
<1>2. /\ page' = page /\ ticket' = ticket /\ form' = form /\ call' = call
      /\ about' = about /\ hasty' = hasty /\ touched' = touched /\ created' = created
  BY DEF pageVars, history
<1>3. InFlight' = InFlight
  BY <1>2 DEF InFlight
<1>4. FormPlaced'
  BY <1>2 DEF FormPlaced, Agrees, ConsoleInv
<1>5. OneAtATime' /\ LoginAlone'
  BY <1>2, <1>3 DEF OneAtATime, LoginAlone, ConsoleInv
<1>6. FlightPlaced'
  BY <1>2, <1>3 DEF FlightPlaced, SavePlaced, CreationPlaced, ConsoleInv
<1> QED BY <1>1, <1>4, <1>5, <1>6 DEF ConsoleInv

LEMMA LockChangesKeeps ==
  ASSUME ConsoleInv, NEW t \in Ids, LockChanges(t)
  PROVE  ConsoleInv'
<1>1. StoreTyped'
  BY DEF LockChanges, StoreTyped, ConsoleInv
<1>2. Existing' = Existing
  BY DEF LockChanges, Existing
<1> QED BY <1>1, <1>2, BackendKeeps DEF LockChanges

LEMMA RedirectKeeps ==
  ASSUME ConsoleInv, NEW k \in Keys, Redirect(k)
  PROVE  ConsoleInv'
<1>1. StoreTyped'
  BY DEF Redirect, StoreTyped, ConsoleInv
<1>2. Existing' = Existing
  BY DEF Redirect, Existing
<1> QED BY <1>1, <1>2, BackendKeeps DEF Redirect

\* Whatever other clients set, a ticket stays one.
LEMMA ChangedIsBody ==
  ASSUME NEW body \in Body, NEW change \in Changes
  PROVE  Changed(body, change) \in Body
<1> DEFINE new == Changed(body, change)
<1>1. DOMAIN body = {"title", "status", "next_action"}
  BY DEF Body
<1>2. body.title \in Titles /\ body.status \in L!TicketStatus /\ body.next_action \in NextAction
  BY DEF Body
<1>3. /\ new.title = IF "title" \in DOMAIN change THEN change.title ELSE body.title
      /\ new.status = IF "status" \in DOMAIN change THEN change.status ELSE body.status
      /\ new.next_action = IF "next_action" \in DOMAIN change THEN change.next_action
                           ELSE body.next_action
  BY <1>1 DEF Changed
<1>4. new = [title |-> new.title, status |-> new.status, next_action |-> new.next_action]
  BY <1>1 DEF Changed
<1> HIDE DEF new
<1>5. /\ "title" \in DOMAIN change => change.title \in Titles
      /\ "status" \in DOMAIN change => change.status \in L!TicketStatus
      /\ "next_action" \in DOMAIN change => change.next_action \in NextAction
  BY ConsoleAssumption
<1>6. new.title \in Titles /\ new.status \in L!TicketStatus /\ new.next_action \in NextAction
  BY <1>2, <1>3, <1>5
<1>7. new \in Body
  BY <1>4, <1>6 DEF Body
<1> QED BY <1>7 DEF new

\* What is sealed is not the mark of a free place.
LEMMA Sealed ==
  ASSUME NEW body \in Body, NEW k \in Keys
  PROVE  Seal(body, k) \in [kem : Keys, body : Body] /\ Seal(body, k) # NoTicket
BY ConsoleAssumption DEF Seal, NoTicket

LEMMA OtherUpdateKeeps ==
  ASSUME ConsoleInv, NEW t \in Ids, NEW change \in Changes, NEW held \in BOOLEAN,
         OtherUpdate(t, change, held)
  PROVE  ConsoleInv'
<1> DEFINE new == [store[t] EXCEPT !.body = Changed(@, change)]
<1>1. store[t] \in [kem : Keys, body : Body]
  BY DEF OtherUpdate, StoreTyped, ConsoleInv
<1>2. Changed(store[t].body, change) \in Body
  BY <1>1, ChangedIsBody
<1>3. new \in [kem : Keys, body : Body] /\ new # NoTicket
  BY <1>1, <1>2, ConsoleAssumption DEF NoTicket
<1>4. store' = [store EXCEPT ![t] = new]
  BY DEF OtherUpdate
<1> HIDE DEF new
<1>5. StoreTyped'
  BY <1>3, <1>4 DEF OtherUpdate, StoreTyped, ConsoleInv
<1>6. Existing \subseteq Existing'
  BY <1>3, <1>4 DEF Existing, StoreTyped, ConsoleInv
<1> QED BY <1>5, <1>6, BackendKeeps DEF OtherUpdate

LEMMA EmptyFormIsForm == EmptyForm \in Form
<1>1. "end_of_day" \in {RestSchedule[s] : s \in DOMAIN RestSchedule}
  BY DEF RestSchedule
<1> QED BY <1>1, ConsoleAssumption, TicketStatusIs DEF EmptyForm, Form, Kinds, OPEN

LEMMA NewTicketIsBody ==
  ASSUME NEW title \in Titles PROVE NewTicket(title) \in Body
BY TicketStatusIs DEF NewTicket, Body, NextAction

LEMMA InitHolds == Init => ConsoleInv
<1> SUFFICES ASSUME Init PROVE ConsoleInv
  OBVIOUS
<1>1. PICK title \in Titles \ {Blank}, change \in Changes :
        store = [t \in Ids |-> IF t = 1 THEN Seal(Changed(NewTicket(title), change), route)
                               ELSE NoTicket]
  BY DEF Init
<1> DEFINE first == Seal(Changed(NewTicket(title), change), route)
<1>2. first \in [kem : Keys, body : Body]
  BY NewTicketIsBody, ChangedIsBody, Sealed DEF Init
<1> HIDE DEF first
<1>3. StoreTyped
  BY <1>1, <1>2 DEF StoreTyped, Init, first
<1>4. PageTyped
  BY EmptyFormIsForm DEF PageTyped, Init
<1>5. CallsTyped /\ InFlight = {}
  BY DEF CallsTyped, InFlight, Init
<1>6. FormPlaced
  BY DEF FormPlaced, Init
<1> QED BY <1>3, <1>4, <1>5, <1>6
        DEF ConsoleInv, OneAtATime, LoginAlone, FlightPlaced, Init

\* A page that is mounted, with nobody waiting for the requests of the one before.
LEMMA MountKeeps ==
  ASSUME ConsoleInv, NEW name \in {"login", "tickets"}, Mount(name), UNCHANGED backend,
         token' \in BOOLEAN, CallsTyped', InFlight' = {}
  PROVE  ConsoleInv'
<1>1. StoreTyped' /\ Existing' = Existing
  BY DEF backend, StoreTyped, Existing, ConsoleInv
<1>2. PageTyped'
  BY EmptyFormIsForm DEF Mount, PageTyped
<1>3. FormPlaced'
  BY DEF Mount, FormPlaced
<1> QED BY <1>1, <1>2, <1>3 DEF ConsoleInv, OneAtATime, LoginAlone, FlightPlaced

LEMMA AbandonedCalls ==
  ASSUME ConsoleInv, UNCHANGED backend, call' = Abandoned
  PROVE  CallsTyped' /\ InFlight' = {}
<1>1. Existing' = Existing
  BY DEF backend, Existing
<1>2. ASSUME NEW c \in Calls
      PROVE  call'[c] = Idle \/ (GoodCall(call'[c], Existing) /\ call'[c].live = FALSE)
  <2>1. CASE call[c] = Idle
    BY <2>1 DEF Abandoned
  <2>2. CASE call[c] # Idle
    <3> DEFINE r == [call[c] EXCEPT !.live = FALSE]
    <3>1. GoodCall(call[c], Existing)
      BY <2>2 DEF ConsoleInv, CallsTyped
    <3>2. DOMAIN call[c] = {"route", "args", "live", "answer"}
      BY <3>1 DEF GoodCall
    <3>3. /\ DOMAIN r = {"route", "args", "live", "answer"} /\ r.live = FALSE
          /\ r.route = call[c].route /\ r.args = call[c].args /\ r.answer = call[c].answer
      BY <3>2
    <3>4. call'[c] = r
      BY <2>2 DEF Abandoned
    <3> HIDE DEF r
    <3>5. GoodCall(r, Existing)
      BY <3>1, <3>3 DEF GoodCall
    <3> QED BY <3>3, <3>4, <3>5
  <2> QED BY <2>1, <2>2
<1>3. DOMAIN call' = Calls
  BY DEF Abandoned
<1> QED BY <1>1, <1>2, <1>3 DEF CallsTyped, InFlight

LEMMA OpenTicketsKeeps ==
  ASSUME ConsoleInv, OpenTickets
  PROVE  ConsoleInv'
<1>1. UNCHANGED backend /\ token' \in BOOLEAN /\ Mount("tickets") /\ call' = Abandoned
  BY DEF OpenTickets, ConsoleInv, PageTyped
<1> QED BY <1>1, AbandonedCalls, MountKeeps

LEMMA SignOutKeeps ==
  ASSUME ConsoleInv, SignOut
  PROVE  ConsoleInv'
<1>1. UNCHANGED backend /\ token' \in BOOLEAN /\ Mount("login") /\ call' = Abandoned
  BY DEF SignOut
<1> QED BY <1>1, AbandonedCalls, MountKeeps

\* What an action of the page leaves alone.
LEMMA PageAlone ==
  ASSUME UNCHANGED backend
  PROVE  /\ store' = store /\ locked' = locked /\ route' = route
         /\ Existing' = Existing /\ Row(Existing)' = Row(Existing)
         /\ StoreTyped <=> StoreTyped'
BY DEF backend, Existing, Row, StoreTyped

\* The form of a ticket that is loaded shows the ticket.
LEMMA LoadedFormShows ==
  ASSUME form \in Form, NEW row \in Shape
  PROVE  LoadedForm(row) \in Form /\ ShowsAll(LoadedForm(row), row)
<1> DEFINE a == row.next_action
           k == IF a = Null THEN "unchanged" ELSE a.type
           at == IF a.type \in {"follow_up", "appointment"} THEN a.at ELSE form.at
           plan == IF a.type = "auto_close" THEN a.schedule ELSE form.schedule
           new == LoadedForm(row)
<1>1. DOMAIN form = {"title", "status", "kind", "at", "schedule"}
  BY DEF Form
<1>2. /\ DOMAIN new = {"title", "status", "kind", "at", "schedule"}
      /\ new.title = row.title /\ new.status = row.status
      /\ new.kind = k /\ new.at = at /\ new.schedule = plan
  BY <1>1 DEF LoadedForm
<1>2a. new = [form EXCEPT !.title = row.title, !.status = row.status, !.kind = k, !.at = at,
                          !.schedule = plan]
  BY DEF LoadedForm
<1> HIDE DEF new
<1>3. /\ row.title \in Titles /\ row.status \in STATUSES /\ a \in ShownAction
      /\ form.at \in Int \cup Ats
      /\ form.schedule \in {RestSchedule[s] : s \in DOMAIN RestSchedule}
  BY DEF Shape, Form
<1>4. /\ new.kind \in Kinds /\ new.at \in Int \cup Ats
      /\ new.schedule \in {RestSchedule[s] : s \in DOMAIN RestSchedule}
      /\ new.kind # "unchanged" => a = Wanted(new)
  <2>1. CASE a = Null
    <3>1. a.type = "null" /\ k = "unchanged" /\ at = form.at /\ plan = form.schedule
      BY <2>1 DEF Null
    <3> QED BY <1>2, <1>3, <3>1 DEF Kinds
  <2>2. CASE a \in [type : {"follow_up", "appointment"}, at : (-MaxSeconds)..MaxSeconds]
    <3>1. /\ a.type \in {"follow_up", "appointment"} /\ a.at \in (-MaxSeconds)..MaxSeconds
          /\ a.at \in Int /\ a = [type |-> a.type, at |-> a.at] /\ a # Null
      BY <2>2, ConsoleAssumption DEF Null
    <3>2. new.kind = a.type /\ new.at = a.at /\ new.schedule = form.schedule
      BY <1>2, <3>1
    <3>3. Wanted(new) = [type |-> a.type, at |-> a.at]
      BY <3>1, <3>2 DEF Wanted
    <3> QED BY <1>3, <3>1, <3>2, <3>3 DEF Kinds
  <2>3. CASE a \in [type : {"auto_close"},
                    schedule : {RestSchedule[s] : s \in DOMAIN RestSchedule}]
    <3>1. /\ a.type = "auto_close" /\ a = [type |-> a.type, schedule |-> a.schedule]
          /\ a.schedule \in {RestSchedule[s] : s \in DOMAIN RestSchedule} /\ a # Null
      BY <2>3 DEF Null
    <3>2. new.kind = "auto_close" /\ new.at = form.at /\ new.schedule = a.schedule
      BY <1>2, <3>1
    <3>3. Wanted(new) = [type |-> a.type, schedule |-> a.schedule]
      BY <3>1, <3>2 DEF Wanted
    <3> QED BY <1>3, <3>1, <3>2, <3>3 DEF Kinds
  <2> QED BY <1>3, <2>1, <2>2, <2>3 DEF ShownAction
<1> HIDE DEF k, at, plan
<1>5. new \in Form
  BY <1>2, <1>2a, <1>3, <1>4 DEF Form
<1>6. ShowsAll(new, row)
  BY <1>2, <1>4 DEF ShowsAll, Agrees, Fields
<1> QED BY <1>5, <1>6 DEF new

\* A ticket is loaded; if answers are still on their way, the history says so.
LEMMA LoadKeeps ==
  ASSUME ConsoleInv, NEW row \in Row(Existing), NEW calm \in BOOLEAN, Load(row, calm),
         UNCHANGED <<token, page, results>>, UNCHANGED backend,
         CallsTyped', InFlight' \subseteq InFlight, calm => InFlight' = {},
         \A c \in InFlight' : call'[c] = call[c]
  PROVE  ConsoleInv'
<1>1. row \in Shape /\ row.id \in Existing /\ form \in Form
  BY DEF Row, ConsoleInv, PageTyped
<1>2. form' \in Form /\ ShowsAll(form', row)
  BY <1>1, LoadedFormShows DEF Load
<1>3. /\ ticket' = row /\ about' = [f \in Fields |-> row.id] /\ hasty' = ~ calm
      /\ touched' = FALSE /\ created' = FALSE
  BY DEF Load
<1>4. PageTyped'
  BY <1>1, <1>2, <1>3, PageAlone DEF ConsoleInv, PageTyped
<1>5. FormPlaced'
  BY <1>2, <1>3 DEF FormPlaced, ShowsAll
<1>6. OneAtATime' /\ FlightPlaced'
  BY <1>3 DEF OneAtATime, FlightPlaced, SavePlaced, CreationPlaced
<1>7. LoginAlone'
  BY DEF LoginAlone, ConsoleInv
<1> QED BY <1>4, <1>5, <1>6, <1>7, PageAlone DEF ConsoleInv

LEMMA EditRowKeeps ==
  ASSUME ConsoleInv, NEW row \in results, EditRow(row)
  PROVE  ConsoleInv'
<1>1. /\ row \in Row(Existing) /\ Load(row, InFlight = {}) /\ UNCHANGED backend
      /\ UNCHANGED <<token, page, results>> /\ call' = call
  BY DEF EditRow, ConsoleInv, PageTyped
<1>2. InFlight' = InFlight /\ Existing' = Existing
  BY <1>1, PageAlone DEF InFlight
<1>3. CallsTyped'
  BY <1>1, <1>2, CallsKept DEF ConsoleInv
<1> DEFINE calm == InFlight = {}
<1>4. calm \in BOOLEAN /\ Load(row, calm) /\ (calm => InFlight' = {})
  BY <1>1, <1>2
<1> HIDE DEF calm
<1> QED BY <1>1, <1>2, <1>3, <1>4, LoadKeeps

\* The user changes a field of the form.
LEMMA TypeKeeps ==
  ASSUME ConsoleInv, NEW f \in Fields, NEW changed \in Form, Type(f, changed)
  PROVE  ConsoleInv'
<1>1. /\ UNCHANGED <<token, page, ticket, results, call, created>> /\ UNCHANGED backend
      /\ form' = changed /\ hasty' = (hasty \/ InFlight # {}) /\ touched' = TRUE
      /\ about' = [about EXCEPT ![f] = IF ticket = Null THEN 0 ELSE ticket.id]
  BY DEF Type, GoesOn
<1>2. InFlight' = InFlight /\ Existing' = Existing
  BY <1>1, PageAlone DEF InFlight
<1>3. CallsTyped'
  BY <1>1, <1>2, CallsKept DEF ConsoleInv
<1>4. ticket # Null => ticket.id \in Existing
  BY DEF ConsoleInv, PageTyped, Row
<1>5. about' \in [Fields -> Existing \cup {0}]
  BY <1>1, <1>4 DEF ConsoleInv, PageTyped
<1>6. PageTyped'
  BY <1>1, <1>5, PageAlone DEF ConsoleInv, PageTyped
<1>7. FormPlaced'
  <2> SUFFICES ASSUME ticket # Null, NEW x \in Fields
               PROVE  about'[x] = ticket.id \/ hasty' \/ (created /\ x = "next_action")
    BY <1>1 DEF FormPlaced
  <2>1. about[x] = ticket.id \/ hasty \/ (created /\ x = "next_action")
    BY DEF ConsoleInv, FormPlaced
  <2>2. about'[x] = IF x = f THEN ticket.id ELSE about[x]
    BY <1>1 DEF ConsoleInv, PageTyped
  <2> QED BY <1>1, <2>1, <2>2
<1>8. OneAtATime' /\ FlightPlaced'
  BY <1>1, <1>2 DEF OneAtATime, FlightPlaced, SavePlaced, CreationPlaced
<1>9. LoginAlone'
  BY <1>1, <1>2 DEF LoginAlone, ConsoleInv
<1> QED BY <1>1, <1>3, <1>6, <1>7, <1>8, <1>9, PageAlone DEF ConsoleInv

\* The inputs of the form hold what a form can hold.
LEMMA FormInputsKeep ==
  ASSUME ConsoleInv,
         \/ \E x \in Titles : TypeTitle(x)
         \/ \E s \in Statuses : PickStatus(s)
         \/ \E k \in Kinds : PickKind(k)
         \/ \E at \in Ats : TypeAt(at)
         \/ \E s \in Schedules : PickSchedule(s)
  PROVE  ConsoleInv'
<1>1. form \in Form
  BY DEF ConsoleInv, PageTyped
<1>2. ASSUME NEW x \in Titles, TypeTitle(x) PROVE ConsoleInv'
  <2>1. [form EXCEPT !.title = x] \in Form
    BY <1>1 DEF Form
  <2> QED BY <1>2, <2>1, TypeKeeps DEF TypeTitle, Fields
<1>3. ASSUME NEW s \in Statuses, PickStatus(s) PROVE ConsoleInv'
  <2>1. [form EXCEPT !.status = s] \in Form
    BY <1>1, ConsoleAssumption DEF Form
  <2> QED BY <1>3, <2>1, TypeKeeps DEF PickStatus, Fields
<1>4. ASSUME NEW k \in Kinds, PickKind(k) PROVE ConsoleInv'
  <2>1. [form EXCEPT !.kind = k] \in Form
    BY <1>1 DEF Form
  <2> QED BY <1>4, <2>1, TypeKeeps DEF PickKind, Fields
<1>5. ASSUME NEW at \in Ats, TypeAt(at) PROVE ConsoleInv'
  <2>1. [form EXCEPT !.at = at] \in Form
    BY <1>1 DEF Form
  <2> QED BY <1>5, <2>1, TypeKeeps DEF TypeAt, Fields
<1>6. ASSUME NEW s \in Schedules, PickSchedule(s) PROVE ConsoleInv'
  <2>1. [form EXCEPT !.schedule = s] \in Form
    BY <1>1, ConsoleAssumption DEF Form
  <2> QED BY <1>6, <2>1, TypeKeeps DEF PickSchedule, Fields
<1> QED BY <1>2, <1>3, <1>4, <1>5, <1>6

\* A request that leaves is in flight, and those before it still are.
LEMMA SentCall ==
  ASSUME ConsoleInv, NEW c \in Calls, NEW name, NEW args, Send(c, name, args),
         GoodArgs(name, args, Existing), UNCHANGED backend
  PROVE  /\ CallsTyped'
         /\ InFlight' = InFlight \cup {c} /\ c \notin InFlight
         /\ call'[c].route = name /\ call'[c].args = args /\ call'[c].answer = Null
         /\ \A d \in Calls \ {c} : call'[d] = call[d]
<1> DEFINE r == [route |-> name, args |-> args, live |-> TRUE, answer |-> Null]
<1>1. call[c] = Idle /\ call' = [call EXCEPT ![c] = r]
  BY DEF Send
<1>2. /\ DOMAIN r = {"route", "args", "live", "answer"}
      /\ r.route = name /\ r.args = args /\ r.live = TRUE /\ r.answer = Null
  OBVIOUS
<1> HIDE DEF r
<1>3. GoodCall(r, Existing)
  BY <1>2 DEF GoodCall, GoodAnswer
<1>4. Existing' = Existing
  BY PageAlone
<1>5. CallsTyped'
  BY <1>1, <1>3, <1>4, CallSet DEF ConsoleInv
<1>6. call'[c] = r /\ \A d \in Calls \ {c} : call'[d] = call[d]
  BY <1>1 DEF ConsoleInv, CallsTyped
<1>7. r # Idle
  BY <1>3, NotIdle
<1>8. InFlight' = InFlight \cup {c} /\ c \notin InFlight
  BY <1>1, <1>2, <1>6, <1>7 DEF InFlight
<1> QED BY <1>2, <1>5, <1>6, <1>8

\* A handler of the page sends its request; whoever waits for answers goes on.
LEMMA SendKeeps ==
  ASSUME ConsoleInv, NEW c \in Calls, NEW name, NEW args, Send(c, name, args),
         GoodArgs(name, args, Existing), UNCHANGED backend,
         page = "tickets", name # "login", GoesOn,
         UNCHANGED <<token, page, pageVars, about, touched, created>>,
         name = "update_ticket" => ticket # Null /\ ticket.id = args.id /\ form = args.form
  PROVE  ConsoleInv'
<1>1. /\ token' = token /\ page' = page /\ ticket' = ticket /\ results' = results
      /\ form' = form /\ about' = about /\ touched' = touched /\ created' = created
      /\ hasty' = (hasty \/ InFlight # {})
  BY DEF pageVars, GoesOn
<1>2. /\ CallsTyped'
      /\ InFlight' = InFlight \cup {c} /\ c \notin InFlight
      /\ call'[c].route = name /\ call'[c].args = args /\ call'[c].answer = Null
      /\ \A d \in Calls \ {c} : call'[d] = call[d]
  BY SentCall
<1>3. PageTyped'
  BY <1>1, PageAlone DEF ConsoleInv, PageTyped
<1>4. FormPlaced'
  <2> SUFFICES ASSUME ticket # Null, NEW x \in Fields
               PROVE  /\ about[x] = ticket.id \/ hasty' \/ (created /\ x = "next_action")
                      /\ (about[x] = ticket.id /\ ~ hasty' /\ ~ touched)
                           => Agrees(x, form, ticket)
    <3>1. ticket' = ticket /\ form' = form /\ about' = about /\ touched' = touched
          /\ created' = created
      BY <1>1
    <3>2. ASSUME NEW x \in Fields PROVE Agrees(x, form, ticket)' <=> Agrees(x, form, ticket)
      BY <3>1 DEF Agrees
    <3> QED BY <3>1, <3>2 DEF FormPlaced
  <2>1. /\ about[x] = ticket.id \/ hasty \/ (created /\ x = "next_action")
        /\ (about[x] = ticket.id /\ ~ hasty /\ ~ touched) => Agrees(x, form, ticket)
    BY DEF ConsoleInv, FormPlaced
  <2>2. hasty => hasty'
    BY <1>1
  <2> QED BY <2>1, <2>2
<1>5. OneAtATime'
  BY <1>1, <1>2 DEF OneAtATime, ConsoleInv
<1>6. InFlight \subseteq Calls
  BY DEF InFlight
<1>7. LoginAlone'
  BY <1>1, <1>2, <1>6 DEF LoginAlone, ConsoleInv
<1>8. ASSUME NEW d \in InFlight'
      PROVE  /\ call'[d].route = "update_ticket" => SavePlaced(d)'
             /\ call'[d].route = "create_ticket" => CreationPlaced(d)'
  <2>1. CASE d = c
    BY <1>1, <1>2, <2>1 DEF SavePlaced, CreationPlaced
  <2>2. CASE d # c
    BY <1>1, <1>2, <2>2 DEF SavePlaced, CreationPlaced
  <2> QED BY <2>1, <2>2
<1>9. FlightPlaced'
  BY <1>8 DEF FlightPlaced
<1> QED BY <1>2, <1>3, <1>4, <1>5, <1>7, <1>9, PageAlone DEF ConsoleInv

LEMMA LoginKeeps ==
  ASSUME ConsoleInv, NEW c \in Calls, Login(c)
  PROVE  ConsoleInv'
<1>1. /\ page = "login" /\ InFlight = {} /\ Send(c, "login", Null) /\ UNCHANGED backend
      /\ UNCHANGED <<token, page, pageVars, history>>
  BY DEF Login
<1>2. /\ page' = page /\ ticket' = ticket /\ form' = form /\ about' = about
      /\ hasty' = hasty /\ touched' = touched /\ created' = created
  BY <1>1 DEF pageVars, history
<1>3. GoodArgs("login", Null, Existing)
  BY DEF GoodArgs
<1>4. CallsTyped' /\ InFlight' = {c} /\ call'[c].route = "login"
  BY <1>1, <1>3, SentCall
<1>5. Existing' = Existing /\ StoreTyped'
  BY <1>1, PageAlone DEF ConsoleInv
<1>6. PageTyped'
  BY <1>1, <1>5, PageKept DEF ConsoleInv
<1>7. FormPlaced'
  BY <1>2 DEF FormPlaced, Agrees, ConsoleInv
<1>8. OneAtATime' /\ LoginAlone' /\ FlightPlaced'
  BY <1>1, <1>2, <1>4 DEF OneAtATime, LoginAlone, FlightPlaced
<1> QED BY <1>4, <1>5, <1>6, <1>7, <1>8 DEF ConsoleInv

LEMMA RequestsKeep ==
  ASSUME ConsoleInv, NEW c \in Calls,
         \/ \E t \in Ids : Lookup(c, t)
         \/ \E filter : Search(c, filter)
         \/ \E title \in Titles : Create(c, title)
  PROVE  ConsoleInv'
<1>1. ASSUME NEW t \in Ids, Lookup(c, t) PROVE ConsoleInv'
  <2> DEFINE args == [id |-> t]
  <2>1. args.id \in Ids
    OBVIOUS
  <2>2. Send(c, "get_ticket", args)
    BY <1>1 DEF Lookup
  <2> HIDE DEF args
  <2>3. GoodArgs("get_ticket", args, Existing)
    BY <2>1 DEF GoodArgs, RouteError
  <2>4. /\ UNCHANGED backend /\ page = "tickets" /\ GoesOn
        /\ UNCHANGED <<token, page, pageVars, about, touched, created>>
    BY <1>1 DEF Lookup, SignedIn
  <2> QED BY <2>2, <2>3, <2>4, SendKeeps
<1>2. ASSUME NEW filter, Search(c, filter) PROVE ConsoleInv'
  <2> DEFINE args == [status |-> filter]
  <2>1. Send(c, "list_tickets", args)
    BY <1>2 DEF Search
  <2> HIDE DEF args
  <2>2. GoodArgs("list_tickets", args, Existing)
    BY DEF GoodArgs, RouteError
  <2>3. /\ UNCHANGED backend /\ page = "tickets" /\ GoesOn
        /\ UNCHANGED <<token, page, pageVars, about, touched, created>>
    BY <1>2 DEF Search, SignedIn
  <2> QED BY <2>1, <2>2, <2>3, SendKeeps
<1>3. ASSUME NEW title \in Titles, Create(c, title) PROVE ConsoleInv'
  <2> DEFINE args == [title |-> title]
  <2>1. args.title \in Titles
    OBVIOUS
  <2>2. Send(c, "create_ticket", args)
    BY <1>3 DEF Create
  <2> HIDE DEF args
  <2>3. GoodArgs("create_ticket", args, Existing)
    BY <2>1 DEF GoodArgs, RouteError
  <2>4. /\ UNCHANGED backend /\ page = "tickets" /\ GoesOn
        /\ UNCHANGED <<token, page, pageVars, about, touched, created>>
    BY <1>3 DEF Create, SignedIn
  <2> QED BY <2>2, <2>3, <2>4, SendKeeps
<1> QED BY <1>1, <1>2, <1>3

\* A save leaves with the ticket that is loaded and what the form holds.
LEMMA UpdateKeeps ==
  ASSUME ConsoleInv, NEW c \in Calls, Update(c)
  PROVE  ConsoleInv'
<1> DEFINE away == {f \in Sent(form) : about[f] # ticket.id}
           args == [id |-> ticket.id, body |-> UpdateBody(form), form |-> form,
                    loaded |-> ticket, foreign |-> away,
                    hasty |-> hasty, touched |-> touched, created |-> created]
<1>1. /\ Send(c, "update_ticket", args) /\ ticket # Null
      /\ can_transition(ticket.status, form.status)
      /\ form.kind \in {"follow_up", "appointment"} => form.at # NotANumber
  BY DEF Update
<1>2. /\ args.id = ticket.id /\ args.body = UpdateBody(form) /\ args.form = form
      /\ args.loaded = ticket /\ args.foreign = away /\ args.hasty = hasty
      /\ args.touched = touched /\ args.created = created
  OBVIOUS
<1> HIDE DEF args
<1>3. ticket \in Row(Existing) /\ form \in Form
  BY <1>1 DEF ConsoleInv, PageTyped
<1>4. form.kind \in {"follow_up", "appointment"} => form.at \in Int
  BY <1>1, <1>3, ConsoleAssumption DEF Form
<1>5. \A x \in Fields : about[x] = ticket.id \/ hasty \/ (created /\ x = "next_action")
  BY <1>1 DEF ConsoleInv, FormPlaced
<1>6. away = {} \/ hasty \/ (created /\ away = {"next_action"})
  <2>1. away \subseteq Fields
    BY DEF Sent
  <2> QED BY <1>5, <2>1
<1>7. ASSUME away = {}, ~ hasty, ~ touched PROVE ShowsAll(form, ticket)
  <2> SUFFICES ASSUME NEW x \in Fields PROVE Agrees(x, form, ticket)
    BY DEF ShowsAll
  <2>1. CASE x \in Sent(form)
    <3>1. about[x] = ticket.id
      BY <1>7, <2>1
    <3> QED BY <1>1, <1>7, <3>1 DEF ConsoleInv, FormPlaced
  <2>2. CASE x \notin Sent(form)
    BY <2>2 DEF Sent, Fields, Agrees
  <2> QED BY <2>1, <2>2
<1> HIDE DEF away
<1>8. GoodSave(args, Existing)
  BY <1>1, <1>2, <1>3, <1>4, <1>6, <1>7 DEF GoodSave
<1>9. GoodArgs("update_ticket", args, Existing)
  BY <1>8 DEF GoodArgs, RouteError
<1>10. /\ UNCHANGED backend /\ page = "tickets" /\ GoesOn
       /\ UNCHANGED <<token, page, pageVars, about, touched, created>>
  BY DEF Update, SignedIn
<1> QED BY <1>1, <1>2, <1>9, <1>10, SendKeeps

-----------------------------------------------------------------------------
(* Answers.                                                                *)

LEMMA LeastId ==
  ASSUME NEW S, S \subseteq Nat, S # {}
  PROVE  LET k == CHOOSE x \in S : \A y \in S : x <= y IN k \in S
<1>1. PICK k \in S : \A j \in S : ~ (<<j, k>> \in OpToRel(<, Nat))
  BY NatLessThanWellFounded, WFMin
<1>2. \A j \in S : ~ (j < k)
  BY <1>1 DEF OpToRel
<1>3. \A j \in S : k <= j
  BY <1>2
<1> QED BY <1>3

\* An error of the custodian is an error for the page.
LEMMA ErrorsAreNotOk ==
  ASSUME NEW name \in DOMAIN RouteError, NEW outcome, outcome.code # "Ok"
  PROVE  ~ IsOk(Respond(name, outcome)) /\ Respond(name, outcome).why = outcome.code
<1>1. RouteError[name] \in {404, 500}
  BY DEF RouteError
<1>2. Respond(name, outcome) = [http |-> RouteError[name], why |-> outcome.code]
  BY DEF Respond
<1> QED BY <1>1, <1>2 DEF IsOk

\* A ticket that was found is what the page is given.
LEMMA FoundIsShown ==
  ASSUME NEW name, name # "list_tickets", NEW t, NEW body
  PROVE  /\ Found(t, body).code = "Ok"
         /\ Respond(name, Found(t, body)).ticket = ShownAs(t, body)
         /\ IsOk(Respond(name, Found(t, body)))
<1> DEFINE outcome == Found(t, body)
<1>1. outcome.code = "Ok" /\ outcome.ticket = DomainToProto(t, body)
  BY DEF Found
<1> HIDE DEF outcome
<1>2. Respond(name, outcome) = [http |-> IF name = "create_ticket" THEN 201 ELSE 200,
                                ticket |-> ApiTicket(outcome.ticket)]
  BY <1>1 DEF Respond
<1>3. /\ Respond(name, outcome).ticket = ShownAs(t, body)
      /\ Respond(name, outcome).http \in {200, 201}
  BY <1>1, <1>2 DEF ShownAs
<1> QED BY <1>1, <1>3 DEF IsOk, outcome

\* A stored ticket opens with the key that it was sealed for, and with no other.
LEMMA DecryptIs ==
  ASSUME StoreTyped, NEW t \in Ids, store[t] # NoTicket
  PROVE  /\ store[t].kem \in Keys /\ store[t].body \in Body
         /\ Decrypt(t) # Undecrypted <=> store[t].kem = route
         /\ Decrypt(t) # Undecrypted => Decrypt(t) = store[t].body
<1>1. store[t] \in [kem : Keys, body : Body]
  BY DEF StoreTyped
<1>2. store[t].body # Undecrypted
  BY <1>1, ConsoleAssumption
<1> QED BY <1>1, <1>2 DEF Decrypt, Open

LEMMA GetTicketIs ==
  ASSUME StoreTyped, NEW t \in Ids
  PROVE  \/ /\ GetTicket(t).code \in {"NotFound", "Internal"}
         \/ /\ t \in Existing /\ store[t].body \in Body /\ store[t].kem = route
            /\ Decrypt(t) = store[t].body
            /\ GetTicket(t) = Found(t, store[t].body) /\ GetTicket(t).code = "Ok"
<1>1. CASE store[t] = NoTicket \/ Decrypt(t) = Undecrypted
  BY <1>1 DEF GetTicket, Err
<1>2. CASE store[t] # NoTicket /\ Decrypt(t) # Undecrypted
  <2>1. GetTicket(t) = Found(t, store[t].body)
    BY <1>2, DecryptIs DEF GetTicket
  <2>2. GetTicket(t).code = "Ok"
    BY <2>1, FoundIsShown
  <2> QED BY <1>2, <2>1, <2>2, DecryptIs DEF Existing
<1> QED BY <1>1, <1>2

\* Every ticket that exists can be shown.
LEMMA StoredIsRow ==
  ASSUME NEW t \in Existing, NEW body \in Body
  PROVE  ShownAs(t, body) \in Row(Existing) /\ ShownAs(t, body).id = t
<1>1. t \in Ids
  BY DEF Existing
<1> QED BY <1>1, TicketIsShown DEF Row

\* An answer is on its way: the page is as before, and what the answer carries is a
\* ticket that is stored.
LEMMA AnswerKeeps ==
  ASSUME ConsoleInv, NEW c \in Calls, NEW answer, Answer(c, answer),
         StoreTyped', Existing \subseteq Existing',
         GoodAnswer(call[c].route, call[c].args, answer, Existing'),
         (call[c].route = "create_ticket" /\ answer # Null /\ IsOk(answer))
           => answer.ticket.id \notin Existing \cup {0}
  PROVE  ConsoleInv'
<1> DEFINE r == [call[c] EXCEPT !.answer = answer]
<1>1. /\ call[c] # Idle /\ call' = [call EXCEPT ![c] = r]
      /\ UNCHANGED <<token, page, pageVars, history>>
  BY DEF Answer
<1>2. GoodCall(call[c], Existing) /\ DOMAIN call[c] = {"route", "args", "live", "answer"}
  BY <1>1 DEF ConsoleInv, CallsTyped, GoodCall
<1>3. /\ DOMAIN r = {"route", "args", "live", "answer"} /\ r.answer = answer
      /\ r.route = call[c].route /\ r.args = call[c].args /\ r.live = call[c].live
  BY <1>2
<1> HIDE DEF r
<1>4. GoodCall(call[c], Existing')
  BY <1>2, Grows
<1>5. GoodCall(r, Existing')
  BY <1>3, <1>4 DEF GoodCall
<1>6. CallsTyped'
  BY <1>1, <1>5, CallSet DEF ConsoleInv
<1>7. PageTyped'
  BY <1>1, PageKept DEF ConsoleInv
<1>8. /\ page' = page /\ ticket' = ticket /\ form' = form /\ about' = about
      /\ hasty' = hasty /\ touched' = touched /\ created' = created
  BY <1>1 DEF pageVars, history
<1>9. FormPlaced'
  BY <1>8 DEF FormPlaced, Agrees, ConsoleInv
<1>10. call'[c] = r /\ \A d \in Calls \ {c} : call'[d] = call[d]
  BY <1>1 DEF ConsoleInv, CallsTyped
<1>11. r # Idle
  BY <1>5, NotIdle
<1>12. InFlight' = InFlight /\ InFlight \subseteq Calls
  BY <1>1, <1>3, <1>10, <1>11 DEF InFlight
<1>13. \A d \in Calls : call'[d].route = call[d].route /\ call'[d].args = call[d].args
  BY <1>3, <1>10
<1>14. OneAtATime' /\ LoginAlone'
  BY <1>8, <1>12, <1>13 DEF OneAtATime, LoginAlone, ConsoleInv
<1>15. ASSUME NEW d \in InFlight, call[d].route = "update_ticket" PROVE SavePlaced(d)'
  BY <1>8, <1>12, <1>13, <1>15 DEF SavePlaced, FlightPlaced, ConsoleInv
<1>16. ASSUME NEW d \in InFlight, call[d].route = "create_ticket" PROVE CreationPlaced(d)'
  <2>1. CASE d # c
    BY <1>8, <1>10, <1>12, <1>16, <2>1 DEF CreationPlaced, FlightPlaced, ConsoleInv
  <2>2. CASE d = c
    <3>1. about["next_action"] \in Existing \cup {0}
      BY DEF ConsoleInv, PageTyped, Fields
    <3>2. call'[d].answer = answer
      BY <1>3, <1>10, <2>2
    <3> QED BY <1>8, <1>16, <2>2, <3>1, <3>2 DEF CreationPlaced
  <2> QED BY <2>1, <2>2
<1>17. FlightPlaced'
  BY <1>12, <1>13, <1>15, <1>16 DEF FlightPlaced
<1> QED BY <1>6, <1>7, <1>9, <1>14, <1>17 DEF ConsoleInv

\* The store is as it was.
LEMMA StoreAlone ==
  ASSUME ConsoleInv, NEW c \in Calls, NEW answer, Answer(c, answer), UNCHANGED store
  PROVE  StoreTyped' /\ Existing' = Existing
BY DEF Answer, StoreTyped, Existing, ConsoleInv

\* The request that is served.
LEMMA Served ==
  ASSUME ConsoleInv, NEW c \in Calls, NEW answer, Answer(c, answer)
  PROVE  GoodArgs(call[c].route, call[c].args, Existing)
BY DEF Answer, ConsoleInv, CallsTyped, GoodCall

LEMMA ServeLoginKeeps ==
  ASSUME ConsoleInv, NEW c \in Calls, NEW ok \in BOOLEAN, ServeLogin(c, ok)
  PROVE  ConsoleInv'
<1> DEFINE answer == IF ok THEN [http |-> 200] ELSE [http |-> 401, why |-> "Unauthenticated"]
<1>1. call[c].route = "login" /\ Answer(c, answer) /\ UNCHANGED store
  BY DEF ServeLogin
<1> HIDE DEF answer
<1>2. GoodAnswer(call[c].route, call[c].args, answer, Existing')
  BY <1>1 DEF GoodAnswer
<1> QED BY <1>1, <1>2, StoreAlone, AnswerKeeps

LEMMA ServeErrorKeeps ==
  ASSUME ConsoleInv, NEW c \in Calls, NEW expired \in BOOLEAN, ServeError(c, expired)
  PROVE  ConsoleInv'
<1> DEFINE answer == IF expired THEN [http |-> 401, why |-> "Unauthenticated"]
                     ELSE Respond(call[c].route, Err("Unavailable"))
<1>1. call[c].route \in DOMAIN RouteError /\ Answer(c, answer) /\ UNCHANGED store
  BY DEF ServeError
<1>2. ~ IsOk(answer)
  <2>1. CASE expired
    BY <2>1 DEF IsOk
  <2>2. CASE ~ expired
    <3>1. Err("Unavailable").code # "Ok"
      BY DEF Err
    <3> QED BY <1>1, <2>2, <3>1, ErrorsAreNotOk
  <2> QED BY <2>1, <2>2
<1> HIDE DEF answer
<1>3. GoodAnswer(call[c].route, call[c].args, answer, Existing')
  BY <1>2 DEF GoodAnswer
<1> QED BY <1>1, <1>2, <1>3, StoreAlone, AnswerKeeps

\* A query answers with stored tickets.
LEMMA QueryIsGood ==
  ASSUME StoreTyped, NEW filter, IsOk(Respond("list_tickets", QueryTickets(filter)))
  PROVE  Respond("list_tickets", QueryTickets(filter)).tickets \subseteq Row(Existing)
<1> DEFINE hits == {t \in Ids : /\ store[t] # NoTicket
                                /\ filter = {} \/ Code(store[t].body.status) \in filter}
           outcome == QueryTickets(filter)
<1>0. "list_tickets" \in DOMAIN RouteError
  BY DEF RouteError
<1>1. CASE \E t \in hits : Decrypt(t) = Undecrypted
  <2>1. outcome.code # "Ok"
    BY <1>1 DEF QueryTickets, Err
  <2> QED BY <1>0, <2>1, ErrorsAreNotOk
<1>2. CASE ~ \E t \in hits : Decrypt(t) = Undecrypted
  <2>1. outcome = [code |-> "Ok", tickets |-> {DomainToProto(t, Decrypt(t)) : t \in hits}]
    BY <1>2 DEF QueryTickets
  <2>2. outcome.code = "Ok" /\ outcome.tickets = {DomainToProto(t, Decrypt(t)) : t \in hits}
    BY <2>1
  <2> HIDE DEF outcome
  <2>3. Respond("list_tickets", outcome).tickets = {ApiTicket(x) : x \in outcome.tickets}
    BY <2>2 DEF Respond
  <2>4. ASSUME NEW t \in hits PROVE ApiTicket(DomainToProto(t, Decrypt(t))) \in Row(Existing)
    <3>1. t \in Existing /\ Decrypt(t) \in Body
      BY <1>2, DecryptIs DEF Existing
    <3>2. ShownAs(t, Decrypt(t)) \in Row(Existing)
      BY <3>1, StoredIsRow
    <3> QED BY <3>2 DEF ShownAs
  <2> QED BY <2>2, <2>3, <2>4 DEF outcome
<1> QED BY <1>1, <1>2

LEMMA ServeReadKeeps ==
  ASSUME ConsoleInv, NEW c \in Calls, ServeRead(c)
  PROVE  ConsoleInv'
<1> DEFINE name == call[c].route
           answer == Respond(name, IF name = "get_ticket" THEN GetTicket(call[c].args.id)
                                   ELSE QueryTickets(call[c].args.status))
<1>1. name \in {"get_ticket", "list_tickets"} /\ Answer(c, answer) /\ UNCHANGED store
  BY DEF ServeRead
<1>2. StoreTyped /\ Existing' = Existing /\ StoreTyped'
  BY <1>1, StoreAlone DEF ConsoleInv
<1>3. GoodAnswer(name, call[c].args, answer, Existing)
  <2>1. CASE name = "get_ticket"
    <3> DEFINE t == call[c].args.id
    <3>1. t \in Ids
      BY <1>1, <2>1, Served DEF GoodArgs
    <3>2. answer = Respond("get_ticket", GetTicket(t)) /\ "get_ticket" \in DOMAIN RouteError
      BY <2>1 DEF RouteError
    <3>3. CASE GetTicket(t).code \in {"NotFound", "Internal"}
      <4>1. GetTicket(t).code # "Ok"
        BY <3>3
      <4>2. ~ IsOk(answer)
        BY <3>2, <4>1, ErrorsAreNotOk
      <4> QED BY <4>2 DEF GoodAnswer
    <3>4. CASE /\ t \in Existing /\ store[t].body \in Body
               /\ GetTicket(t) = Found(t, store[t].body)
      <4>1. answer.ticket = ShownAs(t, store[t].body)
        BY <3>2, <3>4, FoundIsShown
      <4>2. answer.ticket \in Row(Existing)
        BY <3>4, <4>1, StoredIsRow
      <4> HIDE DEF answer
      <4> QED BY <2>1, <4>2 DEF GoodAnswer
    <3> QED BY <1>2, <3>1, <3>3, <3>4, GetTicketIs
  <2>2. CASE name = "list_tickets"
    <3>1. answer = Respond("list_tickets", QueryTickets(call[c].args.status))
      BY <2>2
    <3>2. IsOk(answer) => answer.tickets \subseteq Row(Existing)
      BY <1>2, <3>1, QueryIsGood
    <3> HIDE DEF answer
    <3> QED BY <2>2, <3>2 DEF GoodAnswer
  <2> QED BY <1>1, <2>1, <2>2
<1> HIDE DEF answer
<1>4. GoodAnswer(name, call[c].args, answer, Existing')
  BY <1>2, <1>3
<1> QED BY <1>1, <1>2, <1>4, AnswerKeeps

\* A new ticket gets an id that no form is about.
LEMMA ServeCreateKeeps ==
  ASSUME ConsoleInv, NEW c \in Calls, ServeCreate(c)
  PROVE  ConsoleInv'
<1> DEFINE t == CHOOSE x \in Free : \A y \in Free : x <= y
           title == call[c].args.title
           body == NewTicket(title)
<1>1. call[c].route = "create_ticket" /\ Free # {} /\ "create_ticket" \in DOMAIN RouteError
  BY DEF ServeCreate, RouteError
<1>2. t \in Free
  <2>1. Free \subseteq Nat
    BY ConsoleAssumption DEF Free, Ids
  <2> QED BY <1>1, <2>1, LeastId
<1>3. t \in Ids /\ t \notin Existing \cup {0}
  <2>1. \A x \in Free : x \in Ids /\ x \notin Existing \cup {0}
    BY ConsoleAssumption DEF Free, Existing, Ids
  <2> HIDE DEF t
  <2> QED BY <1>2, <2>1
<1>4. CASE title = Blank
  <2> DEFINE answer == Respond("create_ticket", Err("InvalidArgument"))
  <2>1. Answer(c, answer) /\ UNCHANGED store
    BY <1>4 DEF ServeCreate
  <2>2. Err("InvalidArgument").code # "Ok"
    BY DEF Err
  <2>3. ~ IsOk(answer)
    BY <1>1, <2>2, ErrorsAreNotOk
  <2> HIDE DEF answer
  <2>4. GoodAnswer(call[c].route, call[c].args, answer, Existing')
    BY <2>3 DEF GoodAnswer
  <2> QED BY <2>1, <2>3, <2>4, StoreAlone, AnswerKeeps
<1>5. CASE title # Blank
  <2> DEFINE answer == Respond("create_ticket", Found(t, body))
             box == Seal(body, route)
  <2>1. Answer(c, answer) /\ store' = [store EXCEPT ![t] = box]
    BY <1>5 DEF ServeCreate
  <2>2. title \in Titles
    BY <1>1, <2>1, Served DEF GoodArgs
  <2> HIDE DEF title
  <2>3. body \in Body
    BY <2>2, NewTicketIsBody
  <2> HIDE DEF body, t
  <2>4. box \in [kem : Keys, body : Body] /\ box # NoTicket
    BY <2>3, Sealed DEF ConsoleInv, StoreTyped
  <2> HIDE DEF box
  <2>5. StoreTyped'
    BY <2>1, <2>4 DEF StoreTyped, ConsoleInv, Answer
  <2>6. Existing \subseteq Existing' /\ t \in Existing'
    BY <1>3, <2>1, <2>4 DEF Existing, StoreTyped, ConsoleInv
  <2>7. answer.ticket = ShownAs(t, body)
    BY FoundIsShown
  <2>8. ShownAs(t, body) \in Row(Existing') /\ ShownAs(t, body).id = t
    BY <1>3, <2>3, <2>6, TicketIsShown DEF Row
  <2> HIDE DEF answer
  <2>9. GoodAnswer(call[c].route, call[c].args, answer, Existing')
    BY <1>1, <2>7, <2>8 DEF GoodAnswer
  <2> QED BY <1>3, <2>1, <2>5, <2>6, <2>7, <2>8, <2>9, AnswerKeeps
<1> QED BY <1>4, <1>5

\* What the custodian makes of a save: the stored ticket with the fields that were sent,
\* or an error, which is a refused move only if the lifecycle forbids it.
LEMMA UpdateOutcomeIs ==
  ASSUME StoreTyped, NEW a, GoodSave(a, Existing)
  PROVE  LET body    == store[a.id].body
             new     == Updated(body, UpdateRequest(a.body))
             outcome == UpdateOutcome(a.id, UpdateRequest(a.body))
         IN  /\ a.id \in Existing /\ body \in Body /\ new \in Body
             /\ new.status = L!FromU8(L!AsByte(a.form.status))
             /\ ShowsAll(a.form, ShownAs(a.id, new))
             /\ \/ /\ outcome = Found(a.id, new) /\ outcome.code = "Ok"
                   /\ store[a.id].kem = route /\ Decrypt(a.id) = body
                \/ /\ outcome.code # "Ok"
                   /\ outcome.code = "FailedPrecondition" =>
                        ~ L!CanTransitionTo(body.status, new.status)
<1> DEFINE t       == a.id
           req     == UpdateRequest(a.body)
           body    == store[t].body
           new     == Updated(body, req)
           outcome == UpdateOutcome(t, req)
<1>1. /\ a.loaded \in Row(Existing) /\ a.id = a.loaded.id /\ a.form \in Form
      /\ a.body = UpdateBody(a.form)
      /\ a.form.kind \in {"follow_up", "appointment"} => a.form.at \in Int
  BY DEF GoodSave
<1>2. t \in Existing /\ t \in Ids /\ store[t] # NoTicket
  BY <1>1 DEF Row, Existing
<1>3. body \in Body
  BY <1>2, DecryptIs
<1>4. /\ new \in Body /\ new.status = L!FromU8(L!AsByte(a.form.status))
      /\ ShowsAll(a.form, ShownAs(t, new))
  BY <1>1, <1>2, <1>3, SaveShown
<1>5. CASE ~ locked[t]
  <2>1. outcome.code = "PermissionDenied"
    BY <1>5 DEF UpdateOutcome, Err
  <2> QED BY <1>2, <1>3, <1>4, <2>1
<1>6. CASE locked[t] /\ GetTicket(t).code # "Ok"
  <2>1. outcome = GetTicket(t)
    BY <1>6 DEF UpdateOutcome
  <2>2. GetTicket(t).code \in {"NotFound", "Internal"}
    BY <1>2, <1>6, GetTicketIs
  <2> QED BY <1>2, <1>3, <1>4, <2>1, <2>2
<1>7. CASE locked[t] /\ GetTicket(t).code = "Ok"
  <2>1. store[t].kem = route /\ Decrypt(t) = body
    BY <1>2, <1>7, GetTicketIs
  <2>2. CASE ~ L!CanTransitionTo(body.status, new.status)
    <3>1. outcome.code = "FailedPrecondition"
      BY <1>7, <2>1, <2>2 DEF UpdateOutcome, Err
    <3> QED BY <1>2, <1>3, <1>4, <2>2, <3>1
  <2>3. CASE L!CanTransitionTo(body.status, new.status)
    <3>1. outcome = Found(t, new)
      BY <1>7, <2>1, <2>3 DEF UpdateOutcome
    <3> QED BY <1>2, <1>3, <1>4, <2>1, <3>1, FoundIsShown
  <2> QED BY <2>2, <2>3
<1> QED BY <1>5, <1>6, <1>7

\* A save that is served, with what it stores.
LEMMA ServedUpdate ==
  ASSUME ConsoleInv, NEW c \in Calls, ServeUpdate(c)
  PROVE  LET a       == call[c].args
             new     == Updated(store[a.id].body, UpdateRequest(a.body))
             outcome == UpdateOutcome(a.id, UpdateRequest(a.body))
         IN  /\ call[c].route = "update_ticket" /\ "update_ticket" \in DOMAIN RouteError
             /\ GoodSave(a, Existing)
             /\ Answer(c, Respond("update_ticket", outcome))
             /\ outcome.code = "Ok" => store' = [store EXCEPT ![a.id] = Seal(new, route)]
             /\ outcome.code # "Ok" => store' = store
<1> DEFINE a == call[c].args
           outcome == UpdateOutcome(a.id, UpdateRequest(a.body))
<1>1. /\ call[c].route = "update_ticket" /\ "update_ticket" \in DOMAIN RouteError
      /\ Answer(c, Respond("update_ticket", outcome))
      /\ outcome.code = "Ok" =>
           store' = [store EXCEPT ![a.id] = Seal(Updated(Decrypt(a.id), UpdateRequest(a.body)), route)]
      /\ outcome.code # "Ok" => store' = store
  BY DEF ServeUpdate, RouteError
<1>2. GoodSave(a, Existing)
  BY <1>1, Served DEF GoodArgs
<1>3. outcome.code = "Ok" => Decrypt(a.id) = store[a.id].body
  BY <1>2, UpdateOutcomeIs DEF ConsoleInv
<1> QED BY <1>1, <1>2, <1>3

LEMMA ServeUpdateKeeps ==
  ASSUME ConsoleInv, NEW c \in Calls, ServeUpdate(c)
  PROVE  ConsoleInv'
<1> DEFINE a       == call[c].args
           t       == a.id
           new     == Updated(store[t].body, UpdateRequest(a.body))
           outcome == UpdateOutcome(t, UpdateRequest(a.body))
           answer  == Respond("update_ticket", outcome)
           box     == Seal(new, route)
<1>1. /\ call[c].route = "update_ticket" /\ "update_ticket" \in DOMAIN RouteError
      /\ GoodSave(a, Existing) /\ Answer(c, answer)
      /\ outcome.code = "Ok" => store' = [store EXCEPT ![t] = box]
      /\ outcome.code # "Ok" => store' = store
  BY ServedUpdate
<1>2. /\ t \in Existing /\ new \in Body /\ ShowsAll(a.form, ShownAs(t, new))
      /\ outcome.code # "Ok" \/ outcome = Found(t, new)
  BY <1>1, UpdateOutcomeIs DEF ConsoleInv
<1>3. CASE outcome.code # "Ok"
  <2>1. ~ IsOk(answer) /\ UNCHANGED store
    BY <1>1, <1>3, ErrorsAreNotOk
  <2> HIDE DEF answer
  <2>2. GoodAnswer(call[c].route, call[c].args, answer, Existing')
    BY <2>1 DEF GoodAnswer
  <2> QED BY <1>1, <2>1, <2>2, StoreAlone, AnswerKeeps
<1>4. CASE outcome.code = "Ok"
  <2>1. answer.ticket = ShownAs(t, new)
    BY <1>2, <1>4, FoundIsShown
  <2>2. store' = [store EXCEPT ![t] = box] /\ Answer(c, answer)
    BY <1>1, <1>4
  <2> HIDE DEF answer, outcome, new
  <2>3. box \in [kem : Keys, body : Body] /\ box # NoTicket
    BY <1>2, Sealed DEF ConsoleInv, StoreTyped
  <2> HIDE DEF box
  <2>4. StoreTyped'
    BY <2>2, <2>3 DEF StoreTyped, ConsoleInv, Answer
  <2>5. Existing' = Existing
    BY <1>2, <2>2, <2>3 DEF Existing, StoreTyped, ConsoleInv
  <2>6. ShownAs(t, new) \in Row(Existing) /\ ShownAs(t, new).id = t
    BY <1>2, StoredIsRow
  <2>7. /\ answer.ticket \in Row(Existing) /\ answer.ticket.id = t
        /\ ShowsAll(a.form, answer.ticket)
    BY <1>2, <2>1, <2>6
  <2>8. GoodAnswer(call[c].route, call[c].args, answer, Existing')
    BY <1>1, <2>5, <2>7 DEF GoodAnswer
  <2> QED BY <1>1, <2>2, <2>4, <2>5, <2>8, AnswerKeeps
<1> QED BY <1>3, <1>4

-----------------------------------------------------------------------------
(* Answers in the page.                                                    *)

\* A request that is over.
LEMMA FinishedCall ==
  ASSUME ConsoleInv, NEW c \in Calls, call' = [call EXCEPT ![c] = Idle], UNCHANGED backend
  PROVE  /\ CallsTyped' /\ StoreTyped' /\ Existing' = Existing
         /\ InFlight' = InFlight \ {c} /\ InFlight \subseteq Calls
         /\ \A d \in Calls \ {c} : call'[d] = call[d]
<1>1. StoreTyped' /\ Existing' = Existing
  BY PageAlone DEF ConsoleInv
<1>2. CallsTyped'
  BY <1>1, CallSet DEF ConsoleInv
<1>3. call'[c] = Idle /\ \A d \in Calls \ {c} : call'[d] = call[d]
  BY DEF ConsoleInv, CallsTyped
<1>4. InFlight' = InFlight \ {c}
  BY <1>3 DEF InFlight
<1> QED BY <1>1, <1>2, <1>3, <1>4 DEF InFlight

LEMMA DiscardKeeps ==
  ASSUME ConsoleInv, NEW c \in Calls, Discard(c)
  PROVE  ConsoleInv'
<1>1. /\ call' = [call EXCEPT ![c] = Idle] /\ UNCHANGED backend
      /\ UNCHANGED <<token, page, pageVars, history>>
  BY DEF Discard
<1>2. /\ CallsTyped' /\ StoreTyped' /\ Existing' = Existing
      /\ InFlight' = InFlight \ {c} /\ InFlight \subseteq Calls
      /\ \A d \in Calls \ {c} : call'[d] = call[d]
  BY <1>1, FinishedCall
<1>3. PageTyped'
  BY <1>1, <1>2, PageKept DEF ConsoleInv
<1>4. /\ page' = page /\ ticket' = ticket /\ form' = form /\ about' = about
      /\ hasty' = hasty /\ touched' = touched /\ created' = created
  BY <1>1 DEF pageVars, history
<1>5. FormPlaced'
  BY <1>4 DEF FormPlaced, Agrees, ConsoleInv
<1>6. OneAtATime' /\ LoginAlone'
  BY <1>2, <1>4 DEF OneAtATime, LoginAlone, ConsoleInv
<1>7. FlightPlaced'
  BY <1>2, <1>4 DEF FlightPlaced, SavePlaced, CreationPlaced, ConsoleInv
<1> QED BY <1>2, <1>3, <1>5, <1>6, <1>7 DEF ConsoleInv

\* An answer arrives that the page waits for; if it waits for another one too, the
\* history says so.
LEMMA Arrived ==
  ASSUME ConsoleInv, NEW c \in Calls, NEW name \in {"login"} \cup DOMAIN RouteError,
         Arrives(c, name)
  PROVE  /\ CallsTyped' /\ StoreTyped' /\ Existing' = Existing /\ UNCHANGED backend
         /\ InFlight' = InFlight \ {c} /\ InFlight \subseteq Calls /\ c \in InFlight
         /\ \A d \in Calls \ {c} : call'[d] = call[d]
         /\ InFlight' # {} => hasty
         /\ call[c].route = name /\ call[c].answer # Null /\ IsOk(call[c].answer)
         /\ GoodCall(call[c], Existing)
<1>1. /\ call[c].route = name /\ call[c].live /\ call[c].answer # Null /\ IsOk(call[c].answer)
      /\ call' = [call EXCEPT ![c] = Idle] /\ UNCHANGED backend
  BY DEF Arrives
<1>2. /\ CallsTyped' /\ StoreTyped' /\ Existing' = Existing
      /\ InFlight' = InFlight \ {c} /\ InFlight \subseteq Calls
      /\ \A d \in Calls \ {c} : call'[d] = call[d]
  BY <1>1, FinishedCall
<1>3. call[c] # Idle
  <2>1. Idle.route = "idle"
    BY DEF Idle
  <2>2. name # "idle"
    BY DEF RouteError
  <2> QED BY <1>1, <2>1, <2>2
<1>4. GoodCall(call[c], Existing) /\ c \in InFlight
  BY <1>1, <1>3 DEF ConsoleInv, CallsTyped, InFlight
<1>5. InFlight' # {} => hasty
  BY <1>2, <1>4 DEF ConsoleInv, OneAtATime
<1> QED BY <1>1, <1>2, <1>4, <1>5

\* The console opens, and nobody waits for anything else.
LEMMA ArriveLoginKeeps ==
  ASSUME ConsoleInv, NEW c \in Calls, ArriveLogin(c)
  PROVE  ConsoleInv'
<1>1. Arrives(c, "login") /\ token' = TRUE /\ Mount("tickets")
  BY DEF ArriveLogin
<1>2. /\ CallsTyped' /\ UNCHANGED backend /\ InFlight' = InFlight \ {c} /\ c \in InFlight
      /\ call[c].route = "login"
  BY <1>1, Arrived
<1>3. \A d \in InFlight : d = c
  BY <1>2 DEF ConsoleInv, LoginAlone
<1>4. InFlight' = {}
  BY <1>2, <1>3
<1> QED BY <1>1, <1>2, <1>4, MountKeeps

LEMMA ArriveLookupKeeps ==
  ASSUME ConsoleInv, NEW c \in Calls, ArriveLookup(c)
  PROVE  ConsoleInv'
<1> DEFINE row == call[c].answer.ticket
           calm == InFlight = {c}
<1>1. /\ Arrives(c, "get_ticket") /\ Load(row, calm) /\ UNCHANGED <<token, page, results>>
      /\ "get_ticket" \in DOMAIN RouteError
  BY DEF ArriveLookup, RouteError
<1>2. /\ CallsTyped' /\ UNCHANGED backend
      /\ InFlight' = InFlight \ {c} /\ InFlight \subseteq Calls
      /\ \A d \in Calls \ {c} : call'[d] = call[d]
      /\ call[c].route = "get_ticket" /\ call[c].answer # Null /\ IsOk(call[c].answer)
      /\ GoodCall(call[c], Existing)
  BY <1>1, Arrived
<1>3. row \in Row(Existing)
  BY <1>2 DEF GoodCall, GoodAnswer
<1>4. calm \in BOOLEAN /\ (calm => InFlight' = {}) /\ InFlight' \subseteq InFlight
      /\ \A d \in InFlight' : call'[d] = call[d]
  BY <1>2
<1> HIDE DEF row, calm
<1> QED BY <1>1, <1>2, <1>3, <1>4, LoadKeeps

\* What is in flight besides an answer that arrives is in flight in haste.
LEMMA OthersInHaste ==
  ASSUME ConsoleInv, UNCHANGED <<page, hasty>>, NEW c \in Calls,
         NEW name \in {"login"} \cup DOMAIN RouteError, Arrives(c, name)
  PROVE  OneAtATime' /\ LoginAlone' /\ FlightPlaced'
<1>1. /\ InFlight' = InFlight \ {c} /\ InFlight \subseteq Calls /\ (InFlight' # {} => hasty)
      /\ \A d \in Calls \ {c} : call'[d] = call[d]
  BY Arrived
<1>2. OneAtATime'
  BY <1>1 DEF OneAtATime
<1>3. LoginAlone'
  BY <1>1 DEF LoginAlone, ConsoleInv
<1>4. FlightPlaced'
  BY <1>1 DEF FlightPlaced, SavePlaced, CreationPlaced
<1> QED BY <1>2, <1>3, <1>4

LEMMA ArriveSearchKeeps ==
  ASSUME ConsoleInv, NEW c \in Calls, ArriveSearch(c)
  PROVE  ConsoleInv'
<1>1. /\ Arrives(c, "list_tickets") /\ results' = call[c].answer.tickets
      /\ UNCHANGED <<token, page, ticket, form, history>> /\ "list_tickets" \in DOMAIN RouteError
  BY DEF ArriveSearch, RouteError
<1>2. /\ CallsTyped' /\ StoreTyped' /\ Existing' = Existing
      /\ call[c].route = "list_tickets" /\ call[c].answer # Null /\ IsOk(call[c].answer)
      /\ GoodCall(call[c], Existing)
  BY <1>1, Arrived
<1>3. results' \subseteq Row(Existing)
  BY <1>1, <1>2 DEF GoodCall, GoodAnswer
<1>4. /\ token' = token /\ page' = page /\ ticket' = ticket /\ form' = form /\ about' = about
      /\ hasty' = hasty /\ touched' = touched /\ created' = created
  BY <1>1 DEF history
<1>5. PageTyped'
  BY <1>2, <1>3, <1>4 DEF ConsoleInv, PageTyped, Row
<1>6. FormPlaced'
  BY <1>4 DEF FormPlaced, Agrees, ConsoleInv
<1>7. OneAtATime' /\ LoginAlone' /\ FlightPlaced'
  BY <1>1, <1>4, OthersInHaste
<1> QED BY <1>2, <1>5, <1>6, <1>7 DEF ConsoleInv

\* The form is about the ticket that was created, but for the next action.
LEMMA ArriveCreateKeeps ==
  ASSUME ConsoleInv, NEW c \in Calls, ArriveCreate(c)
  PROVE  ConsoleInv'
<1> DEFINE t == call[c].answer.ticket
<1>1. /\ Arrives(c, "create_ticket") /\ "create_ticket" \in DOMAIN RouteError
      /\ form' = [form EXCEPT !.title = t.title, !.status = t.status] /\ ticket' = t
      /\ about' = [about EXCEPT !["title"] = t.id, !["status"] = t.id] /\ created' = TRUE
      /\ UNCHANGED <<token, page, results, hasty, touched>>
  BY DEF ArriveCreate, RouteError
<1>2. /\ CallsTyped' /\ StoreTyped' /\ Existing' = Existing /\ c \in InFlight
      /\ call[c].route = "create_ticket" /\ call[c].answer # Null /\ IsOk(call[c].answer)
      /\ GoodCall(call[c], Existing)
  BY <1>1, Arrived
<1>3. t \in Row(Existing)
  BY <1>2 DEF GoodCall, GoodAnswer
<1>4. hasty \/ about["next_action"] # t.id
  BY <1>2 DEF ConsoleInv, FlightPlaced, CreationPlaced
<1> HIDE DEF t
<1>5. t.title \in Titles /\ t.status \in STATUSES /\ t.id \in Existing
  BY <1>3 DEF Row, Shape
<1>6. /\ form \in Form /\ about \in [Fields -> Existing \cup {0}]
      /\ results \subseteq Row(Existing) /\ token \in BOOLEAN /\ page \in {"login", "tickets"}
      /\ hasty \in BOOLEAN /\ touched \in BOOLEAN
  BY DEF ConsoleInv, PageTyped
<1>7. form' \in Form /\ form'.title = t.title /\ form'.status = t.status
  BY <1>1, <1>5, <1>6 DEF Form
<1>8. /\ about' \in [Fields -> Existing \cup {0}]
      /\ about'["title"] = t.id /\ about'["status"] = t.id
      /\ about'["next_action"] = about["next_action"]
  BY <1>1, <1>5, <1>6 DEF Fields
<1>9. PageTyped'
  BY <1>1, <1>2, <1>3, <1>6, <1>7, <1>8 DEF PageTyped, Row
<1>10. FormPlaced'
  <2> SUFFICES ASSUME NEW x \in Fields
               PROVE  /\ about'[x] = t.id \/ hasty \/ x = "next_action"
                      /\ (about'[x] = t.id /\ ~ hasty) => Agrees(x, form', t)
    BY <1>1 DEF FormPlaced, Agrees
  <2>1. CASE x = "next_action"
    BY <1>4, <1>8, <2>1
  <2>2. CASE x # "next_action"
    BY <1>7, <1>8, <2>2 DEF Fields, Agrees
  <2> QED BY <2>1, <2>2
<1>11. OneAtATime' /\ LoginAlone' /\ FlightPlaced'
  BY <1>1, OthersInHaste
<1> QED BY <1>2, <1>9, <1>10, <1>11 DEF ConsoleInv

\* The page shows the ticket that was saved as its form does.
LEMMA ArriveUpdateKeeps ==
  ASSUME ConsoleInv, NEW c \in Calls, ArriveUpdate(c)
  PROVE  ConsoleInv'
<1> DEFINE t == call[c].answer.ticket
           a == call[c].args
<1>1. /\ Arrives(c, "update_ticket") /\ ticket' = t /\ "update_ticket" \in DOMAIN RouteError
      /\ UNCHANGED <<token, page, results, form, history>>
  BY DEF ArriveUpdate, RouteError
<1>2. /\ CallsTyped' /\ StoreTyped' /\ Existing' = Existing /\ c \in InFlight
      /\ call[c].route = "update_ticket" /\ call[c].answer # Null /\ IsOk(call[c].answer)
      /\ GoodCall(call[c], Existing)
  BY <1>1, Arrived
<1>3. t \in Row(Existing) /\ t.id = a.id /\ ShowsAll(a.form, t)
  BY <1>2 DEF GoodCall, GoodAnswer
<1>4. /\ hasty \/ (ticket # Null /\ ticket.id = a.id)
      /\ hasty \/ touched \/ form = a.form
  BY <1>2 DEF ConsoleInv, FlightPlaced, SavePlaced
<1> HIDE DEF t, a
<1>5. /\ token' = token /\ page' = page /\ results' = results /\ form' = form
      /\ about' = about /\ hasty' = hasty /\ touched' = touched /\ created' = created
  BY <1>1 DEF history
<1>6. PageTyped'
  BY <1>1, <1>2, <1>3, <1>5 DEF ConsoleInv, PageTyped, Row
<1>7. FormPlaced'
  <2> SUFFICES ASSUME NEW x \in Fields
               PROVE  /\ about[x] = t.id \/ hasty \/ (created /\ x = "next_action")
                      /\ (about[x] = t.id /\ ~ hasty /\ ~ touched) => Agrees(x, form, t)
    BY <1>1, <1>5 DEF FormPlaced, Agrees
  <2>1. CASE hasty
    BY <2>1
  <2>2. CASE ~ hasty
    <3>1. about[x] = t.id \/ (created /\ x = "next_action")
      BY <1>3, <1>4, <2>2 DEF ConsoleInv, FormPlaced
    <3>2. ~ touched => Agrees(x, form, t)
      BY <1>3, <1>4, <2>2 DEF ShowsAll
    <3> QED BY <3>1, <3>2
  <2> QED BY <2>1, <2>2
<1>8. OneAtATime' /\ LoginAlone' /\ FlightPlaced'
  BY <1>1, <1>5, OthersInHaste
<1> QED BY <1>2, <1>6, <1>7, <1>8 DEF ConsoleInv

-----------------------------------------------------------------------------
(* The theorems.                                                           *)

LEMMA StutterKeeps ==
  ASSUME ConsoleInv, UNCHANGED vars
  PROVE  ConsoleInv'
<1>1. StoreTyped' /\ Existing' = Existing
  BY DEF vars, backend, StoreTyped, Existing, ConsoleInv
<1>2. UNCHANGED <<token, page, pageVars, call, history>>
  BY DEF vars
<1> QED BY <1>1, <1>2, BackendKeeps

LEMMA UserKeeps ==
  ASSUME ConsoleInv, User
  PROVE  ConsoleInv'
<1>1. CASE \/ \E x \in Titles : TypeTitle(x)
           \/ \E s \in Statuses : PickStatus(s)
           \/ \E k \in Kinds : PickKind(k)
           \/ \E at \in Ats : TypeAt(at)
           \/ \E s \in Schedules : PickSchedule(s)
  BY <1>1, FormInputsKeep
<1>2. ASSUME NEW c \in Calls, Login(c) PROVE ConsoleInv'
  BY <1>2, LoginKeeps
<1>3. ASSUME NEW c \in Calls, Update(c) PROVE ConsoleInv'
  BY <1>3, UpdateKeeps
<1>4. ASSUME NEW c \in Calls,
             \/ \E t \in Ids : Lookup(c, t)
             \/ \E filter \in Filters : Search(c, filter)
             \/ \E title \in Titles : Create(c, title)
      PROVE  ConsoleInv'
  BY <1>4, RequestsKeep
<1> QED BY <1>1, <1>2, <1>3, <1>4, OpenTicketsKeeps, SignOutKeeps, EditRowKeeps DEF User

LEMMA ConsoleInvariant == Spec => []ConsoleInv
<1>1. ConsoleInv /\ [Next]_vars => ConsoleInv'
  <2> SUFFICES ASSUME ConsoleInv, [Next]_vars PROVE ConsoleInv'
    OBVIOUS
  <2>1. ASSUME NEW c \in Calls, Serve(c) PROVE ConsoleInv'
    BY <2>1, ServeLoginKeeps, ServeErrorKeeps, ServeReadKeeps, ServeCreateKeeps,
       ServeUpdateKeeps DEF Serve
  <2>2. ASSUME NEW c \in Calls, Arrive(c) PROVE ConsoleInv'
    BY <2>2, DiscardKeeps, ArriveLoginKeeps, ArriveLookupKeeps, ArriveSearchKeeps,
       ArriveCreateKeeps, ArriveUpdateKeeps DEF Arrive
  <2> QED BY <2>1, <2>2, UserKeeps, LockChangesKeeps, OtherUpdateKeeps, RedirectKeeps,
             StutterKeeps DEF Next
<1> QED BY <1>1, InitHolds, PTL DEF Spec

\* Types: the page, the requests under way and the tickets that are stored; the form
\* holds what its inputs can show.
THEOREM ConsoleTypeCorrect == Spec => []TypeOK
<1>1. ConsoleInv => TypeOK
  <2> SUFFICES ASSUME ConsoleInv PROVE TypeOK
    OBVIOUS
  <2>1. \A row \in Row(Existing) : IsRow(row)
    BY DEF Row, Shape, IsRow
  <2>2. ASSUME NEW c \in Calls
        PROVE  \/ call[c] = Idle
               \/ call[c].route \in {"login"} \cup DOMAIN RouteError /\ call[c].live \in BOOLEAN
    BY DEF ConsoleInv, CallsTyped, GoodCall, GoodArgs
  <2>3. ASSUME NEW t \in Ids
        PROVE  store[t] = NoTicket \/ (store[t].kem \in Keys /\ store[t].body \in Body)
    BY DecryptIs DEF ConsoleInv
  <2>4. about \in [Fields -> Ids \cup {0}]
    BY DEF ConsoleInv, PageTyped, Existing
  <2> QED BY <2>1, <2>2, <2>3, <2>4 DEF ConsoleInv, PageTyped, StoreTyped, TypeOK
<1> QED BY <1>1, ConsoleInvariant, PTL

\* A save that was asked for carries what GoodSave says.
LEMMA SavesAreGood ==
  ASSUME ConsoleInv, NEW c \in Saves
  PROVE  /\ c \in Calls /\ GoodCall(call[c], Existing) /\ call[c].route = "update_ticket"
         /\ GoodSave(call[c].args, Existing)
BY DEF Saves, ConsoleInv, CallsTyped, GoodCall, GoodArgs

\* Whatever answers cross on their way, a form is saved to the ticket that it is about,
\* unless the user went on while one was on its way or created a ticket over the form.
THEOREM MisfilingIsExplained == Spec => []MisfiledOnlyInHaste
<1>1. ConsoleInv => MisfiledOnlyInHaste
  BY SavesAreGood DEF MisfiledOnlyInHaste, GoodSave
<1> QED BY <1>1, ConsoleInvariant, PTL

\* What a save stores is what its form showed, through every conversion of page,
\* gateway and custodian.
THEOREM SavesAreAsShown == Spec => []SavesStoreWhatWasShown
<1>1. ConsoleInv => SavesStoreWhatWasShown
  <2> SUFFICES ASSUME ConsoleInv, NEW c \in Saves, call[c].answer # Null, IsOk(call[c].answer)
               PROVE  LET shown  == call[c].args.form
                          stored == call[c].answer.ticket
                      IN /\ stored.status = shown.status
                         /\ shown.title # Blank => stored.title = shown.title
                         /\ shown.kind = "none" => stored.next_action = Null
                         /\ shown.kind = "auto_close" =>
                              stored.next_action = [type |-> shown.kind, schedule |-> shown.schedule]
                         /\ shown.kind \in {"follow_up", "appointment"} =>
                              stored.next_action =
                                [type |-> shown.kind,
                                 at |-> IF shown.at \in (-MaxSeconds)..MaxSeconds
                                        THEN shown.at ELSE 0]
    BY DEF SavesStoreWhatWasShown
  <2> DEFINE shown == call[c].args.form
             stored == call[c].answer.ticket
  <2>1. ShowsAll(shown, stored)
    BY SavesAreGood DEF GoodCall, GoodAnswer
  <2> HIDE DEF shown, stored
  <2>2. /\ shown.title # Blank => stored.title = shown.title
        /\ stored.status = shown.status
        /\ shown.kind # "unchanged" => stored.next_action = Wanted(shown)
    BY <2>1 DEF ShowsAll, Agrees, Fields
  <2>3. /\ shown.kind = "none" => Wanted(shown) = Null
        /\ shown.kind = "auto_close" =>
             Wanted(shown) = [type |-> shown.kind, schedule |-> shown.schedule]
        /\ shown.kind \in {"follow_up", "appointment"} =>
             Wanted(shown) = [type |-> shown.kind,
                              at |-> IF shown.at \in (-MaxSeconds)..MaxSeconds
                                     THEN shown.at ELSE 0]
    BY DEF Wanted
  <2> QED BY <2>2, <2>3 DEF shown, stored
<1> QED BY <1>1, ConsoleInvariant, PTL

-----------------------------------------------------------------------------
\* A save gets its answer only from the custodian, or as an error on the way to it.
LEMMA WhoServes ==
  ASSUME ConsoleInv, [Next]_vars, NEW c \in Saves, JustServed(c)
  PROVE  ServeUpdate(c) \/ \E expired \in BOOLEAN : ServeError(c, expired)
<1>1. /\ c \in Calls /\ call[c] # Idle /\ call[c].route = "update_ticket"
      /\ call[c].answer = Null /\ call'[c] # Idle /\ call'[c].answer # Null
      /\ DOMAIN call = Calls /\ DOMAIN call[c] = {"route", "args", "live", "answer"}
  BY SavesAreGood DEF JustServed, Saves, ConsoleInv, CallsTyped, GoodCall
<1>2. call' # call
  BY <1>1
<1>3. call' # Abandoned
  <2>1. Abandoned[c].answer = call[c].answer
    BY <1>1 DEF Abandoned
  <2> QED BY <1>1, <2>1
<1>4. ASSUME NEW d \in Calls, NEW name, NEW args, Send(d, name, args) PROVE FALSE
  BY <1>1, <1>4 DEF Send
<1>5. ASSUME NEW d \in Calls, call' = [call EXCEPT ![d] = Idle] PROVE FALSE
  BY <1>1, <1>5
<1>6. ASSUME NEW d \in Calls, NEW answer, Answer(d, answer) PROVE d = c
  BY <1>1, <1>6 DEF Answer
<1>7. ~ User
  <2>1. ASSUME NEW f, NEW changed, Type(f, changed) PROVE FALSE
    BY <1>2, <2>1 DEF Type
  <2>2. ASSUME NEW d \in Calls,
               \/ Login(d) \/ Update(d)
               \/ \E t \in Ids : Lookup(d, t)
               \/ \E filter : Search(d, filter)
               \/ \E title \in Titles : Create(d, title)
        PROVE  FALSE
    BY <1>4, <2>2 DEF Login, Update, Lookup, Search, Create
  <2>3. ~ OpenTickets /\ ~ SignOut
    BY <1>3 DEF OpenTickets, SignOut
  <2>4. ASSUME NEW row \in results, EditRow(row) PROVE FALSE
    BY <1>2, <2>4 DEF EditRow
  <2>5. /\ \A x : ~ TypeTitle(x)
        /\ \A s : ~ PickStatus(s)
        /\ \A k : ~ PickKind(k)
        /\ \A at : ~ TypeAt(at)
        /\ \A s : ~ PickSchedule(s)
    BY <2>1 DEF TypeTitle, PickStatus, PickKind, TypeAt, PickSchedule
  <2> QED BY <2>2, <2>3, <2>4, <2>5 DEF User
<1>8. ASSUME NEW d \in Calls, Arrive(d) PROVE FALSE
  <2>1. call' = [call EXCEPT ![d] = Idle]
    BY <1>8 DEF Arrive, Discard, ArriveLogin, ArriveLookup, ArriveSearch, ArriveCreate,
                ArriveUpdate, Arrives
  <2> QED BY <1>5, <2>1
<1>9. ASSUME NEW d \in Calls, Serve(d)
      PROVE  ServeUpdate(c) \/ \E expired \in BOOLEAN : ServeError(c, expired)
  <2>1. d = c
    BY <1>6, <1>9 DEF Serve, ServeLogin, ServeError, ServeRead, ServeCreate, ServeUpdate
  <2>2. /\ \A ok \in BOOLEAN : ~ ServeLogin(c, ok)
        /\ ~ ServeRead(c) /\ ~ ServeCreate(c)
    BY <1>1 DEF ServeLogin, ServeRead, ServeCreate
  <2> QED BY <1>9, <2>1, <2>2 DEF Serve
<1>10. /\ \A t \in Ids : ~ LockChanges(t)
       /\ \A t \in Ids, change \in Changes, held \in BOOLEAN : ~ OtherUpdate(t, change, held)
       /\ \A k \in Keys : ~ Redirect(k)
  BY <1>2 DEF LockChanges, OtherUpdate, Redirect
<1>11. ~ UNCHANGED vars
  BY <1>2 DEF vars
<1> QED BY <1>7, <1>8, <1>9, <1>10, <1>11 DEF Next

\* The answer to a save that the custodian serves.
LEMMA SaveAnswered ==
  ASSUME ConsoleInv, NEW c \in Saves, ServeUpdate(c)
  PROVE  LET a == call[c].args
         IN  /\ call'[c].answer =
                  Respond("update_ticket", UpdateOutcome(a.id, UpdateRequest(a.body)))
             /\ call'[c].args = a
<1> DEFINE a == call[c].args
           answer == Respond("update_ticket", UpdateOutcome(a.id, UpdateRequest(a.body)))
<1>1. /\ c \in Calls /\ DOMAIN call = Calls
      /\ DOMAIN call[c] = {"route", "args", "live", "answer"}
  BY SavesAreGood DEF ConsoleInv, CallsTyped, GoodCall
<1>2. call' = [call EXCEPT ![c].answer = answer]
  BY <1>1, ServedUpdate DEF Answer
<1> HIDE DEF answer
<1>3. call'[c].answer = answer /\ call'[c].args = a
  BY <1>1, <1>2
<1> QED BY <1>3 DEF answer

\* An error on the way to the custodian is none of its refusals.
LEMMA ErrorAnswered ==
  ASSUME ConsoleInv, NEW c \in Saves, NEW expired \in BOOLEAN, ServeError(c, expired)
  PROVE  ~ IsOk(call'[c].answer) /\ call'[c].answer.why # "FailedPrecondition"
<1> DEFINE answer == IF expired THEN [http |-> 401, why |-> "Unauthenticated"]
                     ELSE Respond(call[c].route, Err("Unavailable"))
<1>1. /\ c \in Calls /\ DOMAIN call = Calls
      /\ DOMAIN call[c] = {"route", "args", "live", "answer"}
  BY SavesAreGood DEF ConsoleInv, CallsTyped, GoodCall
<1>2. call' = [call EXCEPT ![c].answer = answer] /\ call[c].route \in DOMAIN RouteError
  BY DEF ServeError, Answer
<1>3. ~ IsOk(answer) /\ answer.why # "FailedPrecondition"
  <2>1. CASE expired
    BY <2>1 DEF IsOk
  <2>2. CASE ~ expired
    <3>1. Err("Unavailable").code = "Unavailable"
      BY DEF Err
    <3> QED BY <1>2, <2>2, <3>1, ErrorsAreNotOk
  <2> QED BY <2>1, <2>2
<1> HIDE DEF answer
<1>4. call'[c].answer = answer
  BY <1>1, <1>2
<1> QED BY <1>3, <1>4

\* The custodian refuses a status move that the page let through only when the ticket
\* has meanwhile another status than the page saw: both have the same lifecycle.
THEOREM RefusalsAreExplained == Spec => RefusalsExplained
<1> DEFINE Explained ==
      \A c \in Saves :
        (/\ JustServed(c)
         /\ call'[c].answer = Respond("update_ticket", Err("FailedPrecondition")))
        => Code(store[call[c].args.id].body.status) # call[c].args.loaded.status
<1>1. ConsoleInv /\ [Next]_vars => Explained
  <2> SUFFICES ASSUME ConsoleInv, [Next]_vars, NEW c \in Saves, JustServed(c),
                      call'[c].answer = Respond("update_ticket", Err("FailedPrecondition")),
                      Code(store[call[c].args.id].body.status) = call[c].args.loaded.status
               PROVE  FALSE
    OBVIOUS
  <2> DEFINE a == call[c].args
             body == store[a.id].body
             new == Updated(body, UpdateRequest(a.body))
             outcome == UpdateOutcome(a.id, UpdateRequest(a.body))
             answer == call'[c].answer
  <2>1. ~ IsOk(answer) /\ answer.why = "FailedPrecondition"
    <3>1. "update_ticket" \in DOMAIN RouteError
      BY DEF RouteError
    <3>2. Err("FailedPrecondition").code = "FailedPrecondition"
      BY DEF Err
    <3> QED BY <3>1, <3>2, ErrorsAreNotOk
  <2>2. ServeUpdate(c)
    BY <2>1, WhoServes, ErrorAnswered
  <2>3. answer = Respond("update_ticket", outcome)
    BY <2>2, SaveAnswered
  <2>4. /\ GoodSave(a, Existing) /\ "update_ticket" \in DOMAIN RouteError
    BY <2>2, SavesAreGood DEF RouteError
  <2>5. /\ body \in Body /\ new.status = L!FromU8(L!AsByte(a.form.status))
        /\ \/ outcome = Found(a.id, new) /\ outcome.code = "Ok"
           \/ /\ outcome.code # "Ok"
              /\ outcome.code = "FailedPrecondition" =>
                   ~ L!CanTransitionTo(body.status, new.status)
    BY <2>4, UpdateOutcomeIs DEF ConsoleInv
  <2>6. CASE outcome = Found(a.id, new)
    BY <2>1, <2>3, <2>6, FoundIsShown
  <2>7. CASE outcome.code # "Ok"
    <3>1. outcome.code = "FailedPrecondition"
      BY <2>1, <2>3, <2>4, <2>7, ErrorsAreNotOk
    <3>2. ~ L!CanTransitionTo(body.status, new.status)
      BY <2>5, <3>1
    <3>3. body.status \in L!TicketStatus /\ a.form.status \in STATUSES
      BY <2>4, <2>5 DEF Body, GoodSave, Form
    <3>4. can_transition(Code(body.status), a.form.status)
      BY <2>4 DEF GoodSave
    <3> QED BY <2>5, <3>2, <3>3, <3>4, SameLifecycle
  <2> QED BY <2>5, <2>6, <2>7
<1>2. Spec => [][Explained]_vars
  BY <1>1, ConsoleInvariant, PTL DEF Spec
<1> QED BY <1>2 DEF RefusalsExplained

\* Saving a form as it was loaded leaves the ticket as the page showed it, unless
\* somebody changed it in between.
THEOREM UntouchedSavesAreHarmless == Spec => UntouchedSavesKeepTicket
<1> DEFINE Kept ==
      \A c \in Saves :
        LET a == call[c].args
        IN (/\ JustServed(c)
            /\ IsOk(call'[c].answer)
            /\ a.foreign = {} /\ ~ a.hasty /\ ~ a.touched
            /\ View(a.id) = a.loaded)
           => View(a.id)' = View(a.id)
<1>1. ConsoleInv /\ [Next]_vars => Kept
  <2> SUFFICES ASSUME ConsoleInv, [Next]_vars, NEW c \in Saves, JustServed(c),
                      IsOk(call'[c].answer), call[c].args.foreign = {},
                      ~ call[c].args.hasty, ~ call[c].args.touched,
                      View(call[c].args.id) = call[c].args.loaded
               PROVE  View(call[c].args.id)' = View(call[c].args.id)
    OBVIOUS
  <2> DEFINE a == call[c].args
             t == a.id
             body == store[t].body
             new == Updated(body, UpdateRequest(a.body))
             outcome == UpdateOutcome(t, UpdateRequest(a.body))
  <2>1. ServeUpdate(c)
    BY WhoServes, ErrorAnswered
  <2>2. call'[c].answer = Respond("update_ticket", outcome) /\ call'[c].args = a
    BY <2>1, SaveAnswered
  <2>3. GoodSave(a, Existing) /\ "update_ticket" \in DOMAIN RouteError
    BY SavesAreGood DEF RouteError
  <2>4. outcome.code = "Ok"
    BY <2>2, <2>3, ErrorsAreNotOk
  <2>5. t \in Existing /\ t \in Ids /\ body \in Body
    BY <2>3, UpdateOutcomeIs DEF ConsoleInv, Existing
  <2>6. store' = [store EXCEPT ![t] = Seal(new, route)]
    <3>1. c \in Calls
      BY SavesAreGood
    <3> QED BY <2>1, <2>4, <3>1, ServedUpdate
  <2>7. View(t) = ShownAs(t, body)
    BY DEF View, ShownAs
  <2>8. ShowsAll(a.form, ShownAs(t, body))
    BY <2>3, <2>7 DEF GoodSave
  <2>9. ShownAs(t, new) = ShownAs(t, body)
    BY <2>3, <2>5, <2>8, SaveShown DEF GoodSave
  <2>10. store'[t].body = new
    BY <2>5, <2>6 DEF ConsoleInv, StoreTyped, Seal
  <2>11. View(call[c].args.id)' = ApiTicket(DomainToProto(t, store'[t].body))
    BY <2>2 DEF View
  <2> QED BY <2>7, <2>9, <2>10, <2>11 DEF ShownAs
<1>2. Spec => [][Kept]_vars
  BY <1>1, ConsoleInvariant, PTL DEF Spec
<1> QED BY <1>2 DEF UntouchedSavesKeepTicket

\* No step but a save, a change from outside or a creation touches the store.
LEMMA WhoStores ==
  ASSUME [Next]_vars, store' # store
  PROVE  \/ \E c \in Calls : ServeCreate(c) \/ ServeUpdate(c)
         \/ \E t \in Ids, change \in Changes, held \in BOOLEAN : OtherUpdate(t, change, held)
<1>1. ~ UNCHANGED backend
  BY DEF backend
<1>2. ~ User
  BY <1>1 DEF User, OpenTickets, SignOut, EditRow, TypeTitle, PickStatus, PickKind, TypeAt,
              PickSchedule, Type, Login, Update, Lookup, Search, Create
<1>3. \A c \in Calls : ~ Arrive(c)
  BY <1>1 DEF Arrive, Discard, ArriveLogin, ArriveLookup, ArriveSearch, ArriveCreate,
              ArriveUpdate, Arrives
<1>4. /\ \A c \in Calls, ok \in BOOLEAN : ~ ServeLogin(c, ok) /\ ~ ServeError(c, ok)
      /\ \A c \in Calls : ~ ServeRead(c)
  BY DEF ServeLogin, ServeError, ServeRead
<1>5. /\ \A t \in Ids : ~ LockChanges(t)
      /\ \A k \in Keys : ~ Redirect(k)
      /\ ~ UNCHANGED vars
  BY <1>1 DEF LockChanges, Redirect, vars
<1> QED BY <1>2, <1>3, <1>4, <1>5 DEF Next, Serve

\* A ticket can be read only through the node that created it, for ever: whoever
\* changes it has to open it first, and seals it for the key that opened it.
THEOREM KeysAreKept == Spec => TicketsKeepTheirKey
<1> DEFINE Kept == \A t \in Ids : store[t] # NoTicket => store'[t].kem = store[t].kem
<1>1. ConsoleInv /\ [Next]_vars => Kept
  <2> SUFFICES ASSUME ConsoleInv, [Next]_vars, store' # store,
                      NEW t \in Ids, store[t] # NoTicket
               PROVE  store'[t].kem = store[t].kem
    OBVIOUS
  <2>0. DOMAIN store = Ids
    BY DEF ConsoleInv, StoreTyped
  <2>1. ASSUME NEW c \in Calls, ServeCreate(c) PROVE store'[t] = store[t]
    <3> DEFINE id == CHOOSE x \in Free : \A y \in Free : x <= y
               box == Seal(NewTicket(call[c].args.title), route)
    <3>1. store' = [store EXCEPT ![id] = box] /\ Free # {}
      BY <2>1 DEF ServeCreate
    <3>2. id \in Free
      <4>1. Free \subseteq Nat
        BY ConsoleAssumption DEF Free, Ids
      <4> QED BY <3>1, <4>1, LeastId
    <3>3. t \notin Free
      BY DEF Free
    <3> HIDE DEF id, box
    <3> QED BY <2>0, <3>1, <3>2, <3>3
  <2>2. ASSUME NEW c \in Calls, ServeUpdate(c) PROVE store'[t].kem = store[t].kem
    <3> DEFINE a == call[c].args
               new == Updated(store[a.id].body, UpdateRequest(a.body))
               outcome == UpdateOutcome(a.id, UpdateRequest(a.body))
    <3>1. /\ GoodSave(a, Existing)
          /\ outcome.code = "Ok" => store' = [store EXCEPT ![a.id] = Seal(new, route)]
          /\ outcome.code # "Ok" => store' = store
      BY <2>2, ServedUpdate
    <3>2. outcome.code = "Ok" /\ store' = [store EXCEPT ![a.id] = Seal(new, route)]
      BY <3>1
    <3>3. store[a.id].kem = route
      BY <3>1, <3>2, UpdateOutcomeIs DEF ConsoleInv
    <3> QED BY <2>0, <3>2, <3>3 DEF Seal
  <2>3. ASSUME NEW x \in Ids, NEW change \in Changes, NEW held \in BOOLEAN,
               OtherUpdate(x, change, held)
        PROVE  store'[t].kem = store[t].kem
    <3>1. /\ store' = [store EXCEPT ![x].body = Changed(@, change)] /\ store[x] # NoTicket
      BY <2>3 DEF OtherUpdate
    <3>2. store[x] \in [kem : Keys, body : Body]
      BY <3>1 DEF ConsoleInv, StoreTyped
    <3> QED BY <2>0, <3>1, <3>2
  <2> QED BY <2>1, <2>2, <2>3, WhoStores
<1>2. Spec => [][Kept]_vars
  BY <1>1, ConsoleInvariant, PTL DEF Spec
<1> QED BY <1>2 DEF TicketsKeepTheirKey
=============================================================================
