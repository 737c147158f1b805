-------------------------- MODULE TicketLifecycle --------------------------
(***************************************************************************)
(* The ticket as shared/src/ticket.rs defines it: the status codes of the  *)
(* wire and the allow-lists of the lifecycle.  Ticket::validate is left     *)
(* out: no service calls it.                                               *)
(***************************************************************************)
EXTENDS Integers

Terminal == {"AutoClose", "Closed"}

Awaiting == {"AwaitingCustomer", "AwaitingISP", "AwaitingPartner"}

TicketStatus ==
  {"Open", "SupportHold", "HandedOff", "AppointmentScheduled",
   "EbondReceived", "VoicemailReceived"} \cup Awaiting \cup Terminal

\* u8::try_from(value).unwrap_or(0): a code outside a byte becomes 0.
AsByte(value) == IF value \in 0..255 THEN value ELSE 0

\* The codes that TicketStatus assigns, Open's 0 aside.
StatusCodes ==
  {<<1, "AwaitingCustomer">>, <<2, "AwaitingISP">>, <<3, "AwaitingPartner">>,
   <<4, "SupportHold">>, <<5, "HandedOff">>, <<6, "AppointmentScheduled">>,
   <<7, "EbondReceived">>, <<8, "VoicemailReceived">>, <<254, "AutoClose">>,
   <<255, "Closed">>}

\* TicketStatus::from_u8: codes nobody assigned mean Open.
FromU8(n) ==
  IF \E s \in TicketStatus : <<n, s>> \in StatusCodes
  THEN CHOOSE s \in TicketStatus : <<n, s>> \in StatusCodes
  ELSE "Open"

AllowedTransitions(s) ==
  CASE s = "Open" -> TicketStatus \ {"Open"}
    [] s = "AwaitingCustomer" ->
         {"Open", "SupportHold", "AppointmentScheduled", "EbondReceived",
          "VoicemailReceived"} \cup Terminal
    [] s = "AwaitingISP" -> {"Open", "SupportHold", "EbondReceived"} \cup Terminal
    [] s = "AwaitingPartner" -> {"Open", "SupportHold", "HandedOff"} \cup Terminal
    [] s = "SupportHold" ->
         {"Open", "AppointmentScheduled"} \cup Awaiting \cup Terminal
    [] s = "HandedOff" -> {"Open", "AwaitingPartner"} \cup Terminal
    [] s = "AppointmentScheduled" ->
         {"Open", "AwaitingCustomer", "SupportHold"} \cup Terminal
    [] s = "EbondReceived" -> {"Open", "AwaitingISP"} \cup Terminal
    [] s = "VoicemailReceived" -> {"Open", "AwaitingCustomer"} \cup Terminal
    [] OTHER -> {}

\* A move to the same status is always allowed.
CanTransitionTo(s, to) == s = to \/ to \in AllowedTransitions(s)

-----------------------------------------------------------------------------
\* The fields beside the status that updates set.  A resolution may be absent, or present
\* and be the variant None.
Resolution == {"absent", "None", "Resolved"}

NextAction == {"None", "FollowUp"}

Ticket == [status : TicketStatus, resolution : Resolution, next_action : NextAction]

\* Ticket::new.
NewTicket == [status |-> "Open", resolution |-> "absent", next_action |-> "None"]
=============================================================================
