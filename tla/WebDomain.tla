----------------------------- MODULE WebDomain -----------------------------
(***************************************************************************)
(* The console's mirror of the ticket lifecycle (web/src/domain.rs): the   *)
(* status codes, and the moves that it offers and lets through before the  *)
(* custodian decides by shared/src/ticket.rs.                              *)
(***************************************************************************)
EXTENDS Integers

OPEN == 0
AWAITING_CUSTOMER == 1
AWAITING_ISP == 2
AWAITING_PARTNER == 3
SUPPORT_HOLD == 4
HANDED_OFF == 5
APPOINTMENT_SCHEDULED == 6
EBOND_RECEIVED == 7
VOICEMAIL_RECEIVED == 8
AUTO_CLOSE == 254
CLOSED == 255

STATUSES == 0..8 \cup {AUTO_CLOSE, CLOSED}

is_terminal == {CLOSED, AUTO_CLOSE}

\* allowed_transitions without a move to a terminal status, which all share.
Onward(from) ==
  CASE from = OPEN -> 1..8
    [] from = AWAITING_CUSTOMER ->
         {OPEN, SUPPORT_HOLD, APPOINTMENT_SCHEDULED, EBOND_RECEIVED, VOICEMAIL_RECEIVED}
    [] from = AWAITING_ISP -> {OPEN, SUPPORT_HOLD, EBOND_RECEIVED}
    [] from = AWAITING_PARTNER -> {OPEN, SUPPORT_HOLD, HANDED_OFF}
    [] from = SUPPORT_HOLD ->
         {OPEN, AWAITING_CUSTOMER, AWAITING_ISP, AWAITING_PARTNER, APPOINTMENT_SCHEDULED}
    [] from = HANDED_OFF -> {OPEN, AWAITING_PARTNER}
    [] from = APPOINTMENT_SCHEDULED -> {OPEN, AWAITING_CUSTOMER, SUPPORT_HOLD}
    [] from = EBOND_RECEIVED -> {OPEN, AWAITING_ISP}
    [] from = VOICEMAIL_RECEIVED -> {OPEN, AWAITING_CUSTOMER}

\* Variant: a closed ticket may be opened again.
allowed_transitions_reopening(from) ==
  IF from \in is_terminal THEN {OPEN}
  ELSE IF from \in STATUSES THEN Onward(from) \cup is_terminal ELSE {}

\* Terminal and unknown statuses have no way out.
allowed_transitions(from) ==
  IF from \in STATUSES \ is_terminal THEN Onward(from) \cup is_terminal ELSE {}

can_transition(from, to) == from = to \/ to \in allowed_transitions(from)
=============================================================================
