------------------------------ MODULE RestApi ------------------------------
(***************************************************************************)
(* The gateway's ticket routes (lbrp/src/routes.rs): the request for the   *)
(* custodian, and the HTTP answer made of what the custodian returns.  A   *)
(* gRPC outcome is [code |-> "Ok", ...] or an error.                       *)
(***************************************************************************)
EXTENDS TicketWire

\* Every custodian error of a route has the same status, whatever its code.
RouteError ==
  [create_ticket |-> 500, get_ticket |-> 404, list_tickets |-> 500, update_ticket |-> 500]

\* ApiTicket::from.
ApiTicket(ticket) ==
  [id |-> ticket.id, title |-> ticket.title, status |-> ticket.status,
   next_action |-> RestNextAction(ticket.next_action)]

\* create_ticket, get_ticket, update_ticket and list_tickets: the answer to an
\* outcome.
Respond(route, outcome) ==
  IF outcome.code # "Ok" THEN [http |-> RouteError[route], why |-> outcome.code]
  ELSE IF route = "list_tickets"
  THEN [http |-> 200, tickets |-> {ApiTicket(t) : t \in outcome.tickets}]
  ELSE [http |-> IF route = "create_ticket" THEN 201 ELSE 200,
        ticket |-> ApiTicket(outcome.ticket)]

\* update_ticket: the JSON body becomes the custodian's request; a field that the
\* body leaves out stays out, and a resolution is never sent.
UpdateRequest(body) ==
  [f \in DOMAIN body |->
     IF f = "next_action" THEN ToProtoNextAction(body[f]) ELSE body[f]]

\* Response::ok().
IsOk(answer) == answer.http \in 200..299
=============================================================================
