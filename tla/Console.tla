------------------------------ MODULE Console ------------------------------
(***************************************************************************)
(* The web console in one browser tab (web/src), the gateway's ticket      *)
(* routes and the custodian's ticket RPCs behind them.  Every handler of   *)
(* the page sends its request and returns; the answer is put into the page *)
(* when it arrives, whatever the user has done to the page meanwhile.      *)
(*                                                                         *)
(* The RPCs are single steps here (TicketEdit.tla has their interleaving); *)
(* the title stands for title, project and priority, which are loaded,     *)
(* sent and stored alike.  Locks are taken by other clients of the         *)
(* custodian: the REST API has no route for them.  The gateway talks to    *)
(* one custodian node at a time, and each has its own key file.            *)
(***************************************************************************)
EXTENDS RestApi, WebDomain, Encryption

L == INSTANCE TicketLifecycle

CONSTANTS
  Calls,      \* requests of the tab that may be in flight together
  Titles,     \* titles; Blank is the empty one
  Blank,
  Ats,        \* what the "When" field may hold: numbers, or text that is not one
  NotANumber,
  Schedules,  \* the schedules that users pick
  Statuses,   \* the status codes that users pick
  Changes,    \* what other clients do to a ticket: records with the fields they set
  MaxTickets, \* bound on the number of tickets
  MaxCalls,   \* bound on the number of requests
  MaxTyped,   \* bound on the changes the user makes to the form
  MaxOthers   \* bound on the changes that other clients make

\* NextAction: what a stored ticket has to be done next; times are chrono's.
NextAction ==
  {NoAction}
    \cup [kind : Timed, at : ((-MaxSeconds)..MaxSeconds) \X Nat]
    \cup [kind : {"AutoClose"}, schedule : DOMAIN ScheduleNumber]

\* Ticket, as far as the console shows it.
Body == [title : Titles, status : L!TicketStatus, next_action : NextAction]

ASSUME ConsoleAssumption ==
  /\ Blank \in Titles
  /\ NotANumber \in Ats
  /\ Ats \ {NotANumber} \subseteq Int
  /\ Schedules \subseteq {RestSchedule[s] : s \in DOMAIN RestSchedule}
  /\ Statuses \subseteq STATUSES
  /\ \A change \in Changes :
       /\ DOMAIN change \subseteq {"title", "status", "next_action"}
       /\ "title" \in DOMAIN change => change.title \in Titles
       /\ "status" \in DOMAIN change => change.status \in L!TicketStatus
       /\ "next_action" \in DOMAIN change => change.next_action \in NextAction
  /\ Undecrypted \notin [kem : Keys, body : Body] \cup Body
  /\ MaxSeconds \in Nat
  /\ MaxTickets \in Nat
  /\ MaxCalls \in Nat
  /\ MaxTyped \in Nat
  /\ MaxOthers \in Nat

Ids == 1..MaxTickets

VARIABLES
  token,    \* whether the browser has a session token
  page,     \* "login" or "tickets"
  ticket,   \* the ticket that is loaded, or Null
  results,  \* the rows of the last search
  form,     \* the update form
  call,     \* call[c]: the request c
  store,    \* store[t]: the sealed ticket in the DB, or NoTicket
  locked,   \* locked[t]: whether the tab's user holds the lock of ticket t
  route,    \* the custodian node (named by its key) that the gateway talks to
  about,    \* history: the ticket that each field of the form is about
  hasty,    \* history: since the form was filled the user went on while an answer
            \* was on its way
  touched,  \* history: since then the user changed the form
  created,  \* history: since then a ticket was created
  issued, typed, others \* counters for the bounds

pageVars == <<ticket, results, form>>
history  == <<about, hasty, touched, created>>
backend  == <<store, locked, route, others>>
vars == <<token, page, pageVars, call, backend, history, issued, typed>>

Idle == [route |-> "idle"]

NoTicket == Undecrypted

Fields == {"title", "status", "next_action"}

Kinds == {"unchanged", "none", "follow_up", "appointment", "auto_close"}

EmptyForm == [title |-> Blank, status |-> OPEN, kind |-> "unchanged",
              at |-> NotANumber, schedule |-> "end_of_day"]

Form == [title : Titles, status : STATUSES, kind : Kinds, at : Int \cup Ats,
         schedule : {RestSchedule[s] : s \in DOMAIN RestSchedule}]

IsRow(row) == row.id \in Ids /\ row.title \in Titles /\ row.status \in STATUSES

\* What the page shows, what is under way and what is stored; in particular every form
\* holds what its inputs can show (on_lookup, domain_to_proto).
TypeOK ==
  /\ token \in BOOLEAN
  /\ page \in {"login", "tickets"}
  /\ ticket = Null \/ IsRow(ticket)
  /\ \A row \in results : IsRow(row)
  /\ form \in Form
  /\ \A c \in Calls :
       \/ call[c] = Idle
       \/ call[c].route \in {"login"} \cup DOMAIN RouteError /\ call[c].live \in BOOLEAN
  /\ \A t \in Ids :
       \/ store[t] = NoTicket
       \/ store[t].kem \in Keys /\ store[t].body \in Body
  /\ locked \in [Ids -> BOOLEAN]
  /\ route \in Keys
  /\ about \in [Fields -> Ids \cup {0}]

\* Ticket::new.
NewTicket(title) == [title |-> title, status |-> "Open", next_action |-> NoAction]

Changed(body, change) ==
  [f \in DOMAIN body |-> IF f \in DOMAIN change THEN change[f] ELSE body[f]]

Init ==
  /\ token = FALSE
  /\ page = "login"
  /\ ticket = Null
  /\ results = {}
  /\ form = EmptyForm
  /\ call = [c \in Calls |-> Idle]
  /\ route \in Keys
  /\ \E title \in Titles \ {Blank}, change \in Changes :
       store = [t \in Ids |-> IF t = 1 THEN Seal(Changed(NewTicket(title), change), route)
                              ELSE NoTicket]
  /\ locked = [t \in Ids |-> TRUE]
  /\ about = [f \in Fields |-> 0]
  /\ hasty = FALSE
  /\ touched = FALSE
  /\ created = FALSE
  /\ issued = 0
  /\ typed = 0
  /\ others = 0

-----------------------------------------------------------------------------
(* The pages. *)

\* The requests whose answers this page still takes.
InFlight == {c \in Calls : call[c] # Idle /\ call[c].live}

\* A request leaves and its handler returns; `args` is what it carries.
Send(c, name, args) ==
  /\ call[c] = Idle
  /\ issued < MaxCalls
  /\ issued' = issued + 1
  /\ call' = [call EXCEPT ![c] =
       [route |-> name, args |-> args, live |-> TRUE, answer |-> Null]]

\* The user does something while answers may be on their way.
GoesOn == hasty' = (hasty \/ InFlight # {})

\* A page is mounted with fresh signals; signals of the page before are gone, and
\* so is the effect of answers on them.
Mount(name) ==
  /\ page' = name
  /\ ticket' = Null
  /\ results' = {}
  /\ form' = EmptyForm
  /\ about' = [f \in Fields |-> 0]
  /\ hasty' = FALSE
  /\ touched' = FALSE
  /\ created' = FALSE

Abandoned == [c \in Calls |-> IF call[c] = Idle THEN Idle ELSE [call[c] EXCEPT !.live = FALSE]]

\* The route /tickets is opened, with or without a token.
OpenTickets ==
  /\ page = "login"
  /\ Mount("tickets")
  /\ call' = Abandoned
  /\ UNCHANGED <<token, backend, issued, typed>>

\* on_submit of the login page; its button is disabled until the answer is there.
Login(c) ==
  /\ page = "login"
  /\ InFlight = {}
  /\ Send(c, "login", Null)
  /\ UNCHANGED <<token, page, pageVars, backend, history, typed>>

SignOut ==
  /\ page = "tickets"
  /\ token' = FALSE
  /\ Mount("login")
  /\ call' = Abandoned
  /\ UNCHANGED <<backend, issued, typed>>

\* Without a token every handler of the page stops at an error message.
SignedIn == page = "tickets" /\ token

-----------------------------------------------------------------------------
(* The update form. *)

\* Variant: the schedule of an automatic close is not reflected.
LoadedFormKeepingSchedule(t) ==
  LET a == t.next_action
  IN [form EXCEPT
        !.title = t.title,
        !.status = t.status,
        !.kind = IF a = Null THEN "unchanged" ELSE a.type,
        !.at = IF a.type \in {"follow_up", "appointment"} THEN a.at ELSE @]

\* Variant: the type of the next action is taken over as it is.
LoadedFormRaw(t) == [LoadedFormKeepingSchedule(t) EXCEPT !.kind = t.next_action.type]

\* load_into_form: a ticket without a next action leaves time and schedule alone.
LoadedForm(t) ==
  LET a == t.next_action
  IN [form EXCEPT
        !.title = t.title,
        !.status = t.status,
        !.kind = IF a = Null THEN "unchanged" ELSE a.type,
        !.at = IF a.type \in {"follow_up", "appointment"} THEN a.at ELSE @,
        !.schedule = IF a.type = "auto_close" THEN a.schedule ELSE @]

\* Variant: a ticket that is loaded stays the one to be saved.
LoadFieldsOnly(t, calm) ==
  /\ form' = LoadedForm(t)
  /\ ticket' = IF ticket = Null THEN t ELSE ticket
  /\ about' = [f \in Fields |-> t.id]
  /\ hasty' = ~ calm
  /\ touched' = FALSE
  /\ created' = FALSE

\* The form is filled from ticket t; `calm` says that no other answer is expected.
Load(t, calm) ==
  /\ form' = LoadedForm(t)
  /\ ticket' = t
  /\ about' = [f \in Fields |-> t.id]
  /\ hasty' = ~ calm
  /\ touched' = FALSE
  /\ created' = FALSE

\* The "Edit" button of a result row.
EditRow(row) ==
  /\ page = "tickets"
  /\ row \in results
  /\ Load(row, InFlight = {})
  /\ UNCHANGED <<token, page, results, call, backend, issued, typed>>

\* update_status_options.
StatusOptions ==
  IF ticket = Null THEN STATUSES
  ELSE {ticket.status} \cup allowed_transitions(ticket.status)

\* The user changes the field f of the form to what `changed` holds.
Type(f, changed) ==
  /\ page = "tickets"
  /\ typed < MaxTyped
  /\ form # changed
  /\ form' = changed
  /\ about' = [about EXCEPT ![f] = IF ticket = Null THEN 0 ELSE ticket.id]
  /\ GoesOn
  /\ touched' = TRUE
  /\ typed' = typed + 1
  /\ UNCHANGED <<token, page, ticket, results, call, backend, created, issued>>

TypeTitle(x) == Type("title", [form EXCEPT !.title = x])

PickStatus(s) == s \in StatusOptions /\ Type("status", [form EXCEPT !.status = s])

\* Kind, time and schedule of the next action are fields of their own.
PickKind(k) == Type("next_action", [form EXCEPT !.kind = k])

TypeAt(at) ==
  /\ form.kind \in {"follow_up", "appointment"}
  /\ Type("next_action", [form EXCEPT !.at = at])

PickSchedule(s) ==
  /\ form.kind = "auto_close"
  /\ Type("next_action", [form EXCEPT !.schedule = s])

-----------------------------------------------------------------------------
(* Requests. *)

Lookup(c, t) ==
  /\ SignedIn
  /\ Send(c, "get_ticket", [id |-> t])
  /\ GoesOn
  /\ UNCHANGED <<token, page, pageVars, backend, about, touched, created, typed>>

\* The search form: any status (the empty filter), or one.  What else it may hold makes
\* the answer smaller.
Filters == {{}} \cup {{s} : s \in Statuses}

\* on_search.
Search(c, filter) ==
  /\ SignedIn
  /\ Send(c, "list_tickets", [status |-> filter])
  /\ GoesOn
  /\ UNCHANGED <<token, page, pageVars, backend, about, touched, created, typed>>

Create(c, title) ==
  /\ SignedIn
  /\ Send(c, "create_ticket", [title |-> title])
  /\ GoesOn
  /\ UNCHANGED <<token, page, pageVars, backend, about, touched, created, typed>>

\* The next action that the form f asks for: omitted when the kind is "unchanged".
NextActionInput(f) ==
  IF f.kind \in {"follow_up", "appointment"} THEN [type |-> f.kind, at |-> f.at]
  ELSE IF f.kind = "auto_close" THEN [type |-> "auto_close", schedule |-> f.schedule]
  ELSE [type |-> "none"]

\* A blank title is not sent.
Sent(f) ==
  {x \in Fields : /\ x = "title" => f.title # Blank
                  /\ x = "next_action" => f.kind # "unchanged"}

UpdateBody(f) ==
  [x \in Sent(f) |-> IF x = "title" THEN f.title
                     ELSE IF x = "status" THEN f.status ELSE NextActionInput(f)]

\* on_update_ticket: the ticket that is loaded gets what the form holds.
Update(c) ==
  /\ SignedIn
  /\ ticket # Null
  /\ can_transition(ticket.status, form.status)
  /\ form.kind \in {"follow_up", "appointment"} => form.at # NotANumber
  /\ Send(c, "update_ticket",
          [id |-> ticket.id, body |-> UpdateBody(form), form |-> form, loaded |-> ticket,
           foreign |-> {f \in Sent(form) : about[f] # ticket.id},
           hasty |-> hasty, touched |-> touched, created |-> created])
  /\ GoesOn
  /\ UNCHANGED <<token, page, pageVars, backend, about, touched, created, typed>>

-----------------------------------------------------------------------------
(* Gateway and custodian. *)

Code(s) == IF s = "Open" THEN OPEN ELSE CHOOSE n \in 1..255 : <<n, s>> \in L!StatusCodes

\* domain_to_proto.
DomainToProto(t, body) ==
  [id |-> t, title |-> body.title, status |-> Code(body.status),
   next_action |-> MapNextAction(body.next_action)]

\* decrypt_ticket on the node that serves, with the id of the record.
Decrypt(t) == Open(store[t], route)

Err(code) == [code |-> code]

Found(t, body) == [code |-> "Ok", ticket |-> DomainToProto(t, body)]

GetTicket(t) ==
  IF store[t] = NoTicket THEN Err("NotFound")
  ELSE IF Decrypt(t) = Undecrypted THEN Err("Internal")
  ELSE Found(t, Decrypt(t))

\* query_tickets: the index is in plain text; one record that cannot be opened
\* fails the whole query.
QueryTickets(filter) ==
  LET hits == {t \in Ids : /\ store[t] # NoTicket
                           /\ filter = {} \/ Code(store[t].body.status) \in filter}
  IN IF \E t \in hits : Decrypt(t) = Undecrypted THEN Err("Internal")
     ELSE [code |-> "Ok", tickets |-> {DomainToProto(t, Decrypt(t)) : t \in hits}]

\* update_ticket: only the provided fields.
Updated(body, req) ==
  [title |-> IF "title" \in DOMAIN req THEN req.title ELSE body.title,
   status |-> IF "status" \in DOMAIN req THEN L!FromU8(L!AsByte(req.status)) ELSE body.status,
   next_action |-> IF "next_action" \in DOMAIN req THEN ProtoToNextAction(req.next_action)
                   ELSE body.next_action]

UpdateOutcome(t, req) ==
  IF ~ locked[t] THEN Err("PermissionDenied")
  ELSE IF GetTicket(t).code # "Ok" THEN GetTicket(t)
  ELSE IF ~ L!CanTransitionTo(Decrypt(t).status, Updated(Decrypt(t), req).status)
  THEN Err("FailedPrecondition")
  ELSE Found(t, Updated(Decrypt(t), req))

\* The answer to request c is on its way.
Answer(c, answer) ==
  /\ call[c] # Idle
  /\ call[c].answer = Null
  /\ call' = [call EXCEPT ![c].answer = answer]
  /\ UNCHANGED <<token, page, pageVars, locked, route, others, history, issued, typed>>

\* The login route passes on what the auth service decides.
ServeLogin(c, ok) ==
  /\ call[c].route = "login"
  /\ Answer(c, IF ok THEN [http |-> 200] ELSE [http |-> 401, why |-> "Unauthenticated"])
  /\ UNCHANGED store

ServeRead(c) ==
  /\ call[c].route \in {"get_ticket", "list_tickets"}
  /\ Answer(c, Respond(call[c].route,
                       IF call[c].route = "get_ticket" THEN GetTicket(call[c].args.id)
                       ELSE QueryTickets(call[c].args.status)))
  /\ UNCHANGED store

Free == {t \in Ids : store[t] = NoTicket}

\* create_ticket: the DB assigns the next id.
ServeCreate(c) ==
  /\ call[c].route = "create_ticket"
  /\ Free # {}
  /\ LET t    == CHOOSE x \in Free : \A y \in Free : x <= y
         body == NewTicket(call[c].args.title)
     IN IF call[c].args.title = Blank
        THEN Answer(c, Respond("create_ticket", Err("InvalidArgument"))) /\ UNCHANGED store
        ELSE /\ Answer(c, Respond("create_ticket", Found(t, body)))
             /\ store' = [store EXCEPT ![t] = Seal(body, route)]

\* update_ticket: an error leaves the ticket as it is.
ServeUpdate(c) ==
  /\ call[c].route = "update_ticket"
  /\ LET t       == call[c].args.id
         req     == UpdateRequest(call[c].args.body)
         outcome == UpdateOutcome(t, req)
     IN /\ Answer(c, Respond("update_ticket", outcome))
        /\ store' = IF outcome.code = "Ok"
                    THEN [store EXCEPT ![t] = Seal(Updated(Decrypt(t), req), route)]
                    ELSE store

\* The token has expired, or the custodian or its DB does not answer.
ServeError(c, expired) ==
  /\ call[c].route \in DOMAIN RouteError
  /\ Answer(c, IF expired THEN [http |-> 401, why |-> "Unauthenticated"]
               ELSE Respond(call[c].route, Err("Unavailable")))
  /\ UNCHANGED store

-----------------------------------------------------------------------------
(* Answers in the page. *)

\* An answer that is lost, that is an error, or that nobody waits for any more
\* changes no more than the message on the page.
Discard(c) ==
  /\ call[c] # Idle
  /\ call' = [call EXCEPT ![c] = Idle]
  /\ UNCHANGED <<token, page, pageVars, backend, history, issued, typed>>

\* A successful answer to a request of this page.
Arrives(c, name) ==
  /\ call[c].route = name
  /\ call[c].live
  /\ call[c].answer # Null
  /\ IsOk(call[c].answer)
  /\ call' = [call EXCEPT ![c] = Idle]
  /\ UNCHANGED <<backend, issued, typed>>

\* The token is kept, and the console opens with it.
ArriveLogin(c) ==
  /\ Arrives(c, "login")
  /\ token' = TRUE
  /\ Mount("tickets")

ArriveLookup(c) ==
  /\ Arrives(c, "get_ticket")
  /\ Load(call[c].answer.ticket, InFlight = {c})
  /\ UNCHANGED <<token, page, results>>

\* Rows replace rows, also those of a later search.
ArriveSearch(c) ==
  /\ Arrives(c, "list_tickets")
  /\ results' = call[c].answer.tickets
  /\ UNCHANGED <<token, page, ticket, form, history>>

\* The new ticket is loaded, but the editor of the next action stays as it is.
ArriveCreate(c) ==
  /\ Arrives(c, "create_ticket")
  /\ LET t == call[c].answer.ticket
     IN /\ form' = [form EXCEPT !.title = t.title, !.status = t.status]
        /\ ticket' = t
        /\ about' = [about EXCEPT !["title"] = t.id, !["status"] = t.id]
  /\ created' = TRUE
  /\ UNCHANGED <<token, page, results, hasty, touched>>

\* The ticket that was saved is loaded, but the form stays as it is.
ArriveUpdate(c) ==
  /\ Arrives(c, "update_ticket")
  /\ ticket' = call[c].answer.ticket
  /\ UNCHANGED <<token, page, results, form, history>>

-----------------------------------------------------------------------------
(* Everybody else. *)

\* The user's lock is taken or released through another client, or runs out.
LockChanges(t) ==
  /\ others < MaxOthers
  /\ locked' = [locked EXCEPT ![t] = ~ @]
  /\ others' = others + 1
  /\ UNCHANGED <<token, page, pageVars, call, store, route, history, issued, typed>>

\* Another user changes ticket t, through a node that can open it, while she has
\* the lock; then she or the tab's user may have it.
OtherUpdate(t, change, held) ==
  /\ others < MaxOthers
  /\ store[t] # NoTicket
  /\ "status" \in DOMAIN change => L!CanTransitionTo(store[t].body.status, change.status)
  /\ store' = [store EXCEPT ![t].body = Changed(@, change)]
  /\ locked' = [locked EXCEPT ![t] = held]
  /\ others' = others + 1
  /\ UNCHANGED <<token, page, pageVars, call, route, history, issued, typed>>

\* The gateway is pointed at another custodian node.
Redirect(k) ==
  /\ others < MaxOthers
  /\ route # k
  /\ route' = k
  /\ others' = others + 1
  /\ UNCHANGED <<token, page, pageVars, call, store, locked, history, issued, typed>>

-----------------------------------------------------------------------------
\* What the buttons and inputs of the pages let the user do.
User ==
  \/ OpenTickets
  \/ SignOut
  \/ \E row \in results : EditRow(row)
  \/ \E x \in Titles : TypeTitle(x)
  \/ \E s \in Statuses : PickStatus(s)
  \/ \E k \in Kinds : PickKind(k)
  \/ \E at \in Ats : TypeAt(at)
  \/ \E s \in Schedules : PickSchedule(s)
  \/ \E c \in Calls :
       \/ Login(c)
       \/ Update(c)
       \/ \E t \in Ids : Lookup(c, t)
       \/ \E filter \in Filters : Search(c, filter)
       \/ \E x \in Titles : Create(c, x)

Serve(c) ==
  \/ \E ok \in BOOLEAN : ServeLogin(c, ok) \/ ServeError(c, ok)
  \/ ServeRead(c)
  \/ ServeCreate(c)
  \/ ServeUpdate(c)

Arrive(c) ==
  \/ Discard(c)
  \/ ArriveLogin(c)
  \/ ArriveLookup(c)
  \/ ArriveSearch(c)
  \/ ArriveCreate(c)
  \/ ArriveUpdate(c)

Next ==
  \/ User
  \/ \E c \in Calls : Serve(c) \/ Arrive(c)
  \/ \E t \in Ids : LockChanges(t) \/ \E change \in Changes, held \in BOOLEAN : OtherUpdate(t, change, held)
  \/ \E k \in Keys : Redirect(k)

Spec == Init /\ [][Next]_vars

-----------------------------------------------------------------------------
Saves == {c \in Calls : call[c] # Idle /\ call[c].route = "update_ticket"}

\* A field is saved to the ticket it is about: it was loaded from that ticket, or
\* entered while that ticket was loaded.  Answers that arrive while the user goes on
\* can mix the form of one ticket with another ticket, and a ticket that was just
\* created inherits the next action in the editor; nothing else can.
MisfiledOnlyInHaste ==
  \A c \in Saves :
    LET a == call[c].args
    IN a.foreign = {} \/ a.hasty \/ (a.created /\ a.foreign = {"next_action"})

\* The step serves the request c.
JustServed(c) == call[c].answer = Null /\ call'[c] # Idle /\ call'[c].answer # Null

\* A status move that the console lets through is refused by the custodian only if
\* the ticket no longer has the status that the console saw: the lifecycle in
\* web/src/domain.rs is the one in shared/src/ticket.rs.
RefusalsExplained ==
  [][\A c \in Saves :
       /\ JustServed(c)
       /\ call'[c].answer = Respond("update_ticket", Err("FailedPrecondition"))
       => Code(store[call[c].args.id].body.status) # call[c].args.loaded.status]_vars

\* A save that succeeds stores what the form showed, through every conversion on
\* the way; a time beyond chrono's range is stored as the epoch, a blank title and
\* an unchanged next action are not sent.
SavesStoreWhatWasShown ==
  \A c \in Saves : call[c].answer # Null /\ IsOk(call[c].answer) =>
    LET shown  == call[c].args.form
        stored == call[c].answer.ticket
    IN /\ stored.status = shown.status
       /\ shown.title # Blank => stored.title = shown.title
       /\ shown.kind = "none" => stored.next_action = Null
       /\ shown.kind = "auto_close" =>
            stored.next_action = [type |-> shown.kind, schedule |-> shown.schedule]
       /\ shown.kind \in {"follow_up", "appointment"} =>
            stored.next_action =
              [type |-> shown.kind,
               at |-> IF shown.at \in (-MaxSeconds)..MaxSeconds THEN shown.at ELSE 0]

\* What the console shows of a stored ticket.
View(t) == ApiTicket(DomainToProto(t, store[t].body))

\* Saving a form as it was loaded changes nothing that the console shows, as long as
\* nobody has changed the ticket since.
UntouchedSavesKeepTicket ==
  [][\A c \in Saves :
       LET a == call[c].args
       IN /\ JustServed(c)
          /\ IsOk(call'[c].answer)
          /\ a.foreign = {} /\ ~ a.hasty /\ ~ a.touched
          /\ View(a.id) = a.loaded
          => View(a.id)' = View(a.id)]_vars

\* A ticket can be read and changed only through the custodian node that created it:
\* its key is never another node's, since an update opens the ticket first.
TicketsKeepTheirKey ==
  [][\A t \in Ids : store[t] # NoTicket => store'[t].kem = store[t].kem]_vars
=============================================================================
