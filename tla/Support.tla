------------------------------ MODULE Support ------------------------------
(***************************************************************************)
(* After the sale: refills of delivered orders (requestRefill and its      *)
(* neighbours in apps/api/src/services/order.service.ts,                   *)
(* cron/pollRefillStatus.ts), support tickets (ticket.service.ts) and the  *)
(* rule-based engine that answers some of them                             *)
(* (ticketAutomation.service.ts).                                          *)
(*                                                                         *)
(* A desk works on one request: a customer's, an agent's or an engine run. *)
(* No step of a request locks a row, so between any two of its statements  *)
(* everybody else may act.  Of the engine's actions the refill is modelled *)
(* in full; the others work on orders as in Fulfilment, and here have one  *)
(* of their outcomes.                                                      *)
(***************************************************************************)
EXTENDS Naturals, Sequences, FiniteSets

CONSTANTS Delivered,     \* delivered orders whose service allows refills
          AtProvider,    \* those of them that a provider delivered
          Tickets,       \* the tickets
          OrderLists,    \* the orders a ticket may be about
          HandStatuses,  \* what agents set a ticket's status to
          Words,         \* what a provider says a refill has come to
          Desks, Polls,  \* requests, and ticks of the poll, at once
          MaxCalls,      \* bound on what people do
          MaxEvents      \* and on what provider, network and process do

ASSUME AtProviderAssumption == AtProvider \subseteq Delivered
ASSUME OrderListsAssumption == OrderLists \subseteq SUBSET Delivered \ {{}}
ASSUME DesksAssumption == IsFiniteSet(Desks)
ASSUME CallsAssumption == MaxCalls \in Nat /\ MaxEvents \in Nat

Verdicts == {"COMPLETED", "REJECTED"}

VARIABLES
  refills,    \* the RefillRequest rows
  remote,     \* the provider's own refills: its word on each
  linked,     \* the orders AtProvider whose service still names a provider
  ticket,     \* the Ticket rows
  audit,      \* each ticket's TicketOrderAction rows of refills made, counted
  desk,       \* the request on each desk
  poll,       \* the ticks of pollRefillStatus
  died,       \* history: tickets whose request died with the process
  calls,      \* what people will still do
  events      \* and provider, network and process

supportDb == <<refills, remote, linked, ticket, audit>>
supportVars == <<supportDb, desk, poll, died, calls, events>>

NoOrder == "none"
ASSUME TicketsAssumption == NoOrder \notin Tickets
Clear == [at |-> "idle", for |-> "customer", ticket |-> NoOrder,
          action |-> "", order |-> NoOrder, orders |-> {}, todo |-> {},
          clean |-> TRUE, seen |-> 0, remote |-> 0, made |-> FALSE, refill |-> 0]
NoPoll == [todo |-> {}, refill |-> 0, verdict |-> ""]

SupportInit ==
  /\ refills = <<>> /\ remote = <<>> /\ linked = AtProvider
  /\ audit = [t \in Tickets |-> 0]
  /\ ticket = [t \in Tickets |-> [status |-> "NEW", orders |-> {}]]
  /\ desk = [d \in Desks |-> Clear]
  /\ poll = [l \in Polls |-> NoPoll]
  /\ died = {}
  /\ calls \in {0, MaxCalls}
  /\ events = MaxEvents

-----------------------------------------------------------------------------

On(d, where) == desk[d].at = where

Call == calls > 0 /\ calls' = calls - 1 /\ UNCHANGED events
Event == events > 0 /\ events' = events - 1 /\ UNCHANGED calls

(* d's request takes on the values of `work` and goes on to `where`. *)
Moves(d, where, work) == desk' = [desk EXCEPT ![d] = [work EXCEPT !.at = where]]

(* Mutant: a refill the provider is at work on does not count. *)
OnlyRequested(r) == refills[r].status = "REQUESTED"
OpenRefill(r) == refills[r].status \in {"REQUESTED", "IN_PROGRESS"}

(* Mutant: the engine lets what a provider throws through. *)
UncaughtOutcome(d, clean) ==
  IF desk[d].for = "customer" \/ ~clean THEN Moves(d, "idle", Clear)
  ELSE Moves(d, "record", [desk[d] EXCEPT !.made = clean])
(* How an action ends for whom it was done: the engine and the agent       *)
(* record it, a customer sees it.  NOT_ELIGIBLE, FAILED and ESCALATED are  *)
(* one: not clean.                                                         *)
Outcome(d, clean) ==
  IF desk[d].for = "customer" THEN Moves(d, "idle", Clear)
  ELSE Moves(d, "record", [desk[d] EXCEPT !.made = clean])

-----------------------------------------------------------------------------
(* requestRefill.                                                          *)

AskRefill(d, o) ==
  /\ On(d, "idle") /\ Call
  /\ Moves(d, "refill", [Clear EXCEPT !.order = o])
  /\ UNCHANGED <<supportDb, poll, died>>

(* One request at a time: refused while a refill of the order is open.  It *)
(* goes to the provider if the service still names one, else to the queue  *)
(* the admins resolve.                                                     *)
CheckRefill(d) ==
  /\ On(d, "refill")
  /\ IF \E r \in DOMAIN refills : refills[r].order = desk[d].order
                                  /\ OpenRefill(r)
     THEN Outcome(d, FALSE)
     ELSE Moves(d, IF desk[d].order \in linked THEN "submit" ELSE "insert",
                [desk[d] EXCEPT !.seen = Len(refills)])
  /\ UNCHANGED <<supportDb, poll, died, calls, events>>

(* submitProviderRefill ... *)
SubmitRefill(d) ==
  /\ On(d, "submit")
  /\ remote' = Append(remote, "Pending")
  /\ Moves(d, "insert", [desk[d] EXCEPT !.remote = Len(remote) + 1])
  /\ UNCHANGED <<refills, linked, ticket, audit, poll, died, calls, events>>

(* ... throws, with or without the provider having taken the request. *)
SubmitFails(d, taken) ==
  /\ On(d, "submit") /\ Event
  /\ remote' = IF taken THEN Append(remote, "Pending") ELSE remote
  /\ Outcome(d, FALSE)
  /\ UNCHANGED <<refills, linked, ticket, audit, poll, died>>

(* Mutant: only a refill the provider is at work on is a success. *)
InsertRefillQueued(d) ==
  /\ On(d, "insert")
  /\ refills' = Append(refills,
        [order |-> desk[d].order, remote |-> desk[d].remote,
         ticket |-> desk[d].ticket, seen |-> desk[d].seen,
         status |-> IF desk[d].remote # 0 THEN "IN_PROGRESS" ELSE "REQUESTED"])
  /\ Outcome(d, desk[d].remote # 0)
  /\ UNCHANGED <<remote, linked, ticket, audit, poll, died, calls, events>>
InsertRefill(d) ==
  /\ On(d, "insert")
  /\ refills' = Append(refills,
        [order |-> desk[d].order, remote |-> desk[d].remote,
         ticket |-> desk[d].ticket, seen |-> desk[d].seen,
         status |-> IF desk[d].remote # 0 THEN "IN_PROGRESS" ELSE "REQUESTED"])
  /\ Outcome(d, TRUE)
  /\ UNCHANGED <<remote, linked, ticket, audit, poll, died, calls, events>>

-----------------------------------------------------------------------------
(* What becomes of a refill.                                               *)

(* Mutant: what it does not know passes through.                           *)
MappedRefillRaw(word) ==
  CASE word = "Completed" -> "COMPLETED"
    [] word \in {"Rejected", "Error", "Canceled"} -> "REJECTED"
    [] OTHER -> word

(* mapProviderRefillStatus: what it does not know stays IN_PROGRESS. *)
MappedRefill(word) ==
  CASE word = "Completed" -> "COMPLETED"
    [] word \in {"Rejected", "Error", "Canceled"} -> "REJECTED"
    [] OTHER -> "IN_PROGRESS"

ProviderSays(m, word) ==
  /\ MappedRefill(remote[m]) = "IN_PROGRESS" /\ Event
  /\ remote' = [remote EXCEPT ![m] = word]
  /\ UNCHANGED <<refills, linked, ticket, audit, desk, poll, died>>

(* updateService: the admin takes the provider of o's service away, or     *)
(* names one again.                                                        *)
UpdateService(o) ==
  /\ Call
  /\ linked' = IF o \in linked THEN linked \ {o} ELSE linked \cup {o}
  /\ UNCHANGED <<refills, remote, ticket, audit, desk, poll, died>>

(* findPollableRefills; a tick finds at most 200.  Those whose service has *)
(* no provider any more are skipped.                                       *)
ListRefills(l) ==
  /\ poll[l].todo = {} /\ poll[l].refill = 0
  /\ \E r \in DOMAIN refills : refills[r].status = "IN_PROGRESS"
  /\ poll' = [poll EXCEPT ![l].todo =
        {r \in DOMAIN refills : refills[r].status = "IN_PROGRESS"
                                /\ refills[r].remote # 0
                                /\ refills[r].order \in linked}]
  /\ UNCHANGED <<supportDb, desk, died, calls, events>>

(* The provider's word on the next refill; one in progress is left ...     *)
PollRefill(l, r) ==
  LET mapped == MappedRefill(remote[refills[r].remote])
  IN /\ poll[l].refill = 0 /\ r \in poll[l].todo
     /\ poll' = IF mapped = "IN_PROGRESS"
                THEN [poll EXCEPT ![l].todo = @ \ {r}]
                ELSE [poll EXCEPT ![l] =
                        [todo |-> @.todo \ {r}, refill |-> r,
                         verdict |-> mapped]]
     /\ UNCHANGED <<supportDb, desk, died, calls, events>>

(* ... or the call throws, and the tick goes on with the others.           *)
PollFails(l, r) ==
  /\ poll[l].refill = 0 /\ r \in poll[l].todo
  /\ poll' = [poll EXCEPT ![l].todo = @ \ {r}]
  /\ UNCHANGED <<supportDb, desk, died, calls, events>>

(* updateRefillStatus, whatever the row has become. *)
SaveRefill(l) ==
  /\ poll[l].refill # 0
  /\ refills' = [refills EXCEPT ![poll[l].refill].status = poll[l].verdict]
  /\ poll' = [poll EXCEPT ![l].refill = 0, ![l].verdict = ""]
  /\ UNCHANGED <<remote, linked, ticket, audit, desk, died, calls, events>>

(* resolveManualRefill reads that the refill is open, and writes. *)
OpenForVerdict(d, r) ==
  /\ On(d, "idle") /\ OpenRefill(r) /\ Call
  /\ Moves(d, "resolve", [Clear EXCEPT !.refill = r])
  /\ UNCHANGED <<supportDb, poll, died>>

ResolveRefill(d, verdict) ==
  /\ On(d, "resolve")
  /\ refills' = [refills EXCEPT ![desk[d].refill].status = verdict]
  /\ Moves(d, "idle", Clear)
  /\ UNCHANGED <<remote, linked, ticket, audit, poll, died, calls, events>>

-----------------------------------------------------------------------------
(* Tickets.                                                                *)

(* createTicket, or addUserMessage to a ticket it reads as not closed; the *)
(* orders it will write are those it read there and those of the message.  *)
Write(d, t, action, O) ==
  /\ On(d, "idle") /\ ticket[t].status # "CLOSED" /\ Call
  /\ Moves(d, "post", [Clear EXCEPT !.ticket = t, !.action = action,
                                    !.todo = O,
                                    !.orders = ticket[t].orders \cup O])
  /\ UNCHANGED <<supportDb, poll, died>>

(* The message, and the ticket goes to the engine ... *)
PostForEngine(d) ==
  /\ On(d, "post") /\ desk[d].action # ""
  /\ ticket' = [ticket EXCEPT ![desk[d].ticket] =
        [status |-> "AI_PROCESSING", orders |-> desk[d].orders]]
  /\ Moves(d, "next", [desk[d] EXCEPT !.for = "engine", !.orders = {}])
  /\ UNCHANGED <<refills, remote, linked, audit, poll, died, calls, events>>

(* ... or to the human queue. *)
PostForAgent(d) ==
  /\ On(d, "post") /\ desk[d].action = ""
  /\ ticket' = [ticket EXCEPT ![desk[d].ticket].status = "PENDING_ADMIN"]
  /\ Moves(d, "idle", Clear)
  /\ UNCHANGED <<refills, remote, linked, audit, poll, died, calls, events>>

(* addAdminMessage, updateTicketStatus, and an agent's close and reopen. *)
SetTicket(t, status) ==
  /\ ticket[t].status # "NEW" /\ Call
  /\ ticket' = [ticket EXCEPT ![t].status = status]
  /\ UNCHANGED <<refills, remote, linked, audit, desk, poll, died>>

(* runTicketAutomation takes up the next order: handleOrder. *)
NextOrder(d, o) ==
  /\ On(d, "next") /\ o \in desk[d].todo
  /\ Moves(d, IF desk[d].action = "REFILL" THEN "refill" ELSE "act",
           [desk[d] EXCEPT !.order = o, !.todo = @ \ {o},
                           !.remote = 0, !.seen = 0])
  /\ UNCHANGED <<supportDb, poll, died, calls, events>>

(* runAgentAction on an order that is linked to the ticket. *)
AgentAction(d, t, action, o) ==
  /\ On(d, "idle") /\ o \in ticket[t].orders /\ Call
  /\ Moves(d, IF action = "REFILL" THEN "refill" ELSE "act",
           [Clear EXCEPT !.for = "agent", !.ticket = t, !.action = action,
                         !.order = o])
  /\ UNCHANGED <<supportDb, poll, died>>

(* Cancel, speed up, restart, dispute: see Fulfilment. *)
OtherAction(d, clean) ==
  /\ On(d, "act")
  /\ Outcome(d, clean)
  /\ UNCHANGED <<supportDb, poll, died, calls, events>>

Recorded(d) ==
  [audit EXCEPT ![desk[d].ticket] =
     IF desk[d].made /\ desk[d].action = "REFILL" THEN @ + 1 ELSE @]

(* The engine's audit row for an order. *)
RecordAction(d) ==
  /\ On(d, "record") /\ desk[d].for = "engine"
  /\ audit' = Recorded(d)
  /\ Moves(d, "next", [desk[d] EXCEPT !.clean = @ /\ desk[d].made,
                                      !.made = FALSE, !.order = NoOrder])
  /\ UNCHANGED <<refills, remote, linked, ticket, poll, died, calls, events>>

(* The engine's answer. *)
FinishRun(d) ==
  /\ On(d, "next") /\ desk[d].todo = {}
  /\ ticket' = [ticket EXCEPT ![desk[d].ticket].status =
        IF desk[d].clean THEN "RESOLVED" ELSE "ESCALATED"]
  /\ Moves(d, "idle", Clear)
  /\ UNCHANGED <<refills, remote, linked, audit, poll, died, calls, events>>

(* The agent's audit row, message and status, in one transaction. *)
ReportAction(d) ==
  /\ On(d, "record") /\ desk[d].for = "agent"
  /\ audit' = Recorded(d)
  /\ ticket' = [ticket EXCEPT ![desk[d].ticket].status =
        IF desk[d].made THEN "REPLIED" ELSE "IN_PROGRESS"]
  /\ Moves(d, "idle", Clear)
  /\ UNCHANGED <<refills, remote, linked, poll, died, calls, events>>

(* The process dies. *)
Collapse ==
  /\ Event
  /\ \E d \in Desks : ~On(d, "idle")
  /\ died' = died \cup (Tickets \cap {desk[d].ticket : d \in Desks})
  /\ desk' = [d \in Desks |-> Clear]
  /\ poll' = [l \in Polls |-> NoPoll]
  /\ UNCHANGED supportDb

-----------------------------------------------------------------------------

(* A request goes on; a provider call of it ends one way or the other. *)
DeskStep(d) ==
  \/ CheckRefill(d) \/ SubmitRefill(d) \/ InsertRefill(d)
  \/ \E b \in BOOLEAN : SubmitFails(d, b) \/ OtherAction(d, b)
  \/ \E v \in Verdicts : ResolveRefill(d, v)
  \/ PostForEngine(d) \/ PostForAgent(d) \/ RecordAction(d)
  \/ \E o \in Delivered : NextOrder(d, o)
  \/ FinishRun(d) \/ ReportAction(d)

PollStep(l) ==
  \/ ListRefills(l) \/ SaveRefill(l)
  \/ \E r \in DOMAIN refills : PollRefill(l, r) \/ PollFails(l, r)

SupportNext ==
  \/ \E d \in Desks :
       \/ DeskStep(d)
       \/ \E o \in Delivered : AskRefill(d, o)
       \/ \E r \in DOMAIN refills : OpenForVerdict(d, r)
       \/ \E t \in Tickets : Write(d, t, "", {})
       \/ \E t \in Tickets, a \in {"REFILL", "OTHER"}, O \in OrderLists :
             Write(d, t, a, O)
       \/ \E t \in Tickets, a \in {"REFILL", "OTHER"}, o \in Delivered :
             AgentAction(d, t, a, o)
  \/ \E l \in Polls : PollStep(l)
  \/ \E m \in DOMAIN remote, word \in Words : ProviderSays(m, word)
  \/ \E o \in AtProvider : UpdateService(o)
  \/ \E t \in Tickets, s \in HandStatuses : SetTicket(t, s)
  \/ Collapse

SupportSpec == SupportInit /\ [][SupportNext]_supportVars

RemoteIds == 1..(MaxCalls * Cardinality(AtProvider))
RowsOf(m) == {r \in DOMAIN refills : refills[r].remote = m}

(* Requests run to their end and node-cron starts ticks for ever.  A poll  *)
(* may fail or skip a refill, but asked about again and again a provider   *)
(* answers some time.                                                      *)
SupportFairness ==
  /\ \A d \in Desks : WF_supportVars(DeskStep(d))
  /\ \A l \in Polls : WF_supportVars(PollStep(l))
  /\ \A m \in RemoteIds :
       SF_supportVars(\E l \in Polls, r \in RowsOf(m) : PollRefill(l, r))

SupportFairSpec == SupportSpec /\ SupportFairness

-----------------------------------------------------------------------------
(* Correctness.                                                            *)

RefillRow ==
  [order : Delivered, remote : Nat, ticket : Tickets \cup {NoOrder}, seen : Nat,
   status : {"REQUESTED", "IN_PROGRESS"} \cup Verdicts]
DeskRow ==
  [at : {"idle", "refill", "submit", "insert", "resolve", "post", "next",
         "act", "record"},
   for : {"customer", "engine", "agent"}, ticket : Tickets \cup {NoOrder},
   action : {"", "REFILL", "OTHER"}, order : Delivered \cup {NoOrder},
   orders : SUBSET Delivered, todo : SUBSET Delivered, clean : BOOLEAN,
   seen : Nat, remote : Nat, made : BOOLEAN, refill : Nat]

(* The shape of the state. *)
SupportTypeOK ==
  /\ refills \in Seq(RefillRow)
  /\ remote \in Seq({"Pending"} \cup Words) /\ linked \subseteq AtProvider
  /\ ticket \in [Tickets -> [orders : SUBSET Delivered,
        status : HandStatuses \cup {"NEW", "AI_PROCESSING", "PENDING_ADMIN",
                   "RESOLVED", "ESCALATED", "REPLIED", "IN_PROGRESS"}]]
  /\ audit \in [Tickets -> Nat]
  /\ desk \in [Desks -> DeskRow]
  /\ poll \in [Polls -> [todo : SUBSET (DOMAIN refills),
                         refill : Nat, verdict : {""} \cup Verdicts]]
  /\ died \subseteq Tickets /\ calls \in Nat /\ events \in Nat

(* An order has one open refill, whoever asks for it and whoever has       *)
(* settled earlier ones, but for requests that looked before either of     *)
(* them had inserted its own.                                              *)
OneOpenRefill ==
  \A r, s \in DOMAIN refills :
     (/\ r < s /\ refills[r].order = refills[s].order
      /\ refills[r].status \notin Verdicts /\ refills[s].status \notin Verdicts)
       => refills[s].seen < r

(* The audit tells what was done: every refill a ticket opened is in it as *)
(* a success, or about to be, and no success without its refill.           *)
AuditTellsRefills ==
  \A t \in Tickets \ died :
     Cardinality({r \in DOMAIN refills : refills[r].ticket = t}) =
       audit[t] + Cardinality({d \in Desks :
                     /\ desk[d].at = "record" /\ desk[d].made
                     /\ desk[d].ticket = t /\ desk[d].action = "REFILL"})

Served(m) == \E r \in RowsOf(m) : refills[r].order \in linked
Reported(m) == RowsOf(m) # {} /\ MappedRefill(remote[m]) \in Verdicts
Settled(m) == \A r \in RowsOf(m) : refills[r].status \in Verdicts

(* Everybody gets an answer: a verdict of the provider that                *)
(* mapProviderRefillStatus understands reaches the refill's row, if in the *)
(* end the order's service names a provider, and the engine leaves no      *)
(* ticket in AI_PROCESSING, whatever fails, unless the process dies.  (A   *)
(* refill whose service has lost its provider, or whose provider says a    *)
(* word the code does not know, is IN_PROGRESS until an admin resolves it.)*)
SupportAnswers ==
  /\ \A m \in RemoteIds : <>[]Served(m) => (Reported(m) ~> Settled(m))
  /\ \A t \in Tickets :
       ticket[t].status = "AI_PROCESSING"
         ~> ticket[t].status # "AI_PROCESSING" \/ t \in died
=============================================================================
