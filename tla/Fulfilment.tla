----------------------------- MODULE Fulfilment -----------------------------
(***************************************************************************)
(* What happens to a paid order: the cron that submits it to a provider,   *)
(* the poll that follows it there, the admin's status changes and Resend,  *)
(* the customer's cancel and recheck, and the refund a terminated order    *)
(* gets.  Checkout places the orders; here each starts PENDING and paid.   *)
(*                                                                         *)
(* A job is one call on one order (a cron tick is a job for each order it  *)
(* listed).  Its steps end where it waits for the provider or for a row    *)
(* lock, or has read without a lock what it will use later.  updateOrder-  *)
(* Status reads the order unlocked, then updates it, then locks the wallet *)
(* for the refund; Resend locks the wallet first and then updates the      *)
(* order.  Nothing in the code keeps two calls on one order apart.         *)
(*                                                                         *)
(* A provider names what it accepts by its own counter and the order keeps *)
(* that name, not the provider's: later calls go to the primary.  A        *)
(* provider leaves out of its answer what it does not know.                *)
(*                                                                         *)
(* The orders are of one service.  It names a primary and a backup         *)
(* provider, or one of them, or none, and has opted in to automatic        *)
(* submission or not, as the admin edits it.  A call keeps the providers   *)
(* the service named when it read the order.  A service without a          *)
(* providerServiceId is failed as if every provider had refused.           *)
(***************************************************************************)
EXTENDS Integers, Sequences, FiniteSets, FiniteSetsExt

CONSTANTS Orders,
          Charge,        \* what each order costs
          Funds,         \* what the customer has left beside these orders
          AdminStatuses, \* the statuses the admin gives
          Endings,       \* how a provider ends an order
          AutoSubmit,    \* settings of the service's autoSubmit
          Links,         \* the sets of providers the admin lets it name
          Jobs, NoJob,
          (* Bounds (model checking): orders a provider has, requests of    *)
          (* admins and customers, crashes.                                *)
          MaxRemote, MaxRequests, MaxCrashes

Status == {"PENDING", "PROCESSING", "IN_PROGRESS", "COMPLETED", "PARTIAL",
           "CANCELED", "FAILED"}
Terminated == {"CANCELED", "FAILED"}
Active == {"PROCESSING", "IN_PROGRESS"}
Primary == 1
Backup == 2
Providers == {Primary, Backup}

ASSUME OrdersAssumption == IsFiniteSet(Orders)
ASSUME ChargeAssumption == Charge \in Nat \ {0} /\ Funds \in Nat
ASSUME StatusAssumption == /\ AdminStatuses \subseteq Status
                           /\ Endings \subseteq {"Completed", "Partial", "Canceled"}
ASSUME ServiceAssumption == /\ AutoSubmit \subseteq BOOLEAN
                            /\ Links \subseteq SUBSET Providers
ASSUME BoundsAssumption == /\ MaxRemote \in Nat
                           /\ MaxRequests \in Nat /\ MaxCrashes \in Nat
ASSUME JobsAssumption == NoJob \notin Jobs

VARIABLES
  service,    \* Service row: autoSubmit, and the providers it names
  order,      \* Order rows: status, providerOrderId (with it mode is AUTO)
  debits, refunds,   \* ORDER_DEBIT and ORDER_REFUND rows of each order
  balance,    \* Wallet.balance
  remote,     \* what each provider accepted, as it sees it
  walletLock, orderLock,
  job, requests, crashes,
  (* History, for the properties: the orders on which no two calls          *)
  (* overlapped and no call revived after the refund; those a provider     *)
  (* accepted without the database learning of it; who accepted an order.  *)
  plain, orphaned, acceptedBy

db == <<order, debits, refunds, balance>>
locks == <<walletLock, orderLock>>
history == <<plain, orphaned, acceptedBy>>
vars == <<service, db, remote, locks, job, requests, crashes, history>>

NoRef == 0
NoOrder == NoJob
Idle == [at |-> "idle", op |-> "none", order |-> NoOrder, ref |-> NoRef,
         status |-> "PENDING", refundDue |-> FALSE, provider |-> Primary,
         rest |-> {}]

Init ==
  /\ service \in [autoSubmit : AutoSubmit, linked : Links]
  /\ order = [o \in Orders |-> [status |-> "PENDING", ref |-> NoRef]]
  /\ debits = [o \in Orders |-> 1]
  /\ refunds = [o \in Orders |-> 0]
  /\ balance = Funds
  /\ remote = [v \in Providers |-> <<>>]
  /\ walletLock = NoJob
  /\ orderLock = [o \in Orders |-> NoJob]
  /\ job = [p \in Jobs |-> Idle]
  /\ requests = 0 /\ crashes = 0
  /\ plain = Orders /\ orphaned = {}
  /\ acceptedBy = [o \in Orders |-> Primary]

-----------------------------------------------------------------------------
At(p, where) == job[p].at = where
Free(lock, p) == lock \in {NoJob, p}
The(p) == order[job[p].order]

(* A call starts on o, perhaps while another is in flight on it. *)
Begins(p, o, record) ==
  /\ At(p, "idle")
  /\ job' = [job EXCEPT ![p] = record]
  /\ plain' = IF \E q \in Jobs : job[q].order = o THEN plain \ {o} ELSE plain
  /\ UNCHANGED <<service, db, remote, locks, crashes, orphaned, acceptedBy>>
Tick(p, o, record) == Begins(p, o, record) /\ UNCHANGED requests
Request(p, o, record) ==
  /\ requests < MaxRequests /\ requests' = requests + 1
  /\ Begins(p, o, record)

Goto(p, where) == job' = [job EXCEPT ![p].at = where] /\ UNCHANGED history

(* Mutant: the order's row stays locked.                                   *)
EndKeepsOrderLock(p, where) ==
  /\ walletLock' = IF walletLock = p THEN NoJob ELSE walletLock
  /\ job' = IF where = "idle" THEN [job EXCEPT ![p] = Idle]
                              ELSE [job EXCEPT ![p].at = where]
  /\ UNCHANGED <<service, remote, requests, crashes, orderLock>>

(* The transaction ends, its locks are released, the job goes on at where. *)
EndTransaction(p, where) ==
  /\ walletLock' = IF walletLock = p THEN NoJob ELSE walletLock
  /\ orderLock' = [o \in Orders |-> IF orderLock[o] = p THEN NoJob
                                                       ELSE orderLock[o]]
  /\ job' = IF where = "idle" THEN [job EXCEPT ![p] = Idle]
                              ELSE [job EXCEPT ![p].at = where]
  /\ UNCHANGED <<service, remote, requests, crashes>>
Abort(p) == UNCHANGED <<db, history>> /\ EndTransaction(p, "idle")

Finish(p) == EndTransaction(p, "idle")

-----------------------------------------------------------------------------
(* cron/submitPendingOrders and resendOrderToProvider.                     *)

(* The candidates of a call: the providers the service names, in turn. *)
First(named) == IF Primary \in named THEN Primary ELSE Backup
Candidates(op, o) ==
  [Idle EXCEPT !.op = op, !.order = o, !.provider = First(service.linked),
               !.rest = service.linked \ {First(service.linked)}]

(* findPendingAutoSubmitOrders lists o.  An order whose service names no   *)
(* provider is skipped with a warning, and stays PENDING.                  *)
ListPending(p, o) ==
  /\ service.autoSubmit
  /\ order[o].status = "PENDING" /\ order[o].ref = NoRef
  /\ service.linked # {}
  /\ Tick(p, o, [Candidates("submit", o) EXCEPT !.at = "submit"])

(* Mutant: Resend does not look at providerOrderId.                        *)
ResendSubmitted(p, o) ==
  /\ order[o].status \in {"PENDING", "FAILED"} /\ service.linked # {}
  /\ Request(p, o, [Candidates("resend", o) EXCEPT
          !.at = IF order[o].status = "FAILED" THEN "recharge" ELSE "submit"])

(* Resend reads the order before any transaction: PENDING or FAILED and    *)
(* never accepted, its service with a provider.  A FAILED one was refunded *)
(* and is charged again first.                                             *)
Resend(p, o) ==
  /\ order[o].status \in {"PENDING", "FAILED"} /\ order[o].ref = NoRef
  /\ service.linked # {}
  /\ Request(p, o, [Candidates("resend", o) EXCEPT
          !.at = IF order[o].status = "FAILED" THEN "recharge" ELSE "submit"])

(* Mutant: the balance is read without the wallet's lock.                  *)
RechargeUnlocked(p) ==
  /\ At(p, "recharge") /\ Free(walletLock, p) /\ balance >= Charge
  /\ Goto(p, "reopen")
  /\ UNCHANGED <<service, db, remote, locks, requests, crashes>>

(* The debit of the re-charge, under the wallet's lock... *)
Recharge(p) ==
  /\ At(p, "recharge") /\ Free(walletLock, p) /\ balance >= Charge
  /\ walletLock' = p
  /\ Goto(p, "reopen")
  /\ UNCHANGED <<service, db, remote, orderLock, requests, crashes>>

RechargeRefused(p) ==
  /\ At(p, "recharge") /\ Free(walletLock, p) /\ balance < Charge
  /\ Abort(p)

(* ... then the order is PENDING again, in the same transaction. *)
Reopen(p) ==
  LET o == job[p].order
  IN /\ At(p, "reopen") /\ Free(orderLock[o], p)
     /\ order' = [order EXCEPT ![o].status = "PENDING"]
     /\ debits' = [debits EXCEPT ![o] = @ + 1]
     /\ balance' = balance - Charge
     /\ UNCHANGED <<refunds, history>>
     /\ EndTransaction(p, "submit")

(* The provider being asked has one more order, for job p. *)
Accepted(p) ==
  LET v == job[p].provider
  IN /\ At(p, "submit") /\ Len(remote[v]) < MaxRemote
     /\ remote' = [remote EXCEPT ![v] =
          Append(@, [order |-> job[p].order, status |-> "Pending"])]

(* It accepts the order and its answer arrives. *)
ProviderAccepts(p) ==
  /\ Accepted(p)
  /\ job' = [job EXCEPT ![p].at = "mark",
                        ![p].ref = Len(remote[job[p].provider]) + 1]
  /\ UNCHANGED <<service, db, locks, requests, crashes, history>>

(* A refusal, or no answer, sends the order to the next provider; after    *)
(* the last the cron fails the order and Resend reports the error.         *)
NextCandidate(p) ==
  LET left == job[p].rest
  IN job' = IF left = {}
            THEN [job EXCEPT ![p].at = "record", ![p].provider = Primary]
            ELSE [job EXCEPT ![p].provider = First(left),
                             ![p].rest = left \ {First(left)}]

ProviderRefuses(p) ==
  /\ At(p, "submit")
  /\ NextCandidate(p)
  /\ UNCHANGED <<service, db, remote, locks, requests, crashes, history>>

(* It accepted the order and the answer was lost. *)
ProviderAnswerLost(p) ==
  /\ Accepted(p)
  /\ NextCandidate(p)
  /\ orphaned' = orphaned \cup {job[p].order}
  /\ UNCHANGED <<service, db, locks, requests, crashes, plain, acceptedBy>>

(* History: a refunded order given a live status without a charge.         *)
Unrevived(o, status) ==
  IF order[o].status \in Terminated /\ status \notin Terminated
  THEN plain \ {o} ELSE plain

(* markOrderSubmittedToProvider, whatever the order has become meanwhile.  *)
MarkSubmitted(p) ==
  LET o == job[p].order
  IN /\ At(p, "mark") /\ Free(orderLock[o], p)
     /\ order' = [order EXCEPT ![o] =
          [status |-> "PROCESSING", ref |-> job[p].ref]]
     /\ acceptedBy' = [acceptedBy EXCEPT ![o] = job[p].provider]
     /\ plain' = Unrevived(o, "PROCESSING")
     /\ UNCHANGED <<debits, refunds, balance, orphaned>>
     /\ Finish(p)

(* Mutant: the cron leaves the order as it is.                             *)
RecordOnly(p) ==
  /\ At(p, "record") /\ Free(orderLock[job[p].order], p)
  /\ Abort(p)

(* recordOrderProviderError (a text no code reads again); the cron goes on *)
(* to fail the order.                                                      *)
RecordError(p) ==
  /\ At(p, "record") /\ Free(orderLock[job[p].order], p)
  /\ job' = IF job[p].op = "submit"
            THEN [job EXCEPT ![p].at = "read", ![p].status = "FAILED"]
            ELSE [job EXCEPT ![p] = Idle]
  /\ UNCHANGED <<service, db, remote, locks, requests, crashes, history>>

-----------------------------------------------------------------------------
(* updateOrderStatus(job[p].order, job[p].status).                         *)

(* Mutant: the refund does not ask whether the order was refunded before.  *)
RefundAlways(p) == job[p].status \in Terminated

(* The unlocked read that decides whether a refund is due. *)
RefundDue(p) ==
  job[p].status \in Terminated /\ The(p).status \notin Terminated

ReadOrder(p) ==
  /\ At(p, "read")
  /\ job' = [job EXCEPT ![p].at = "update", ![p].refundDue = RefundDue(p)]
  /\ UNCHANGED <<service, db, remote, locks, requests, crashes, history>>

WriteStatus(p) ==
  /\ order' = [order EXCEPT ![job[p].order].status = job[p].status]
  /\ plain' = Unrevived(job[p].order, job[p].status)
  /\ UNCHANGED <<debits, orphaned, acceptedBy>>

(* The update of the row, and the commit when there is nothing to refund.  *)
UpdateStatus(p) ==
  /\ At(p, "update") /\ Free(orderLock[job[p].order], p)
  /\ ~job[p].refundDue
  /\ WriteStatus(p)
  /\ UNCHANGED <<refunds, balance>>
  /\ Finish(p)

UpdateThenRefund(p) ==
  /\ At(p, "update") /\ Free(orderLock[job[p].order], p)
  /\ job[p].refundDue
  /\ orderLock' = [orderLock EXCEPT ![job[p].order] = p]
  /\ Goto(p, "refund")
  /\ UNCHANGED <<service, db, remote, walletLock, requests, crashes>>

(* The refund, and the commit of both. *)
Refund(p) ==
  LET o == job[p].order
  IN /\ At(p, "refund") /\ Free(walletLock, p)
     /\ WriteStatus(p)
     /\ refunds' = [refunds EXCEPT ![o] = @ + 1]
     /\ balance' = balance + Charge
     /\ Finish(p)

-----------------------------------------------------------------------------
(* The calls that end in updateOrderStatus.                                *)

(* An admin picks a status. *)
AdminUpdate(p, o, status) ==
  /\ Request(p, o, [Idle EXCEPT !.at = "read", !.op = "admin", !.order = o,
                               !.status = status])

(* Mutant: the statuses to poll leave out PROCESSING.                      *)
PollInProgress(p, o) ==
  /\ order[o].status = "IN_PROGRESS" /\ order[o].ref # NoRef
  /\ Primary \in service.linked
  /\ Tick(p, o, [Idle EXCEPT !.at = "ask", !.op = "poll", !.order = o,
                               !.ref = order[o].ref])

(* pollOrderStatus lists the active orders a provider has, and skips those *)
(* whose service names no primary any more ...                             *)
Poll(p, o) ==
  /\ order[o].status \in Active /\ order[o].ref # NoRef
  /\ Primary \in service.linked
  /\ Tick(p, o, [Idle EXCEPT !.at = "ask", !.op = "poll", !.order = o,
                               !.ref = order[o].ref])

(* ... and refreshOrderFromProvider any order a provider has, on request.  *)
Refresh(p, o) ==
  /\ order[o].ref # NoRef /\ Primary \in service.linked
  /\ Request(p, o, [Idle EXCEPT !.at = "ask", !.op = "refresh", !.order = o,
                               !.ref = order[o].ref])

(* Mutant: what it does not know passes through.                           *)
MappedRaw(s) == CASE s = "Completed" -> "COMPLETED"
                  [] s = "Partial" -> "PARTIAL"
                  [] s = "Canceled" -> "CANCELED"
                  [] s = "Pending" -> "PENDING"
                  [] s = "Processing" -> "PROCESSING"
                  [] OTHER -> s

(* mapProviderOrderStatus: what it does not know stays IN_PROGRESS.        *)
Mapped(s) == CASE s = "Completed" -> "COMPLETED"
               [] s = "Partial" -> "PARTIAL"
               [] s = "Canceled" -> "CANCELED"
               [] s = "Pending" -> "PENDING"
               [] s = "Processing" -> "PROCESSING"
               [] OTHER -> "IN_PROGRESS"

(* The primary's answer; the poll ignores one that maps to PENDING. *)
Known(p) == job[p].ref \in DOMAIN remote[Primary]

AskProvider(p) ==
  LET mapped == Mapped(remote[Primary][job[p].ref].status)
  IN /\ At(p, "ask") /\ Known(p)
     /\ job' = IF job[p].op = "poll" /\ mapped = "PENDING"
               THEN [job EXCEPT ![p] = Idle]
               ELSE [job EXCEPT ![p].at = "read", ![p].ref = NoRef,
                                ![p].status = mapped]
     /\ UNCHANGED <<service, db, remote, locks, requests, crashes, history>>

AskFails(p) ==
  /\ At(p, "ask")
  /\ Abort(p)

(* cancelOrderForUser: an active or pending order at a provider. *)
Cancel(p, o) ==
  /\ order[o].status \in Active \cup {"PENDING"}
  /\ order[o].ref # NoRef /\ Primary \in service.linked
  /\ Request(p, o, [Idle EXCEPT !.at = "cancel", !.op = "cancel", !.order = o,
                               !.ref = order[o].ref, !.status = "CANCELED"])

(* The primary takes the request; it may or may not cancel in the end.     *)
CancelAccepted(p) ==
  /\ At(p, "cancel") /\ Known(p)
  /\ job' = [job EXCEPT ![p].at = "read", ![p].ref = NoRef]
  /\ UNCHANGED <<service, db, remote, locks, requests, crashes, history>>

CancelRefused(p) ==
  /\ At(p, "cancel")
  /\ Abort(p)

-----------------------------------------------------------------------------
(* A ring of jobs that each wait for a row the next holds: Postgres aborts *)
(* one, and its call fails.                                                *)
Blocker(p) == CASE At(p, "reopen") -> orderLock[job[p].order]
                [] At(p, "update") -> orderLock[job[p].order]
                [] At(p, "refund") -> walletLock
                [] At(p, "recharge") -> walletLock
                [] OTHER -> NoJob
DeadlockAbort(p) ==
  /\ \E ring \in SUBSET Jobs :
       p \in ring /\ {Blocker(q) : q \in ring} = ring
  /\ Abort(p)

(* The process dies; its transactions roll back. *)
Crash ==
  /\ crashes < MaxCrashes /\ crashes' = crashes + 1
  /\ job' = [p \in Jobs |-> Idle]
  /\ walletLock' = NoJob
  /\ orderLock' = [o \in Orders |-> NoJob]
  /\ orphaned' = orphaned \cup {job[p].order : p \in {q \in Jobs : At(q, "mark")}}
  /\ UNCHANGED <<service, db, remote, requests, plain, acceptedBy>>

(* updateService: the admin edits the service. *)
UpdateService(auto, linked) ==
  /\ service' = [autoSubmit |-> auto, linked |-> linked]
  /\ UNCHANGED <<db, remote, locks, job, requests, crashes, history>>

(* A provider works on what it accepted. *)
RemoteNext == [s \in {"Pending", "In progress"} |->
                 IF s = "Pending" THEN {"In progress"} \cup (Endings \cap {"Canceled"})
                 ELSE Endings]
ProviderProgress(v, r, status) ==
  /\ r \in DOMAIN remote[v] /\ remote[v][r].status \in DOMAIN RemoteNext
  /\ status \in RemoteNext[remote[v][r].status]
  /\ remote' = [remote EXCEPT ![v][r].status = status]
  /\ UNCHANGED <<service, db, locks, job, requests, crashes, history>>

Start(p) ==
  \E o \in Orders : \/ ListPending(p, o) \/ Resend(p, o) \/ Poll(p, o)
                    \/ Refresh(p, o) \/ Cancel(p, o)
                    \/ \E status \in AdminStatuses : AdminUpdate(p, o, status)

Step(p) ==
  \/ Recharge(p) \/ RechargeRefused(p) \/ Reopen(p)
  \/ ProviderAccepts(p) \/ ProviderRefuses(p) \/ ProviderAnswerLost(p)
  \/ MarkSubmitted(p) \/ RecordError(p)
  \/ ReadOrder(p) \/ UpdateStatus(p) \/ UpdateThenRefund(p) \/ Refund(p)
  \/ AskProvider(p) \/ AskFails(p) \/ CancelAccepted(p) \/ CancelRefused(p)
  \/ DeadlockAbort(p)

Next ==
  \/ \E p \in Jobs : Start(p) \/ Step(p)
  \/ \E v \in Providers, r \in 1..MaxRemote,
        status \in {"In progress"} \cup Endings :
        ProviderProgress(v, r, status)
  \/ \E auto \in AutoSubmit, linked \in Links : UpdateService(auto, linked)
  \/ Crash

Spec == Init /\ [][Next]_vars

(* The crons run forever and in time a provider answers a question; the    *)
(* admin owes nothing.  A job stands for any of the server's calls, so     *)
(* that others take it is an artefact of the bound and the crons' ticks    *)
(* are strongly fair.  (A service set right only now and then would get    *)
(* its tick too, but the properties ask that it stays right.)  What a job  *)
(* has begun it ends; a row lock goes to some waiter each time.            *)
Fairness ==
  /\ \A p \in Jobs : SF_vars(Step(p))
  /\ \A o \in Orders :
       /\ SF_vars(\E p \in Jobs : ListPending(p, o))
       /\ SF_vars(\E p \in Jobs : Poll(p, o))
       /\ SF_vars(\E p \in Jobs : job[p].order = o /\ AskProvider(p))
FairSpec == Spec /\ Fairness
-----------------------------------------------------------------------------
TypeOK ==
  /\ service \in [autoSubmit : AutoSubmit, linked : Links]
  /\ order \in [Orders -> [status : Status, ref : 0..MaxRemote]]
  /\ debits \in [Orders -> Nat] /\ refunds \in [Orders -> Nat]
  /\ balance \in Int
  /\ \A v \in Providers : remote[v] \in Seq([order : Orders,
       status : {"Pending", "In progress", "Completed", "Partial", "Canceled"}])
  /\ walletLock \in Jobs \cup {NoJob}
  /\ orderLock \in [Orders -> Jobs \cup {NoJob}]
  /\ job \in [Jobs ->
       [at : {"idle", "submit", "recharge", "reopen", "mark", "record", "read",
              "update", "refund", "ask", "cancel"},
        op : {"none", "submit", "resend", "admin", "poll", "refresh", "cancel"},
        order : Orders \cup {NoOrder}, ref : 0..MaxRemote,
        status : Status, refundDue : BOOLEAN,
        provider : Providers, rest : SUBSET Providers]]
  /\ requests \in 0..MaxRequests /\ crashes \in 0..MaxCrashes
  /\ plain \in SUBSET Orders /\ orphaned \in SUBSET Orders
  /\ acceptedBy \in [Orders -> Providers]

(* Whatever overlaps or crashes, the customer's balance is what was there  *)
(* less what each order was charged plus what it was refunded, and a       *)
(* re-charge never takes it below zero.                                    *)
BalanceReconciles ==
  /\ balance = Funds + Charge * MapThenSumSet(LAMBDA o : 1 + refunds[o] - debits[o],
                                              Orders)
  /\ balance >= 0

(* An order that was canceled or failed has been refunded all it was       *)
(* charged, and any other has been charged once more than refunded, across *)
(* failures, resends, cancels, polls and crashes: as long as no two calls  *)
(* overlapped on that order and none revived it after the refund           *)
(* (updateOrderStatus, resendOrderToProvider).                             *)
MoneyFollowsStatus ==
  \A o \in plain :
    debits[o] = refunds[o] + IF order[o].status \in Terminated THEN 0 ELSE 1

(* The same orders are at one provider at most and once only, except where *)
(* an acceptance never reached the database: the fallback, the next tick   *)
(* and Resend retry only what nobody accepted.                             *)
RemoteOrders(o) ==
  UNION {{<<v, r>> : r \in {i \in DOMAIN remote[v] : remote[v][i].order = o}}
           : v \in Providers}
SubmittedOnce ==
  \A o \in plain \ orphaned : Cardinality(RemoteOrders(o)) <= 1

(* Every call ends, though Resend and the refunds lock the same rows in    *)
(* opposite orders.                                                        *)
JobsEnd == \A p \in Jobs : []<>At(p, "idle")

(* A paid order does not wait forever: a provider takes it or it fails.    *)
(* For this the service must have opted in and name some provider in the   *)
(* end.  With autoSubmit and no provider submitPendingOrders only warns,   *)
(* and the order stays PENDING and charged, although the cron's header     *)
(* says that a broken integration never silently keeps a customer's money. *)
Waiting(o) == order[o].status = "PENDING" /\ order[o].ref = NoRef
PendingIsResolved ==
  <>[](service.autoSubmit /\ service.linked # {})
    => \A o \in Orders : ~<>[]Waiting(o)

(* The poll records in time that the provider that accepted an order has   *)
(* completed it, when that is the service's primary provider and stays it. *)
Unrecorded(o) ==
  /\ order[o].status \in Active /\ order[o].ref # NoRef
  /\ remote[acceptedBy[o]][order[o].ref].status = "Completed"
CompletionRecorded ==
  <>[](Primary \in service.linked)
    => \A o \in Orders : Unrecorded(o) /\ acceptedBy[o] = Primary
                            ~> order[o].status \notin Active

(* "an order can never be left in 'canceled but still charged' limbo"      *)
(* (updateOrderStatus).  Not so when a Resend re-charges a failed order    *)
(* while an admin cancels it.                                              *)
CanceledNotCharged ==
  \A o \in Orders : order[o].status \in Terminated => refunds[o] >= debits[o]

(* pollOrderStatus reconciles an order "against the provider's own         *)
(* records".  Not so for an order the backup provider accepted: the        *)
(* primary is asked about it.                                              *)
BackupRecorded ==
  \A o \in Orders : Unrecorded(o) ~> order[o].status \notin Active
=============================================================================
