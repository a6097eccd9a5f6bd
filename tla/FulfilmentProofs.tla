-------------------------- MODULE FulfilmentProofs --------------------------
(***************************************************************************)
(* What happens to a paid order, proved for any orders, providers and      *)
(* jobs.  Nothing in the code keeps two calls on one order apart, so the   *)
(* invariant is about the orders on which none overlapped (`plain`): such  *)
(* an order has at most one job, and what that job has read of the order   *)
(* is still so when it writes.  The balance needs no such care: whatever   *)
(* overlaps, it is what the rows of the order and the others come to.      *)
(***************************************************************************)
EXTENDS Fulfilment, FiniteSetTheorems, SequenceTheorems,
        WellFoundedInduction, TLAPS

RemoteRow == [order : Orders,
              status : {"Pending", "In progress", "Completed", "Partial",
                        "Canceled"}]
OrderRow == [status : Status, ref : 0..MaxRemote]
JobRow ==
  [at : {"idle", "submit", "recharge", "reopen", "mark", "record", "read",
         "update", "refund", "ask", "cancel"},
   op : {"none", "submit", "resend", "admin", "poll", "refresh", "cancel"},
   order : Orders \cup {NoOrder}, ref : 0..MaxRemote,
   status : Status, refundDue : BOOLEAN, provider : Providers,
   rest : SUBSET Providers]

Shape ==
  /\ order \in [Orders -> OrderRow]
  /\ debits \in [Orders -> Nat] /\ refunds \in [Orders -> Nat]
  /\ balance \in Int
  /\ remote \in [Providers -> Seq(RemoteRow)]
  /\ walletLock \in Jobs \cup {NoJob}
  /\ orderLock \in [Orders -> Jobs \cup {NoJob}]
  /\ job \in [Jobs -> JobRow]
  /\ requests \in 0..MaxRequests /\ crashes \in 0..MaxCrashes
  /\ plain \in SUBSET Orders /\ orphaned \in SUBSET Orders
  /\ acceptedBy \in [Orders -> Providers]

(* The service is as the admin may set it.  (Apart from the invariant, for *)
(* only the admin writes it.)                                              *)
Serviced == service \in [autoSubmit : AutoSubmit, linked : Links]

(* p's job is on order o. *)
Working(p, o) == ~At(p, "idle") /\ job[p].order = o

(* A job is on an order; what a provider accepted has a name; and only the *)
(* holder of the wallet's lock re-charges, and it has seen the money.      *)
JobSound(p) ==
  /\ ~At(p, "idle") => job[p].order \in Orders
  /\ At(p, "mark") => job[p].ref # NoRef
  /\ At(p, "reopen") => walletLock = p /\ balance >= Charge

(* What the only job p of a plain order o has read of it is still so.      *)
StillSo(p, o) ==
  /\ At(p, "recharge") \/ At(p, "reopen") => order[o].status \in Terminated
  /\ At(p, "update") \/ At(p, "refund") =>
       job[p].refundDue = (job[p].status \in Terminated
                             /\ order[o].status \notin Terminated)
  /\ At(p, "refund") => job[p].refundDue
  /\ job[p].at \in {"recharge", "reopen", "submit"} => order[o].ref = NoRef

PlainSound(o) ==
  /\ debits[o] = refunds[o] + IF order[o].status \in Terminated THEN 0 ELSE 1
  /\ \A p, q \in Jobs : Working(p, o) /\ Working(q, o) => p = q
  /\ \A p \in Jobs : Working(p, o) => StillSo(p, o)

(* The order r of provider v is o. *)
Has(v, r, o) == r \in DOMAIN remote[v] /\ remote[v][r].order = o

(* A provider has o only once, and then the order names it or its job will. *)
DeliveredOnce(o) ==
  /\ \A v, w \in Providers : \A r \in DOMAIN remote[v], s \in DOMAIN remote[w] :
        Has(v, r, o) /\ Has(w, s, o) => v = w /\ r = s
  /\ \A v \in Providers : \A r \in DOMAIN remote[v] :
        Has(v, r, o) => \/ order[o].ref # NoRef
                        \/ \E p \in Jobs : At(p, "mark") /\ job[p].order = o

IInv ==
  /\ Shape /\ balance >= 0
  /\ \A p \in Jobs : JobSound(p)
  /\ \A o \in plain : PlainSound(o)
  /\ \A o \in plain \ orphaned : DeliveredOnce(o)
-----------------------------------------------------------------------------
(* A step of one job on one order.                                         *)

(* Job p, if it is on an order, is on o; others and other orders are left  *)
(* alone, and whoever holds the wallet's lock keeps it and the money.      *)
Touches(p, o) ==
  /\ \A q \in Jobs : q # p => job'[q] = job[q]
  /\ job[p].at # "idle" => job[p].order = o
  /\ job'[p].at # "idle" => job'[p].order = o
  /\ \A x \in Orders : x # o => /\ order'[x] = order[x]
                                /\ debits'[x] = debits[x]
                                /\ refunds'[x] = refunds[x]
                                /\ \A v \in Providers :
                                     \A r : Has(v, r, x)' => Has(v, r, x)
  /\ plain' \subseteq plain /\ orphaned \subseteq orphaned'
  /\ \/ walletLock \in {NoJob, p}
     \/ walletLock' = walletLock /\ balance' >= balance

LEMMA ChargeType == Charge \in Nat /\ Charge > 0
BY ChargeAssumption

LEMMA Frame ==
  ASSUME IInv, NEW p \in Jobs, NEW o \in Orders, Touches(p, o),
         Shape', balance' >= 0, JobSound(p)',
         o \in plain' => PlainSound(o)',
         o \in plain' \ orphaned' => DeliveredOnce(o)'
  PROVE  IInv'
<1>1. Shape
  BY DEF IInv
<1>2. ASSUME NEW q \in Jobs
      PROVE  JobSound(q)'
  <2>1. CASE q = p
    BY <2>1
  <2>2. CASE q # p
    <3>1. JobSound(q) /\ job'[q] = job[q]
      BY <2>2 DEF IInv, Touches
    <3>2. At(q, "reopen") => walletLock' = q /\ balance' >= Charge
      <4>1. walletLock = q => walletLock' = walletLock /\ balance' >= balance
        BY <2>2, JobsAssumption DEF Touches
      <4>2. balance \in Int /\ balance' \in Int /\ Charge \in Int
        BY <1>1, ChargeType DEF Shape
      <4> QED
        BY <3>1, <4>1, <4>2 DEF JobSound
    <3> QED
      BY <3>1, <3>2 DEF JobSound, At
  <2> QED
    BY <2>1, <2>2
<1>3. ASSUME NEW x \in Orders, x # o
      PROVE  \A q \in Jobs : /\ Working(q, x)' <=> Working(q, x)
                             /\ Working(q, x) => job'[q] = job[q]
  BY <1>3 DEF Working, At, Touches
<1>4. ASSUME NEW x \in plain', x # o
      PROVE  PlainSound(x)'
  <2>1. x \in Orders /\ PlainSound(x)
    BY <1>1 DEF IInv, Touches, Shape
  <2>2. order'[x] = order[x] /\ debits'[x] = debits[x] /\ refunds'[x] = refunds[x]
    BY <1>4, <2>1 DEF Touches
  <2>3. \A q \in Jobs : Working(q, x)' => StillSo(q, x)'
    BY <1>3, <1>4, <2>1, <2>2 DEF PlainSound, StillSo, At
  <2>4. \A q, r \in Jobs : Working(q, x)' /\ Working(r, x)' => q = r
    BY <1>3, <1>4, <2>1 DEF PlainSound
  <2> QED
    BY <2>1, <2>2, <2>3, <2>4 DEF PlainSound
<1>5. ASSUME NEW x \in plain' \ orphaned', x # o
      PROVE  DeliveredOnce(x)'
  <2>1. x \in Orders /\ DeliveredOnce(x)
    BY <1>1 DEF IInv, Touches, Shape
  <2>2. /\ order'[x] = order[x]
        /\ \A v \in Providers : \A r : Has(v, r, x)' => Has(v, r, x)
    BY <1>5, <2>1 DEF Touches
  <2>3. \A q \in Jobs : At(q, "mark") /\ job[q].order = x
                          => At(q, "mark")' /\ job'[q].order = x
    BY <1>3, <1>5, <2>1 DEF Working, At
  <2>4. \A v, w \in Providers : \A r \in DOMAIN remote'[v], s \in DOMAIN remote'[w] :
           Has(v, r, x)' /\ Has(w, s, x)' => v = w /\ r = s
    BY <2>1, <2>2 DEF DeliveredOnce, Has
  <2>5. \A v \in Providers : \A r \in DOMAIN remote'[v] :
           Has(v, r, x)' => \/ order'[x].ref # NoRef
                            \/ \E q \in Jobs : At(q, "mark")' /\ job'[q].order = x
    BY <2>1, <2>2, <2>3 DEF DeliveredOnce, Has
  <2> QED
    BY <2>4, <2>5 DEF DeliveredOnce
<1> QED
  BY <1>2, <1>4, <1>5 DEF IInv

(* The only job of a plain order goes on. *)
LEMMA Alone ==
  ASSUME IInv, NEW p \in Jobs, NEW o \in plain', Touches(p, o),
         ~At(p, "idle"),
         debits'[o] = refunds'[o]
                        + IF order'[o].status \in Terminated THEN 0 ELSE 1,
         job'[p].at # "idle" => StillSo(p, o)'
  PROVE  PlainSound(o)'
<1>1. o \in Orders /\ PlainSound(o)
  BY DEF IInv, Shape, Touches
<1>2. Working(p, o)
  BY DEF Working, At, Touches
<1>3. \A q \in Jobs : Working(q, o)' => q = p
  BY <1>1, <1>2 DEF PlainSound, Working, At, Touches
<1>4. Working(p, o)' => StillSo(p, o)'
  BY DEF Working, At
<1> QED
  BY <1>3, <1>4 DEF PlainSound

(* A step that is about nothing a provider accepted. *)
LEMMA StillDelivered ==
  ASSUME IInv, NEW p \in Jobs, NEW o \in plain' \ orphaned', Touches(p, o),
         ~At(p, "mark"), UNCHANGED remote,
         order[o].ref # NoRef => order'[o].ref # NoRef
  PROVE  DeliveredOnce(o)'
<1>1. o \in Orders /\ DeliveredOnce(o)
  BY DEF IInv, Shape, Touches
<1>2. \A q \in Jobs : At(q, "mark") => At(q, "mark")' /\ job'[q] = job[q]
  BY DEF At, Touches
<1> QED
  BY <1>1, <1>2 DEF DeliveredOnce, Has

LEMMA FirstType == Primary \in Providers /\ \A s : First(s) \in Providers
BY DEF First, Providers, Primary, Backup

LEMMA IdleRow == /\ Idle \in JobRow /\ Idle.at = "idle" /\ Idle.op = "none"
                 /\ Idle.ref = NoRef
<1>1. 0 \in 0..MaxRemote
  BY BoundsAssumption
<1> QED
  BY <1>1 DEF Idle, JobRow, NoRef, Status, Providers, Primary

LEMMA JobMoves ==
  ASSUME Shape, NEW p \in Jobs, NEW r \in JobRow, job' = [job EXCEPT ![p] = r]
  PROVE  /\ job' \in [Jobs -> JobRow] /\ job'[p] = r
         /\ \A q \in Jobs : q # p => job'[q] = job[q]
BY DEF Shape

(* How a transaction of p ends. *)
LEMMA TransactionEnds ==
  ASSUME Shape, NEW p \in Jobs, NEW where \in {"idle", "submit"},
         EndTransaction(p, where)
  PROVE  /\ job' \in [Jobs -> JobRow]
         /\ \A q \in Jobs : q # p => job'[q] = job[q]
         /\ job'[p] = IF where = "idle" THEN Idle
                                        ELSE [job[p] EXCEPT !.at = where]
         /\ walletLock' \in Jobs \cup {NoJob}
         /\ walletLock # p => walletLock' = walletLock
         /\ orderLock' \in [Orders -> Jobs \cup {NoJob}]
         /\ UNCHANGED <<remote, requests, crashes>>
<1> DEFINE r == IF where = "idle" THEN Idle ELSE [job[p] EXCEPT !.at = where]
<1>1. r \in JobRow
  <2>1. job[p] \in JobRow
    BY DEF Shape
  <2> QED
    BY <2>1, IdleRow DEF JobRow
<1>2. job' = [job EXCEPT ![p] = r]
  BY DEF EndTransaction, Shape
<1> HIDE DEF r
<1>3. /\ job' \in [Jobs -> JobRow] /\ job'[p] = r
      /\ \A q \in Jobs : q # p => job'[q] = job[q]
  BY <1>1, <1>2, JobMoves
<1>4. /\ walletLock' \in Jobs \cup {NoJob}
      /\ walletLock # p => walletLock' = walletLock
      /\ UNCHANGED <<remote, requests, crashes>>
  BY DEF EndTransaction, Shape
<1>5. orderLock' \in [Orders -> Jobs \cup {NoJob}]
  BY DEF EndTransaction, Shape
<1> QED
  BY <1>3, <1>4, <1>5 DEF r
LEMMA JobTypes ==
  ASSUME IInv, NEW p \in Jobs
  PROVE  /\ job[p] \in JobRow /\ JobSound(p) /\ Shape
         /\ ~At(p, "idle") => job[p].order \in Orders
         /\ ~At(p, "idle") /\ job[p].order \in plain =>
              /\ PlainSound(job[p].order) /\ StillSo(p, job[p].order)
BY DEF IInv, Shape, JobSound, PlainSound, Working

-----------------------------------------------------------------------------
(* Steps that write no row of the order.                                   *)

LEMMA ReadStep ==
  ASSUME IInv, NEW p \in Jobs, NEW o \in Orders, job[p].order = o,
         ~At(p, "idle"), ~At(p, "mark"),
         NEW r \in JobRow, job' = [job EXCEPT ![p] = r],
         r.at # "idle" => r.order = job[p].order, r.at # "mark",
         r.at = "reopen" => walletLock' = p /\ balance >= Charge,
         UNCHANGED <<db, remote, requests, crashes, history>>,
         walletLock' \in Jobs \cup {NoJob},
         orderLock' \in [Orders -> Jobs \cup {NoJob}],
         walletLock \in {NoJob, p} \/ walletLock' = walletLock,
         o \in plain /\ r.at # "idle" =>
           StillSo(p, o)'
  PROVE  IInv'
<1>1. Shape /\ balance >= 0
  BY JobTypes DEF IInv
<1>2. /\ job' \in [Jobs -> JobRow] /\ job'[p] = r
      /\ \A q \in Jobs : q # p => job'[q] = job[q]
  BY <1>1, JobMoves
<1>3. Shape'
  BY <1>1, <1>2 DEF Shape, db, history
<1>4. Touches(p, o)
  BY <1>1, <1>2 DEF Touches, db, history, Has, Shape
<1>5. JobSound(p)'
  BY <1>1, <1>2 DEF JobSound, At, db
<1>6. o \in plain' => PlainSound(o)'
  <2> SUFFICES ASSUME o \in plain' PROVE PlainSound(o)'
    OBVIOUS
  <2>1. debits'[o] = refunds'[o]
                       + IF order'[o].status \in Terminated THEN 0 ELSE 1
    BY JobTypes DEF PlainSound, db, history
  <2> QED
    BY <1>2, <1>4, <2>1, Alone DEF history
<1>7. o \in plain' \ orphaned' => DeliveredOnce(o)'
  BY <1>4, StillDelivered DEF db
<1> QED
  BY <1>1, <1>3, <1>4, <1>5, <1>6, <1>7, Frame DEF db

(* A call that ends having written nothing. *)
LEMMA AbortStep ==
  ASSUME IInv, NEW p \in Jobs, NEW o \in Orders, job[p].order = o,
         ~At(p, "idle"), ~At(p, "mark"), Abort(p)
  PROVE  IInv'
<1>1. Shape
  BY JobTypes
<1>2. /\ walletLock' \in Jobs \cup {NoJob}
      /\ walletLock # p => walletLock' = walletLock
      /\ orderLock' \in [Orders -> Jobs \cup {NoJob}]
      /\ UNCHANGED <<db, history, remote, requests, crashes>>
  BY <1>1, TransactionEnds DEF Abort
<1>3. job' = [job EXCEPT ![p] = Idle]
  BY DEF Abort, EndTransaction
<1> QED
  BY <1>2, <1>3, IdleRow, ReadStep

LEMMA RechargeStep ==
  ASSUME IInv, NEW p \in Jobs, NEW o \in Orders, job[p].order = o,
         Recharge(p)
  PROVE  IInv'
<1> DEFINE r == [job[p] EXCEPT !.at = "reopen"]
<1>1. job[p] \in JobRow /\ job[p].at = "recharge" /\ Shape
  BY JobTypes DEF Recharge, At
<1>2. /\ r \in JobRow /\ r.at = "reopen" /\ r.order = job[p].order
  BY <1>1 DEF JobRow
<1>3. job' = [job EXCEPT ![p] = r]
  BY DEF Recharge, Goto
<1> HIDE DEF r
<1>4. job'[p] = r
  BY <1>1, <1>2, <1>3, JobMoves
<1>5. o \in plain => StillSo(p, o)'
  BY <1>1, <1>2, <1>4, JobTypes DEF StillSo, At, Recharge, db
<1>6. ~At(p, "idle") /\ ~At(p, "mark")
  BY <1>1 DEF At
<1>7. /\ UNCHANGED <<db, remote, requests, crashes, history>>
      /\ walletLock' = p /\ balance >= Charge /\ walletLock \in {NoJob, p}
      /\ orderLock' = orderLock
  BY DEF Recharge, Goto, Free
<1>8. walletLock' \in Jobs \cup {NoJob} /\ orderLock' \in [Orders -> Jobs \cup {NoJob}]
  BY <1>1, <1>7 DEF Shape
<1> QED
  BY <1>2, <1>3, <1>5, <1>6, <1>7, <1>8, ReadStep

(* The next provider is asked, or the failure recorded. *)
LEMMA NextCandidateRow ==
  ASSUME IInv, NEW p \in Jobs, At(p, "submit"), NextCandidate(p)
  PROVE  \E r \in JobRow : /\ job' = [job EXCEPT ![p] = r]
                           /\ r.order = job[p].order
                           /\ r.at \in {"record", "submit"}
<1>1. job[p] \in JobRow /\ job[p].at = "submit"
  BY JobTypes DEF At
<1> DEFINE left == job[p].rest
<1>2. left \subseteq Providers
  BY <1>1 DEF JobRow
<1>3. CASE left = {}
  <2> DEFINE r == [job[p] EXCEPT !.at = "record", !.provider = Primary]
  <2>1. r \in JobRow /\ r.order = job[p].order /\ r.at = "record"
    BY <1>1, FirstType DEF JobRow
  <2>2. job' = [job EXCEPT ![p] = r]
    BY <1>3 DEF NextCandidate
  <2> QED
    BY <2>1, <2>2
<1>4. CASE left # {}
  <2> DEFINE n == First(left)
             more == left \ {n}
             r == [job[p] EXCEPT !.provider = n, !.rest = more]
  <2>1. n \in Providers /\ more \in SUBSET Providers
    BY <1>2, FirstType
  <2>2. job' = [job EXCEPT ![p] = r]
    BY <1>4 DEF NextCandidate
  <2> HIDE DEF n, more
  <2>3. r \in JobRow /\ r.order = job[p].order /\ r.at = "submit"
    BY <1>1, <2>1 DEF JobRow
  <2> QED
    BY <2>2, <2>3
<1> QED
  BY <1>3, <1>4

LEMMA RefusesStep ==
  ASSUME IInv, NEW p \in Jobs, NEW o \in Orders, job[p].order = o,
         ProviderRefuses(p)
  PROVE  IInv'
<1>1. /\ At(p, "submit") /\ NextCandidate(p)
      /\ UNCHANGED <<db, remote, locks, requests, crashes, history>>
  BY DEF ProviderRefuses
<1>2. PICK r \in JobRow : /\ job' = [job EXCEPT ![p] = r]
                          /\ r.order = job[p].order
                          /\ r.at \in {"record", "submit"}
  BY <1>1, NextCandidateRow
<1>3. job'[p] = r
  BY <1>2, JobTypes, JobMoves
<1>4. ~At(p, "idle") /\ ~At(p, "mark")
  BY <1>1 DEF At
<1>5. o \in plain => StillSo(p, o)'
  BY <1>1, <1>2, <1>3, <1>4, JobTypes DEF StillSo, At, db
<1>6. /\ walletLock' \in Jobs \cup {NoJob} /\ walletLock' = walletLock
      /\ orderLock' \in [Orders -> Jobs \cup {NoJob}]
  BY <1>1, JobTypes DEF Shape, locks
<1> QED
  BY <1>1, <1>2, <1>4, <1>5, <1>6, ReadStep

(* A job goes on to r, from somewhere it knows nothing of the order that   *)
(* must still be so, and without a lock.                                   *)
LEMMA PlainMove ==
  ASSUME IInv, NEW p \in Jobs, NEW o \in Orders, job[p].order = o,
         ~At(p, "idle"), ~At(p, "mark"),
         NEW r \in JobRow, job' = [job EXCEPT ![p] = r],
         r.at # "idle" => r.order = job[p].order,
         r.at \in {"idle", "read", "update"},
         r.at = "update" => r.refundDue = (r.status \in Terminated
                              /\ order[job[p].order].status \notin Terminated),
         UNCHANGED <<db, remote, locks, requests, crashes, history>>
  PROVE  IInv'
<1>1. job'[p] = r
  BY JobTypes, JobMoves
<1>2. StillSo(p, o)'
  BY <1>1 DEF StillSo, At, db
<1>3. /\ walletLock' \in Jobs \cup {NoJob} /\ walletLock' = walletLock
      /\ orderLock' \in [Orders -> Jobs \cup {NoJob}]
  BY JobTypes DEF Shape, locks
<1> QED
  BY <1>2, <1>3, ReadStep

LEMMA RecordErrorStep ==
  ASSUME IInv, NEW p \in Jobs, NEW o \in Orders, job[p].order = o,
         RecordError(p)
  PROVE  IInv'
<1>1. job[p] \in JobRow /\ job[p].at = "record"
  BY JobTypes DEF RecordError, At
<1>2. UNCHANGED <<db, remote, locks, requests, crashes, history>>
  BY DEF RecordError
<1>3. ~At(p, "idle") /\ ~At(p, "mark")
  BY <1>1 DEF At
<1>4. CASE job[p].op = "submit"
  <2> DEFINE r == [job[p] EXCEPT !.at = "read", !.status = "FAILED"]
  <2>1. r \in JobRow /\ r.order = job[p].order /\ r.at = "read"
    BY <1>1 DEF JobRow, Status
  <2>2. job' = [job EXCEPT ![p] = r]
    BY <1>4 DEF RecordError
  <2> QED
    BY <1>2, <1>3, <2>1, <2>2, PlainMove
<1>5. CASE job[p].op # "submit"
  <2>1. job' = [job EXCEPT ![p] = Idle]
    BY <1>5 DEF RecordError
  <2> QED
    BY <1>2, <1>3, <2>1, IdleRow, PlainMove
<1> QED
  BY <1>4, <1>5

LEMMA ReadOrderStep ==
  ASSUME IInv, NEW p \in Jobs, NEW o \in Orders, job[p].order = o,
         ReadOrder(p)
  PROVE  IInv'
<1> DEFINE due == RefundDue(p)
           r == [job[p] EXCEPT !.at = "update", !.refundDue = due]
<1>1. job[p] \in JobRow /\ job[p].at = "read"
  BY JobTypes DEF ReadOrder, At
<1>2. /\ due \in BOOLEAN
      /\ due = (job[p].status \in Terminated
                  /\ order[job[p].order].status \notin Terminated)
  BY DEF RefundDue, The
<1>3. job' = [job EXCEPT ![p] = r]
  BY DEF ReadOrder
<1>4. UNCHANGED <<db, remote, locks, requests, crashes, history>>
  BY DEF ReadOrder
<1> HIDE DEF due
<1>5. /\ r \in JobRow /\ r.order = job[p].order /\ r.at = "update"
      /\ r.refundDue = due /\ r.status = job[p].status
  BY <1>1, <1>2 DEF JobRow
<1>6. ~At(p, "idle") /\ ~At(p, "mark")
  BY <1>1 DEF At
<1> HIDE DEF r
<1> QED
  BY <1>2, <1>3, <1>4, <1>5, <1>6, PlainMove

LEMMA UpdateThenRefundStep ==
  ASSUME IInv, NEW p \in Jobs, NEW o \in Orders, job[p].order = o,
         UpdateThenRefund(p)
  PROVE  IInv'
<1> DEFINE r == [job[p] EXCEPT !.at = "refund"]
<1>1. /\ job[p] \in JobRow /\ job[p].at = "update" /\ Shape
      /\ job[p].refundDue
  BY JobTypes DEF UpdateThenRefund, At
<1>2. /\ r \in JobRow /\ r.at = "refund" /\ r.order = o
      /\ r.refundDue = job[p].refundDue /\ r.status = job[p].status
  BY <1>1 DEF JobRow
<1>3. job' = [job EXCEPT ![p] = r]
  BY DEF UpdateThenRefund, Goto
<1> HIDE DEF r
<1>4. job'[p] = r
  BY <1>1, <1>2, <1>3, JobMoves
<1>5. ~At(p, "idle") /\ ~At(p, "mark")
  BY <1>1 DEF At
<1>6. UNCHANGED <<db, remote, walletLock, requests, crashes, history>>
  BY DEF UpdateThenRefund, Goto
<1>7. o \in plain => StillSo(p, o)'
  BY <1>1, <1>2, <1>4, <1>5, <1>6, JobTypes DEF StillSo, At, db
<1>8. /\ walletLock' \in Jobs \cup {NoJob}
      /\ orderLock' \in [Orders -> Jobs \cup {NoJob}]
  BY <1>1, <1>6 DEF Shape, UpdateThenRefund
<1> QED
  BY <1>2, <1>3, <1>5, <1>6, <1>7, <1>8, ReadStep

LEMMA MappedType == ASSUME NEW s PROVE Mapped(s) \in Status
BY DEF Mapped, Status

LEMMA AskStep ==
  ASSUME IInv, NEW p \in Jobs, NEW o \in Orders, job[p].order = o,
         AskProvider(p)
  PROVE  IInv'
<1> DEFINE mapped == Mapped(remote[Primary][job[p].ref].status)
           r == [job[p] EXCEPT !.at = "read", !.ref = NoRef, !.status = mapped]
<1>1. job[p] \in JobRow /\ job[p].at = "ask"
  BY JobTypes DEF AskProvider, At
<1>2. mapped \in Status
  BY MappedType
<1>3. \/ job' = [job EXCEPT ![p] = Idle]
      \/ job' = [job EXCEPT ![p] = r]
  BY DEF AskProvider
<1>4. UNCHANGED <<db, remote, locks, requests, crashes, history>>
  BY DEF AskProvider
<1> HIDE DEF mapped
<1>5. NoRef \in 0..MaxRemote
  BY BoundsAssumption DEF NoRef
<1>6. r \in JobRow /\ r.order = job[p].order /\ r.at = "read"
  BY <1>1, <1>2, <1>5 DEF JobRow
<1>7. ~At(p, "idle") /\ ~At(p, "mark")
  BY <1>1 DEF At
<1> HIDE DEF r
<1> QED
  BY <1>3, <1>4, <1>6, <1>7, IdleRow, PlainMove

LEMMA CancelAcceptedStep ==
  ASSUME IInv, NEW p \in Jobs, NEW o \in Orders, job[p].order = o,
         CancelAccepted(p)
  PROVE  IInv'
<1> DEFINE r == [job[p] EXCEPT !.at = "read", !.ref = NoRef]
<1>1. job[p] \in JobRow /\ job[p].at = "cancel"
  BY JobTypes DEF CancelAccepted, At
<1>2. NoRef \in 0..MaxRemote
  BY BoundsAssumption DEF NoRef
<1>3. r \in JobRow /\ r.order = job[p].order /\ r.at = "read"
  BY <1>1, <1>2 DEF JobRow
<1>4. ~At(p, "idle") /\ ~At(p, "mark")
  BY <1>1 DEF At
<1> QED
  BY <1>3, <1>4, PlainMove DEF CancelAccepted

LEMMA FailSteps ==
  ASSUME IInv, NEW p \in Jobs, NEW o \in Orders, job[p].order = o,
                 \/ RechargeRefused(p) \/ AskFails(p) \/ CancelRefused(p)
         \/ DeadlockAbort(p)
  PROVE  IInv'
<1>1. CASE RechargeRefused(p) \/ AskFails(p) \/ CancelRefused(p)
  BY <1>1, AbortStep DEF RechargeRefused, AskFails, CancelRefused, At
<1>2. CASE DeadlockAbort(p)
  <2>1. PICK ring \in SUBSET Jobs :
          p \in ring /\ {Blocker(q) : q \in ring} = ring
    BY <1>2 DEF DeadlockAbort
  <2>2. Blocker(p) \in Jobs
    BY <2>1
  <2>3. ~At(p, "idle") /\ ~At(p, "mark")
    BY <2>2, JobsAssumption DEF Blocker, At
  <2> QED
    BY <1>2, <2>3, AbortStep DEF DeadlockAbort
<1> QED
  BY <1>1, <1>2
-----------------------------------------------------------------------------
(* Steps that write the order.                                             *)

LEMMA ReopenStep ==
  ASSUME IInv, NEW p \in Jobs, NEW o \in Orders, job[p].order = o, Reopen(p)
  PROVE  IInv'
<1>1. /\ job[p] \in JobRow /\ job[p].at = "reopen" /\ Shape
      /\ walletLock = p /\ balance >= Charge
      /\ o \in plain => PlainSound(o) /\ StillSo(p, o)
  BY JobTypes DEF Reopen, At, JobSound
<1>2. /\ order' = [order EXCEPT ![o].status = "PENDING"]
      /\ debits' = [debits EXCEPT ![o] = @ + 1]
      /\ balance' = balance - Charge
      /\ UNCHANGED <<refunds, history>>
      /\ EndTransaction(p, "submit")
  BY DEF Reopen
<1> DEFINE r == [job[p] EXCEPT !.at = "submit"]
<1>3. /\ job' \in [Jobs -> JobRow] /\ job'[p] = r
      /\ \A q \in Jobs : q # p => job'[q] = job[q]
      /\ walletLock' \in Jobs \cup {NoJob}
      /\ orderLock' \in [Orders -> Jobs \cup {NoJob}]
      /\ UNCHANGED <<remote, requests, crashes>>
  BY <1>1, <1>2, TransactionEnds
<1>4. r.at = "submit" /\ r.order = o
  BY <1>1 DEF JobRow
<1> HIDE DEF r
<1>5. /\ order' \in [Orders -> OrderRow] /\ order'[o].status = "PENDING"
      /\ order'[o].ref = order[o].ref
      /\ \A x \in Orders : x # o => order'[x] = order[x]
  <2>1. order \in [Orders -> OrderRow] /\ order[o] \in OrderRow
    BY <1>1 DEF Shape
  <2> DEFINE row == [order[o] EXCEPT !.status = "PENDING"]
  <2>2. /\ row \in OrderRow /\ row.status = "PENDING"
        /\ row.ref = order[o].ref
    BY <2>1 DEF OrderRow, Status
  <2>3. order' = [order EXCEPT ![o] = row]
    BY <1>2
  <2> HIDE DEF row
  <2> QED
    BY <2>1, <2>2, <2>3
<1>6. /\ debits' \in [Orders -> Nat] /\ debits'[o] = debits[o] + 1
      /\ \A x \in Orders : x # o => debits'[x] = debits[x]
  BY <1>1, <1>2 DEF Shape
<1>7. balance' \in Int /\ balance' >= 0
  BY <1>1, <1>2, ChargeType DEF Shape
<1>8. Shape'
  BY <1>1, <1>2, <1>3, <1>5, <1>6, <1>7 DEF Shape, history
<1>9. Touches(p, o)
  BY <1>1, <1>2, <1>3, <1>4, <1>5, <1>6 DEF Touches, history, Has
<1>10. JobSound(p)'
  BY <1>3, <1>4 DEF JobSound, At
<1>11. o \in plain' => PlainSound(o)'
  <2> SUFFICES ASSUME o \in plain' PROVE PlainSound(o)'
    OBVIOUS
  <2>1. o \in plain
    BY <1>2 DEF history
  <2>2. order[o].status \in Terminated /\ order[o].ref = NoRef
    BY <1>1, <2>1 DEF StillSo, At
  <2>3. debits[o] \in Nat /\ refunds[o] \in Nat /\ debits[o] = refunds[o]
    BY <1>1, <2>1, <2>2 DEF PlainSound, Shape
  <2>4. order'[o].status \notin Terminated
    BY <1>5 DEF Terminated
  <2>5. debits'[o] = refunds'[o]
                       + IF order'[o].status \in Terminated THEN 0 ELSE 1
    BY <1>2, <1>6, <2>3, <2>4
  <2>6. StillSo(p, o)'
    BY <1>3, <1>4, <1>5, <2>2 DEF StillSo, At
  <2>7. ~At(p, "idle")
    BY <1>1 DEF At
  <2> QED
    BY <1>9, <2>5, <2>6, <2>7, Alone
<1>12. o \in plain' \ orphaned' => DeliveredOnce(o)'
  BY <1>1, <1>3, <1>5, <1>9, StillDelivered DEF At
<1> QED
  BY <1>7, <1>8, <1>9, <1>10, <1>11, <1>12, Frame

LEMMA UnrevivedType ==
  ASSUME Shape, NEW o, NEW status
  PROVE  /\ Unrevived(o, status) \subseteq plain
         /\ o \in Unrevived(o, status) =>
              (order[o].status \in Terminated => status \in Terminated)
BY DEF Unrevived, Shape

LEMMA MarkStep ==
  ASSUME IInv, NEW p \in Jobs, NEW o \in Orders, job[p].order = o,
         MarkSubmitted(p)
  PROVE  IInv'
<1>1. /\ job[p] \in JobRow /\ job[p].at = "mark" /\ Shape
      /\ job[p].ref # NoRef
      /\ o \in plain => PlainSound(o)
  BY JobTypes DEF MarkSubmitted, At, JobSound
<1> DEFINE row == [status |-> "PROCESSING", ref |-> job[p].ref]
<1>2. /\ order' = [order EXCEPT ![o] = row]
      /\ acceptedBy' = [acceptedBy EXCEPT ![o] = job[p].provider]
      /\ plain' = Unrevived(o, "PROCESSING")
      /\ UNCHANGED <<debits, refunds, balance, orphaned>>
      /\ EndTransaction(p, "idle")
  BY DEF MarkSubmitted, Finish
<1>3. /\ job' \in [Jobs -> JobRow] /\ job'[p] = Idle
      /\ \A q \in Jobs : q # p => job'[q] = job[q]
      /\ walletLock' \in Jobs \cup {NoJob}
      /\ walletLock # p => walletLock' = walletLock
      /\ orderLock' \in [Orders -> Jobs \cup {NoJob}]
      /\ UNCHANGED <<remote, requests, crashes>>
  BY <1>1, <1>2, TransactionEnds
<1>4. row \in OrderRow
  BY <1>1 DEF OrderRow, JobRow, Status
<1>5. /\ order' \in [Orders -> OrderRow] /\ order'[o] = row
      /\ \A x \in Orders : x # o => order'[x] = order[x]
  BY <1>1, <1>2, <1>4 DEF Shape
<1>6. plain' \subseteq plain
        /\ (o \in plain' => order[o].status \notin Terminated)
  BY <1>1, <1>2, UnrevivedType DEF Terminated
<1>7. acceptedBy' \in [Orders -> Providers]
  BY <1>1, <1>2 DEF Shape, JobRow
<1>8. Shape'
  <2>1. plain' \in SUBSET Orders
    BY <1>1, <1>6 DEF Shape
  <2> QED
    BY <1>1, <1>2, <1>3, <1>5, <1>7, <2>1 DEF Shape
<1>9. Touches(p, o)
  BY <1>1, <1>2, <1>3, <1>5, <1>6, IdleRow DEF Touches, Has, Shape
<1>10. JobSound(p)'
  BY <1>3, IdleRow DEF JobSound, At
<1>11. o \in plain' => PlainSound(o)'
  <2> SUFFICES ASSUME o \in plain' PROVE PlainSound(o)'
    OBVIOUS
  <2>1. o \in plain /\ order[o].status \notin Terminated
    BY <1>6
  <2>2. debits[o] = refunds[o] + 1
    BY <1>1, <2>1 DEF PlainSound
  <2>3. order'[o].status \notin Terminated
    BY <1>5 DEF Terminated
  <2>4. debits'[o] = refunds'[o]
                       + IF order'[o].status \in Terminated THEN 0 ELSE 1
    BY <1>2, <2>2, <2>3
  <2>5. ~At(p, "idle")
    BY <1>1 DEF At
  <2> QED
    BY <1>3, <1>9, <2>4, <2>5, IdleRow, Alone
<1>12. o \in plain' \ orphaned' => DeliveredOnce(o)'
  <2> SUFFICES ASSUME o \in plain' \ orphaned' PROVE DeliveredOnce(o)'
    OBVIOUS
  <2>1. DeliveredOnce(o)
    BY <1>2, <1>6 DEF IInv
  <2>2. order'[o].ref # NoRef
    BY <1>1, <1>5
  <2> QED
    BY <1>3, <2>1, <2>2 DEF DeliveredOnce, Has
<1>13. balance' >= 0
  BY <1>2 DEF IInv
<1> QED
  BY <1>8, <1>9, <1>10, <1>11, <1>12, <1>13, Frame

(* The status is written, and a refund if there is one to give. *)
LEMMA StatusWritten ==
  ASSUME IInv, NEW p \in Jobs, NEW o \in Orders, job[p].order = o,
         ~At(p, "idle"), ~At(p, "mark"),
         WriteStatus(p), Finish(p),
         refunds' \in [Orders -> Nat],
         \A x \in Orders : x # o => refunds'[x] = refunds[x],
         balance' \in Int, balance' >= balance,
         walletLock \in {NoJob, p} \/ balance' = balance,
         o \in plain => refunds'[o] = refunds[o] +
            IF /\ job[p].status \in Terminated
               /\ order[o].status \notin Terminated THEN 1 ELSE 0
  PROVE  IInv'
<1>1. job[p] \in JobRow /\ Shape /\ (o \in plain => PlainSound(o))
  BY JobTypes
<1> DEFINE status == job[p].status
           row == [order[o] EXCEPT !.status = status]
<1>2. /\ order' = [order EXCEPT ![o] = row]
      /\ plain' = Unrevived(o, status)
      /\ UNCHANGED <<debits, orphaned, acceptedBy>>
      /\ EndTransaction(p, "idle")
  BY DEF WriteStatus, Finish
<1>3. /\ job' \in [Jobs -> JobRow] /\ job'[p] = Idle
      /\ \A q \in Jobs : q # p => job'[q] = job[q]
      /\ walletLock' \in Jobs \cup {NoJob}
      /\ walletLock # p => walletLock' = walletLock
      /\ orderLock' \in [Orders -> Jobs \cup {NoJob}]
      /\ UNCHANGED <<remote, requests, crashes>>
  BY <1>1, <1>2, TransactionEnds
<1>4. row \in OrderRow /\ row.status = status /\ row.ref = order[o].ref
  <2>1. order[o] \in OrderRow
    BY <1>1 DEF Shape
  <2> QED
    BY <1>1, <2>1 DEF OrderRow, JobRow
<1> HIDE DEF row
<1>5. /\ order' \in [Orders -> OrderRow] /\ order'[o] = row
      /\ \A x \in Orders : x # o => order'[x] = order[x]
  BY <1>1, <1>2, <1>4 DEF Shape
<1>6. /\ plain' \subseteq plain
      /\ o \in plain' => (order[o].status \in Terminated => status \in Terminated)
  BY <1>1, <1>2, UnrevivedType
<1>7. Shape'
  <2>1. plain' \in SUBSET Orders
    BY <1>1, <1>6 DEF Shape
  <2> QED
    BY <1>1, <1>2, <1>3, <1>5, <2>1 DEF Shape
<1>8. balance' >= 0
  BY <1>1 DEF IInv, Shape
<1>9. Touches(p, o)
  <2>1. walletLock \in {NoJob, p} \/ (walletLock' = walletLock /\ balance' >= balance)
    BY <1>3
  <2> QED
    BY <1>1, <1>2, <1>3, <1>5, <1>6, <2>1, IdleRow DEF Touches, Has, Shape
<1>10. JobSound(p)'
  BY <1>3, IdleRow DEF JobSound, At
<1>11. o \in plain' => PlainSound(o)'
  <2> SUFFICES ASSUME o \in plain' PROVE PlainSound(o)'
    OBVIOUS
  <2>1. o \in plain /\ PlainSound(o)
    BY <1>1, <1>6
  <2>2. debits[o] \in Nat /\ refunds[o] \in Nat /\ debits' = debits
    BY <1>1, <1>2 DEF Shape
  <2>3. debits[o] = refunds[o] + IF order[o].status \in Terminated THEN 0 ELSE 1
    BY <2>1 DEF PlainSound
  <2>4. debits'[o] = refunds'[o]
                       + IF order'[o].status \in Terminated THEN 0 ELSE 1
    BY <1>4, <1>5, <1>6, <2>1, <2>2, <2>3
  <2> QED
    BY <1>3, <1>9, <2>4, IdleRow, Alone
<1>12. o \in plain' \ orphaned' => DeliveredOnce(o)'
  BY <1>3, <1>4, <1>5, <1>9, StillDelivered
<1> QED
  BY <1>7, <1>8, <1>9, <1>10, <1>11, <1>12, Frame

LEMMA UpdateStep ==
  ASSUME IInv, NEW p \in Jobs, NEW o \in Orders, job[p].order = o,
         UpdateStatus(p)
  PROVE  IInv'
<1>1. ~At(p, "idle") /\ ~At(p, "mark") /\ At(p, "update") /\ Shape
  BY JobTypes DEF UpdateStatus, At
<1>2. o \in plain => ~(job[p].status \in Terminated
                         /\ order[o].status \notin Terminated)
  BY <1>1, JobTypes DEF UpdateStatus, StillSo
<1>3. /\ refunds' = refunds /\ balance' = balance
      /\ refunds \in [Orders -> Nat] /\ balance \in Int
  BY <1>1 DEF UpdateStatus, Shape
<1>4. o \in plain => refunds'[o] = refunds[o] +
            IF /\ job[p].status \in Terminated
               /\ order[o].status \notin Terminated THEN 1 ELSE 0
  BY <1>2, <1>3
<1>5. balance' >= balance
  BY <1>3
<1> QED
  BY <1>1, <1>3, <1>4, <1>5, StatusWritten DEF UpdateStatus

LEMMA RefundStep ==
  ASSUME IInv, NEW p \in Jobs, NEW o \in Orders, job[p].order = o, Refund(p)
  PROVE  IInv'
<1>1. ~At(p, "idle") /\ ~At(p, "mark") /\ At(p, "refund") /\ Shape
  BY JobTypes DEF Refund, At
<1>2. o \in plain => job[p].status \in Terminated
                       /\ order[o].status \notin Terminated
  BY <1>1, JobTypes DEF StillSo
<1>3. /\ refunds' = [refunds EXCEPT ![o] = @ + 1]
      /\ balance' = balance + Charge /\ walletLock \in {NoJob, p}
      /\ refunds \in [Orders -> Nat] /\ balance \in Int
  BY <1>1 DEF Refund, Shape, Free
<1>4. /\ refunds' \in [Orders -> Nat] /\ refunds'[o] = refunds[o] + 1
      /\ \A x \in Orders : x # o => refunds'[x] = refunds[x]
  BY <1>3
<1>5. balance' \in Int /\ balance' >= balance
  BY <1>3, ChargeType
<1>6. o \in plain => refunds'[o] = refunds[o] +
            IF /\ job[p].status \in Terminated
               /\ order[o].status \notin Terminated THEN 1 ELSE 0
  BY <1>2, <1>4
<1> QED
  BY <1>1, <1>3, <1>4, <1>5, <1>6, StatusWritten DEF Refund
-----------------------------------------------------------------------------
(* A provider accepts an order.                                            *)

LEMMA AcceptedRemote ==
  ASSUME IInv, NEW p \in Jobs, NEW o \in Orders, job[p].order = o, Accepted(p)
  PROVE  /\ remote' \in [Providers -> Seq(RemoteRow)]
         /\ At(p, "submit") /\ job[p].provider \in Providers
         /\ Len(remote[job[p].provider]) + 1 \in 1..MaxRemote
         /\ \A v \in Providers : \A r :
              Has(v, r, o)' => \/ Has(v, r, o)
                               \/ /\ v = job[p].provider
                                  /\ r = Len(remote[job[p].provider]) + 1
         /\ \A x \in Orders : x # o =>
              \A v \in Providers : \A r : Has(v, r, x)' => Has(v, r, x)
<1> DEFINE v == job[p].provider
           row == [order |-> o, status |-> "Pending"]
           n == Len(remote[v]) + 1
<1>1. v \in Providers /\ At(p, "submit")
  BY JobTypes DEF JobRow, Accepted
<1>2. remote \in [Providers -> Seq(RemoteRow)] /\ remote[v] \in Seq(RemoteRow)
  BY <1>1, JobTypes DEF Shape
<1>3. row \in RemoteRow /\ row.order = o
  BY DEF RemoteRow
<1>4. remote' = [remote EXCEPT ![v] = Append(remote[v], row)]
        /\ Len(remote[v]) < MaxRemote
  BY DEF Accepted
<1> HIDE DEF row
<1>5. /\ Append(remote[v], row) \in Seq(RemoteRow)
      /\ DOMAIN Append(remote[v], row) = DOMAIN remote[v] \cup {n}
      /\ Append(remote[v], row)[n] = row
      /\ \A r \in DOMAIN remote[v] : Append(remote[v], row)[r] = remote[v][r]
  BY <1>2, <1>3
<1>6. n \in 1..MaxRemote
  BY <1>2, <1>4, BoundsAssumption
<1> HIDE DEF v, n
<1>7. remote' \in [Providers -> Seq(RemoteRow)]
        /\ remote'[v] = Append(remote[v], row)
        /\ \A w \in Providers : w # v => remote'[w] = remote[w]
  BY <1>1, <1>2, <1>4, <1>5
<1>8. ASSUME NEW w \in Providers, NEW r, NEW x, Has(w, r, x)'
      PROVE  Has(w, r, x) \/ (w = v /\ r = n /\ x = o)
  <2>1. r \in DOMAIN remote'[w] /\ remote'[w][r].order = x
    BY <1>8 DEF Has
  <2>2. CASE w # v
    <3>1. remote'[w] = remote[w]
      BY <1>7, <2>2
    <3> QED
      BY <2>1, <3>1 DEF Has
  <2>3. CASE w = v /\ r = n
    <3>1. remote'[w][r] = row
      BY <1>5, <1>7, <2>3
    <3> QED
      BY <1>3, <2>1, <2>3, <3>1
  <2>4. CASE w = v /\ r # n
    <3>1. r \in DOMAIN remote[w] /\ remote'[w][r] = remote[w][r]
      BY <1>5, <1>7, <2>1, <2>4
    <3> QED
      BY <2>1, <3>1 DEF Has
  <2> QED
    BY <2>2, <2>3, <2>4
<1> QED
  BY <1>1, <1>6, <1>7, <1>8 DEF v, n

LEMMA AcceptsStep ==
  ASSUME IInv, NEW p \in Jobs, NEW o \in Orders, job[p].order = o,
         ProviderAccepts(p)
  PROVE  IInv'
<1> DEFINE v == job[p].provider
           n == Len(remote[v]) + 1
           r == [job[p] EXCEPT !.at = "mark", !.ref = n]
<1>1. /\ job[p] \in JobRow /\ Shape /\ Accepted(p) /\ ~At(p, "idle")
      /\ At(p, "submit")
      /\ (o \in plain => PlainSound(o) /\ StillSo(p, o))
  BY JobTypes DEF ProviderAccepts, Accepted, At
<1>2. /\ remote' \in [Providers -> Seq(RemoteRow)]
      /\ v \in Providers /\ n \in 1..MaxRemote
      /\ \A w \in Providers : \A k :
           Has(w, k, o)' => Has(w, k, o) \/ (w = v /\ k = n)
      /\ \A x \in Orders : x # o =>
           \A w \in Providers : \A k : Has(w, k, x)' => Has(w, k, x)
  BY <1>1, AcceptedRemote
<1>3. job' = [job EXCEPT ![p] = r]
  BY DEF ProviderAccepts
<1> HIDE DEF n, v
<1>4. /\ r \in JobRow /\ r.at = "mark" /\ r.order = o /\ r.ref = n
  <2>1. n \in 0..MaxRemote
    BY <1>2, BoundsAssumption
  <2>2. job[p] \in JobRow /\ job[p].order = o
    BY <1>1
  <2> QED
    BY <2>1, <2>2 DEF JobRow
<1> HIDE DEF r
<1>5. /\ job' \in [Jobs -> JobRow] /\ job'[p] = r
      /\ \A q \in Jobs : q # p => job'[q] = job[q]
  BY <1>1, <1>3, <1>4, JobMoves
<1>6. UNCHANGED <<db, locks, requests, crashes, history>>
  BY DEF ProviderAccepts
<1>7. Shape'
  BY <1>1, <1>2, <1>5, <1>6 DEF Shape, db, locks, history
<1>8. Touches(p, o)
  BY <1>1, <1>2, <1>4, <1>5, <1>6 DEF Touches, db, locks, history, Shape
<1>9. JobSound(p)'
  BY <1>2, <1>4, <1>5 DEF JobSound, At, NoRef
<1>10. o \in plain' => PlainSound(o)'
  <2> SUFFICES ASSUME o \in plain' PROVE PlainSound(o)'
    OBVIOUS
  <2>1. debits'[o] = refunds'[o]
                       + IF order'[o].status \in Terminated THEN 0 ELSE 1
    BY <1>1, <1>6 DEF PlainSound, db, history
  <2>2. StillSo(p, o)'
    BY <1>4, <1>5 DEF StillSo, At
  <2> QED
    BY <1>1, <1>8, <2>1, <2>2, Alone
<1>11. o \in plain' \ orphaned' => DeliveredOnce(o)'
  <2> SUFFICES ASSUME o \in plain' \ orphaned' PROVE DeliveredOnce(o)'
    OBVIOUS
  <2>1. DeliveredOnce(o) /\ PlainSound(o) /\ order[o].ref = NoRef
    BY <1>1, <1>6 DEF IInv, history, StillSo, At
  <2>2. \A q \in Jobs : ~(At(q, "mark") /\ job[q].order = o)
    BY <1>1, <2>1 DEF PlainSound, Working, At
  <2>3. \A w \in Providers : \A k : ~Has(w, k, o)
    BY <2>1, <2>2 DEF DeliveredOnce, Has
  <2>4. \A w \in Providers : \A k : Has(w, k, o)' => w = v /\ k = n
    BY <1>2, <2>3
  <2>5. At(p, "mark")' /\ job'[p].order = o
    BY <1>4, <1>5 DEF At
  <2> QED
    BY <2>4, <2>5 DEF DeliveredOnce
<1>12. balance' >= 0
  BY <1>6 DEF IInv, db
<1> QED
  BY <1>7, <1>8, <1>9, <1>10, <1>11, <1>12, Frame

LEMMA LostStep ==
  ASSUME IInv, NEW p \in Jobs, NEW o \in Orders, job[p].order = o,
         ProviderAnswerLost(p)
  PROVE  IInv'
<1>1. /\ Shape /\ Accepted(p) /\ ~At(p, "idle") /\ At(p, "submit")
      /\ NextCandidate(p) /\ orphaned' = orphaned \cup {o}
      /\ UNCHANGED <<db, locks, requests, crashes, plain, acceptedBy>>
      /\ o \in plain => PlainSound(o) /\ StillSo(p, o)
  BY JobTypes DEF ProviderAnswerLost, Accepted, At
<1>2. /\ remote' \in [Providers -> Seq(RemoteRow)]
      /\ \A x \in Orders : x # o =>
           \A w \in Providers : \A k : Has(w, k, x)' => Has(w, k, x)
  BY <1>1, AcceptedRemote
<1>3. PICK r \in JobRow : /\ job' = [job EXCEPT ![p] = r]
                          /\ r.order = o
                          /\ r.at \in {"record", "submit"}
  BY <1>1, NextCandidateRow
<1>4. /\ job' \in [Jobs -> JobRow] /\ job'[p] = r
      /\ \A q \in Jobs : q # p => job'[q] = job[q]
  BY <1>1, <1>3, JobMoves
<1>5. Shape'
  BY <1>1, <1>2, <1>4 DEF Shape, db, locks
<1>6. Touches(p, o)
  BY <1>1, <1>2, <1>3, <1>4 DEF Touches, db, locks, Shape
<1>7. JobSound(p)'
  BY <1>3, <1>4 DEF JobSound, At
<1>8. o \in plain' => PlainSound(o)'
  <2> SUFFICES ASSUME o \in plain' PROVE PlainSound(o)'
    OBVIOUS
  <2>1. debits'[o] = refunds'[o]
                       + IF order'[o].status \in Terminated THEN 0 ELSE 1
    BY <1>1 DEF PlainSound, db
  <2>2. StillSo(p, o)'
    BY <1>1, <1>3, <1>4 DEF StillSo, At, db
  <2> QED
    BY <1>1, <1>6, <2>1, <2>2, Alone
<1>9. o \notin plain' \ orphaned'
  BY <1>1
<1>10. balance' >= 0
  BY <1>1 DEF IInv, db
<1> QED
  BY <1>5, <1>6, <1>7, <1>8, <1>9, <1>10, Frame

-----------------------------------------------------------------------------
(* Calls start, the process dies, a provider works.                        *)

LEMMA BeginStep ==
  ASSUME IInv, NEW p \in Jobs, NEW o \in Orders, NEW r \in JobRow,
         Begins(p, o, r), requests' \in 0..MaxRequests, r.order = o,
         r.at \in {"submit", "recharge", "read", "ask", "cancel"},
         r.at = "recharge" => order[o].status \in Terminated,
         r.at \in {"submit", "recharge"} => order[o].ref = NoRef
  PROVE  IInv'
<1>1. /\ Shape /\ job[p].at = "idle" /\ job' = [job EXCEPT ![p] = r]
      /\ UNCHANGED <<db, remote, locks, crashes, orphaned, acceptedBy>>
      /\ plain' \subseteq plain
      /\ o \in plain' => \A q \in Jobs : job[q].order # o
  BY DEF IInv, Begins, At, Shape
<1>2. /\ job' \in [Jobs -> JobRow] /\ job'[p] = r
      /\ \A q \in Jobs : q # p => job'[q] = job[q]
  BY <1>1, JobMoves
<1>3. Shape'
  <2>1. plain' \in SUBSET Orders
    BY <1>1 DEF Shape
  <2> QED
    BY <1>1, <1>2, <2>1 DEF Shape, db, locks
<1>4. Touches(p, o)
  BY <1>1, <1>2 DEF Touches, db, locks, Has, Shape
<1>5. JobSound(p)'
  BY <1>2 DEF JobSound, At
<1>6. o \in plain' => PlainSound(o)'
  <2> SUFFICES ASSUME o \in plain' PROVE PlainSound(o)'
    OBVIOUS
  <2>1. PlainSound(o)
    BY <1>1 DEF IInv
  <2>2. \A q \in Jobs : Working(q, o)' => q = p
    BY <1>1, <1>2 DEF Working
  <2>3. StillSo(p, o)'
    BY <1>1, <1>2 DEF StillSo, At, db
  <2> QED
    BY <1>1, <2>1, <2>2, <2>3 DEF PlainSound, db
<1>7. o \in plain' \ orphaned' => DeliveredOnce(o)'
  BY <1>1, <1>4, StillDelivered DEF At, db
<1>8. balance' >= 0
  BY <1>1 DEF IInv, db
<1> QED
  BY <1>3, <1>4, <1>5, <1>6, <1>7, <1>8, Frame

LEMMA RequestStep ==
  ASSUME IInv, NEW p \in Jobs, NEW o \in Orders, NEW r \in JobRow,
         Request(p, o, r) \/ Tick(p, o, r), r.order = o,
         r.at \in {"submit", "recharge", "read", "ask", "cancel"},
         r.at = "recharge" => order[o].status \in Terminated,
         r.at \in {"submit", "recharge"} => order[o].ref = NoRef
  PROVE  IInv'
<1>1. requests \in 0..MaxRequests
  BY DEF IInv, Shape
<1>2. requests' \in 0..MaxRequests /\ Begins(p, o, r)
  BY <1>1, BoundsAssumption DEF Request, Tick
<1> QED
  BY <1>2, BeginStep

(* The candidates of a call are providers. *)
LEMMA CandidatesRow ==
  ASSUME Serviced, NEW o \in Orders, NEW op \in {"submit", "resend"},
         NEW where \in {"submit", "recharge"}
  PROVE  LET r == [Candidates(op, o) EXCEPT !.at = where]
         IN r \in JobRow /\ r.at = where /\ r.order = o
<1> DEFINE v == First(service.linked)
           rest == service.linked \ {v}
<1>1. v \in Providers /\ rest \in SUBSET Providers
  <2>1. service.linked \subseteq Providers
    BY ServiceAssumption DEF Serviced
  <2> QED
    BY <2>1, FirstType
<1>2. Candidates(op, o) = [Idle EXCEPT !.op = op, !.order = o, !.provider = v,
                                       !.rest = rest]
  BY DEF Candidates
<1> HIDE DEF v, rest
<1> QED
  BY <1>1, <1>2, IdleRow DEF JobRow

LEMMA StartStep ==
  ASSUME IInv, Serviced, NEW p \in Jobs, Start(p)
  PROVE  IInv'
<1>1. PICK o \in Orders :
        \/ ListPending(p, o) \/ Resend(p, o) \/ Poll(p, o)
        \/ Refresh(p, o) \/ Cancel(p, o)
        \/ \E status \in AdminStatuses : AdminUpdate(p, o, status)
  BY DEF Start
<1>2. order[o] \in OrderRow
  BY DEF IInv, Shape
<1>3. CASE ListPending(p, o)
  <2> DEFINE r == [Candidates("submit", o) EXCEPT !.at = "submit"]
  <2>1. r \in JobRow /\ r.at = "submit" /\ r.order = o
    BY CandidatesRow
  <2>2. Tick(p, o, r) /\ order[o].ref = NoRef
    BY <1>3 DEF ListPending
  <2> HIDE DEF r
  <2> QED
    BY <2>1, <2>2, RequestStep
<1>4. CASE Resend(p, o)
  <2> DEFINE where == IF order[o].status = "FAILED" THEN "recharge" ELSE "submit"
             r == [Candidates("resend", o) EXCEPT !.at = where]
  <2>1. r \in JobRow /\ r.at = where /\ r.order = o
    BY CandidatesRow
  <2>2. Request(p, o, r) /\ order[o].ref = NoRef
    BY <1>4 DEF Resend
  <2>3. where = "recharge" => order[o].status \in Terminated
    BY DEF Terminated
  <2> HIDE DEF r
  <2> QED
    BY <2>1, <2>2, <2>3, RequestStep
<1>5. CASE Poll(p, o)
  <2> DEFINE r == [Idle EXCEPT !.at = "ask", !.op = "poll", !.order = o,
                               !.ref = order[o].ref]
  <2>1. r \in JobRow /\ r.at = "ask" /\ r.order = o
    BY <1>2, IdleRow DEF JobRow, OrderRow
  <2>2. Tick(p, o, r)
    BY <1>5 DEF Poll
  <2> HIDE DEF r
  <2> QED
    BY <2>1, <2>2, RequestStep
<1>6. CASE Refresh(p, o)
  <2> DEFINE r == [Idle EXCEPT !.at = "ask", !.op = "refresh", !.order = o,
                               !.ref = order[o].ref]
  <2>1. r \in JobRow /\ r.at = "ask" /\ r.order = o
    BY <1>2, IdleRow DEF JobRow, OrderRow
  <2>2. Request(p, o, r)
    BY <1>6 DEF Refresh
  <2> HIDE DEF r
  <2> QED
    BY <2>1, <2>2, RequestStep
<1>7. CASE Cancel(p, o)
  <2> DEFINE r == [Idle EXCEPT !.at = "cancel", !.op = "cancel", !.order = o,
                               !.ref = order[o].ref, !.status = "CANCELED"]
  <2>1. r \in JobRow /\ r.at = "cancel" /\ r.order = o
    BY <1>2, IdleRow DEF JobRow, OrderRow, Status
  <2>2. Request(p, o, r)
    BY <1>7 DEF Cancel
  <2> HIDE DEF r
  <2> QED
    BY <2>1, <2>2, RequestStep
<1>8. ASSUME NEW status \in AdminStatuses, AdminUpdate(p, o, status)
      PROVE  IInv'
  <2> DEFINE r == [Idle EXCEPT !.at = "read", !.op = "admin", !.order = o,
                               !.status = status]
  <2>1. r \in JobRow /\ r.at = "read" /\ r.order = o
    BY IdleRow, StatusAssumption DEF JobRow
  <2>2. Request(p, o, r)
    BY <1>8 DEF AdminUpdate
  <2> HIDE DEF r
  <2> QED
    BY <2>1, <2>2, RequestStep
<1> QED
  BY <1>1, <1>3, <1>4, <1>5, <1>6, <1>7, <1>8

LEMMA CrashStep ==
  ASSUME IInv, Crash
  PROVE  IInv'
<1> DEFINE lost == {job[p].order : p \in {q \in Jobs : At(q, "mark")}}
<1>1. /\ Shape /\ crashes < MaxCrashes /\ crashes' = crashes + 1
      /\ job' = [p \in Jobs |-> Idle] /\ walletLock' = NoJob
      /\ orderLock' = [o \in Orders |-> NoJob]
      /\ orphaned' = orphaned \cup lost
      /\ UNCHANGED <<db, remote, requests, plain, acceptedBy>>
  BY DEF Crash, IInv
<1>2. lost \subseteq Orders
  BY DEF IInv, JobSound, At
<1>3. \A p \in Jobs : job'[p] = Idle
  BY <1>1
<1>4. Shape'
  <2>1. crashes' \in 0..MaxCrashes
    BY <1>1, BoundsAssumption DEF Shape
  <2>2. job' \in [Jobs -> JobRow] /\ orphaned' \in SUBSET Orders
    BY <1>1, <1>2, IdleRow DEF Shape
  <2> QED
    BY <1>1, <2>1, <2>2 DEF Shape, db
<1>5. \A p \in Jobs : JobSound(p)'
  BY <1>3, IdleRow DEF JobSound, At
<1>6. ASSUME NEW o \in plain'
      PROVE  PlainSound(o)'
  <2>1. PlainSound(o)
    BY <1>1 DEF IInv
  <2>2. \A p \in Jobs : ~Working(p, o)'
    BY <1>3, IdleRow DEF Working, At
  <2> QED
    BY <1>1, <2>1, <2>2 DEF PlainSound, db
<1>7. ASSUME NEW o \in plain' \ orphaned'
      PROVE  DeliveredOnce(o)'
  <2>1. DeliveredOnce(o) /\ \A p \in Jobs : ~(At(p, "mark") /\ job[p].order = o)
    BY <1>1 DEF IInv
  <2> QED
    BY <1>1, <2>1 DEF DeliveredOnce, Has, db
<1>8. balance' >= 0
  BY <1>1 DEF IInv, db
<1> QED
  BY <1>4, <1>5, <1>6, <1>7, <1>8 DEF IInv

LEMMA ProgressStep ==
  ASSUME IInv, NEW v \in Providers, NEW r \in 1..MaxRemote,
         NEW status \in {"In progress"} \cup Endings,
         ProviderProgress(v, r, status)
  PROVE  IInv'
<1>1. /\ Shape /\ r \in DOMAIN remote[v]
      /\ remote' = [remote EXCEPT ![v][r].status = status]
      /\ UNCHANGED <<db, locks, job, requests, crashes, history>>
  BY DEF ProviderProgress, IInv
<1> DEFINE row == [remote[v][r] EXCEPT !.status = status]
           rows == [remote[v] EXCEPT ![r] = row]
<1>2. remote \in [Providers -> Seq(RemoteRow)] /\ remote[v] \in Seq(RemoteRow)
  BY <1>1 DEF Shape
<1>a. r \in 1..Len(remote[v]) /\ DOMAIN remote[v] = 1..Len(remote[v])
  <2>1. r \in DOMAIN remote[v]
    BY <1>1
  <2>2. DOMAIN remote[v] = 1..Len(remote[v])
    BY <1>2, LenProperties, Zenon
  <2> QED
    BY <2>1, <2>2
<1>3. remote[v][r] \in RemoteRow
  BY <1>2, <1>a, ElementOfSeq, Zenon
<1>4. row \in RemoteRow /\ row.order = remote[v][r].order
  BY <1>3, StatusAssumption DEF RemoteRow
<1>5. remote' = [remote EXCEPT ![v] = rows]
  BY <1>1
<1> HIDE DEF row
<1>6. /\ rows \in Seq(RemoteRow) /\ DOMAIN rows = DOMAIN remote[v]
      /\ \A k \in DOMAIN rows : rows[k] = IF k = r THEN row ELSE remote[v][k]
  <2>2. rows \in Seq(RemoteRow)
    BY <1>2, <1>4, <1>a, ExceptSeq, Zenon
  <2>3. DOMAIN rows = DOMAIN remote[v]
    OBVIOUS
  <2>4. ASSUME NEW k \in DOMAIN rows
        PROVE  rows[k] = IF k = r THEN row ELSE remote[v][k]
    BY <2>3, <2>4
  <2> QED
    BY <2>2, <2>3, <2>4
<1> HIDE DEF rows
<1>7. /\ remote' \in [Providers -> Seq(RemoteRow)] /\ remote'[v] = rows
      /\ \A w \in Providers : w # v => remote'[w] = remote[w]
  BY <1>2, <1>5, <1>6
<1>8. \A w \in Providers : \A k, x : Has(w, k, x)' => Has(w, k, x)
  BY <1>4, <1>6, <1>7 DEF Has
<1>9. Shape'
  BY <1>1, <1>7 DEF Shape, db, locks, history
<1>10. \A p \in Jobs : JobSound(p)'
  BY <1>1 DEF IInv, JobSound, At, db, locks
<1>11. \A o \in plain' : PlainSound(o)'
  <2> SUFFICES ASSUME NEW o \in plain' PROVE PlainSound(o)'
    OBVIOUS
  <2>1. PlainSound(o)
    BY <1>1 DEF IInv, history
  <2>2. /\ job' = job /\ order' = order /\ debits' = debits
        /\ refunds' = refunds
    BY <1>1 DEF db
  <2>3. ASSUME NEW p \in Jobs, StillSo(p, o) PROVE StillSo(p, o)'
    BY <2>2, <2>3 DEF StillSo, At
  <2>4. \A p \in Jobs : Working(p, o)' <=> Working(p, o)
    BY <2>2 DEF Working, At
  <2>5. \A p \in Jobs : Working(p, o)' => StillSo(p, o)'
    BY <2>1, <2>3, <2>4 DEF PlainSound
  <2>6. \A p, q \in Jobs : Working(p, o)' /\ Working(q, o)' => p = q
    BY <2>1, <2>4 DEF PlainSound
  <2>7. debits'[o] = refunds'[o] + IF order'[o].status \in Terminated
                                   THEN 0 ELSE 1
    BY <2>1, <2>2 DEF PlainSound
  <2> QED
    BY <2>5, <2>6, <2>7 DEF PlainSound
<1>12. ASSUME NEW o \in plain' \ orphaned'
      PROVE  DeliveredOnce(o)'
  <2>1. DeliveredOnce(o)
    BY <1>1 DEF IInv, history
  <2>2. \A w \in Providers : \A k : Has(w, k, o)' => Has(w, k, o)
    BY <1>8
  <2>3. \A w \in Providers : \A k : Has(w, k, o) => k \in DOMAIN remote[w]
    BY DEF Has
  <2>4. \A w, x \in Providers : \A k, l : Has(w, k, o)' /\ Has(x, l, o)' => w = x /\ k = l
    BY <2>1, <2>2, <2>3 DEF DeliveredOnce
  <2>5. ASSUME NEW w \in Providers, NEW k, Has(w, k, o)'
        PROVE  order'[o].ref # NoRef
                 \/ \E p \in Jobs : At(p, "mark")' /\ job'[p].order = o
    <3>1. order[o].ref # NoRef \/ \E p \in Jobs : At(p, "mark") /\ job[p].order = o
      BY <2>1, <2>2, <2>3, <2>5 DEF DeliveredOnce
    <3> QED
      BY <1>1, <3>1 DEF At, db
  <2> QED
    BY <2>4, <2>5 DEF DeliveredOnce
<1>13. balance' >= 0
  BY <1>1 DEF IInv, db
<1> QED
  BY <1>9, <1>10, <1>11, <1>12, <1>13 DEF IInv

-----------------------------------------------------------------------------

(* The admin edits the service: no order and no job knows of it yet. *)
LEMMA ServiceStep ==
  ASSUME IInv, \/ UNCHANGED vars
               \/ \E auto, linked : UpdateService(auto, linked)
  PROVE  IInv'
<1>1. UNCHANGED <<order, debits, refunds, balance, remote, walletLock,
                  orderLock, job, requests, crashes, plain, orphaned,
                  acceptedBy>>
  BY DEF UpdateService, vars, db, locks, history
<1>2. Shape'
  BY <1>1 DEF IInv, Shape
<1>3. \A p \in Jobs : JobSound(p)'
  BY <1>1 DEF IInv, JobSound, At
<1>4. \A o \in plain' : PlainSound(o)'
  BY <1>1 DEF IInv, PlainSound, Working, StillSo, At
<1>5. \A o \in plain' \ orphaned' : DeliveredOnce(o)'
  BY <1>1 DEF IInv, DeliveredOnce, Has, At
<1> QED
  BY <1>1, <1>2, <1>3, <1>4, <1>5 DEF IInv

LEMMA ServicedStep == Serviced /\ [Next]_vars => Serviced'
<1> SUFFICES ASSUME Serviced, [Next]_vars PROVE Serviced'
  OBVIOUS
<1>1. ASSUME NEW auto \in AutoSubmit, NEW linked \in Links,
             UpdateService(auto, linked)
      PROVE  Serviced'
  BY <1>1 DEF UpdateService, Serviced
<1>2. ASSUME NEW p \in Jobs, Start(p)
      PROVE  UNCHANGED service
  <2>1. \E o \in Orders : \E record : Begins(p, o, record)
    BY <1>2, Zenon DEF Start, ListPending, Resend, AdminUpdate, Poll, Refresh,
       Cancel, Request, Tick
  <2> QED
    BY <2>1 DEF Begins
<1>3. ASSUME NEW p \in Jobs, Step(p)
      PROVE  UNCHANGED service
  BY <1>3 DEF Step, Recharge, RechargeRefused, Reopen, ProviderAccepts,
     Accepted, ProviderRefuses, ProviderAnswerLost, MarkSubmitted, RecordError,
     ReadOrder, UpdateStatus, UpdateThenRefund, Refund, AskProvider, AskFails,
     CancelAccepted, CancelRefused, DeadlockAbort, Abort, Finish, EndTransaction
<1>4. Crash \/ UNCHANGED vars
        \/ (\E v, r, status : ProviderProgress(v, r, status))
      => UNCHANGED service
  BY DEF Crash, vars, ProviderProgress
<1> QED
  BY <1>1, <1>2, <1>3, <1>4, Zenon DEF Next, Serviced

LEMMA InitInv == Init => IInv
<1> SUFFICES ASSUME Init PROVE IInv
  OBVIOUS
<1>1. Shape
  <2>1. 0 \in 0..MaxRemote /\ 0 \in 0..MaxRequests /\ 0 \in 0..MaxCrashes
          /\ Primary \in Providers
    BY BoundsAssumption DEF Primary, Providers
  <2>2. [status |-> "PENDING", ref |-> NoRef] \in OrderRow
    BY <2>1 DEF OrderRow, Status, NoRef
  <2>3. <<>> \in Seq(RemoteRow) /\ 1 \in Nat /\ 0 \in Nat
    OBVIOUS
  <2>4. Funds \in Int
    BY ChargeAssumption
  <2> QED
    BY <2>1, <2>2, <2>3, <2>4, IdleRow DEF Init, Shape
<1>2. balance >= 0
  BY ChargeAssumption DEF Init
<1>3. \A p \in Jobs : job[p] = Idle
  BY DEF Init
<1>4. \A p \in Jobs : JobSound(p)
  BY <1>3, IdleRow DEF JobSound, At
<1>5. \A o \in plain : PlainSound(o)
  BY <1>3, IdleRow DEF Init, PlainSound, Working, At, Terminated
<1>6. \A o \in plain \ orphaned : DeliveredOnce(o)
  BY DEF Init, DeliveredOnce, Has
<1> QED
  BY <1>1, <1>2, <1>4, <1>5, <1>6 DEF IInv

(* Only a job that is on an order steps. *)
LEMMA StepIsOnOrder ==
  ASSUME IInv, NEW p \in Jobs, Step(p)
  PROVE  \E o \in Orders : job[p].order = o
<1>1. CASE DeadlockAbort(p)
  <2>1. PICK ring \in SUBSET Jobs :
          p \in ring /\ {Blocker(q) : q \in ring} = ring
    BY <1>1 DEF DeadlockAbort
  <2>2. Blocker(p) \in Jobs
    BY <2>1
  <2>3. ~At(p, "idle")
    BY <2>2, JobsAssumption DEF Blocker, At
  <2> QED
    BY <2>3, JobTypes
<1>2. CASE ~DeadlockAbort(p)
  <2>1. ~At(p, "idle")
    BY <1>2 DEF Step, At, Recharge, RechargeRefused, Reopen, ProviderAccepts,
       Accepted, ProviderRefuses, ProviderAnswerLost, MarkSubmitted,
       RecordError, ReadOrder, UpdateStatus, UpdateThenRefund, Refund,
       AskProvider, AskFails, CancelAccepted, CancelRefused
  <2> QED
    BY <2>1, JobTypes, SMTT(30)
<1> QED
  BY <1>1, <1>2

LEMMA StepInv == IInv /\ Serviced /\ [Next]_vars => IInv'
<1> SUFFICES ASSUME IInv, Serviced, [Next]_vars PROVE IInv'
  OBVIOUS
<1>1. ASSUME NEW p \in Jobs, Step(p) PROVE IInv'
  <2>1. PICK o \in Orders : job[p].order = o
    BY <1>1, StepIsOnOrder
  <2> QED
    BY <1>1, <2>1, RechargeStep, ReopenStep, AcceptsStep, RefusesStep,
       LostStep, MarkStep, RecordErrorStep, ReadOrderStep, UpdateStep,
       UpdateThenRefundStep, RefundStep, AskStep, CancelAcceptedStep,
       FailSteps DEF Step
<1> QED
  BY <1>1, ServiceStep, StartStep, CrashStep, ProgressStep DEF Next

(* The inductive invariant. *)
THEOREM Invariance == Spec => [](IInv /\ Serviced)
<1>1. Init => Serviced
  BY DEF Init, Serviced
<1> QED
  BY <1>1, InitInv, StepInv, ServicedStep, PTL DEF Spec

(* The state keeps its shape: an order has one of its statuses and names   *)
(* an order its provider has, whatever answers, statuses and crashes come. *)
THEOREM TypeCorrect == Spec => []TypeOK
<1>1. IInv /\ Serviced => TypeOK
  BY DEF IInv, Shape, Serviced, TypeOK, OrderRow, RemoteRow, JobRow
<1> QED
  BY <1>1, Invariance, PTL

(* A canceled or failed order was refunded all it was charged, and any     *)
(* other was charged once more than refunded, if no two calls overlapped   *)
(* on it and none revived it after the refund.                             *)
THEOREM MoneyFollows == Spec => []MoneyFollowsStatus
<1>1. IInv => MoneyFollowsStatus
  BY DEF IInv, PlainSound, MoneyFollowsStatus
<1> QED
  BY <1>1, Invariance, PTL

(* No order is at two providers, or twice at one, unless an acceptance     *)
(* never reached the database.                                             *)
THEOREM DeliveredAtMostOnce == Spec => []SubmittedOnce
<1>1. ASSUME IInv, NEW o \in plain \ orphaned
      PROVE  Cardinality(RemoteOrders(o)) <= 1
  <2>1. DeliveredOnce(o) /\ remote \in [Providers -> Seq(RemoteRow)]
    BY <1>1 DEF IInv, Shape
  <2>2. \A x \in RemoteOrders(o) :
          \E v \in Providers : \E r \in DOMAIN remote[v] :
             x = <<v, r>> /\ Has(v, r, o)
    BY DEF RemoteOrders, Has
  <2>3. \A x, y \in RemoteOrders(o) : x = y
    BY <2>1, <2>2 DEF DeliveredOnce
  <2>4. CASE RemoteOrders(o) = {}
    BY <2>4, FS_EmptySet
  <2>5. ASSUME NEW x \in RemoteOrders(o)
        PROVE  Cardinality(RemoteOrders(o)) <= 1
    <3>1. RemoteOrders(o) = {x}
      BY <2>3
    <3>2. Cardinality({x}) = 1
      BY FS_Singleton
    <3> QED
      BY <3>1, <3>2
  <2> QED
    BY <2>4, <2>5
<1>2. IInv => SubmittedOnce
  BY <1>1 DEF SubmittedOnce
<1> QED
  BY <1>2, Invariance, PTL

-----------------------------------------------------------------------------
(* What each order was charged beyond its first charge and refunded, added *)
(* up.  The prover knows nothing of a sum, so first of all there is one,   *)
(* and what holds of the empty set and passes from a set to one with       *)
(* another member holds of every finite set.                               *)

(* A set of numbers that has 0, and with each the next, has them all.      *)
LEMMA EveryNatural ==
  ASSUME NEW S, S \subseteq Nat, 0 \in S, \A n \in S : n + 1 \in S
  PROVE  S = Nat
<1> DEFINE T == Nat \ S
           R == OpToRel(<, Nat)
<1>1. IsWellFoundedOn(R, Nat)
  BY NatLessThanWellFounded, Zenon
<1>2. ASSUME T # {} PROVE FALSE
  <2>1. T \subseteq Nat
    OBVIOUS
  <2> HIDE DEF T, R
  <2>2. PICK x \in T : \A y \in T : ~ (<<y, x>> \in R)
    BY <1>1, <1>2, <2>1, WFMin
  <2>3. x \in Nat /\ x # 0 /\ x \notin S
    BY DEF T
  <2>4. x - 1 \in Nat /\ x - 1 < x /\ (x-1)+1 = x
    BY <2>3
  <2>5. x - 1 \in T
    BY <2>3, <2>4 DEF T
  <2>6. <<x - 1, x>> \in R
    BY <2>3, <2>4 DEF R, OpToRel
  <2> QED
    BY <2>2, <2>5, <2>6
<1> QED
  BY <1>2
(* What the orders have cost less than one charge each, and how the sum    *)
(* over a set s is reached from that over a smaller one, in g.             *)
Owed(r, d) == MapThenSumSet(LAMBDA o : 1 + r[o] - d[o], Orders)
Pick(s) == CHOOSE x \in s : TRUE
SumAt(r, d, g, s) ==
  IF s = {} THEN 0 ELSE 1 + r[Pick(s)] - d[Pick(s)] + g[s \ {Pick(s)}]
Sums(r, d, g) == g = [s \in SUBSET Orders |-> SumAt(r, d, g, s)]
Summed(r, d, g) == \A s \in SUBSET Orders : g[s] = SumAt(r, d, g, s)

(* A set without the member it picks is smaller. *)
LEMMA Smaller ==
  ASSUME NEW s \in SUBSET Orders, s # {}
  PROVE  /\ Pick(s) \in s /\ s \ {Pick(s)} \in SUBSET Orders
         /\ Cardinality(s) \in Nat
         /\ Cardinality(s \ {Pick(s)}) = Cardinality(s) - 1
<1>1. Pick(s) \in s
  BY DEF Pick
<1>2. IsFiniteSet(s)
  BY OrdersAssumption, FS_Subset
<1> HIDE DEF Pick
<1> QED
  BY <1>1, <1>2, FS_RemoveElement, FS_CardinalityType

(* There is such a function. *)
LEMMA SumsExist ==
  ASSUME NEW r \in [Orders -> Nat], NEW d \in [Orders -> Nat]
  PROVE  \E g \in [SUBSET Orders -> Int] : Sums(r, d, g)
<1> DEFINE Upto(g, n) == \A s \in SUBSET Orders :
                 Cardinality(s) <= n => g[s] = SumAt(r, d, g, s)
           Good(n) == \E g \in [SUBSET Orders -> Int] : Upto(g, n)
           S == {n \in Nat : Good(n)}
<1>1. \A s \in SUBSET Orders : Cardinality(s) \in Nat
  BY OrdersAssumption, FS_Subset, FS_CardinalityType
<1>2. \A s \in SUBSET Orders : s = {} <=> Cardinality(s) = 0
  BY OrdersAssumption, FS_Subset, FS_EmptySet
<1>3. Good(0)
  <2> DEFINE g == [s \in SUBSET Orders |-> 0]
  <2>1. Upto(g, 0)
    BY <1>1, <1>2 DEF SumAt
  <2>2. g \in [SUBSET Orders -> Int]
    OBVIOUS
  <2> QED
    BY <2>1, <2>2
<1>4. ASSUME NEW n \in Nat, Good(n)
      PROVE  Good(n + 1)
  <2>1. PICK g \in [SUBSET Orders -> Int] : Upto(g, n)
    BY <1>4
  <2> DEFINE h == [s \in SUBSET Orders |-> SumAt(r, d, g, s)]
  <2>2. ASSUME NEW s \in SUBSET Orders
        PROVE  SumAt(r, d, g, s) \in Int
    <3>1. CASE s = {}
      BY <3>1 DEF SumAt
    <3>2. CASE s # {}
      <4>1. Pick(s) \in Orders /\ s \ {Pick(s)} \in SUBSET Orders
        BY <3>2, Smaller
      <4>2. /\ r[Pick(s)] \in Nat /\ d[Pick(s)] \in Nat
            /\ g[s \ {Pick(s)}] \in Int
        BY <4>1
      <4> QED
        BY <3>2, <4>2 DEF SumAt
    <3> QED
      BY <3>1, <3>2
  <2>3. h \in [SUBSET Orders -> Int]
    BY <2>2
  <2>4. ASSUME NEW s \in SUBSET Orders, Cardinality(s) <= n
        PROVE  h[s] = g[s]
    BY <2>1, <2>4
  <2>5. ASSUME NEW s \in SUBSET Orders, Cardinality(s) <= n + 1
        PROVE  h[s] = SumAt(r, d, h, s)
    <3>1. CASE s = {}
      BY <3>1 DEF SumAt
    <3>2. CASE s # {}
      <4>1. /\ s \ {Pick(s)} \in SUBSET Orders
            /\ Cardinality(s \ {Pick(s)}) <= n
        BY <2>5, <3>2, <1>4, Smaller
      <4>2. h[s \ {Pick(s)}] = g[s \ {Pick(s)}]
        BY <2>4, <4>1
      <4>3. h[s] = SumAt(r, d, g, s)
        OBVIOUS
      <4> HIDE DEF h
      <4> QED
        BY <4>2, <4>3, <3>2 DEF SumAt
    <3> QED
      BY <3>1, <3>2
  <2> HIDE DEF h
  <2> QED
    BY <2>3, <2>5
<1>5. S = Nat
  <2>1. 0 \in S /\ (\A n \in S : n + 1 \in S) /\ S \subseteq Nat
    <3> HIDE DEF Good
    <3> QED
      BY <1>3, <1>4
  <2> HIDE DEF S
  <2> QED
    BY <2>1, EveryNatural
<1>6. Good(Cardinality(Orders))
  <2>1. Cardinality(Orders) \in S
    BY <1>1, <1>5
  <2> HIDE DEF Good
  <2> QED
    BY <2>1
<1>7. PICK g \in [SUBSET Orders -> Int] : Upto(g, Cardinality(Orders))
  BY <1>6
<1>8. \A s \in SUBSET Orders : Cardinality(s) <= Cardinality(Orders)
  BY OrdersAssumption, FS_Subset
<1>9. \A s \in SUBSET Orders : g[s] = SumAt(r, d, g, s)
  BY <1>7, <1>8
<1> QED
  BY <1>9 DEF Sums

(* A set of sets that has the empty one, and each whose smaller one it     *)
(* has, has them all.                                                      *)
LEMMA EverySubset ==
  ASSUME NEW B, {} \in B,
         \A s \in SUBSET Orders : s # {} /\ s \ {Pick(s)} \in B => s \in B
  PROVE  SUBSET Orders \subseteq B
<1> DEFINE S == {n \in Nat : \A s \in SUBSET Orders :
                               Cardinality(s) <= n => s \in B}
<1>1. \A s \in SUBSET Orders :
        Cardinality(s) \in Nat /\ (s = {} <=> Cardinality(s) = 0)
  BY OrdersAssumption, FS_Subset, FS_EmptySet, FS_CardinalityType
<1>2. 0 \in S
  <2>1. \A s \in SUBSET Orders : Cardinality(s) <= 0 => s = {}
    BY <1>1
  <2> QED
    BY <2>1
<1>3. ASSUME NEW n \in S PROVE n + 1 \in S
  <2>1. ASSUME NEW s \in SUBSET Orders, Cardinality(s) <= n + 1
        PROVE  s \in B
    <3>1. CASE s # {}
      <4>1. /\ s \ {Pick(s)} \in SUBSET Orders
            /\ Cardinality(s \ {Pick(s)}) <= n
        BY <2>1, <3>1, Smaller
      <4> QED
        BY <3>1, <4>1
    <3> QED
      BY <3>1
  <2> QED
    BY <2>1
<1>4. S = Nat
  <2>1. S \subseteq Nat
    OBVIOUS
  <2> HIDE DEF S
  <2> QED
    BY <1>2, <1>3, <2>1, EveryNatural
<1>5. ASSUME NEW s \in SUBSET Orders PROVE s \in B
  <2>1. Cardinality(s) \in S /\ Cardinality(s) <= Cardinality(s)
    BY <1>1, <1>4
  <2> QED
    BY <2>1
<1> QED
  BY <1>5

(* And the sum is its value for all orders. *)
LEMMA OwedIsSum ==
  ASSUME NEW r \in [Orders -> Nat], NEW d \in [Orders -> Nat]
  PROVE  \E g : Summed(r, d, g) /\ Owed(r, d) = g[Orders]
<1> DEFINE G == CHOOSE g : Sums(r, d, g)
<1>1. \E g : Sums(r, d, g)
  BY SumsExist
<1>2. Sums(r, d, G)
  BY <1>1
<1>3. Owed(r, d) = G[Orders]
  BY DEF Owed, MapThenSumSet, MapThenFoldSet, SumAt, Pick, Sums
<1> HIDE DEF G
<1>4. Summed(r, d, G)
  BY <1>2 DEF Sums, Summed
<1> QED
  BY <1>3, <1>4

(* As many refunds of an order as debits but one, and nothing is owed. *)
LEMMA NothingOwed ==
  ASSUME NEW r \in [Orders -> Nat], NEW d \in [Orders -> Nat],
         \A o \in Orders : d[o] = 1 + r[o]
  PROVE  Owed(r, d) = 0
<1>1. PICK g : Summed(r, d, g) /\ Owed(r, d) = g[Orders]
  BY OwedIsSum
<1> DEFINE B == {s \in SUBSET Orders : g[s] = 0}
<1>2. {} \in B
  BY <1>1 DEF Summed, SumAt
<1>3. ASSUME NEW s \in SUBSET Orders, s # {}, s \ {Pick(s)} \in B
      PROVE  s \in B
  <2>1. g[s] = 1 + r[Pick(s)] - d[Pick(s)] + g[s \ {Pick(s)}]
    <3> HIDE DEF B
    <3> QED
      BY <1>1, <1>3 DEF Summed, SumAt
  <2>2. Pick(s) \in Orders
    BY <1>3, Smaller
  <2>3. d[Pick(s)] = 1 + r[Pick(s)] /\ r[Pick(s)] \in Nat
    BY <2>2
  <2> QED
    BY <1>3, <2>1, <2>3
<1>4. SUBSET Orders \subseteq B
  <2> HIDE DEF B
  <2> QED
    BY <1>2, <1>3, EverySubset
<1> QED
  BY <1>1, <1>4

(* What one order adds to the sum is what it adds. *)
LEMMA OwedChange ==
  ASSUME NEW r \in [Orders -> Nat], NEW d \in [Orders -> Nat],
         NEW R \in [Orders -> Nat], NEW D \in [Orders -> Nat],
         NEW o \in Orders, \A x \in Orders \ {o} : R[x] = r[x] /\ D[x] = d[x]
  PROVE  /\ Owed(r, d) \in Int
         /\ Owed(R, D) = Owed(r, d) + (R[o] - D[o]) - (r[o] - d[o])
<1>1. PICK g : Summed(r, d, g) /\ Owed(r, d) = g[Orders]
  BY OwedIsSum
<1>2. PICK G : Summed(R, D, G) /\ Owed(R, D) = G[Orders]
  BY OwedIsSum
<1> DEFINE more == (R[o] - D[o]) - (r[o] - d[o])
           B == {s \in SUBSET Orders : /\ g[s] \in Int
                   /\ G[s] = g[s] + IF o \in s THEN more ELSE 0}
<1>0. more \in Int
  OBVIOUS
<1>3. {} \in B
  <2>1. g[{}] = 0
    BY <1>1 DEF Summed, SumAt
  <2>2. G[{}] = 0
    BY <1>2 DEF Summed, SumAt
  <2> QED
    BY <2>1, <2>2
<1>4. ASSUME NEW s \in SUBSET Orders, s # {}, s \ {Pick(s)} \in B
      PROVE  s \in B
  <2> DEFINE x == Pick(s)
  <2>1. /\ g[s] = 1 + r[x] - d[x] + g[s \ {x}]
        /\ G[s] = 1 + R[x] - D[x] + G[s \ {x}]
    <3> HIDE DEF B
    <3>1. g[s] = 1 + r[x] - d[x] + g[s \ {x}]
      BY <1>1, <1>4 DEF Summed, SumAt
    <3>2. G[s] = 1 + R[x] - D[x] + G[s \ {x}]
      BY <1>2, <1>4 DEF Summed, SumAt
    <3> QED
      BY <3>1, <3>2
  <2>2. x \in s /\ x \in Orders
    BY <1>4, Smaller
  <2>3. r[x] \in Nat /\ d[x] \in Nat /\ R[x] \in Nat /\ D[x] \in Nat
    BY <2>2
  <2>4. g[s \ {x}] \in Int
        /\ G[s \ {x}] = g[s \ {x}] + IF o \in s \ {x} THEN more ELSE 0
    BY <1>4
  <2> HIDE DEF x
  <2>5. CASE x = o
    BY <2>1, <2>2, <2>3, <2>4, <2>5
  <2>6. CASE x # o
    <3>1. R[x] = r[x] /\ D[x] = d[x] /\ (o \in s \ {x} <=> o \in s)
      BY <2>2, <2>6
    <3> HIDE DEF more
    <3> QED
      BY <1>0, <2>1, <2>3, <2>4, <3>1
  <2> QED
    BY <2>5, <2>6
<1>5. SUBSET Orders \subseteq B
  <2> HIDE DEF B
  <2> QED
    BY <1>3, <1>4, EverySubset
<1>6. Orders \in B
  BY <1>5
<1> QED
  BY <1>1, <1>2, <1>6

(* The customer has what was there but what the orders have cost. *)
Balanced == balance = Funds + Charge * Owed(refunds, debits)

(* A step moves the money of one order by one charge, or none. *)
Charged(o) ==
  /\ debits' = [debits EXCEPT ![o] = @ + 1] /\ refunds' = refunds
  /\ balance' = balance - Charge
Refunded(o) ==
  /\ refunds' = [refunds EXCEPT ![o] = @ + 1] /\ debits' = debits
  /\ balance' = balance + Charge
MoneyKept == UNCHANGED <<debits, refunds, balance>>

LEMMA MoneyStep ==
  ASSUME IInv, [Next]_vars
  PROVE  MoneyKept \/ \E o \in Orders : Charged(o) \/ Refunded(o)
<1>1. ASSUME NEW p \in Jobs, Step(p)
      PROVE  MoneyKept \/ \E o \in Orders : Charged(o) \/ Refunded(o)
  <2>1. job[p].order \in Orders
    BY <1>1, StepIsOnOrder
  <2>2. CASE Refund(p)
    BY <2>1, <2>2 DEF Refund, WriteStatus, Refunded
  <2>3. CASE Reopen(p)
    BY <2>1, <2>3 DEF Reopen, Charged
  <2>4. CASE ~Refund(p) /\ ~Reopen(p)
    BY <1>1, <2>4 DEF Step, MoneyKept, db, history, Recharge, RechargeRefused,
       ProviderAccepts, Accepted, ProviderRefuses, ProviderAnswerLost,
       MarkSubmitted, RecordError, ReadOrder, UpdateStatus, UpdateThenRefund,
       AskProvider, AskFails, CancelAccepted, CancelRefused, DeadlockAbort,
       Abort, WriteStatus
  <2> QED
    BY <2>2, <2>3, <2>4
<1>2. ASSUME NEW p \in Jobs, Start(p)
      PROVE  MoneyKept
  <2>1. \E o \in Orders : \E record : Begins(p, o, record)
    BY <1>2, Zenon DEF Start, ListPending, Resend, AdminUpdate, Poll, Refresh,
       Cancel, Request, Tick
  <2> QED
    BY <2>1 DEF Begins, MoneyKept, db
<1>3. CASE Crash
  BY <1>3 DEF Crash, MoneyKept, db
<1>4. ASSUME NEW v, NEW r, NEW status, ProviderProgress(v, r, status)
      PROVE  MoneyKept
  BY <1>4 DEF ProviderProgress, MoneyKept, db
<1>5. CASE UNCHANGED vars
  BY <1>5 DEF vars, MoneyKept, db
<1>6. ASSUME NEW auto, NEW linked, UpdateService(auto, linked)
      PROVE  MoneyKept
  BY <1>6 DEF UpdateService, MoneyKept, db
<1> QED
  BY <1>1, <1>2, <1>3, <1>4, <1>5, <1>6 DEF Next

LEMMA BalancedStep ==
  ASSUME IInv, IInv', [Next]_vars, Balanced
  PROVE  Balanced'
<1>1. /\ debits \in [Orders -> Nat] /\ refunds \in [Orders -> Nat]
      /\ debits' \in [Orders -> Nat] /\ refunds' \in [Orders -> Nat]
      /\ balance \in Int /\ Charge \in Nat /\ Funds \in Nat
  BY ChargeAssumption DEF IInv, Shape
<1>2. Owed(refunds, debits) \in Int
  <2>1. CASE Orders = {}
    <3>1. \A o \in Orders : debits[o] = 1 + refunds[o]
      BY <2>1
    <3>2. Owed(refunds, debits) = 0
      BY <1>1, <3>1, NothingOwed
    <3> QED
      BY <3>2
  <2>2. ASSUME NEW o \in Orders
        PROVE  Owed(refunds, debits) \in Int
    BY <1>1, OwedChange
  <2> QED
    BY <2>1, <2>2
<1>3. CASE MoneyKept
  BY <1>3 DEF MoneyKept, Balanced
<1>6. ASSUME NEW o \in Orders,
             \A x \in Orders \ {o} : refunds'[x] = refunds[x]
                                    /\ debits'[x] = debits[x]
      PROVE  Owed(refunds', debits') = Owed(refunds, debits)
               + (refunds'[o] - debits'[o]) - (refunds[o] - debits[o])
  <2> DEFINE r == refunds
             d == debits
             R == refunds'
             D == debits'
  <2>1. /\ r \in [Orders -> Nat] /\ d \in [Orders -> Nat]
        /\ R \in [Orders -> Nat] /\ D \in [Orders -> Nat]
        /\ \A x \in Orders \ {o} : R[x] = r[x] /\ D[x] = d[x]
    BY <1>1, <1>6
  <2> HIDE DEF r, d, R, D
  <2>2. Owed(R, D) = Owed(r, d) + (R[o] - D[o]) - (r[o] - d[o])
    BY <2>1, OwedChange
  <2> QED
    BY <2>2 DEF r, d, R, D
<1>4. ASSUME NEW o \in Orders, Charged(o)
      PROVE  Balanced'
  <2>1. /\ \A x \in Orders \ {o} : refunds'[x] = refunds[x]
                                   /\ debits'[x] = debits[x]
        /\ debits'[o] = debits[o] + 1 /\ refunds'[o] = refunds[o]
        /\ debits[o] \in Nat /\ refunds[o] \in Nat
    BY <1>1, <1>4 DEF Charged
  <2>2. Owed(refunds', debits') = Owed(refunds, debits)
          + (refunds'[o] - debits'[o]) - (refunds[o] - debits[o])
    BY <1>6, <2>1
  <2>3. Owed(refunds', debits') = Owed(refunds, debits) - 1
    BY <1>2, <2>1, <2>2
  <2>4. balance' = balance - Charge
    BY <1>4 DEF Charged
  <2>5. Charge * (Owed(refunds, debits) - 1)
          = Charge * Owed(refunds, debits) - Charge
    BY <1>1, <1>2
  <2> QED
    BY <1>1, <1>2, <2>3, <2>4, <2>5 DEF Balanced
<1>5. ASSUME NEW o \in Orders, Refunded(o)
      PROVE  Balanced'
  <2>1. /\ \A x \in Orders \ {o} : refunds'[x] = refunds[x]
                                   /\ debits'[x] = debits[x]
        /\ refunds'[o] = refunds[o] + 1 /\ debits'[o] = debits[o]
        /\ debits[o] \in Nat /\ refunds[o] \in Nat
    BY <1>1, <1>5 DEF Refunded
  <2>2. Owed(refunds', debits') = Owed(refunds, debits)
          + (refunds'[o] - debits'[o]) - (refunds[o] - debits[o])
    BY <1>6, <2>1
  <2>3. Owed(refunds', debits') = Owed(refunds, debits) + 1
    BY <1>2, <2>1, <2>2
  <2>4. balance' = balance + Charge
    BY <1>5 DEF Refunded
  <2>5. Charge * (Owed(refunds, debits) + 1)
          = Charge * Owed(refunds, debits) + Charge
    BY <1>1, <1>2
  <2> QED
    BY <1>1, <1>2, <2>3, <2>4, <2>5 DEF Balanced
<1> QED
  BY <1>3, <1>4, <1>5, MoneyStep

(* Whatever overlaps, is lost or crashes, the customer's balance is what   *)
(* was there less what each order was charged plus what it was refunded;   *)
(* and no re-charge takes it below zero, for the balance a re-charge has   *)
(* seen under the wallet's lock is there until it commits.                 *)
THEOREM BalanceAlwaysReconciles == Spec => []BalanceReconciles
<1>1. Init => Balanced
  <2>1. SUFFICES ASSUME Init PROVE Balanced
    OBVIOUS
  <2>2. /\ refunds = [o \in Orders |-> 0] /\ debits = [o \in Orders |-> 1]
        /\ balance = Funds
    BY <2>1 DEF Init
  <2>3. Owed(refunds, debits) = 0
    <3>1. /\ refunds \in [Orders -> Nat] /\ debits \in [Orders -> Nat]
          /\ \A o \in Orders : debits[o] = 1 + refunds[o]
      BY <2>2
    <3> QED
      BY <3>1, NothingOwed
  <2> QED
    BY <2>2, <2>3, ChargeAssumption DEF Balanced
<1>2. IInv /\ IInv' /\ Balanced /\ [Next]_vars => Balanced'
  BY BalancedStep
<1>3. IInv /\ Balanced => BalanceReconciles
  BY Zenon DEF IInv, Balanced, Owed, BalanceReconciles
<1> QED
  BY <1>1, <1>2, <1>3, Invariance, PTL DEF Spec
=============================================================================
