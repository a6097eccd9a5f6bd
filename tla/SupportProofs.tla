--------------------------- MODULE SupportProofs ---------------------------
(***************************************************************************)
(* Refills and the audit of those the engine and the agents open, proved   *)
(* for any orders, tickets, desks and polls.  A request looks for an open  *)
(* refill of its order and inserts its own later, with no lock between:    *)
(* the invariant says what stays true of the rows it has seen, and on      *)
(* whose desk a refill is that the audit does not tell of yet.             *)
(***************************************************************************)
EXTENDS Support, FiniteSetTheorems, SequenceTheorems, TLAPS

RemoteStatus == {"Pending"} \cup Words
TicketRow ==
  [orders : SUBSET Delivered,
   status : HandStatuses \cup {"NEW", "AI_PROCESSING", "PENDING_ADMIN",
              "RESOLVED", "ESCALATED", "REPLIED", "IN_PROGRESS"}]
NoVerdict == ""
PollRow ==
  [todo : SUBSET Nat, refill : Nat, verdict : {NoVerdict} \cup Verdicts]

Shape ==
  /\ refills \in Seq(RefillRow)
  /\ remote \in Seq(RemoteStatus)
  /\ ticket \in [Tickets -> TicketRow]
  /\ audit \in [Tickets -> Nat]
  /\ desk \in [Desks -> DeskRow]
  /\ poll \in [Polls -> PollRow]
  /\ died \subseteq Tickets /\ calls \in Nat /\ events \in Nat

(* Of the first n rows of R, those of order o are settled. *)
SettledUpTo(R, o, n) ==
  /\ n \in 0..Len(R)
  /\ \A r \in 1..n : R[r].order = o => R[r].status \in Verdicts

(* A row was inserted by a request that had seen those before it settled. *)
RefillSound(row, R, M) ==
  /\ SettledUpTo(R, row.order, row.seen)
  /\ row.remote \in 0..Len(M)

(* What a request has read is still so, and it is for whom it says: only a *)
(* customer's own request has no ticket.                                   *)
DeskSound(w, R, M) ==
  /\ w.remote \in 0..Len(M)
  /\ w.at \in {"refill", "submit", "insert"} =>
       /\ w.order \in Delivered
       /\ IF w.for = "customer" THEN w.ticket = NoOrder
          ELSE w.ticket \in Tickets /\ w.action = "REFILL"
  /\ w.at \in {"submit", "insert"} => SettledUpTo(R, w.order, w.seen)
  /\ w.at \in {"post", "next", "act", "record"} => w.ticket \in Tickets
  /\ w.at \in {"next", "act", "record"} => w.for # "customer"
  /\ w.at = "act" => w.action # "REFILL"
  /\ w.at = "resolve" => w.refill \in 1..Len(R)

(* A tick works on rows that the provider knows, and brings a verdict. *)
PollSound(k, R) ==
  /\ k.todo \subseteq 1..Len(R)
  /\ \A r \in k.todo : R[r].remote # 0
  /\ k.refill # 0 => k.refill \in 1..Len(R) /\ k.verdict \in Verdicts

(* The refills of ticket t, and the desks that have one to record. *)
OpenedFor(t) == {r \in DOMAIN refills : refills[r].ticket = t}
ToRecord(w) == w.at = "record" /\ w.made /\ w.action = "REFILL"
RecordingFor(t) == {d \in Desks : ToRecord(desk[d]) /\ desk[d].ticket = t}
Told(t) ==
  Cardinality(OpenedFor(t)) = audit[t] + Cardinality(RecordingFor(t))

IInv ==
  /\ Shape
  /\ \A r \in 1..Len(refills) : RefillSound(refills[r], refills, remote)
  /\ \A d \in Desks : DeskSound(desk[d], refills, remote)
  /\ \A l \in Polls : PollSound(poll[l], refills)
  /\ \A t \in Tickets \ died : Told(t)
-----------------------------------------------------------------------------
(* What the tables may do under the feet of a request.                     *)

(* Rows are added, a settled one stays settled, and whose they are stays.  *)
Grows(R, S) ==
  /\ Len(R) <= Len(S)
  /\ \A r \in 1..Len(R) : /\ S[r].order = R[r].order
                          /\ S[r].remote = R[r].remote
                          /\ S[r].seen = R[r].seen
                          /\ R[r].status \in Verdicts => S[r].status \in Verdicts

(* What was seen of a table that only grows is still so. *)
LEMMA StillSettled ==
  ASSUME NEW R \in Seq(RefillRow), NEW S \in Seq(RefillRow), Grows(R, S),
         NEW o, NEW n, SettledUpTo(R, o, n)
  PROVE  SettledUpTo(S, o, n)
<1>1. Len(R) \in Nat /\ Len(S) \in Nat
  BY LenProperties, Zenon
<1> QED
  BY <1>1 DEF SettledUpTo, Grows

LEMMA StillSound ==
  ASSUME NEW R \in Seq(RefillRow), NEW S \in Seq(RefillRow), Grows(R, S),
         NEW M \in Seq(RemoteStatus), NEW N \in Seq(RemoteStatus),
         Len(M) <= Len(N)
  PROVE  /\ \A w : DeskSound(w, R, M) => DeskSound(w, S, N)
         /\ \A k : PollSound(k, R) => PollSound(k, S)
         /\ \A r \in 1..Len(R) :
              RefillSound(R[r], R, M) => RefillSound(S[r], S, N)
<1>1. Len(R) \in Nat /\ Len(S) \in Nat /\ Len(M) \in Nat /\ Len(N) \in Nat
  BY LenProperties, Zenon
<1>2. 1..Len(R) \subseteq 1..Len(S) /\ 0..Len(M) \subseteq 0..Len(N)
  BY <1>1 DEF Grows
<1>3. \A o, n : SettledUpTo(R, o, n) => SettledUpTo(S, o, n)
  BY StillSettled
<1>4. ASSUME NEW w, DeskSound(w, R, M)
      PROVE  DeskSound(w, S, N)
  BY <1>2, <1>3, <1>4 DEF DeskSound
<1>5. ASSUME NEW k, PollSound(k, R)
      PROVE  PollSound(k, S)
  BY <1>2, <1>5 DEF PollSound, Grows
<1>6. ASSUME NEW r \in 1..Len(R), RefillSound(R[r], R, M)
      PROVE  RefillSound(S[r], S, N)
  BY <1>2, <1>3, <1>6 DEF RefillSound, Grows
<1> QED
  BY <1>4, <1>5, <1>6

LEMMA SameGrows ==
  ASSUME NEW R \in Seq(RefillRow)
  PROVE  Grows(R, R)
<1>1. Len(R) \in Nat
  BY LenProperties, Zenon
<1> QED
  BY <1>1 DEF Grows

(* The last row of a table that got one more. *)
LEMMA AddedRow ==
  ASSUME NEW R \in Seq(RefillRow), NEW row \in RefillRow
  PROVE  LET S == Append(R, row)
         IN  /\ S \in Seq(RefillRow) /\ Len(S) = Len(R) + 1
             /\ S[Len(R) + 1] = row
             /\ \A r \in 1..Len(R) : S[r] = R[r]
             /\ Grows(R, S)
<1> DEFINE S == Append(R, row)
<1>1. /\ S \in Seq(RefillRow) /\ Len(S) = Len(R) + 1
      /\ S[Len(R) + 1] = row /\ \A r \in 1..Len(R) : S[r] = R[r]
  BY AppendProperties
<1>2. Len(R) \in Nat
  BY LenProperties, Zenon
<1> HIDE DEF S
<1>3. Grows(R, S)
  BY <1>1, <1>2 DEF Grows
<1> QED
  BY <1>1, <1>3 DEF S

(* A verdict on a row. *)
LEMMA RowSettles ==
  ASSUME NEW R \in Seq(RefillRow), NEW i \in 1..Len(R), NEW v \in Verdicts,
         NEW S, S = [R EXCEPT ![i].status = v]
  PROVE  /\ S \in Seq(RefillRow) /\ Len(S) = Len(R) /\ Grows(R, S)
         /\ \A r \in 1..Len(R) : S[r].ticket = R[r].ticket
<1> DEFINE row == [R[i] EXCEPT !.status = v]
<1>1. R[i] \in RefillRow
  BY ElementOfSeq, Zenon
<1>2. /\ row \in RefillRow /\ row.order = R[i].order /\ row.status = v
      /\ row.remote = R[i].remote /\ row.seen = R[i].seen
      /\ row.ticket = R[i].ticket
  BY <1>1 DEF RefillRow
<1>3. S = [R EXCEPT ![i] = row]
  OBVIOUS
<1> HIDE DEF row
<1>4. /\ S \in Seq(RefillRow) /\ Len(S) = Len(R)
      /\ \A r \in 1..Len(R) : S[r] = IF r = i THEN row ELSE R[r]
  BY <1>2, <1>3, ExceptSeq
<1>5. Len(R) \in Nat
  BY LenProperties, Zenon
<1>6. Grows(R, S) /\ \A r \in 1..Len(R) : S[r].ticket = R[r].ticket
  BY <1>2, <1>4, <1>5 DEF Grows
<1> QED
  BY <1>3, <1>4, <1>6
-----------------------------------------------------------------------------
(* Counting.                                                               *)

LEMMA FiniteSides ==
  ASSUME Shape, NEW t
  PROVE  IsFiniteSet(OpenedFor(t)) /\ IsFiniteSet(RecordingFor(t))
<1>1. DOMAIN refills = 1..Len(refills) /\ Len(refills) \in Nat
  BY LenProperties, Zenon DEF Shape
<1>2. IsFiniteSet(1..Len(refills))
  BY <1>1, FS_Interval
<1> QED
  BY <1>1, <1>2, DesksAssumption, FS_Subset DEF OpenedFor, RecordingFor

LEMMA ToldStays ==
  ASSUME IInv, audit' = audit, died \subseteq died',
         \A t : OpenedFor(t)' = OpenedFor(t),
         \A t : RecordingFor(t)' = RecordingFor(t)
  PROVE  \A t \in Tickets \ died' : Told(t)'
BY DEF IInv, Told
-----------------------------------------------------------------------------
(* One step, whoever takes it.                                             *)

LEMMA SoundStep ==
  ASSUME IInv, Shape', Grows(refills, refills'), Len(remote) <= Len(remote'),
         \A r \in 1..Len(refills') :
            \/ r \in 1..Len(refills)
            \/ RefillSound(refills'[r], refills', remote'),
         \A q \in Desks : \/ desk'[q] = desk[q]
                          \/ DeskSound(desk'[q], refills', remote'),
         \A l \in Polls : poll'[l] = poll[l] \/ PollSound(poll'[l], refills'),
         \A t \in Tickets \ died' : Told(t)'
  PROVE  IInv'
<1>1. /\ refills \in Seq(RefillRow) /\ remote \in Seq(RemoteStatus)
      /\ refills' \in Seq(RefillRow) /\ remote' \in Seq(RemoteStatus)
  BY DEF IInv, Shape
<1>2. /\ \A w : DeskSound(w, refills, remote) => DeskSound(w, refills', remote')
      /\ \A k : PollSound(k, refills) => PollSound(k, refills')
      /\ \A r \in 1..Len(refills) :
           RefillSound(refills[r], refills, remote)
             => RefillSound(refills'[r], refills', remote')
  BY <1>1, StillSound
<1>3. \A r \in 1..Len(refills') : RefillSound(refills'[r], refills', remote')
  BY <1>2 DEF IInv
<1>4. \A q \in Desks : DeskSound(desk'[q], refills', remote')
  BY <1>2 DEF IInv
<1>5. \A l \in Polls : PollSound(poll'[l], refills')
  BY <1>2 DEF IInv
<1> QED
  BY <1>3, <1>4, <1>5 DEF IInv

LEMMA DeskMoves ==
  ASSUME Shape, NEW d \in Desks, NEW w \in DeskRow,
         desk' = [desk EXCEPT ![d] = w]
  PROVE  /\ desk' \in [Desks -> DeskRow] /\ desk'[d] = w
         /\ \A q \in Desks : q # d => desk'[q] = desk[q]
BY DEF Shape

(* A request goes on and neither starts nor ends recording a refill. *)
LEMMA QuietDesk ==
  ASSUME IInv, NEW d \in Desks, NEW w \in DeskRow,
         desk' = [desk EXCEPT ![d] = w],
         UNCHANGED <<refills, audit, poll, died>>,
         remote' \in Seq(RemoteStatus), Len(remote) <= Len(remote'),
         ticket' \in [Tickets -> TicketRow], calls' \in Nat, events' \in Nat,
         DeskSound(w, refills, remote'),
         ~ToRecord(desk[d]), ~ToRecord(w)
  PROVE  IInv'
<1>1. Shape
  BY DEF IInv
<1>2. /\ desk' \in [Desks -> DeskRow] /\ desk'[d] = w
      /\ \A q \in Desks : q # d => desk'[q] = desk[q]
  BY <1>1, DeskMoves
<1>3. Shape'
  BY <1>1, <1>2 DEF Shape
<1>4. Grows(refills, refills')
  BY <1>1, SameGrows DEF Shape
<1>5. \A t : OpenedFor(t)' = OpenedFor(t)
  BY DEF OpenedFor
<1>6. \A t : RecordingFor(t)' = RecordingFor(t)
  BY <1>2 DEF RecordingFor
<1>7. \A t \in Tickets \ died' : Told(t)'
  BY <1>5, <1>6, ToldStays
<1>8. \A q \in Desks : desk'[q] = desk[q] \/ DeskSound(desk'[q], refills', remote')
  BY <1>2
<1> QED
  BY <1>3, <1>4, <1>7, <1>8, SoundStep

LEMMA QuietLook ==
  ASSUME IInv, NEW d \in Desks, NEW w \in DeskRow,
         desk' = [desk EXCEPT ![d] = w],
         UNCHANGED <<refills, remote, audit, poll, died>>,
         ticket' \in [Tickets -> TicketRow], calls' \in Nat, events' \in Nat,
         DeskSound(w, refills, remote),
         ~ToRecord(desk[d]), ~ToRecord(w)
  PROVE  IInv'
<1>1. remote' = remote /\ remote' \in Seq(RemoteStatus)
  BY DEF IInv, Shape
<1>2. Len(remote) \in Nat
  BY <1>1, LenProperties, Zenon
<1>3. Len(remote) <= Len(remote') /\ DeskSound(w, refills, remote')
  BY <1>1, <1>2
<1> QED
  BY <1>1, <1>3, QuietDesk

(* A desk nobody is at. *)
Emptied == [Clear EXCEPT !.at = "idle"]

LEMMA EmptiedRow ==
  /\ Emptied \in DeskRow /\ Emptied.at = "idle" /\ Emptied.remote = 0
BY DEF Clear, Emptied, DeskRow

LEMMA EmptiedSound ==
  ASSUME NEW R, NEW M \in Seq(RemoteStatus)
  PROVE  DeskSound(Emptied, R, M) /\ ~ToRecord(Emptied)
<1>1. Len(M) \in Nat
  BY LenProperties, Zenon
<1> QED
  BY <1>1, EmptiedRow DEF DeskSound, ToRecord

LEMMA DeskTypes ==
  ASSUME IInv, NEW d \in Desks
  PROVE  /\ desk[d] \in DeskRow /\ DeskSound(desk[d], refills, remote)
         /\ Shape /\ remote \in Seq(RemoteStatus)
         /\ Len(remote) \in Nat /\ Len(refills) \in Nat
<1>1. remote \in Seq(RemoteStatus) /\ refills \in Seq(RefillRow)
  BY DEF IInv, Shape
<1>2. Len(remote) \in Nat /\ Len(refills) \in Nat
  BY <1>1, LenProperties, Zenon
<1> QED
  BY <1>1, <1>2 DEF IInv, Shape

(* How an action ends: the customer is answered, or somebody records it.   *)
Ended(d, clean, w) ==
  /\ w \in DeskRow /\ desk' = [desk EXCEPT ![d] = w]
  /\ \/ desk[d].for = "customer" /\ w = Emptied
     \/ /\ desk[d].for # "customer" /\ w.at = "record" /\ w.made = clean
        /\ w.for = desk[d].for /\ w.ticket = desk[d].ticket
        /\ w.action = desk[d].action /\ w.remote = desk[d].remote

LEMMA Outcomes ==
  ASSUME IInv, NEW d \in Desks, NEW clean \in BOOLEAN, Outcome(d, clean)
  PROVE  \E w : Ended(d, clean, w)
<1>1. desk[d] \in DeskRow
  BY DeskTypes
<1>2. CASE desk[d].for = "customer"
  <2>1. Ended(d, clean, Emptied)
    BY <1>2, EmptiedRow DEF Ended, Outcome, Moves, Emptied
  <2> QED
    BY <2>1
<1>3. CASE desk[d].for # "customer"
  <2> DEFINE w == [[desk[d] EXCEPT !.made = clean] EXCEPT !.at = "record"]
  <2>1. /\ w \in DeskRow /\ w.at = "record" /\ w.made = clean
        /\ w.for = desk[d].for /\ w.ticket = desk[d].ticket
        /\ w.action = desk[d].action /\ w.remote = desk[d].remote
    BY <1>1 DEF DeskRow
  <2>2. desk' = [desk EXCEPT ![d] = w]
    BY <1>3 DEF Outcome, Moves
  <2> HIDE DEF w
  <2>3. Ended(d, clean, w)
    BY <1>3, <2>1, <2>2 DEF Ended
  <2> QED
    BY <2>3
<1> QED
  BY <1>2, <1>3

(* An action that came to nothing, or that opens no refill. *)
LEMMA EmptyOutcome ==
  ASSUME IInv, NEW d \in Desks, NEW clean \in BOOLEAN, Outcome(d, clean),
         desk[d].at \in {"refill", "submit", "act"},
         ~clean \/ desk[d].at = "act",
         UNCHANGED <<refills, ticket, audit, poll, died>>,
         remote' \in Seq(RemoteStatus), Len(remote) <= Len(remote'),
         calls' \in Nat, events' \in Nat
  PROVE  IInv'
<1>1. PICK w : Ended(d, clean, w)
  BY Outcomes
<1>2. /\ desk[d] \in DeskRow /\ DeskSound(desk[d], refills, remote) /\ Shape
      /\ Len(remote) \in Nat
  BY DeskTypes
<1>3. w \in DeskRow /\ desk' = [desk EXCEPT ![d] = w]
  BY <1>1 DEF Ended
<1>4. Len(remote') \in Nat
  BY LenProperties, Zenon
<1>5. DeskSound(w, refills, remote') /\ ~ToRecord(w)
  <2>1. CASE w = Emptied
    BY <2>1, EmptiedSound
  <2>2. CASE w # Emptied
    <3>1. /\ w.at = "record" /\ w.made = clean /\ w.for # "customer"
          /\ w.ticket = desk[d].ticket /\ w.action = desk[d].action
          /\ w.remote = desk[d].remote /\ desk[d].for # "customer"
      BY <1>1, <2>2 DEF Ended
    <3>2. w.ticket \in Tickets
      BY <1>2, <3>1 DEF DeskSound
    <3>3. w.remote \in 0..Len(remote')
      BY <1>2, <1>4, <3>1 DEF DeskSound
    <3>4. ~clean \/ w.action # "REFILL"
      BY <1>2, <3>1 DEF DeskSound
    <3> QED
      BY <3>1, <3>2, <3>3, <3>4 DEF DeskSound, ToRecord
  <2> QED
    BY <2>1, <2>2
<1>6. ~ToRecord(desk[d])
  BY DEF ToRecord
<1>7. ticket' \in [Tickets -> TicketRow]
  BY <1>2 DEF Shape
<1> QED
  BY <1>3, <1>5, <1>6, <1>7, QuietDesk
-----------------------------------------------------------------------------
(* The steps of a request that look and leave the tables alone.            *)

LEMMA AskStep ==
  ASSUME IInv, NEW d \in Desks, NEW o \in Delivered, AskRefill(d, o)
  PROVE  IInv'
<1> DEFINE w == [[Clear EXCEPT !.order = o] EXCEPT !.at = "refill"]
<1>1. /\ desk[d] \in DeskRow /\ Shape /\ remote \in Seq(RemoteStatus)
      /\ Len(remote) \in Nat
  BY DeskTypes
<1>2. /\ desk' = [desk EXCEPT ![d] = w] /\ desk[d].at = "idle"
      /\ calls' = calls - 1 /\ calls > 0 /\ events' = events
      /\ UNCHANGED <<refills, remote, ticket, audit, poll, died>>
  BY DEF AskRefill, Moves, On, Call, supportDb
<1>3. /\ w \in DeskRow /\ w.at = "refill" /\ w.order = o /\ w.remote = 0
      /\ w.for = "customer" /\ w.ticket = NoOrder
  BY DEF Clear, DeskRow
<1> HIDE DEF w
<1>6. DeskSound(w, refills, remote)
  BY <1>1, <1>3 DEF DeskSound
<1>4. calls' \in Nat /\ events' \in Nat /\ ticket' \in [Tickets -> TicketRow]
  BY <1>1, <1>2 DEF Shape
<1>5. ~ToRecord(desk[d]) /\ ~ToRecord(w)
  BY <1>2, <1>3 DEF ToRecord
<1> QED
  BY <1>2, <1>3, <1>4, <1>5, <1>6, QuietLook

LEMMA CheckStep ==
  ASSUME IInv, NEW d \in Desks, CheckRefill(d)
  PROVE  IInv'
<1>1. /\ desk[d] \in DeskRow /\ DeskSound(desk[d], refills, remote)
      /\ Shape /\ remote \in Seq(RemoteStatus)
      /\ Len(remote) \in Nat /\ Len(refills) \in Nat
  BY DeskTypes
<1>2. /\ desk[d].at = "refill"
      /\ UNCHANGED <<refills, remote, ticket, audit, poll, died, calls, events>>
  BY DEF CheckRefill, On, supportDb
<1>3. calls' \in Nat /\ events' \in Nat /\ ticket' \in [Tickets -> TicketRow]
  BY <1>1, <1>2 DEF Shape
<1>4. CASE \E r \in DOMAIN refills : refills[r].order = desk[d].order
                                     /\ OpenRefill(r)
  <2>1. Outcome(d, FALSE)
    BY <1>4 DEF CheckRefill
  <2>2. remote' \in Seq(RemoteStatus) /\ Len(remote) <= Len(remote')
    BY <1>1, <1>2
  <2> QED
    BY <1>2, <1>3, <2>1, <2>2, EmptyOutcome
<1>5. CASE ~\E r \in DOMAIN refills : refills[r].order = desk[d].order
                                      /\ OpenRefill(r)
  <2> DEFINE to == IF desk[d].order \in linked THEN "submit" ELSE "insert"
             w == [[desk[d] EXCEPT !.seen = Len(refills)] EXCEPT !.at = to]
  <2>1. desk' = [desk EXCEPT ![d] = w]
    BY <1>5 DEF CheckRefill, Moves
  <2>2. /\ w \in DeskRow /\ w.at \in {"submit", "insert"}
        /\ w.seen = Len(refills) /\ w.order = desk[d].order
        /\ w.remote = desk[d].remote /\ w.for = desk[d].for
        /\ w.ticket = desk[d].ticket /\ w.action = desk[d].action
    BY <1>1 DEF DeskRow
  <2> HIDE DEF w
  <2>3. SettledUpTo(refills, w.order, w.seen)
    <3>1. refills \in Seq(RefillRow)
      BY <1>1 DEF Shape
    <3>2. DOMAIN refills = 1..Len(refills)
      BY <3>1, LenProperties, Zenon
    <3>3. \A r \in 1..Len(refills) : refills[r] \in RefillRow
      BY <3>1, ElementOfSeq
    <3>4. \A r \in 1..Len(refills) :
            refills[r].order = w.order => refills[r].status \in Verdicts
      BY <1>5, <2>2, <3>2, <3>3 DEF OpenRefill, RefillRow
    <3> QED
      BY <1>1, <2>2, <3>4 DEF SettledUpTo
  <2>4. DeskSound(w, refills, remote)
    BY <1>1, <1>2, <2>2, <2>3 DEF DeskSound
  <2>5. ~ToRecord(desk[d]) /\ ~ToRecord(w)
    BY <1>2, <2>2 DEF ToRecord
  <2> QED
    BY <1>2, <1>3, <2>1, <2>2, <2>4, <2>5, QuietLook
<1> QED
  BY <1>4, <1>5

LEMMA SubmitStep ==
  ASSUME IInv, NEW d \in Desks, SubmitRefill(d)
  PROVE  IInv'
<1> DEFINE w == [[desk[d] EXCEPT !.remote = Len(remote) + 1]
                   EXCEPT !.at = "insert"]
<1>1. /\ desk[d] \in DeskRow /\ DeskSound(desk[d], refills, remote)
      /\ Shape /\ remote \in Seq(RemoteStatus) /\ Len(remote) \in Nat
  BY DeskTypes
<1>2. /\ desk[d].at = "submit" /\ desk' = [desk EXCEPT ![d] = w]
      /\ remote' = Append(remote, "Pending")
      /\ UNCHANGED <<refills, ticket, audit, poll, died, calls, events>>
  BY DEF SubmitRefill, On, Moves
<1>3. remote' \in Seq(RemoteStatus) /\ Len(remote') = Len(remote) + 1
  BY <1>1, <1>2, AppendProperties DEF RemoteStatus
<1>4. /\ w \in DeskRow /\ w.at = "insert" /\ w.remote = Len(remote) + 1
      /\ w.seen = desk[d].seen /\ w.order = desk[d].order
      /\ w.for = desk[d].for /\ w.ticket = desk[d].ticket
      /\ w.action = desk[d].action
  <2>1. Len(remote) + 1 \in Nat /\ desk[d] \in DeskRow
    BY <1>1
  <2> QED
    BY <2>1 DEF DeskRow
<1> HIDE DEF w
<1>5. DeskSound(w, refills, remote')
  BY <1>1, <1>2, <1>3, <1>4 DEF DeskSound
<1>6. ~ToRecord(desk[d]) /\ ~ToRecord(w)
  BY <1>2, <1>4 DEF ToRecord
<1>7. calls' \in Nat /\ events' \in Nat /\ ticket' \in [Tickets -> TicketRow]
  BY <1>1, <1>2 DEF Shape
<1>8. Len(remote) <= Len(remote')
  BY <1>1, <1>3
<1> QED
  BY <1>2, <1>3, <1>4, <1>5, <1>6, <1>7, <1>8, QuietDesk

LEMMA SubmitFailsStep ==
  ASSUME IInv, NEW d \in Desks, NEW taken \in BOOLEAN, SubmitFails(d, taken)
  PROVE  IInv'
<1>1. Shape /\ remote \in Seq(RemoteStatus) /\ Len(remote) \in Nat
  BY DeskTypes
<1>2. /\ desk[d].at = "submit" /\ Outcome(d, FALSE)
      /\ events > 0 /\ events' = events - 1 /\ calls' = calls
      /\ UNCHANGED <<refills, ticket, audit, poll, died>>
  BY DEF SubmitFails, On, Event
<1>3. remote' \in Seq(RemoteStatus) /\ Len(remote) <= Len(remote')
  <2>1. CASE taken
    <3>1. remote' = Append(remote, "Pending")
      BY <2>1 DEF SubmitFails
    <3>2. remote' \in Seq(RemoteStatus) /\ Len(remote') = Len(remote) + 1
      BY <1>1, <3>1, AppendProperties DEF RemoteStatus
    <3> QED
      BY <1>1, <3>2
  <2>2. CASE ~taken
    BY <1>1, <2>2 DEF SubmitFails
  <2> QED
    BY <2>1, <2>2
<1>4. calls' \in Nat /\ events' \in Nat
  BY <1>1, <1>2 DEF Shape
<1> QED
  BY <1>2, <1>3, <1>4, EmptyOutcome

LEMMA OtherStep ==
  ASSUME IInv, NEW d \in Desks, NEW clean \in BOOLEAN, OtherAction(d, clean)
  PROVE  IInv'
<1>1. Shape /\ remote \in Seq(RemoteStatus) /\ Len(remote) \in Nat
  BY DeskTypes
<1>2. /\ desk[d].at = "act" /\ Outcome(d, clean)
      /\ UNCHANGED <<refills, remote, ticket, audit, poll, died, calls, events>>
  BY DEF OtherAction, On, supportDb
<1>3. calls' \in Nat /\ events' \in Nat
  BY <1>1, <1>2 DEF Shape
<1> QED
  BY <1>1, <1>2, <1>3, EmptyOutcome

LEMMA OpenStep ==
  ASSUME IInv, NEW d \in Desks, NEW r \in DOMAIN refills, OpenForVerdict(d, r)
  PROVE  IInv'
<1> DEFINE w == [[Clear EXCEPT !.refill = r] EXCEPT !.at = "resolve"]
<1>1. Shape /\ Len(remote) \in Nat /\ Len(refills) \in Nat
  BY DeskTypes
<1>2. /\ desk' = [desk EXCEPT ![d] = w] /\ desk[d].at = "idle"
      /\ calls' = calls - 1 /\ calls > 0 /\ events' = events
      /\ UNCHANGED <<refills, remote, ticket, audit, poll, died>>
  BY DEF OpenForVerdict, Moves, On, Call, supportDb
<1>3. r \in 1..Len(refills) /\ r \in Nat
  <2>1. DOMAIN refills = 1..Len(refills)
    BY <1>1, LenProperties, Zenon DEF Shape
  <2> QED
    BY <1>1, <2>1
<1>4. w \in DeskRow /\ w.at = "resolve" /\ w.refill = r /\ w.remote = 0
  BY <1>3 DEF Clear, DeskRow
<1> HIDE DEF w
<1>5. DeskSound(w, refills, remote)
  BY <1>1, <1>3, <1>4 DEF DeskSound
<1>6. calls' \in Nat /\ events' \in Nat /\ ticket' \in [Tickets -> TicketRow]
  BY <1>1, <1>2 DEF Shape
<1>7. ~ToRecord(desk[d]) /\ ~ToRecord(w)
  BY <1>2, <1>4 DEF ToRecord
<1> QED
  BY <1>2, <1>4, <1>5, <1>6, <1>7, QuietLook
-----------------------------------------------------------------------------
(* Tickets.                                                                *)

LEMMA TicketMoves ==
  ASSUME Shape, NEW t \in Tickets,
         NEW s \in HandStatuses \cup {"NEW", "AI_PROCESSING", "PENDING_ADMIN",
                     "RESOLVED", "ESCALATED", "REPLIED", "IN_PROGRESS"}
  PROVE  /\ [ticket EXCEPT ![t].status = s] \in [Tickets -> TicketRow]
         /\ \A O \in SUBSET Delivered :
              [ticket EXCEPT ![t] = [status |-> s, orders |-> O]]
                \in [Tickets -> TicketRow]
BY DEF Shape, TicketRow

(* What the engine may do for a customer who writes; "" is nothing.       *)
Actions == {"", "REFILL", "OTHER"}

LEMMA WriteStep ==
  ASSUME IInv, NEW d \in Desks, NEW t \in Tickets, NEW a \in Actions,
         NEW O \in SUBSET Delivered, Write(d, t, a, O)
  PROVE  IInv'
<1> DEFINE w == [[Clear EXCEPT !.ticket = t, !.action = a, !.todo = O,
                               !.orders = ticket[t].orders \cup O]
                   EXCEPT !.at = "post"]
<1>1. Shape /\ Len(remote) \in Nat
  BY DeskTypes
<1>7. ticket[t].orders \cup O \in SUBSET Delivered
  BY <1>1 DEF Shape, TicketRow
<1>2. /\ desk' = [desk EXCEPT ![d] = w] /\ desk[d].at = "idle"
      /\ calls' = calls - 1 /\ calls > 0 /\ events' = events
      /\ UNCHANGED <<refills, remote, ticket, audit, poll, died>>
  BY DEF Write, Moves, On, Call, supportDb
<1>3. w \in DeskRow /\ w.at = "post" /\ w.ticket = t /\ w.remote = 0
  BY <1>7 DEF Clear, DeskRow, Actions
<1> HIDE DEF w
<1>4. DeskSound(w, refills, remote)
  BY <1>1, <1>3 DEF DeskSound
<1>5. calls' \in Nat /\ events' \in Nat /\ ticket' \in [Tickets -> TicketRow]
  BY <1>1, <1>2 DEF Shape
<1>6. ~ToRecord(desk[d]) /\ ~ToRecord(w)
  BY <1>2, <1>3 DEF ToRecord
<1> QED
  BY <1>2, <1>3, <1>4, <1>5, <1>6, QuietLook

LEMMA PostEngineStep ==
  ASSUME IInv, NEW d \in Desks, PostForEngine(d)
  PROVE  IInv'
<1> DEFINE w == [[desk[d] EXCEPT !.for = "engine", !.orders = {}]
                   EXCEPT !.at = "next"]
<1>1. /\ desk[d] \in DeskRow /\ DeskSound(desk[d], refills, remote) /\ Shape
  BY DeskTypes
<1>2. /\ desk' = [desk EXCEPT ![d] = w] /\ desk[d].at = "post"
      /\ ticket' = [ticket EXCEPT ![desk[d].ticket] =
            [status |-> "AI_PROCESSING", orders |-> desk[d].orders]]
      /\ UNCHANGED <<refills, remote, audit, poll, died, calls, events>>
  BY DEF PostForEngine, Moves, On
<1>3. /\ w \in DeskRow /\ w.at = "next" /\ w.for = "engine"
      /\ w.ticket = desk[d].ticket /\ w.remote = desk[d].remote
  BY <1>1 DEF DeskRow
<1> HIDE DEF w
<1>4. DeskSound(w, refills, remote)
  BY <1>1, <1>2, <1>3 DEF DeskSound
<1>5. desk[d].ticket \in Tickets /\ desk[d].orders \in SUBSET Delivered
  BY <1>1, <1>2 DEF DeskSound, DeskRow
<1>6. ticket' \in [Tickets -> TicketRow]
  BY <1>1, <1>2, <1>5, TicketMoves
<1>7. calls' \in Nat /\ events' \in Nat
  BY <1>1, <1>2 DEF Shape
<1>8. ~ToRecord(desk[d]) /\ ~ToRecord(w)
  BY <1>2, <1>3 DEF ToRecord
<1> QED
  BY <1>2, <1>3, <1>4, <1>6, <1>7, <1>8, QuietLook

(* A request ends in the ticket's status. *)
LEMMA AnswerStep ==
  ASSUME IInv, NEW d \in Desks, desk[d].at \in {"post", "next"},
         NEW s \in {"PENDING_ADMIN", "RESOLVED", "ESCALATED"},
         ticket' = [ticket EXCEPT ![desk[d].ticket].status = s],
         Moves(d, "idle", Clear),
         UNCHANGED <<refills, remote, audit, poll, died, calls, events>>
  PROVE  IInv'
<1>1. /\ desk[d] \in DeskRow /\ DeskSound(desk[d], refills, remote) /\ Shape
      /\ remote \in Seq(RemoteStatus)
  BY DeskTypes
<1>2. desk[d].ticket \in Tickets
  BY <1>1 DEF DeskSound
<1>3. ticket' \in [Tickets -> TicketRow]
  BY <1>1, <1>2, TicketMoves
<1>4. desk' = [desk EXCEPT ![d] = Emptied]
  BY DEF Moves, Emptied
<1>5. calls' \in Nat /\ events' \in Nat
  BY <1>1 DEF Shape
<1>6. /\ ~ToRecord(desk[d]) /\ ~ToRecord(Emptied)
      /\ DeskSound(Emptied, refills, remote) /\ Emptied \in DeskRow
  BY <1>1, EmptiedRow, EmptiedSound DEF ToRecord
<1> QED
  BY <1>3, <1>4, <1>5, <1>6, QuietLook

LEMMA PostAgentStep ==
  ASSUME IInv, NEW d \in Desks, PostForAgent(d)
  PROVE  IInv'
BY AnswerStep DEF PostForAgent, On

LEMMA FinishStep ==
  ASSUME IInv, NEW d \in Desks, FinishRun(d)
  PROVE  IInv'
<1> DEFINE s == IF desk[d].clean THEN "RESOLVED" ELSE "ESCALATED"
<1>1. s \in {"PENDING_ADMIN", "RESOLVED", "ESCALATED"}
  OBVIOUS
<1>2. /\ ticket' = [ticket EXCEPT ![desk[d].ticket].status = s]
      /\ desk[d].at = "next" /\ Moves(d, "idle", Clear)
      /\ UNCHANGED <<refills, remote, audit, poll, died, calls, events>>
  BY DEF FinishRun, On
<1> HIDE DEF s
<1> QED
  BY <1>1, <1>2, AnswerStep

LEMMA NextOrderStep ==
  ASSUME IInv, NEW d \in Desks, NEW o \in Delivered, NextOrder(d, o)
  PROVE  IInv'
<1> DEFINE to == IF desk[d].action = "REFILL" THEN "refill" ELSE "act"
           w == [[desk[d] EXCEPT !.order = o, !.todo = @ \ {o},
                                 !.remote = 0, !.seen = 0] EXCEPT !.at = to]
<1>1. /\ desk[d] \in DeskRow /\ DeskSound(desk[d], refills, remote) /\ Shape
      /\ Len(remote) \in Nat
  BY DeskTypes
<1>2. /\ desk' = [desk EXCEPT ![d] = w] /\ desk[d].at = "next"
      /\ UNCHANGED <<refills, remote, ticket, audit, poll, died, calls, events>>
  BY DEF NextOrder, Moves, On, supportDb
<1>3. /\ w \in DeskRow /\ w.at = to /\ w.order = o /\ w.remote = 0
      /\ w.for = desk[d].for /\ w.ticket = desk[d].ticket
      /\ w.action = desk[d].action
  BY <1>1 DEF DeskRow
<1> HIDE DEF w
<1>4. DeskSound(w, refills, remote)
  BY <1>1, <1>2, <1>3 DEF DeskSound
<1>5. ~ToRecord(desk[d]) /\ ~ToRecord(w)
  BY <1>2, <1>3 DEF ToRecord
<1>6. calls' \in Nat /\ events' \in Nat /\ ticket' \in [Tickets -> TicketRow]
  BY <1>1, <1>2 DEF Shape
<1> QED
  BY <1>2, <1>3, <1>4, <1>5, <1>6, QuietLook

LEMMA AgentStep ==
  ASSUME IInv, NEW d \in Desks, NEW t \in Tickets, NEW a \in {"REFILL", "OTHER"},
         NEW o \in Delivered, AgentAction(d, t, a, o)
  PROVE  IInv'
<1> DEFINE to == IF a = "REFILL" THEN "refill" ELSE "act"
           w == [[Clear EXCEPT !.for = "agent", !.ticket = t, !.action = a,
                               !.order = o] EXCEPT !.at = to]
<1>1. Shape /\ Len(remote) \in Nat
  BY DeskTypes
<1>2. /\ desk' = [desk EXCEPT ![d] = w] /\ desk[d].at = "idle"
      /\ calls' = calls - 1 /\ calls > 0 /\ events' = events
      /\ UNCHANGED <<refills, remote, ticket, audit, poll, died>>
  BY DEF AgentAction, Moves, On, Call, supportDb
<1>3. /\ w \in DeskRow /\ w.at = to /\ w.order = o /\ w.remote = 0
      /\ w.for = "agent" /\ w.ticket = t /\ w.action = a
  BY DEF Clear, DeskRow
<1> HIDE DEF w
<1>4. DeskSound(w, refills, remote)
  BY <1>1, <1>3 DEF DeskSound
<1>5. ~ToRecord(desk[d]) /\ ~ToRecord(w)
  BY <1>2, <1>3 DEF ToRecord
<1>6. calls' \in Nat /\ events' \in Nat /\ ticket' \in [Tickets -> TicketRow]
  BY <1>1, <1>2 DEF Shape
<1> QED
  BY <1>2, <1>3, <1>4, <1>5, <1>6, QuietLook

LEMMA SetTicketStep ==
  ASSUME IInv, NEW t \in Tickets, NEW s \in HandStatuses, SetTicket(t, s)
  PROVE  IInv'
<1>1. Shape /\ refills \in Seq(RefillRow) /\ remote \in Seq(RemoteStatus)
  BY DEF IInv, Shape
<1>2. /\ ticket' = [ticket EXCEPT ![t].status = s]
      /\ calls' = calls - 1 /\ calls > 0 /\ events' = events
      /\ UNCHANGED <<refills, remote, audit, desk, poll, died>>
  BY DEF SetTicket, Call
<1>3. ticket' \in [Tickets -> TicketRow]
  BY <1>1, <1>2, TicketMoves
<1>4. Shape'
  BY <1>1, <1>2, <1>3 DEF Shape
<1>5. \A u \in Tickets \ died' : Told(u)'
  BY <1>2 DEF IInv, Told, OpenedFor, RecordingFor
<1> QED
  BY <1>2, <1>4, <1>5 DEF IInv
-----------------------------------------------------------------------------
(* A refill is inserted, and recorded.                                     *)

(* The sets that Told counts, when one member comes or goes.               *)
LEMMA CountStep ==
  ASSUME Shape, NEW t
  PROVE  /\ Cardinality(OpenedFor(t)) \in Nat
         /\ Cardinality(RecordingFor(t)) \in Nat
         /\ \A x : x \notin OpenedFor(t) =>
              Cardinality(OpenedFor(t) \cup {x}) = Cardinality(OpenedFor(t)) + 1
         /\ \A x : x \notin RecordingFor(t) =>
              Cardinality(RecordingFor(t) \cup {x}) =
                Cardinality(RecordingFor(t)) + 1
         /\ \A x : x \in RecordingFor(t) =>
              Cardinality(RecordingFor(t) \ {x}) =
                Cardinality(RecordingFor(t)) - 1
<1>1. IsFiniteSet(OpenedFor(t)) /\ IsFiniteSet(RecordingFor(t))
  BY FiniteSides
<1>2. /\ Cardinality(OpenedFor(t)) \in Nat
      /\ Cardinality(RecordingFor(t)) \in Nat
  BY <1>1, FS_CardinalityType
<1>3. \A x : x \notin OpenedFor(t) =>
        Cardinality(OpenedFor(t) \cup {x}) = Cardinality(OpenedFor(t)) + 1
  BY <1>1, FS_AddElement
<1>4. \A x : x \notin RecordingFor(t) =>
        Cardinality(RecordingFor(t) \cup {x}) = Cardinality(RecordingFor(t)) + 1
  BY <1>1, FS_AddElement
<1>5. \A x : x \in RecordingFor(t) =>
        Cardinality(RecordingFor(t) \ {x}) = Cardinality(RecordingFor(t)) - 1
  BY <1>1, FS_RemoveElement
<1> QED
  BY <1>2, <1>3, <1>4, <1>5

LEMMA InsertStep ==
  ASSUME IInv, NEW d \in Desks, InsertRefill(d)
  PROVE  IInv'
<1> DEFINE n == Len(refills) + 1
           row == [order |-> desk[d].order, remote |-> desk[d].remote,
                   ticket |-> desk[d].ticket, seen |-> desk[d].seen,
                   status |-> IF desk[d].remote # 0 THEN "IN_PROGRESS"
                                                    ELSE "REQUESTED"]
<1>1. /\ desk[d] \in DeskRow /\ DeskSound(desk[d], refills, remote) /\ Shape
      /\ remote \in Seq(RemoteStatus) /\ Len(remote) \in Nat
      /\ Len(refills) \in Nat /\ refills \in Seq(RefillRow)
  BY DeskTypes DEF Shape
<1>2. /\ desk[d].at = "insert" /\ Outcome(d, TRUE)
      /\ refills' = Append(refills, row)
      /\ UNCHANGED <<remote, ticket, audit, poll, died, calls, events>>
  BY DEF InsertRefill, On
<1>3. /\ desk[d].order \in Delivered /\ desk[d].seen \in Nat
      /\ SettledUpTo(refills, desk[d].order, desk[d].seen)
      /\ desk[d].remote \in 0..Len(remote)
      /\ desk[d].ticket \in Tickets \cup {NoOrder}
      /\ IF desk[d].for = "customer" THEN desk[d].ticket = NoOrder
         ELSE desk[d].ticket \in Tickets /\ desk[d].action = "REFILL"
  BY <1>1, <1>2 DEF DeskSound, DeskRow
<1>4. row \in RefillRow
  BY <1>1, <1>3 DEF RefillRow
<1>5. /\ row.order = desk[d].order /\ row.seen = desk[d].seen
      /\ row.remote = desk[d].remote /\ row.ticket = desk[d].ticket
  OBVIOUS
<1> HIDE DEF row
<1>6. /\ refills' \in Seq(RefillRow) /\ Len(refills') = n
      /\ refills'[n] = row
      /\ \A r \in 1..Len(refills) : refills'[r] = refills[r]
      /\ Grows(refills, refills')
  BY <1>1, <1>2, <1>4, AddedRow
<1>7. PICK w : Ended(d, TRUE, w)
  BY <1>2, Outcomes
<1>8. /\ desk' \in [Desks -> DeskRow] /\ desk'[d] = w
      /\ \A q \in Desks : q # d => desk'[q] = desk[q]
  BY <1>1, <1>7, DeskMoves DEF Ended
<1>9. Shape'
  BY <1>1, <1>2, <1>6, <1>8 DEF Shape
<1>10. RefillSound(refills'[n], refills', remote')
  <2>1. SettledUpTo(refills', desk[d].order, desk[d].seen)
    BY <1>1, <1>3, <1>6, StillSettled
  <2> QED
    BY <1>2, <1>3, <1>5, <1>6, <2>1 DEF RefillSound
<1>11. DeskSound(w, refills', remote')
  <2>1. CASE w = Emptied
    BY <1>1, <1>2, <2>1, EmptiedSound
  <2>2. CASE w # Emptied
    BY <1>2, <1>3, <1>7, <2>2 DEF Ended, DeskSound
  <2> QED
    BY <2>1, <2>2
<1>12. ASSUME NEW t \in Tickets \ died'
       PROVE  Told(t)'
  <2>1. Told(t) /\ audit' = audit
    BY <1>2 DEF IInv
  <2>2. DOMAIN refills = 1..Len(refills) /\ DOMAIN refills' = 1..n
    BY <1>1, <1>6, LenProperties, Zenon
  <2>3. ~ToRecord(desk[d])
    BY <1>2 DEF ToRecord
  <2>4. CASE desk[d].ticket = t
    <3>1. desk[d].for # "customer"
      BY <1>3, <2>4, TicketsAssumption
    <3>2. ToRecord(w) /\ w.ticket = t
      BY <1>3, <1>7, <2>4, <3>1 DEF Ended, ToRecord
    <3>3. OpenedFor(t)' = OpenedFor(t) \cup {n} /\ n \notin OpenedFor(t)
      BY <1>1, <1>5, <1>6, <2>2, <2>4 DEF OpenedFor
    <3>4. RecordingFor(t)' = RecordingFor(t) \cup {d} /\ d \notin RecordingFor(t)
      BY <1>8, <2>3, <3>2 DEF RecordingFor
    <3>5. audit[t] \in Nat
      BY <1>1 DEF Shape
    <3> QED
      BY <1>1, <2>1, <3>3, <3>4, <3>5, CountStep, SMTT(30) DEF Told
  <2>5. CASE desk[d].ticket # t
    <3>1. OpenedFor(t)' = OpenedFor(t)
      BY <1>1, <1>5, <1>6, <2>2, <2>5 DEF OpenedFor
    <3>2. w.ticket # t \/ ~ToRecord(w)
      BY <1>1, <1>7, <2>5, EmptiedSound DEF Ended
    <3>3. RecordingFor(t)' = RecordingFor(t)
      BY <1>8, <2>3, <3>2 DEF RecordingFor
    <3> QED
      BY <2>1, <3>1, <3>3 DEF Told
  <2> QED
    BY <2>4, <2>5
<1>13. \A r \in 1..Len(refills') : \/ r \in 1..Len(refills)
                                   \/ RefillSound(refills'[r], refills', remote')
  BY <1>1, <1>6, <1>10
<1>14. \A q \in Desks : \/ desk'[q] = desk[q]
                        \/ DeskSound(desk'[q], refills', remote')
  BY <1>8, <1>11
<1>15. Len(remote) <= Len(remote') /\ \A l \in Polls : poll'[l] = poll[l]
  BY <1>1, <1>2
<1> QED
  BY <1>6, <1>9, <1>12, <1>13, <1>14, <1>15, SoundStep

(* The audit row of an action and the desk that goes on without it.        *)
LEMMA AuditStep ==
  ASSUME IInv, NEW d \in Desks, NEW w \in DeskRow,
         desk' = [desk EXCEPT ![d] = w], desk[d].at = "record",
         audit' = Recorded(d), ticket' \in [Tickets -> TicketRow],
         UNCHANGED <<refills, remote, poll, died, calls, events>>,
         DeskSound(w, refills, remote), ~ToRecord(w)
  PROVE  IInv'
<1>1. /\ desk[d] \in DeskRow /\ DeskSound(desk[d], refills, remote) /\ Shape
      /\ remote \in Seq(RemoteStatus) /\ Len(remote) \in Nat
      /\ refills \in Seq(RefillRow)
  BY DeskTypes DEF Shape
<1>2. /\ desk' \in [Desks -> DeskRow] /\ desk'[d] = w
      /\ \A q \in Desks : q # d => desk'[q] = desk[q]
  BY <1>1, DeskMoves
<1>3. desk[d].ticket \in Tickets /\ audit \in [Tickets -> Nat]
  BY <1>1 DEF DeskSound, Shape
<1>4. /\ audit' \in [Tickets -> Nat]
      /\ \A t \in Tickets :
           audit'[t] = IF t = desk[d].ticket /\ ToRecord(desk[d])
                       THEN audit[t] + 1 ELSE audit[t]
  BY <1>3 DEF Recorded, ToRecord
<1>5. Shape'
  BY <1>1, <1>2, <1>4 DEF Shape
<1>6. ASSUME NEW t \in Tickets \ died'
      PROVE  Told(t)'
  <2>1. Told(t) /\ OpenedFor(t)' = OpenedFor(t) /\ audit[t] \in Nat
    BY <1>3 DEF IInv, OpenedFor
  <2>2. CASE t = desk[d].ticket /\ ToRecord(desk[d])
    <3>1. RecordingFor(t)' = RecordingFor(t) \ {d} /\ d \in RecordingFor(t)
      BY <1>2, <2>2 DEF RecordingFor
    <3>2. audit'[t] = audit[t] + 1
      BY <1>4, <2>2
    <3> QED
      BY <1>1, <2>1, <3>1, <3>2, CountStep DEF Told
  <2>3. CASE ~(t = desk[d].ticket /\ ToRecord(desk[d]))
    <3>1. RecordingFor(t)' = RecordingFor(t)
      BY <1>2, <2>3 DEF RecordingFor
    <3>2. audit'[t] = audit[t]
      BY <1>4, <2>3
    <3> QED
      BY <2>1, <3>1, <3>2 DEF Told
  <2> QED
    BY <2>2, <2>3
<1>7. Grows(refills, refills') /\ Len(remote) <= Len(remote')
  BY <1>1, SameGrows
<1>8. \A q \in Desks : \/ desk'[q] = desk[q]
                       \/ DeskSound(desk'[q], refills', remote')
  BY <1>2
<1> QED
  BY <1>5, <1>6, <1>7, <1>8, SoundStep

LEMMA RecordStep ==
  ASSUME IInv, NEW d \in Desks, RecordAction(d)
  PROVE  IInv'
<1> DEFINE w == [[desk[d] EXCEPT !.clean = @ /\ desk[d].made, !.made = FALSE,
                                 !.order = NoOrder] EXCEPT !.at = "next"]
<1>1. /\ desk[d] \in DeskRow /\ DeskSound(desk[d], refills, remote) /\ Shape
  BY DeskTypes
<1>2. /\ desk' = [desk EXCEPT ![d] = w] /\ desk[d].at = "record"
      /\ audit' = Recorded(d)
      /\ UNCHANGED <<refills, remote, ticket, poll, died, calls, events>>
  BY DEF RecordAction, Moves, On
<1>3. /\ w \in DeskRow /\ w.at = "next" /\ w.for = desk[d].for
      /\ w.ticket = desk[d].ticket /\ w.remote = desk[d].remote
  BY <1>1 DEF DeskRow
<1> HIDE DEF w
<1>4. DeskSound(w, refills, remote) /\ ~ToRecord(w)
  BY <1>1, <1>2, <1>3 DEF DeskSound, ToRecord
<1>5. ticket' \in [Tickets -> TicketRow]
  BY <1>1, <1>2 DEF Shape
<1> QED
  BY <1>2, <1>3, <1>4, <1>5, AuditStep

LEMMA ReportStep ==
  ASSUME IInv, NEW d \in Desks, ReportAction(d)
  PROVE  IInv'
<1> DEFINE s == IF desk[d].made THEN "REPLIED" ELSE "IN_PROGRESS"
<1>1. /\ desk[d] \in DeskRow /\ DeskSound(desk[d], refills, remote) /\ Shape
      /\ remote \in Seq(RemoteStatus)
  BY DeskTypes
<1>2. /\ desk' = [desk EXCEPT ![d] = Emptied] /\ desk[d].at = "record"
      /\ audit' = Recorded(d)
      /\ ticket' = [ticket EXCEPT ![desk[d].ticket].status = s]
      /\ UNCHANGED <<refills, remote, poll, died, calls, events>>
  BY DEF ReportAction, Moves, On, Emptied
<1>3. s \in {"REPLIED", "IN_PROGRESS"} /\ desk[d].ticket \in Tickets
  BY <1>1, <1>2 DEF DeskSound
<1> HIDE DEF s
<1>4. ticket' \in [Tickets -> TicketRow]
  BY <1>1, <1>2, <1>3, TicketMoves
<1>5. /\ DeskSound(Emptied, refills, remote) /\ ~ToRecord(Emptied)
      /\ Emptied \in DeskRow
  BY <1>1, EmptiedSound, EmptiedRow
<1> QED
  BY <1>2, <1>4, <1>5, AuditStep
-----------------------------------------------------------------------------
(* Verdicts.                                                               *)

(* A row gets a verdict; nothing is opened or recorded.                    *)
LEMMA VerdictStep ==
  ASSUME IInv, NEW r \in 1..Len(refills), NEW v \in Verdicts,
         refills' = [refills EXCEPT ![r].status = v],
         desk' \in [Desks -> DeskRow], poll' \in [Polls -> PollRow],
         \A q \in Desks : \/ desk'[q] = desk[q]
                          \/ /\ desk'[q] = Emptied /\ ~ToRecord(desk[q]),
         \A l \in Polls : poll'[l] = poll[l] \/ PollSound(poll'[l], refills),
         UNCHANGED <<remote, ticket, audit, died, calls, events>>
  PROVE  IInv'
<1>1. /\ Shape /\ refills \in Seq(RefillRow) /\ remote \in Seq(RemoteStatus)
  BY DEF IInv, Shape
<1>2. Len(refills) \in Nat /\ Len(remote) \in Nat
  BY <1>1, LenProperties, Zenon
<1>3. /\ refills' \in Seq(RefillRow) /\ Len(refills') = Len(refills)
      /\ Grows(refills, refills')
      /\ \A i \in 1..Len(refills) : refills'[i].ticket = refills[i].ticket
  <2>1. \A S : S = [refills EXCEPT ![r].status = v] =>
          /\ S \in Seq(RefillRow) /\ Len(S) = Len(refills) /\ Grows(refills, S)
          /\ \A i \in 1..Len(refills) : S[i].ticket = refills[i].ticket
    BY <1>1, RowSettles
  <2> QED
    BY <2>1, Zenon
<1>4. Shape'
  BY <1>1, <1>3 DEF Shape
<1>5. \A l \in Polls : poll'[l] = poll[l] \/ PollSound(poll'[l], refills')
  <2>1. Len(remote) <= Len(remote)
    BY <1>2
  <2>2. \A k : PollSound(k, refills) => PollSound(k, refills')
    BY <1>1, <1>3, <2>1, StillSound
  <2> QED
    BY <2>2
<1>6. \A q \in Desks : desk'[q] = desk[q] \/ DeskSound(desk'[q], refills', remote')
  BY <1>1, EmptiedSound
<1>7. \A t : OpenedFor(t)' = OpenedFor(t)
  <2>1. DOMAIN refills = 1..Len(refills) /\ DOMAIN refills' = 1..Len(refills')
    BY <1>1, <1>3, LenProperties, Zenon
  <2> QED
    BY <1>3, <2>1 DEF OpenedFor
<1>8. \A t : RecordingFor(t)' = RecordingFor(t)
  BY <1>1, EmptiedSound DEF RecordingFor
<1>9. \A t \in Tickets \ died' : Told(t)'
  BY <1>7, <1>8, ToldStays
<1>10. Len(remote) <= Len(remote')
  BY <1>2
<1>11. \A i \in 1..Len(refills') : i \in 1..Len(refills)
  BY <1>3
<1> QED
  BY <1>3, <1>4, <1>5, <1>6, <1>9, <1>10, <1>11, SoundStep

LEMMA PollRows ==
  ASSUME IInv, NEW l \in Polls
  PROVE  /\ poll[l] \in PollRow /\ PollSound(poll[l], refills)
         /\ Shape /\ refills \in Seq(RefillRow) /\ remote \in Seq(RemoteStatus)
         /\ Len(refills) \in Nat /\ Len(remote) \in Nat
         /\ DOMAIN refills = 1..Len(refills)
<1>1. /\ Shape /\ refills \in Seq(RefillRow) /\ remote \in Seq(RemoteStatus)
  BY DEF IInv, Shape
<1>2. /\ Len(refills) \in Nat /\ Len(remote) \in Nat
      /\ DOMAIN refills = 1..Len(refills)
  BY <1>1, LenProperties, Zenon
<1> QED
  BY <1>1, <1>2 DEF IInv, Shape

LEMMA SaveStep ==
  ASSUME IInv, NEW l \in Polls, SaveRefill(l)
  PROVE  IInv'
<1> DEFINE k == [poll[l] EXCEPT !.refill = 0, !.verdict = NoVerdict]
           r == poll[l].refill
           v == poll[l].verdict
<1>1. /\ poll[l] \in PollRow /\ PollSound(poll[l], refills) /\ Shape
  BY PollRows
<1>2. /\ r # 0 /\ refills' = [refills EXCEPT ![r].status = v]
      /\ poll' = [poll EXCEPT ![l] = k]
      /\ UNCHANGED <<remote, ticket, audit, desk, died, calls, events>>
  BY DEF SaveRefill, NoVerdict
<1>3. k \in PollRow /\ k.todo = poll[l].todo /\ k.refill = 0
  BY <1>1 DEF PollRow
<1>4. r \in 1..Len(refills) /\ v \in Verdicts
  BY <1>1, <1>2 DEF PollSound
<1> HIDE DEF k, r, v
<1>5. /\ poll' \in [Polls -> PollRow] /\ poll'[l] = k
      /\ \A m \in Polls : m # l => poll'[m] = poll[m]
  BY <1>1, <1>2, <1>3 DEF Shape
<1>6. PollSound(k, refills)
  BY <1>1, <1>3 DEF PollSound
<1>7. \A m \in Polls : poll'[m] = poll[m] \/ PollSound(poll'[m], refills)
  BY <1>5, <1>6
<1>8. desk' \in [Desks -> DeskRow] /\ \A q \in Desks : desk'[q] = desk[q]
  BY <1>1, <1>2 DEF Shape
<1> QED
  BY <1>2, <1>4, <1>5, <1>7, <1>8, VerdictStep

LEMMA ResolveStep ==
  ASSUME IInv, NEW d \in Desks, NEW v \in Verdicts, ResolveRefill(d, v)
  PROVE  IInv'
<1> DEFINE r == desk[d].refill
<1>1. /\ desk[d] \in DeskRow /\ DeskSound(desk[d], refills, remote) /\ Shape
  BY DeskTypes
<1>2. /\ desk[d].at = "resolve" /\ desk' = [desk EXCEPT ![d] = Emptied]
      /\ refills' = [refills EXCEPT ![r].status = v]
      /\ UNCHANGED <<remote, ticket, audit, poll, died, calls, events>>
  BY DEF ResolveRefill, Moves, On, Emptied
<1>3. r \in 1..Len(refills)
  BY <1>1, <1>2 DEF DeskSound
<1> HIDE DEF r
<1>4. /\ desk' \in [Desks -> DeskRow] /\ desk'[d] = Emptied
      /\ \A q \in Desks : q # d => desk'[q] = desk[q]
  BY <1>1, <1>2, EmptiedRow, DeskMoves
<1>5. ~ToRecord(desk[d])
  BY <1>2 DEF ToRecord
<1>6. poll' \in [Polls -> PollRow] /\ \A l \in Polls : poll'[l] = poll[l]
  BY <1>1, <1>2 DEF Shape
<1>7. \A q \in Desks : \/ desk'[q] = desk[q]
                       \/ /\ desk'[q] = Emptied /\ ~ToRecord(desk[q])
  BY <1>4, <1>5
<1> QED
  BY <1>2, <1>3, <1>4, <1>6, <1>7, VerdictStep

(* A tick looks and leaves the tables alone. *)
LEMMA QuietPoll ==
  ASSUME IInv, NEW l \in Polls, NEW k \in PollRow, poll' = [poll EXCEPT ![l] = k],
         PollSound(k, refills),
         UNCHANGED <<supportDb, desk, died, calls, events>>
  PROVE  IInv'
<1>1. Shape
  BY DEF IInv
<1>2. /\ poll' \in [Polls -> PollRow] /\ poll'[l] = k
      /\ \A m \in Polls : m # l => poll'[m] = poll[m]
  BY <1>1 DEF Shape
<1>3. Shape'
  BY <1>1, <1>2 DEF Shape, supportDb
<1>4. \A t \in Tickets \ died' : Told(t)'
  BY DEF IInv, Told, OpenedFor, RecordingFor, supportDb
<1>5. \A m \in Polls : PollSound(poll'[m], refills)
  BY <1>2 DEF IInv
<1> QED
  BY <1>3, <1>4, <1>5 DEF IInv, supportDb

LEMMA ListStep ==
  ASSUME IInv, NEW l \in Polls, ListRefills(l)
  PROVE  IInv'
<1> DEFINE found == {r \in DOMAIN refills : refills[r].status = "IN_PROGRESS"
                                            /\ refills[r].remote # 0
                                            /\ refills[r].order \in linked}
           k == [poll[l] EXCEPT !.todo = found]
<1>1. /\ poll[l] \in PollRow /\ PollSound(poll[l], refills)
      /\ Len(refills) \in Nat /\ DOMAIN refills = 1..Len(refills)
  BY PollRows
<1>2. /\ poll' = [poll EXCEPT ![l] = k] /\ poll[l].refill = 0
      /\ UNCHANGED <<supportDb, desk, died, calls, events>>
  BY DEF ListRefills
<1>3. /\ found \subseteq 1..Len(refills) /\ found \in SUBSET Nat
      /\ \A r \in found : refills[r].remote # 0
  BY <1>1
<1> HIDE DEF found
<1>4. k \in PollRow /\ k.todo = found /\ k.refill = poll[l].refill
  BY <1>1, <1>3 DEF PollRow
<1> HIDE DEF k
<1>5. PollSound(k, refills)
  BY <1>2, <1>3, <1>4 DEF PollSound
<1> QED
  BY <1>2, <1>4, <1>5, QuietPoll

LEMMA PollStepInv ==
  ASSUME IInv, NEW l \in Polls, NEW r \in DOMAIN refills, PollRefill(l, r)
  PROVE  IInv'
<1> DEFINE s == MappedRefill(remote[refills[r].remote])
           left == poll[l].todo \ {r}
<1>1. /\ poll[l] \in PollRow /\ PollSound(poll[l], refills) /\ Shape
      /\ Len(refills) \in Nat /\ Len(remote) \in Nat
      /\ DOMAIN refills = 1..Len(refills)
      /\ refills \in Seq(RefillRow) /\ remote \in Seq(RemoteStatus)
  BY PollRows
<1>2. /\ poll[l].refill = 0 /\ r \in poll[l].todo
      /\ UNCHANGED <<supportDb, desk, died, calls, events>>
  BY DEF PollRefill
<1>3. s \in {"IN_PROGRESS"} \cup Verdicts
  BY DEF MappedRefill, Verdicts
<1>4. /\ left \subseteq 1..Len(refills) /\ left \in SUBSET Nat
      /\ \A i \in left : refills[i].remote # 0
  BY <1>1 DEF PollSound
<1> HIDE DEF s, left
<1>5. CASE s = "IN_PROGRESS"
  <2> DEFINE k == [poll[l] EXCEPT !.todo = left]
  <2>1. poll' = [poll EXCEPT ![l] = k]
    BY <1>1, <1>5 DEF PollRefill, Shape, s, left
  <2>2. k \in PollRow /\ k.todo = left /\ k.refill = 0
    BY <1>1, <1>2, <1>4 DEF PollRow
  <2> HIDE DEF k
  <2>3. PollSound(k, refills)
    BY <1>4, <2>2 DEF PollSound
  <2> QED
    BY <1>2, <2>1, <2>2, <2>3, QuietPoll
<1>6. CASE s # "IN_PROGRESS"
  <2> DEFINE k == [todo |-> left, refill |-> r, verdict |-> s]
  <2>1. poll' = [poll EXCEPT ![l] = k]
    BY <1>1, <1>6 DEF PollRefill, Shape, s, left
  <2>2. s \in Verdicts
    BY <1>3, <1>6
  <2>3. k \in PollRow /\ k.todo = left /\ k.refill = r /\ k.verdict = s
    BY <1>1, <1>4, <2>2 DEF PollRow
  <2> HIDE DEF k
  <2>4. PollSound(k, refills)
    BY <1>1, <1>4, <2>2, <2>3 DEF PollSound
  <2> QED
    BY <1>2, <2>1, <2>3, <2>4, QuietPoll
<1> QED
  BY <1>5, <1>6

LEMMA PollFailsStep ==
  ASSUME IInv, NEW l \in Polls, NEW r \in DOMAIN refills, PollFails(l, r)
  PROVE  IInv'
<1> DEFINE left == poll[l].todo \ {r}
           k == [poll[l] EXCEPT !.todo = left]
<1>1. /\ poll[l] \in PollRow /\ PollSound(poll[l], refills) /\ Shape
  BY PollRows
<1>2. /\ poll' = [poll EXCEPT ![l] = k] /\ poll[l].refill = 0
      /\ UNCHANGED <<supportDb, desk, died, calls, events>>
  BY DEF PollFails
<1>3. /\ left \subseteq 1..Len(refills) /\ left \in SUBSET Nat
      /\ \A i \in left : refills[i].remote # 0
  BY <1>1 DEF PollSound, PollRow
<1> HIDE DEF left
<1>4. k \in PollRow /\ k.todo = left /\ k.refill = poll[l].refill
  BY <1>1, <1>3 DEF PollRow
<1> HIDE DEF k
<1>5. PollSound(k, refills)
  BY <1>2, <1>3, <1>4 DEF PollSound
<1> QED
  BY <1>2, <1>4, <1>5, QuietPoll

LEMMA ProviderStep ==
  ASSUME IInv, NEW m \in DOMAIN remote, NEW v \in Words, ProviderSays(m, v)
  PROVE  IInv'
<1>1. Shape /\ remote \in Seq(RemoteStatus) /\ refills \in Seq(RefillRow)
  BY DEF IInv, Shape
<1>2. m \in 1..Len(remote) /\ Len(remote) \in Nat /\ v \in RemoteStatus
  BY <1>1, LenProperties DEF RemoteStatus
<1>3. /\ remote' = [remote EXCEPT ![m] = v]
      /\ events > 0 /\ events' = events - 1 /\ calls' = calls
      /\ UNCHANGED <<refills, ticket, audit, desk, poll, died>>
  BY DEF ProviderSays, Event
<1>4. remote' \in Seq(RemoteStatus) /\ Len(remote') = Len(remote)
  BY <1>1, <1>2, <1>3, ExceptSeq
<1>5. Shape'
  BY <1>1, <1>3, <1>4 DEF Shape
<1>6. \A t \in Tickets \ died' : Told(t)'
  BY <1>3 DEF IInv, Told, OpenedFor, RecordingFor
<1>7. Grows(refills, refills') /\ Len(remote) <= Len(remote')
  BY <1>1, <1>2, <1>3, <1>4, SameGrows
<1> QED
  BY <1>3, <1>5, <1>6, <1>7, SoundStep

(* Services are in no part of the invariant but Linked. *)
LEMMA ServiceStep ==
  ASSUME IInv, NEW o \in AtProvider, UpdateService(o)
  PROVE  IInv'
<1>1. /\ calls > 0 /\ calls' = calls - 1 /\ events' = events
      /\ UNCHANGED <<refills, remote, ticket, audit, desk, poll, died>>
  BY DEF UpdateService, Call
<1>2. calls' \in Nat
  BY <1>1 DEF IInv, Shape
<1> QED
  BY <1>1, <1>2 DEF IInv, Shape, Told, OpenedFor, RecordingFor

(* The tickets of the desks that are swept away are in `died`. *)
LEMMA CollapseStep ==
  ASSUME IInv, Collapse
  PROVE  IInv'
<1>1. Shape /\ remote \in Seq(RemoteStatus) /\ refills \in Seq(RefillRow)
  BY DEF IInv, Shape
<1>2. /\ events > 0 /\ events' = events - 1 /\ calls' = calls
      /\ died' = died \cup (Tickets \cap {desk[d].ticket : d \in Desks})
      /\ desk' = [d \in Desks |-> Clear] /\ poll' = [l \in Polls |-> NoPoll]
      /\ UNCHANGED <<refills, remote, ticket, audit>>
  BY DEF Collapse, Event, supportDb
<1>3. Clear \in DeskRow /\ NoPoll \in PollRow /\ ~ToRecord(Clear)
  <2>1. Clear \in DeskRow
    BY DEF Clear, DeskRow
  <2>2. Clear.at = "idle"
    BY DEF Clear
  <2>3. NoPoll = [todo |-> {}, refill |-> 0, verdict |-> NoVerdict]
    BY DEF NoPoll, NoVerdict
  <2>4. NoPoll \in PollRow
    BY <2>3 DEF PollRow
  <2> QED
    BY <2>1, <2>2, <2>4 DEF ToRecord
<1>4. DeskSound(Clear, refills, remote)
  <2>1. Len(remote) \in Nat
    BY <1>1, LenProperties, Zenon
  <2> QED
    BY <2>1 DEF Clear, DeskSound
<1>5. PollSound(NoPoll, refills)
  BY DEF NoPoll, PollSound
<1>6. Shape'
  <2>1. died' \subseteq Tickets
    BY <1>1, <1>2 DEF Shape
  <2> QED
    BY <1>1, <1>2, <1>3, <2>1 DEF Shape
<1>7. ASSUME NEW t \in Tickets \ died'
      PROVE  Told(t)'
  <2>1. Told(t) /\ RecordingFor(t) = {}
    BY <1>2 DEF IInv, RecordingFor
  <2>2. RecordingFor(t)' = {}
    BY <1>2, <1>3 DEF RecordingFor
  <2>3. OpenedFor(t)' = OpenedFor(t) /\ audit' = audit
    BY <1>2 DEF OpenedFor
  <2> QED
    BY <2>1, <2>2, <2>3 DEF Told
<1>8. \A d \in Desks : DeskSound(desk'[d], refills, remote)
  BY <1>2, <1>4
<1>9. \A l \in Polls : PollSound(poll'[l], refills)
  BY <1>2, <1>5
<1> QED
  BY <1>2, <1>6, <1>7, <1>8, <1>9 DEF IInv
-----------------------------------------------------------------------------

LEMMA InitInv == SupportInit => IInv
<1> SUFFICES ASSUME SupportInit PROVE IInv
  OBVIOUS
<1>1. /\ refills = <<>> /\ remote = <<>> /\ died = {}
      /\ audit = [t \in Tickets |-> 0]
      /\ desk = [d \in Desks |-> Clear]
      /\ poll = [l \in Polls |-> NoPoll]
      /\ calls \in {0, MaxCalls} /\ events = MaxEvents
  BY DEF SupportInit
<1>2. ticket \in [Tickets -> TicketRow]
  BY DEF SupportInit, TicketRow
<1>3. Clear \in DeskRow /\ NoPoll \in PollRow
  <2>1. NoPoll = [todo |-> {}, refill |-> 0, verdict |-> NoVerdict]
    BY DEF NoPoll, NoVerdict
  <2>2. NoPoll \in PollRow
    BY <2>1 DEF PollRow
  <2> QED
    BY <2>2 DEF Clear, DeskRow
<1>4. DeskSound(Clear, refills, remote) /\ ~ToRecord(Clear)
  <2>1. Clear.at = "idle" /\ Clear.remote = 0
    BY DEF Clear
  <2>2. 0 \in 0..Len(remote)
    BY <1>1
  <2> QED
    BY <2>1, <2>2 DEF DeskSound, ToRecord
<1>5. PollSound(NoPoll, refills)
  BY DEF NoPoll, PollSound
<1>6. Shape
  BY <1>1, <1>2, <1>3, CallsAssumption DEF Shape
<1>7. \A r \in 1..Len(refills) : FALSE
  BY <1>1
<1>8. ASSUME NEW t \in Tickets
      PROVE  Told(t)
  <2>1. OpenedFor(t) = {} /\ RecordingFor(t) = {}
    BY <1>1, <1>4 DEF OpenedFor, RecordingFor
  <2> QED
    BY <1>1, <2>1, FS_EmptySet DEF Told
<1> QED
  BY <1>1, <1>4, <1>5, <1>6, <1>7, <1>8 DEF IInv

LEMMA DeskStepInv ==
  ASSUME IInv, NEW d \in Desks, DeskStep(d)
  PROVE  IInv'
BY CheckStep, SubmitStep, InsertStep, SubmitFailsStep, OtherStep, ResolveStep,
   PostEngineStep, PostAgentStep, RecordStep, NextOrderStep, FinishStep,
   ReportStep, Zenon DEF DeskStep

LEMMA StepInv == IInv /\ [SupportNext]_supportVars => IInv'
<1> SUFFICES ASSUME IInv, [SupportNext]_supportVars PROVE IInv'
  OBVIOUS
<1>1. CASE UNCHANGED supportVars
  BY <1>1 DEF IInv, Shape, Told, OpenedFor, RecordingFor, supportVars, supportDb
<1>2. ASSUME NEW d \in Desks, DeskStep(d)
      PROVE  IInv'
  BY <1>2, DeskStepInv
<1>3. ASSUME NEW d \in Desks, NEW o \in Delivered, AskRefill(d, o)
      PROVE  IInv'
  BY <1>3, AskStep
<1>4. ASSUME NEW d \in Desks, NEW r \in DOMAIN refills, OpenForVerdict(d, r)
      PROVE  IInv'
  BY <1>4, OpenStep
<1>5. ASSUME NEW d \in Desks, NEW t \in Tickets, Write(d, t, "", {})
      PROVE  IInv'
  <2>1. "" \in Actions /\ {} \in SUBSET Delivered
    BY Zenon DEF Actions
  <2> QED
    BY <1>5, <2>1, WriteStep, Zenon
<1>6. ASSUME NEW d \in Desks, NEW t \in Tickets, NEW a \in {"REFILL", "OTHER"},
             NEW O \in OrderLists, Write(d, t, a, O)
      PROVE  IInv'
  <2>1. a \in Actions /\ O \in SUBSET Delivered
    BY OrderListsAssumption, Zenon DEF Actions
  <2> QED
    BY <1>6, <2>1, WriteStep, Zenon
<1>7. ASSUME NEW d \in Desks, NEW t \in Tickets, NEW a \in {"REFILL", "OTHER"},
             NEW o \in Delivered, AgentAction(d, t, a, o)
      PROVE  IInv'
  BY <1>7, AgentStep
<1>8. ASSUME NEW l \in Polls, PollStep(l)
      PROVE  IInv'
  BY <1>8, ListStep, SaveStep, PollStepInv, PollFailsStep, Zenon
     DEF PollStep
<1>9. ASSUME NEW m \in DOMAIN remote, NEW v \in Words, ProviderSays(m, v)
      PROVE  IInv'
  BY <1>9, ProviderStep
<1>10. ASSUME NEW t \in Tickets, NEW s \in HandStatuses, SetTicket(t, s)
       PROVE  IInv'
  BY <1>10, SetTicketStep
<1>11. CASE Collapse
  BY <1>11, CollapseStep
<1>12. ASSUME NEW o \in AtProvider, UpdateService(o)
       PROVE  IInv'
  BY <1>12, ServiceStep
<1> QED
  BY <1>1, <1>2, <1>3, <1>4, <1>5, <1>6, <1>7, <1>8, <1>9, <1>10, <1>11,
     <1>12, Zenon DEF SupportNext

(* Only orders that a provider delivered have a service that names one. *)
Linked == linked \subseteq AtProvider

LEMMA LinkedStep == Linked /\ [SupportNext]_supportVars => Linked'
<1> SUFFICES ASSUME Linked, [SupportNext]_supportVars PROVE Linked'
  OBVIOUS
<1>1. ASSUME NEW o \in AtProvider, UpdateService(o)
      PROVE  Linked'
  BY <1>1 DEF UpdateService, Linked
<1>2. CASE linked' = linked
  BY <1>2 DEF Linked
<1>3. ASSUME NEW d \in Desks, DeskStep(d)
      PROVE  linked' = linked
  BY <1>3 DEF DeskStep, CheckRefill, SubmitRefill, InsertRefill, SubmitFails,
       OtherAction, ResolveRefill, PostForEngine, PostForAgent, RecordAction,
       NextOrder, FinishRun, ReportAction, supportDb
<1>4. ASSUME NEW l \in Polls, PollStep(l)
      PROVE  linked' = linked
  BY <1>4 DEF PollStep, ListRefills, SaveRefill, PollRefill, PollFails,
       supportDb
<1>5. CASE UNCHANGED supportVars
  BY <1>5 DEF supportVars, supportDb, Linked
<1> QED
  BY <1>1, <1>2, <1>3, <1>4, <1>5 DEF SupportNext, AskRefill, OpenForVerdict,
     Write, AgentAction, ProviderSays, SetTicket, Collapse, supportDb
-----------------------------------------------------------------------------
(* The theorems.                                                           *)

(* The inductive invariant. *)
THEOREM Invariance == SupportSpec => [](IInv /\ Linked)
<1>1. SupportInit => Linked
  BY DEF SupportInit, Linked
<1> QED
  BY <1>1, InitInv, StepInv, LinkedStep, PTL DEF SupportSpec

(* The rows, the requests and the ticks keep their shape, and a tick only  *)
(* works on rows that are there.                                           *)
THEOREM TypeCorrect == SupportSpec => []SupportTypeOK
<1>1. ASSUME IInv, Linked
      PROVE  SupportTypeOK
  <2>1. Shape
    BY <1>1 DEF IInv
  <2>2. poll \in [Polls -> [todo : SUBSET (DOMAIN refills), refill : Nat,
                            verdict : {""} \cup Verdicts]]
    <3>1. DOMAIN refills = 1..Len(refills)
      BY <2>1, LenProperties, Zenon DEF Shape
    <3>2. \A l \in Polls : poll[l].todo \in SUBSET (DOMAIN refills)
      BY <1>1, <3>1 DEF IInv, PollSound
    <3> QED
      BY <2>1, <3>2 DEF Shape, PollRow, NoVerdict
  <2> QED
    BY <1>1, <2>1, <2>2 DEF Shape, SupportTypeOK, TicketRow, RemoteStatus, Linked
<1> QED
  BY <1>1, Invariance, PTL

(* An order has one open refill, but for requests that all looked before   *)
(* any of them had inserted.                                               *)
THEOREM OneRefillAtATime == SupportSpec => []OneOpenRefill
<1>1. ASSUME IInv, NEW r \in DOMAIN refills, NEW s \in DOMAIN refills,
             r < s, refills[r].order = refills[s].order,
             refills[r].status \notin Verdicts
      PROVE  refills[s].seen < r
  <2>1. DOMAIN refills = 1..Len(refills) /\ Len(refills) \in Nat
    BY <1>1, LenProperties, Zenon DEF IInv, Shape
  <2>2. SettledUpTo(refills, refills[s].order, refills[s].seen)
    BY <1>1, <2>1 DEF IInv, RefillSound
  <2>3. refills[s].seen \in Nat /\ r \in Nat /\ 1 <= r
    BY <2>1, <2>2 DEF SettledUpTo
  <2>4. ~(r \in 1..refills[s].seen)
    BY <1>1, <2>2 DEF SettledUpTo
  <2> QED
    BY <2>3, <2>4
<1>2. IInv => OneOpenRefill
  BY <1>1 DEF OneOpenRefill
<1> QED
  BY <1>2, Invariance, PTL

(* The audit of a ticket counts the refills opened for it, but for the one *)
(* a request is about to record, unless a request died.                    *)
THEOREM AuditTrue == SupportSpec => []AuditTellsRefills
<1>1. ASSUME IInv, NEW t \in Tickets \ died
      PROVE  Cardinality({r \in DOMAIN refills : refills[r].ticket = t}) =
               audit[t] + Cardinality({d \in Desks :
                             /\ desk[d].at = "record" /\ desk[d].made
                             /\ desk[d].ticket = t /\ desk[d].action = "REFILL"})
  <2>1. RecordingFor(t) =
          {d \in Desks : /\ desk[d].at = "record" /\ desk[d].made
                         /\ desk[d].ticket = t /\ desk[d].action = "REFILL"}
    BY DEF RecordingFor, ToRecord
  <2>2. Told(t)
    BY <1>1 DEF IInv
  <2> QED
    BY <2>1, <2>2 DEF Told, OpenedFor
<1>2. IInv => AuditTellsRefills
  BY <1>1 DEF AuditTellsRefills
<1> QED
  BY <1>2, Invariance, PTL
=============================================================================
