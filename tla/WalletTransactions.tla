------------------------- MODULE WalletTransactions -------------------------
(***************************************************************************)
(* apps/api/src/services/wallet.service.ts under concurrency.              *)
(*                                                                         *)
(* A session is one interactive Prisma transaction (READ COMMITTED) that   *)
(* calls adjustWalletBalance any number of times, on any wallets, and then *)
(* commits: creditWallet and debitWallet make one call, a deposit credits  *)
(* the payer several times and then the referrer, an order debits once.    *)
(* Each call is two statements, SELECT ... FOR UPDATE and the write of the *)
(* balance with its ledger row, and other sessions run between them.  The  *)
(* writes of a transaction are its own until it commits; its row locks are *)
(* held until it ends.  Postgres aborts a transaction of a lock cycle, and *)
(* a crash of the process rolls every open transaction back.               *)
(***************************************************************************)
EXTENDS Ledger

CONSTANTS Users,       \* owners of a wallet
          Sessions,    \* transactions that may be open at once
          NoSession,   \* the wallet row is not locked
          NoUser,      \* no call is being made
          Amounts,     \* the amounts the callers ask for, 0 included
          MaxRows      \* bound on the rows of one wallet (model checking)

ASSUME AmountsAssumption == Amounts \subseteq Int
ASSUME NoSessionAssumption == NoSession \notin Sessions
ASSUME NoUserAssumption == NoUser \notin Users
ASSUME MaxRowsAssumption == MaxRows \in Nat

VARIABLES
  balance,   \* committed Wallet.balance
  ledger,    \* committed WalletTransaction rows of each wallet
  rowLock,   \* the session that holds the wallet row FOR UPDATE
  pc,        \* where each session is
  call,      \* the arguments of its current adjustWalletBalance
  seen,      \* the balance its SELECT ... FOR UPDATE returned
  draft      \* the rows it wrote and has not committed, per wallet

vars == <<balance, ledger, rowLock, pc, call, seen, draft>>

NoDraft == [u \in Users |-> <<>>]
NoCall == [user |-> NoUser, amount |-> 0]

Init ==
  /\ balance = [u \in Users |-> 0]
  /\ ledger = [u \in Users |-> <<>>]
  /\ rowLock = [u \in Users |-> NoSession]
  /\ pc = [s \in Sessions |-> "idle"]
  /\ call = [s \in Sessions |-> NoCall]
  /\ seen = [s \in Sessions |-> 0]
  /\ draft = [s \in Sessions |-> NoDraft]

(* What session s reads in u's wallet: its own writes over the committed. *)
Visible(s, u) == FinalBalance(balance[u], draft[s][u])

Release(s) == rowLock' = [u \in Users |-> IF rowLock[u] = s THEN NoSession
                                                           ELSE rowLock[u]]

(* Mutant: the connection goes back to the pool with its locks. *)
RollbackKeepsLocks(s) ==
  /\ pc' = [pc EXCEPT ![s] = "idle"]
  /\ draft' = [draft EXCEPT ![s] = NoDraft]
  /\ call' = [call EXCEPT ![s] = NoCall]
  /\ seen' = [seen EXCEPT ![s] = 0]
  /\ UNCHANGED <<balance, ledger, rowLock>>

(* The transaction is rolled back: its drafts and its locks are dropped. *)
Rollback(s) ==
  /\ pc' = [pc EXCEPT ![s] = "idle"]
  /\ draft' = [draft EXCEPT ![s] = NoDraft]
  /\ call' = [call EXCEPT ![s] = NoCall]
  /\ seen' = [seen EXCEPT ![s] = 0]
  /\ Release(s)
  /\ UNCHANGED <<balance, ledger>>

-----------------------------------------------------------------------------

Begin(s) ==
  /\ pc[s] = "idle"
  /\ pc' = [pc EXCEPT ![s] = "open"]
  /\ UNCHANGED <<balance, ledger, rowLock, call, seen, draft>>

(* adjustWalletBalance is called. *)
Call(s) ==
  /\ pc[s] = "open"
  /\ \E u \in Users, a \in Amounts :
       /\ a # 0
       /\ Len(ledger[u]) + Len(draft[s][u]) < MaxRows
       /\ call' = [call EXCEPT ![s] = [user |-> u, amount |-> a]]
  /\ pc' = [pc EXCEPT ![s] = "select"]
  /\ UNCHANGED <<balance, ledger, rowLock, seen, draft>>

(* A zero amount is refused before any statement; the throw rolls back. *)
CallZero(s) ==
  /\ pc[s] = "open"
  /\ 0 \in Amounts
  /\ Rollback(s)

(* Mutants: a plain SELECT; and a SELECT outside the transaction, which    *)
(* does not see the transaction's own writes.                              *)
SelectUnlocked(s) ==
  /\ pc[s] = "select"
  /\ seen' = [seen EXCEPT ![s] = Visible(s, call[s].user)]
  /\ pc' = [pc EXCEPT ![s] = "write"]
  /\ UNCHANGED <<balance, ledger, rowLock, call, draft>>
SelectOutside(s) ==
  /\ pc[s] = "select"
  /\ rowLock[call[s].user] \in {NoSession, s}
  /\ rowLock' = [rowLock EXCEPT ![call[s].user] = s]
  /\ seen' = [seen EXCEPT ![s] = balance[call[s].user]]
  /\ pc' = [pc EXCEPT ![s] = "write"]
  /\ UNCHANGED <<balance, ledger, call, draft>>

(* SELECT "id", "balance" ... FOR UPDATE, once no other session holds it. *)
SelectForUpdate(s) ==
  /\ pc[s] = "select"
  /\ rowLock[call[s].user] \in {NoSession, s}
  /\ rowLock' = [rowLock EXCEPT ![call[s].user] = s]
  /\ seen' = [seen EXCEPT ![s] = Visible(s, call[s].user)]
  /\ pc' = [pc EXCEPT ![s] = "write"]
  /\ UNCHANGED <<balance, ledger, call, draft>>

(* Mutant: the lock ends with the call, not with the transaction. *)
WriteThenUnlock(s) ==
  /\ pc[s] = "write"
  /\ Adjustable(seen[s], call[s].amount)
  /\ draft' = [draft EXCEPT ![s][call[s].user] =
                 Append(@, Row(seen[s], call[s].amount))]
  /\ pc' = [pc EXCEPT ![s] = "open"]
  /\ call' = [call EXCEPT ![s] = NoCall]
  /\ seen' = [seen EXCEPT ![s] = 0]
  /\ Release(s)
  /\ UNCHANGED <<balance, ledger>>

(* The update of the balance and the ledger row it writes. *)
Write(s) ==
  /\ pc[s] = "write"
  /\ Adjustable(seen[s], call[s].amount)
  /\ draft' = [draft EXCEPT ![s][call[s].user] =
                 Append(@, Row(seen[s], call[s].amount))]
  /\ pc' = [pc EXCEPT ![s] = "open"]
  /\ call' = [call EXCEPT ![s] = NoCall]
  /\ seen' = [seen EXCEPT ![s] = 0]
  /\ UNCHANGED <<balance, ledger, rowLock>>

(* "Insufficient wallet balance": the throw rolls the transaction back. *)
Insufficient(s) ==
  /\ pc[s] = "write"
  /\ ~Adjustable(seen[s], call[s].amount)
  /\ Rollback(s)

Commit(s) ==
  /\ pc[s] = "open"
  /\ balance' = [u \in Users |-> Visible(s, u)]
  /\ ledger' = [u \in Users |-> ledger[u] \o draft[s][u]]
  /\ pc' = [pc EXCEPT ![s] = "idle"]
  /\ draft' = [draft EXCEPT ![s] = NoDraft]
  /\ Release(s)
  /\ UNCHANGED <<call, seen>>

(* A ring of sessions, each waiting for a wallet the next one holds. *)
Deadlocked(s) ==
  \E ring \in SUBSET Sessions :
     /\ s \in ring
     /\ \A t \in ring : pc[t] = "select" /\ rowLock[call[t].user] # t
     /\ {rowLock[call[t].user] : t \in ring} = ring

(* Postgres breaks the cycle by aborting one of its transactions. *)
DeadlockAbort(s) == Deadlocked(s) /\ Rollback(s)

(* The process dies: every open transaction is rolled back. *)
Crash ==
  /\ \E s \in Sessions : pc[s] # "idle"
  /\ pc' = [s \in Sessions |-> "idle"]
  /\ draft' = [s \in Sessions |-> NoDraft]
  /\ rowLock' = [u \in Users |-> NoSession]
  /\ call' = [s \in Sessions |-> NoCall]
  /\ seen' = [s \in Sessions |-> 0]
  /\ UNCHANGED <<balance, ledger>>

Step(s) == \/ Begin(s) \/ Call(s) \/ CallZero(s) \/ SelectForUpdate(s)
           \/ Write(s) \/ Insufficient(s) \/ Commit(s) \/ DeadlockAbort(s)

Next == Crash \/ \E s \in Sessions : Step(s)

(* A request's code runs on: an open transaction ends its work and commits *)
(* (a caller makes finitely many calls), and Postgres grants a lock that   *)
(* stays free, and breaks a deadlock that stays.  A new transaction may    *)
(* never come.                                                             *)
Fairness ==
  \A s \in Sessions :
     /\ SF_vars(Commit(s))
     /\ SF_vars(SelectForUpdate(s))
     /\ WF_vars(Write(s) \/ Insufficient(s))
     /\ WF_vars(DeadlockAbort(s))

Spec == Init /\ [][Next]_vars

FairSpec == Spec /\ Fairness

-----------------------------------------------------------------------------
(* The shape of the state. *)
TypeOK ==
  /\ balance \in [Users -> Int]
  /\ ledger \in [Users -> Seq(LedgerRow)]
  /\ rowLock \in [Users -> Sessions \cup {NoSession}]
  /\ pc \in [Sessions -> {"idle", "open", "select", "write"}]
  /\ call \in [Sessions -> [user : Users \cup {NoUser}, amount : Int]]
  /\ seen \in [Sessions -> Int]
  /\ draft \in [Sessions -> [Users -> Seq(LedgerRow)]]

(* The stored balance is what the ledger adds up to, row after row, and no *)
(* row ever left a wallet negative: adjustWalletBalance cannot spend the   *)
(* same dollar twice however its callers interleave.                       *)
LedgerReconciles ==
  \A u \in Users : /\ ChainedFrom(0, ledger[u])
                   /\ balance[u] = FinalBalance(0, ledger[u])

(* The balance a session read FOR UPDATE is still the one its write will   *)
(* be applied to: no update is lost between the two statements.            *)
ReadStaysCurrent ==
  \A s \in Sessions : pc[s] = "write" => seen[s] = Visible(s, call[s].user)

(* A wallet with uncommitted rows, or between the two statements of a      *)
(* call, is locked by the session that works on it; a draft continues the  *)
(* committed balance; a session that is not in a call has no arguments.    *)
(* With TypeOK and the two invariants above this is inductive.             *)
LocksGuardDrafts ==
  \A s \in Sessions :
     /\ pc[s] \in {"select", "write"} => call[s].user \in Users
     /\ pc[s] = "write" => rowLock[call[s].user] = s
     /\ \A u \in Users :
          /\ draft[s][u] # <<>> => rowLock[u] = s
          /\ ChainedFrom(balance[u], draft[s][u])

(* The wallet service implements the audited ledger: committed rows are    *)
(* never rewritten or lost and every commit continues the chain.           *)
Audited == INSTANCE AuditedWallets
ImplementsAuditedWallets == Audited!Spec

(* Every transaction ends: no session waits for a row lock forever,        *)
(* whatever order the callers take their wallets in.                       *)
TransactionsEnd ==
  \A s \in Sessions : pc[s] # "idle" ~> pc[s] = "idle"
=============================================================================
