---------------------------- MODULE WalletProofs ----------------------------
(***************************************************************************)
(* The wallet service proved for every set of users, sessions and amounts: *)
(* the ledger reconciles, reads stay current, and the service implements   *)
(* AuditedWallets.  The inductive invariant is LocksGuardDrafts together   *)
(* with TypeOK, LedgerReconciles and ReadStaysCurrent.                     *)
(***************************************************************************)
EXTENDS WalletTransactions, TLAPS

(* The empty ledger leaves the balance alone and is chained. *)
LEMMA EmptyChain ==
  ASSUME NEW b \in Int
  PROVE  FinalBalance(b, <<>>) = b /\ ChainedFrom(b, <<>>)
BY DEF FinalBalance, ChainedFrom

(* A ledger of integers ends in an integer balance. *)
LEMMA FinalBalanceType ==
  ASSUME NEW b \in Int, NEW l \in Seq(LedgerRow)
  PROVE  FinalBalance(b, l) \in Int
<1>1. CASE Len(l) = 0
  BY <1>1 DEF FinalBalance
<1>2. CASE Len(l) # 0
  <2>1. l[Len(l)] \in LedgerRow
    BY <1>2
  <2> QED
    BY <1>2, <2>1 DEF FinalBalance, LedgerRow
<1> QED
  BY <1>1, <1>2

(* The row adjustWalletBalance writes continues the ledger it is appended  *)
(* to, whenever its two early exits are not taken.                         *)
LEMMA AppendRow ==
  ASSUME NEW b \in Int, NEW l \in Seq(LedgerRow), NEW amount \in Int,
         ChainedFrom(b, l), Adjustable(FinalBalance(b, l), amount)
  PROVE  LET m == Append(l, Row(FinalBalance(b, l), amount))
         IN  /\ m \in Seq(LedgerRow)
             /\ ChainedFrom(b, m)
             /\ FinalBalance(b, m) = FinalBalance(b, l) + amount
<1> DEFINE r == Row(FinalBalance(b, l), amount)
           m == Append(l, r)
<1>1. FinalBalance(b, l) \in Int
  BY FinalBalanceType
<1>2. r \in LedgerRow /\ r.amount = amount
      /\ r.balanceAfter = FinalBalance(b, l) + amount
  BY <1>1 DEF Row, LedgerRow
<1>3. m \in Seq(LedgerRow) /\ Len(m) = Len(l) + 1 /\ m[Len(l) + 1] = r
      /\ \A i \in 1..Len(l) : m[i] = l[i]
  BY <1>2
<1>4. FinalBalance(b, m) = FinalBalance(b, l) + amount
  BY <1>2, <1>3 DEF FinalBalance
<1>5. ChainedFrom(b, m)
  <2> HIDE DEF m, r
  <2> SUFFICES ASSUME NEW i \in 1..Len(m)
               PROVE  /\ m[i].balanceAfter =
                           BalanceBefore(b, m, i) + m[i].amount
                      /\ m[i].balanceAfter >= 0
    BY DEF ChainedFrom
  <2>1. CASE i \in 1..Len(l)
    <3>1. BalanceBefore(b, m, i) = BalanceBefore(b, l, i)
      BY <1>3, <2>1 DEF BalanceBefore
    <3> QED
      BY <1>3, <2>1, <3>1 DEF ChainedFrom
  <2>2. CASE i = Len(l) + 1
    <3>1. BalanceBefore(b, m, i) = FinalBalance(b, l)
      BY <1>3, <2>2 DEF BalanceBefore, FinalBalance
    <3> QED
      BY <1>1, <1>2, <1>3, <2>2, <3>1 DEF Adjustable
  <2> QED
    BY <1>3, <2>1, <2>2
<1> QED
  BY <1>3, <1>4, <1>5

(* Committing a draft: rows that continue a ledger can be appended to it,  *)
(* and the balance they leave is the one the draft left.                   *)
LEMMA CommitRows ==
  ASSUME NEW b \in Int, NEW l \in Seq(LedgerRow), NEW d \in Seq(LedgerRow),
         ChainedFrom(b, l), ChainedFrom(FinalBalance(b, l), d)
  PROVE  /\ l \o d \in Seq(LedgerRow)
         /\ Len(l) <= Len(l \o d)
         /\ \A i \in 1..Len(l) : (l \o d)[i] = l[i]
         /\ ChainedFrom(b, l \o d)
         /\ FinalBalance(b, l \o d) = FinalBalance(FinalBalance(b, l), d)
<1> DEFINE m == l \o d
<1>1. /\ m \in Seq(LedgerRow)
      /\ Len(m) = Len(l) + Len(d)
      /\ \A i \in 1..Len(l) : m[i] = l[i]
      /\ \A i \in (Len(l) + 1)..(Len(l) + Len(d)) : m[i] = d[i - Len(l)]
  OBVIOUS
<1> HIDE DEF m
<1>2. FinalBalance(b, m) = FinalBalance(FinalBalance(b, l), d)
  <2>1. CASE Len(d) = 0
    BY <1>1, <2>1 DEF FinalBalance
  <2>2. CASE Len(d) # 0
    <3>1. Len(l) \in Nat /\ Len(d) \in Nat \ {0}
      BY <2>2
    <3>2. Len(m) \in (Len(l) + 1)..(Len(l) + Len(d)) /\ Len(m) # 0
      BY <1>1, <3>1
    <3>3. m[Len(m)] = d[Len(m) - Len(l)] /\ Len(m) - Len(l) = Len(d)
      BY <1>1, <3>1, <3>2
    <3> QED
      BY <2>2, <3>2, <3>3 DEF FinalBalance
  <2> QED
    BY <2>1, <2>2
<1>3. ChainedFrom(b, m)
  <2> SUFFICES ASSUME NEW i \in 1..Len(m)
               PROVE  /\ m[i].balanceAfter =
                           BalanceBefore(b, m, i) + m[i].amount
                      /\ m[i].balanceAfter >= 0
    BY DEF ChainedFrom
  <2>1. CASE i \in 1..Len(l)
    <3>1. BalanceBefore(b, m, i) = BalanceBefore(b, l, i)
      BY <1>1, <2>1 DEF BalanceBefore
    <3> QED
      BY <1>1, <2>1, <3>1 DEF ChainedFrom
  <2>2. CASE i \in (Len(l) + 1)..(Len(l) + Len(d))
    <3> DEFINE j == i - Len(l)
    <3>1. j \in 1..Len(d) /\ m[i] = d[j]
      BY <1>1, <2>2
    <3>2. BalanceBefore(b, m, i) = BalanceBefore(FinalBalance(b, l), d, j)
      <4>1. CASE j = 1
        BY <1>1, <2>2, <4>1 DEF BalanceBefore, FinalBalance
      <4>2. CASE j # 1
        <5>1. i - 1 \in (Len(l) + 1)..(Len(l) + Len(d)) /\ i # 1
          BY <2>2, <4>2
        <5>2. m[i - 1] = d[j - 1]
          BY <1>1, <5>1
        <5> QED
          BY <4>2, <5>1, <5>2 DEF BalanceBefore
      <4> QED
        BY <4>1, <4>2
    <3> HIDE DEF j
    <3> QED
      BY <3>1, <3>2 DEF ChainedFrom
  <2> QED
    BY <1>1, <2>1, <2>2
<1> QED
  BY <1>1, <1>2, <1>3 DEF m

-----------------------------------------------------------------------------
(* The inductive invariant. *)
IInv == TypeOK /\ LedgerReconciles /\ ReadStaysCurrent /\ LocksGuardDrafts

LEMMA InitIInv == Init => IInv
<1> SUFFICES ASSUME Init PROVE IInv
  OBVIOUS
<1>1. <<>> \in Seq(LedgerRow)
  OBVIOUS
<1>2. TypeOK
  BY <1>1 DEF Init, TypeOK, NoDraft, NoCall
<1>3. \A u \in Users : balance[u] = 0 /\ ledger[u] = <<>>
  BY DEF Init
<1>4. LedgerReconciles
  BY <1>3, EmptyChain DEF LedgerReconciles
<1>5. ReadStaysCurrent
  BY DEF Init, ReadStaysCurrent
<1>6. LocksGuardDrafts
  BY <1>3, EmptyChain DEF Init, LocksGuardDrafts, NoDraft
<1> QED
  BY <1>2, <1>4, <1>5, <1>6 DEF IInv

(* A rolled-back session leaves no draft, no lock and no call behind.      *)
LEMMA RollbackIInv ==
  ASSUME IInv, NEW s \in Sessions, Rollback(s)
  PROVE  IInv' /\ UNCHANGED <<balance, ledger>>
<1> USE NoSessionAssumption DEF Rollback, Release
<1>1. NoDraft \in [Users -> Seq(LedgerRow)]
      /\ NoCall \in [user : Users \cup {NoUser}, amount : Int]
  BY DEF NoDraft, NoCall
<1>2. TypeOK'
  BY <1>1 DEF IInv, TypeOK
<1>3. LedgerReconciles'
  BY DEF IInv, LedgerReconciles
<1>4. \A t \in Sessions : t # s => /\ pc'[t] = pc[t] /\ call'[t] = call[t]
                                  /\ seen'[t] = seen[t]
                                  /\ draft'[t] = draft[t]
  BY DEF IInv, TypeOK
<1>5. pc'[s] = "idle" /\ draft'[s] = NoDraft
  BY DEF IInv, TypeOK
<1>6. \A u \in Users, t \in Sessions :
        t # s /\ rowLock[u] = t => rowLock'[u] = t
  BY DEF IInv, TypeOK
<1>7. ReadStaysCurrent'
  BY <1>4, <1>5 DEF IInv, ReadStaysCurrent, Visible
<1>8. LocksGuardDrafts'
  <2> SUFFICES ASSUME NEW t \in Sessions
               PROVE  /\ pc'[t] \in {"select", "write"} =>
                           call'[t].user \in Users
                      /\ pc'[t] = "write" => rowLock'[call'[t].user] = t
                      /\ \A u \in Users :
                           /\ draft'[t][u] # <<>> => rowLock'[u] = t
                           /\ ChainedFrom(balance'[u], draft'[t][u])
    BY DEF LocksGuardDrafts
  <2>1. CASE t = s
    <3>1. \A u \in Users : draft'[t][u] = <<>> /\ balance'[u] \in Int
      BY <1>5, <2>1 DEF NoDraft, IInv, TypeOK
    <3> QED
      BY <1>5, <2>1, <3>1, EmptyChain
  <2>2. CASE t # s
    BY <1>4, <1>6, <2>2 DEF IInv, LocksGuardDrafts
  <2> QED
    BY <2>1, <2>2
<1> QED
  BY <1>2, <1>3, <1>7, <1>8 DEF IInv

(* A session moves on without touching a wallet, a lock or a draft.        *)
LEMMA BeginCallIInv ==
  ASSUME IInv, NEW s \in Sessions, Begin(s) \/ Call(s)
  PROVE  IInv' /\ UNCHANGED <<balance, ledger>>
<1> USE AmountsAssumption
<1>1. UNCHANGED <<balance, ledger, rowLock, seen, draft>>
  BY DEF Begin, Call
<1>2. /\ pc' \in [Sessions -> {"idle", "open", "select", "write"}]
      /\ call' \in [Sessions -> [user : Users \cup {NoUser}, amount : Int]]
      /\ pc'[s] \in {"open", "select"}
      /\ pc'[s] = "select" => call'[s].user \in Users
      /\ \A t \in Sessions \ {s} : pc'[t] = pc[t] /\ call'[t] = call[t]
  <2>1. CASE Begin(s)
    BY <2>1 DEF IInv, TypeOK, Begin
  <2>2. CASE Call(s)
    <3>1. PICK u \in Users, a \in Amounts :
            call' = [call EXCEPT ![s] = [user |-> u, amount |-> a]]
      BY <2>2 DEF Call
    <3>2. pc' = [pc EXCEPT ![s] = "select"]
      BY <2>2 DEF Call
    <3>3. [user |-> u, amount |-> a]
            \in [user : Users \cup {NoUser}, amount : Int]
      OBVIOUS
    <3> QED
      BY <3>1, <3>2, <3>3 DEF IInv, TypeOK
  <2> QED
    BY <2>1, <2>2
<1>3. TypeOK'
  BY <1>1, <1>2 DEF IInv, TypeOK
<1>4. LedgerReconciles'
  BY <1>1 DEF IInv, LedgerReconciles
<1>5. ReadStaysCurrent'
  BY <1>1, <1>2 DEF IInv, ReadStaysCurrent, Visible
<1>6. LocksGuardDrafts'
  BY <1>1, <1>2 DEF IInv, LocksGuardDrafts
<1> QED
  BY <1>1, <1>3, <1>4, <1>5, <1>6 DEF IInv

(* The row lock goes to one session, and what it reads is the balance its  *)
(* own uncommitted rows leave.                                             *)
LEMMA SelectIInv ==
  ASSUME IInv, NEW s \in Sessions, SelectForUpdate(s)
  PROVE  IInv' /\ UNCHANGED <<balance, ledger>>
<1> USE NoSessionAssumption DEF SelectForUpdate
<1> DEFINE u == call[s].user
<1>1. u \in Users
  BY DEF IInv, LocksGuardDrafts
<1>2. Visible(s, u) \in Int
  BY <1>1, FinalBalanceType DEF Visible, IInv, TypeOK
<1>3. TypeOK'
  BY <1>1, <1>2 DEF IInv, TypeOK
<1>4. LedgerReconciles'
  BY DEF IInv, LedgerReconciles
<1>5. /\ rowLock'[u] = s
      /\ \A w \in Users, t \in Sessions :
           rowLock[w] = t => rowLock'[w] = t
  BY <1>1 DEF IInv, TypeOK
<1>6. /\ pc'[s] = "write" /\ seen'[s] = Visible(s, u)
      /\ \A t \in Sessions \ {s} : pc'[t] = pc[t] /\ seen'[t] = seen[t]
      /\ pc[s] = "select"
  BY DEF IInv, TypeOK
<1>7. ReadStaysCurrent'
  BY <1>6 DEF IInv, ReadStaysCurrent, Visible
<1>8. LocksGuardDrafts'
  BY <1>5, <1>6 DEF IInv, LocksGuardDrafts
<1> QED
  BY <1>3, <1>4, <1>7, <1>8 DEF IInv

(* The row a session writes continues its draft, because the balance it    *)
(* read is still the one its draft leaves.                                 *)
LEMMA WriteIInv ==
  ASSUME IInv, NEW s \in Sessions, Write(s)
  PROVE  IInv' /\ UNCHANGED <<balance, ledger>>
<1> DEFINE u == call[s].user
           old == draft[s][u]
           new == Append(old, Row(seen[s], call[s].amount))
<1>1. /\ u \in Users /\ rowLock[u] = s /\ ChainedFrom(balance[u], old)
      /\ seen[s] = FinalBalance(balance[u], old)
      /\ call[s].amount \in Int /\ balance[u] \in Int
      /\ old \in Seq(LedgerRow)
      /\ Adjustable(seen[s], call[s].amount)
  BY DEF Write, IInv, TypeOK, LocksGuardDrafts, ReadStaysCurrent, Visible
<1>2. new \in Seq(LedgerRow) /\ ChainedFrom(balance[u], new)
  BY <1>1, AppendRow
<1>3. /\ UNCHANGED <<balance, ledger, rowLock>>
      /\ pc'[s] = "open" /\ draft'[s][u] = new
      /\ \A w \in Users \ {u} : draft'[s][w] = draft[s][w]
      /\ \A t \in Sessions \ {s} : /\ pc'[t] = pc[t] /\ call'[t] = call[t]
                                   /\ seen'[t] = seen[t]
                                   /\ draft'[t] = draft[t]
  BY <1>1 DEF Write, IInv, TypeOK
<1>4. TypeOK'
  <2>1. draft' \in [Sessions -> [Users -> Seq(LedgerRow)]]
    BY <1>1, <1>2 DEF Write, IInv, TypeOK
  <2> QED
    BY <2>1 DEF Write, NoCall, IInv, TypeOK
<1>5. LedgerReconciles'
  BY <1>3 DEF IInv, LedgerReconciles
<1> HIDE DEF u, old, new
<1>6. ReadStaysCurrent'
  BY <1>3 DEF IInv, ReadStaysCurrent, Visible
<1>7. LocksGuardDrafts'
  <2> SUFFICES ASSUME NEW t \in Sessions
               PROVE  /\ pc'[t] \in {"select", "write"} =>
                           call'[t].user \in Users
                      /\ pc'[t] = "write" => rowLock'[call'[t].user] = t
                      /\ \A w \in Users :
                           /\ draft'[t][w] # <<>> => rowLock'[w] = t
                           /\ ChainedFrom(balance'[w], draft'[t][w])
    BY DEF LocksGuardDrafts
  <2>1. CASE t = s
    <3> SUFFICES ASSUME NEW w \in Users
                 PROVE  /\ draft'[t][w] # <<>> => rowLock'[w] = t
                        /\ ChainedFrom(balance'[w], draft'[t][w])
      BY <1>3, <2>1
    <3>1. CASE w = u
      BY <1>1, <1>2, <1>3, <2>1, <3>1
    <3>2. CASE w # u
      BY <1>3, <2>1, <3>2 DEF IInv, LocksGuardDrafts
    <3> QED
      BY <3>1, <3>2
  <2>2. CASE t # s
    BY <1>3, <2>2 DEF IInv, LocksGuardDrafts
  <2> QED
    BY <2>1, <2>2
<1> QED
  BY <1>3, <1>4, <1>5, <1>6, <1>7 DEF IInv

(* A commit appends the session's rows to the wallets it locked and leaves *)
(* the drafts of the others valid: they hold the locks of other wallets.   *)
LEMMA CommitIInv ==
  ASSUME IInv, NEW s \in Sessions, Commit(s)
  PROVE  IInv' /\ Audited!Transact
<1> USE NoSessionAssumption
<1>1. \A u \in Users :
        /\ balance[u] \in Int /\ ledger[u] \in Seq(LedgerRow)
        /\ draft[s][u] \in Seq(LedgerRow)
        /\ ChainedFrom(0, ledger[u]) /\ balance[u] = FinalBalance(0, ledger[u])
        /\ ChainedFrom(FinalBalance(0, ledger[u]), draft[s][u])
  BY DEF IInv, TypeOK, LedgerReconciles, LocksGuardDrafts
<1>2. \A u \in Users :
        /\ ledger'[u] = ledger[u] \o draft[s][u]
        /\ balance'[u] = FinalBalance(balance[u], draft[s][u])
  BY DEF Commit, Visible
<1>3. \A u \in Users :
        /\ ledger'[u] \in Seq(LedgerRow)
        /\ Len(ledger[u]) <= Len(ledger'[u])
        /\ \A i \in 1..Len(ledger[u]) : ledger'[u][i] = ledger[u][i]
        /\ ChainedFrom(0, ledger'[u])
        /\ balance'[u] = FinalBalance(0, ledger'[u])
        /\ balance'[u] \in Int
  <2> TAKE u \in Users
  <2>1. /\ ledger'[u] \in Seq(LedgerRow)
        /\ Len(ledger[u]) <= Len(ledger'[u])
        /\ \A i \in 1..Len(ledger[u]) : ledger'[u][i] = ledger[u][i]
        /\ ChainedFrom(0, ledger'[u])
        /\ FinalBalance(0, ledger'[u])
             = FinalBalance(FinalBalance(0, ledger[u]), draft[s][u])
    <3>1. 0 \in Int
      OBVIOUS
    <3>2. /\ ledger[u] \in Seq(LedgerRow) /\ draft[s][u] \in Seq(LedgerRow)
          /\ ChainedFrom(0, ledger[u])
          /\ ChainedFrom(FinalBalance(0, ledger[u]), draft[s][u])
      BY <1>1
    <3>3. ledger'[u] = ledger[u] \o draft[s][u]
      BY <1>2
    <3>4. /\ ledger[u] \o draft[s][u] \in Seq(LedgerRow)
          /\ Len(ledger[u]) <= Len(ledger[u] \o draft[s][u])
          /\ \A i \in 1..Len(ledger[u]) :
               (ledger[u] \o draft[s][u])[i] = ledger[u][i]
          /\ ChainedFrom(0, ledger[u] \o draft[s][u])
          /\ FinalBalance(0, ledger[u] \o draft[s][u])
               = FinalBalance(FinalBalance(0, ledger[u]), draft[s][u])
      BY <3>1, <3>2, CommitRows, Zenon
    <3> QED
      BY <3>3, <3>4, Zenon
  <2>2. balance'[u] = FinalBalance(0, ledger'[u])
    BY <1>1, <1>2, <2>1
  <2>3. balance'[u] \in Int
    BY <2>1, <2>2, FinalBalanceType
  <2> QED
    BY <2>1, <2>2, <2>3
<1>4. TypeOK'
  <2>1. balance' \in [Users -> Int] /\ ledger' \in [Users -> Seq(LedgerRow)]
    BY <1>3 DEF Commit
  <2>2. NoDraft \in [Users -> Seq(LedgerRow)]
    BY DEF NoDraft
  <2> QED
    BY <2>1, <2>2 DEF Commit, Release, NoCall, IInv, TypeOK
<1>5. LedgerReconciles'
  BY <1>3 DEF LedgerReconciles
<1>6. /\ pc'[s] = "idle" /\ draft'[s] = NoDraft
      /\ \A t \in Sessions \ {s} : /\ pc'[t] = pc[t] /\ call'[t] = call[t]
                                   /\ seen'[t] = seen[t]
                                   /\ draft'[t] = draft[t]
      /\ \A t \in Sessions \ {s}, u \in Users :
           rowLock[u] = t => rowLock'[u] = t
  BY DEF Commit, Release, IInv, TypeOK
<1>7. \A t \in Sessions \ {s}, u \in Users :
        rowLock[u] = t => balance'[u] = balance[u]
  <2> TAKE t \in Sessions \ {s}, u \in Users
  <2> HAVE rowLock[u] = t
  <2>1. draft[s][u] = <<>>
    BY DEF IInv, LocksGuardDrafts
  <2> QED
    BY <1>1, <1>2, <2>1, EmptyChain
<1>8. ReadStaysCurrent'
  <2> SUFFICES ASSUME NEW t \in Sessions, pc'[t] = "write"
               PROVE  seen'[t] = FinalBalance(balance'[call'[t].user],
                                              draft'[t][call'[t].user])
    BY DEF ReadStaysCurrent, Visible
  <2>1. t # s /\ pc[t] = "write"
    BY <1>6
  <2>2. call[t].user \in Users /\ rowLock[call[t].user] = t
    BY <2>1 DEF IInv, LocksGuardDrafts
  <2>3. seen[t] = FinalBalance(balance[call[t].user], draft[t][call[t].user])
    BY <2>1 DEF IInv, ReadStaysCurrent, Visible
  <2> QED
    BY <1>6, <1>7, <2>1, <2>2, <2>3
<1>9. LocksGuardDrafts'
  <2> SUFFICES ASSUME NEW t \in Sessions
               PROVE  /\ pc'[t] \in {"select", "write"} =>
                           call'[t].user \in Users
                      /\ pc'[t] = "write" => rowLock'[call'[t].user] = t
                      /\ \A u \in Users :
                           /\ draft'[t][u] # <<>> => rowLock'[u] = t
                           /\ ChainedFrom(balance'[u], draft'[t][u])
    BY DEF LocksGuardDrafts
  <2>1. CASE t = s
    <3>1. \A u \in Users : draft'[t][u] = <<>> /\ balance'[u] \in Int
      BY <1>3, <1>6, <2>1 DEF NoDraft
    <3> QED
      BY <1>6, <2>1, <3>1, EmptyChain
  <2>2. CASE t # s
    <3>1. /\ pc[t] \in {"select", "write"} => call[t].user \in Users
          /\ pc[t] = "write" => rowLock[call[t].user] = t
      BY DEF IInv, LocksGuardDrafts
    <3>2. ASSUME NEW u \in Users
          PROVE  /\ draft[t][u] # <<>> => rowLock'[u] = t
                 /\ ChainedFrom(balance'[u], draft[t][u])
      <4>1. CASE draft[t][u] = <<>>
        BY <1>3, <4>1, EmptyChain
      <4>2. CASE draft[t][u] # <<>>
        <5>1. rowLock[u] = t
          BY <4>2 DEF IInv, LocksGuardDrafts
        <5> QED
          BY <1>6, <1>7, <2>2, <5>1 DEF IInv, LocksGuardDrafts
      <4> QED
        BY <4>1, <4>2
    <3> QED
      BY <1>6, <2>2, <3>1, <3>2
  <2> QED
    BY <2>1, <2>2
<1>10. Audited!Transact
  BY <1>3 DEF Audited!Transact, Audited!Extends, Audited!ChainedFrom,
              Audited!BalanceBefore, Audited!FinalBalance,
              ChainedFrom, BalanceBefore, FinalBalance
<1> QED
  BY <1>4, <1>5, <1>8, <1>9, <1>10 DEF IInv

(* A crash leaves what is committed and nothing else. *)
LEMMA CrashIInv ==
  ASSUME IInv, Crash
  PROVE  IInv' /\ UNCHANGED <<balance, ledger>>
<1> USE DEF Crash
<1>1. NoDraft \in [Users -> Seq(LedgerRow)]
      /\ NoCall \in [user : Users \cup {NoUser}, amount : Int]
  BY DEF NoDraft, NoCall
<1>2. TypeOK'
  BY <1>1 DEF IInv, TypeOK
<1>3. LedgerReconciles'
  BY DEF IInv, LedgerReconciles
<1>4. ReadStaysCurrent'
  BY DEF ReadStaysCurrent
<1>5. \A t \in Sessions, u \in Users :
        draft'[t][u] = <<>> /\ balance'[u] \in Int
  BY DEF NoDraft, IInv, TypeOK
<1>6. LocksGuardDrafts'
  BY <1>5, EmptyChain DEF LocksGuardDrafts
<1> QED
  BY <1>2, <1>3, <1>4, <1>6 DEF IInv

(* Every step keeps the invariant and is a step of the audited wallets.    *)
LEMMA NextIInv ==
  ASSUME IInv, [Next]_vars
  PROVE  IInv' /\ [Audited!Transact]_<<balance, ledger>>
<1>1. CASE Crash
  BY <1>1, CrashIInv
<1>2. ASSUME NEW s \in Sessions, Step(s)
      PROVE  IInv' /\ [Audited!Transact]_<<balance, ledger>>
  <2>1. CASE Begin(s) \/ Call(s)
    BY <2>1, BeginCallIInv
  <2>2. CASE CallZero(s) \/ Insufficient(s) \/ DeadlockAbort(s)
    BY <2>2, RollbackIInv DEF CallZero, Insufficient, DeadlockAbort
  <2>3. CASE SelectForUpdate(s)
    BY <2>3, SelectIInv
  <2>4. CASE Write(s)
    BY <2>4, WriteIInv
  <2>5. CASE Commit(s)
    BY <2>5, CommitIInv
  <2> QED
    BY <1>2, <2>1, <2>2, <2>3, <2>4, <2>5 DEF Step
<1>3. CASE UNCHANGED vars
  <2>1. TypeOK' /\ LedgerReconciles'
    BY <1>3 DEF vars, IInv, TypeOK, LedgerReconciles
  <2>2. ReadStaysCurrent' /\ LocksGuardDrafts'
    BY <1>3 DEF vars, IInv, ReadStaysCurrent, LocksGuardDrafts, Visible
  <2> QED
    BY <1>3, <2>1, <2>2 DEF vars, IInv
<1> QED
  BY <1>1, <1>2, <1>3 DEF Next

(* The inductive invariant holds in every behaviour of the service. *)
THEOREM Invariance == Spec => []IInv
<1>1. IInv /\ [Next]_vars => IInv'
  BY NextIInv
<1> QED
  BY InitIInv, <1>1, PTL DEF Spec

(* adjustWalletBalance keeps its types under every interleaving. *)
THEOREM TypeCorrect == Spec => []TypeOK
<1>1. IInv => TypeOK
  BY DEF IInv
<1> QED
  BY Invariance, <1>1, PTL

(* The balance of a wallet is what its ledger adds up to, and it was never *)
(* negative: no update is lost and no dollar is spent twice.               *)
THEOREM LedgerAlwaysReconciles == Spec => []LedgerReconciles
<1>1. IInv => LedgerReconciles
  BY DEF IInv
<1> QED
  BY Invariance, <1>1, PTL

(* What a session read FOR UPDATE is current when it writes. *)
THEOREM ReadsAlwaysCurrent == Spec => []ReadStaysCurrent
<1>1. IInv => ReadStaysCurrent
  BY DEF IInv
<1> QED
  BY Invariance, <1>1, PTL

(* Uncommitted rows exist only under their wallet's lock and continue its  *)
(* committed balance, so a commit can publish them as they are.            *)
THEOREM DraftsAlwaysLocked == Spec => []LocksGuardDrafts
<1>1. IInv => LocksGuardDrafts
  BY DEF IInv
<1> QED
  BY Invariance, <1>1, PTL

(* The wallet service implements the append-only audited wallets. *)
THEOREM Refinement == Spec => ImplementsAuditedWallets
<1>1. Init => Audited!Init
  BY DEF Init, Audited!Init
<1>2. IInv /\ [Next]_vars => [Audited!Transact]_<<balance, ledger>>
  BY NextIInv
<1> QED
  BY Invariance, <1>1, <1>2, PTL
     DEF Spec, ImplementsAuditedWallets, Audited!Spec, Audited!vars
=============================================================================
