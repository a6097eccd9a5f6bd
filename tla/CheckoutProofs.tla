--------------------------- MODULE CheckoutProofs ---------------------------
(***************************************************************************)
(* Buying from a prepaid wallet, proved for any customers, keys, prices,   *)
(* amounts and jobs.  The invariant has two halves.  `Sound` is about the  *)
(* tables alone: each kind of row is consistent with the others, and the   *)
(* writes a transaction is made of (a credit, an order with its debit and  *)
(* its key, a change of an intent) keep it so, one after another.          *)
(* `JobSound` says what a job between two of its steps may rely on: the    *)
(* rows it has locked are still as it read them.                           *)
(***************************************************************************)
EXTENDS Checkout, SequenceTheorems, TLAPS

OrderRow == [user : Users, key : Keys, quantity : Quantities, charge : Nat]
KeyRow == [quantity : Nat, order : Nat]
IntentRow == [user : Users, key : Keys, quantity : Quantities,
              status : IntentStatus, order : Nat, expired : BOOLEAN]
DepositRow == [user : Users, amount : Amounts, status : DepositStatus,
               intent : Nat, gatewayRef : BOOLEAN]

Tables(L, B, O, K, I, D) ==
  /\ L \in [Users -> Seq(Line)] /\ B \in [Users -> Int]
  /\ O \in Seq(OrderRow) /\ K \in [Users -> [Keys -> KeyRow]]
  /\ I \in Seq(IntentRow) /\ D \in Seq(DepositRow)

Reconciled(L, B) ==
  \A u \in Users : ChainedFrom(0, L[u]) /\ B[u] = FinalBalance(0, L[u])

(* Row n of u's ledger is of this type and cites this order or deposit. *)
Cites(L, u, n, type, ref) ==
  n \in DOMAIN L[u] /\ L[u][n].type = type /\ L[u][n].ref = ref

(* One row of all ledgers cites it: one of u's, of this amount. *)
CitedOnce(L, u, type, ref, amount) ==
  \E n \in DOMAIN L[u] :
     /\ Cites(L, u, n, type, ref) /\ L[u][n].amount = amount
     /\ \A w \in Users : \A m \in DOMAIN L[w] :
          Cites(L, w, m, type, ref) => w = u /\ m = n
Uncited(L, type, ref) ==
  \A w \in Users : \A m \in DOMAIN L[w] : ~Cites(L, w, m, type, ref)

Refers(L, type, table) ==
  \A u \in Users : \A n \in DOMAIN L[u] :
     L[u][n].type = type => L[u][n].ref \in DOMAIN table

Paid(L, O) ==
  /\ \A o \in DOMAIN O :
       CitedOnce(L, O[o].user, "ORDER_DEBIT", o, -O[o].charge)
  /\ Refers(L, "ORDER_DEBIT", O)

Credited(L, D) ==
  /\ \A d \in DOMAIN D :
       IF D[d].status = "APPROVED"
       THEN CitedOnce(L, D[d].user, "DEPOSIT", d, D[d].amount)
       ELSE Uncited(L, "DEPOSIT", d)
  /\ Refers(L, "DEPOSIT", D)

(* An order's key and a key's order name each other. *)
Keyed(O, K) ==
  /\ \A o \in DOMAIN O :
       K[O[o].user][O[o].key] = [quantity |-> O[o].quantity, order |-> o]
  /\ \A u \in Users, k \in Keys :
       K[u][k] # NoKeyRow =>
         LET o == K[u][k].order
         IN  /\ o \in DOMAIN O /\ O[o].user = u /\ O[o].key = k
             /\ O[o].quantity = K[u][k].quantity

OrderOf(i, o, I, O) ==
  /\ o \in DOMAIN O /\ O[o].user = I[i].user /\ O[o].key = I[i].key
  /\ O[o].quantity = I[i].quantity

Placed(I, O) ==
  \A i \in DOMAIN I :
     I[i].status = "FULFILLED" => OrderOf(i, I[i].order, I, O)

(* The intent of a deposit is one of its customer. *)
Belongs(i, u, I) == i # NoRef => i \in DOMAIN I /\ I[i].user = u
Intended(D, I) == \A d \in DOMAIN D : Belongs(D[d].intent, D[d].user, I)

Sound(L, B, O, K, I, D) ==
  /\ Tables(L, B, O, K, I, D) /\ Reconciled(L, B)
  /\ Paid(L, O) /\ Credited(L, D) /\ Keyed(O, K)
  /\ Placed(I, O) /\ Intended(D, I)

-----------------------------------------------------------------------------
(* Sequences, and the ledger as one.                                       *)

LEMMA AppendParts ==
  ASSUME NEW S, NEW s \in Seq(S), NEW x \in S
  PROVE  /\ Append(s, x) \in Seq(S) /\ Len(s) \in Nat
         /\ DOMAIN s = 1..Len(s)
         /\ DOMAIN Append(s, x) = 1..(Len(s) + 1)
         /\ Append(s, x)[Len(s) + 1] = x
         /\ \A i \in DOMAIN s : i \in DOMAIN Append(s, x)
                                /\ Append(s, x)[i] = s[i]
         /\ \A i \in DOMAIN Append(s, x) : i \in DOMAIN s \/ i = Len(s) + 1
         /\ Len(s) + 1 \notin DOMAIN s
OBVIOUS

LEMMA RowChanged ==
  ASSUME NEW S, NEW s \in Seq(S), NEW i \in DOMAIN s, NEW x \in S
  PROVE  /\ [s EXCEPT ![i] = x] \in Seq(S)
         /\ DOMAIN [s EXCEPT ![i] = x] = DOMAIN s
         /\ [s EXCEPT ![i] = x][i] = x
         /\ \A j \in DOMAIN s \ {i} : [s EXCEPT ![i] = x][j] = s[j]
OBVIOUS

(* A line that adds its amount to the last balance, and leaves none that   *)
(* is negative, continues a ledger.                                        *)
LEMMA LineContinues ==
  ASSUME NEW l \in Seq(Line), NEW r \in Line, ChainedFrom(0, l),
         r.balanceAfter = FinalBalance(0, l) + r.amount, r.balanceAfter >= 0
  PROVE  /\ ChainedFrom(0, Append(l, r))
         /\ FinalBalance(0, Append(l, r)) = r.balanceAfter
<1> DEFINE m == Append(l, r)
<1>1. /\ m \in Seq(Line) /\ Len(m) = Len(l) + 1 /\ m[Len(l) + 1] = r
      /\ \A i \in 1..Len(l) : m[i] = l[i]
      /\ Len(l) \in Nat
  OBVIOUS
<1> HIDE DEF m
<1>2. FinalBalance(0, m) = r.balanceAfter
  BY <1>1 DEF FinalBalance
<1>3. ASSUME NEW i \in 1..Len(m)
      PROVE  /\ m[i].balanceAfter = BalanceBefore(0, m, i) + m[i].amount
             /\ m[i].balanceAfter >= 0
  <2>1. CASE i \in 1..Len(l)
    <3>1. BalanceBefore(0, m, i) = BalanceBefore(0, l, i)
      BY <1>1, <2>1 DEF BalanceBefore
    <3> QED
      BY <1>1, <2>1, <3>1 DEF ChainedFrom
  <2>2. CASE i = Len(l) + 1
    <3>1. BalanceBefore(0, m, i) = FinalBalance(0, l)
      BY <1>1, <2>2 DEF BalanceBefore, FinalBalance
    <3> QED
      BY <1>1, <2>2, <3>1
  <2> QED
    BY <1>1, <2>1, <2>2
<1> QED
  BY <1>2, <1>3 DEF ChainedFrom, m

LEMMA LedgerBalanceType ==
  ASSUME NEW l \in Seq(Line)
  PROVE  FinalBalance(0, l) \in Int
<1>1. Len(l) # 0 => l[Len(l)] \in Line
  OBVIOUS
<1> QED
  BY <1>1 DEF FinalBalance, Line

-----------------------------------------------------------------------------
(* One more line in u's ledger.                                            *)

With(L, u, r) == [L EXCEPT ![u] = Append(@, r)]
Left(B, u, r) == [B EXCEPT ![u] = r.balanceAfter]

LEMMA WithParts ==
  ASSUME NEW L \in [Users -> Seq(Line)], NEW u \in Users, NEW r \in Line
  PROVE  /\ With(L, u, r) \in [Users -> Seq(Line)]
         /\ With(L, u, r)[u] = Append(L[u], r)
         /\ \A w \in Users \ {u} : With(L, u, r)[w] = L[w]
         /\ Len(L[u]) \in Nat
         /\ Len(L[u]) + 1 \in DOMAIN With(L, u, r)[u]
         /\ With(L, u, r)[u][Len(L[u]) + 1] = r
         /\ \A w \in Users : \A n \in DOMAIN L[w] :
              n \in DOMAIN With(L, u, r)[w] /\ With(L, u, r)[w][n] = L[w][n]
         /\ \A w \in Users : \A n \in DOMAIN With(L, u, r)[w] :
              n \in DOMAIN L[w] \/ (w = u /\ n = Len(L[u]) + 1)
<1>1. L[u] \in Seq(Line)
  OBVIOUS
<1>2. /\ With(L, u, r)[u] = Append(L[u], r)
      /\ \A w \in Users \ {u} : With(L, u, r)[w] = L[w]
      /\ Append(L[u], r) \in Seq(Line)
  BY <1>1 DEF With
<1>3. With(L, u, r) \in [Users -> Seq(Line)]
  BY <1>2 DEF With
<1>4. /\ Len(L[u]) \in Nat /\ DOMAIN L[u] = 1..Len(L[u])
      /\ DOMAIN Append(L[u], r) = 1..(Len(L[u]) + 1)
      /\ Append(L[u], r)[Len(L[u]) + 1] = r
      /\ \A n \in DOMAIN L[u] : Append(L[u], r)[n] = L[u][n]
  BY <1>1, AppendParts
<1>5. \A w \in Users : \A n \in DOMAIN L[w] :
        n \in DOMAIN With(L, u, r)[w] /\ With(L, u, r)[w][n] = L[w][n]
  BY <1>2, <1>4
<1>6. \A w \in Users : \A n \in DOMAIN With(L, u, r)[w] :
        n \in DOMAIN L[w] \/ (w = u /\ n = Len(L[u]) + 1)
  BY <1>2, <1>4
<1> QED
  BY <1>2, <1>3, <1>4, <1>5, <1>6

LEMMA WithReconciled ==
  ASSUME NEW L \in [Users -> Seq(Line)], NEW B \in [Users -> Int],
         NEW u \in Users, NEW r \in Line, Reconciled(L, B),
         r.balanceAfter = B[u] + r.amount, r.balanceAfter >= 0
  PROVE  /\ Reconciled(With(L, u, r), Left(B, u, r))
         /\ Left(B, u, r) \in [Users -> Int]
<1>1. /\ ChainedFrom(0, Append(L[u], r))
      /\ FinalBalance(0, Append(L[u], r)) = r.balanceAfter
  BY LineContinues DEF Reconciled
<1>2. r.balanceAfter \in Int
  BY DEF Line
<1>3. /\ With(L, u, r)[u] = Append(L[u], r)
      /\ \A w \in Users \ {u} : With(L, u, r)[w] = L[w]
  BY DEF With
<1>4. /\ Left(B, u, r)[u] = r.balanceAfter
      /\ \A w \in Users \ {u} : Left(B, u, r)[w] = B[w]
      /\ Left(B, u, r) \in [Users -> Int]
  BY <1>2 DEF Left
<1> QED
  BY <1>1, <1>3, <1>4 DEF Reconciled

(* What other lines cite is cited as before.                               *)
LEMMA WithUncited ==
  ASSUME NEW L \in [Users -> Seq(Line)], NEW u \in Users, NEW r \in Line,
         NEW type, NEW ref, ~(r.type = type /\ r.ref = ref),
         Uncited(L, type, ref)
  PROVE  Uncited(With(L, u, r), type, ref)
<1> DEFINE M == With(L, u, r)
           k == Len(L[u]) + 1
<1>1. /\ M[u][k] = r
      /\ \A w \in Users : \A n \in DOMAIN L[w] :
           n \in DOMAIN M[w] /\ M[w][n] = L[w][n]
      /\ \A w \in Users : \A n \in DOMAIN M[w] :
           n \in DOMAIN L[w] \/ (w = u /\ n = k)
  BY WithParts, SMTT(30)
<1> HIDE DEF M, k
<1>2. \A w \in Users : \A n \in DOMAIN M[w] : ~Cites(M, w, n, type, ref)
  BY <1>1 DEF Uncited, Cites
<1> QED
  BY <1>2 DEF Uncited, M

LEMMA WithCites ==
  ASSUME NEW L \in [Users -> Seq(Line)], NEW u \in Users, NEW r \in Line,
         NEW type, NEW ref, ~(r.type = type /\ r.ref = ref),
         NEW w \in Users, NEW a, CitedOnce(L, w, type, ref, a)
  PROVE  CitedOnce(With(L, u, r), w, type, ref, a)
<1> DEFINE M == With(L, u, r)
           k == Len(L[u]) + 1
<1>1. /\ M[u][k] = r
      /\ \A x \in Users : \A n \in DOMAIN L[x] :
           n \in DOMAIN M[x] /\ M[x][n] = L[x][n]
      /\ \A x \in Users : \A n \in DOMAIN M[x] :
           n \in DOMAIN L[x] \/ (x = u /\ n = k)
  BY WithParts
<1> HIDE DEF M, k
<1>2. PICK n \in DOMAIN L[w] :
        /\ Cites(L, w, n, type, ref) /\ L[w][n].amount = a
        /\ \A x \in Users : \A m \in DOMAIN L[x] :
             Cites(L, x, m, type, ref) => x = w /\ m = n
  BY DEF CitedOnce
<1>3. \A x \in Users : \A m \in DOMAIN M[x] :
        Cites(M, x, m, type, ref) => x = w /\ m = n
  BY <1>1, <1>2, SMTT(30) DEF Cites
<1>4. n \in DOMAIN M[w] /\ Cites(M, w, n, type, ref) /\ M[w][n].amount = a
  BY <1>1, <1>2 DEF Cites
<1> QED
  BY <1>3, <1>4 DEF CitedOnce, M

(* What nothing cited, the new line cites alone.                           *)
LEMMA WithCitedOnce ==
  ASSUME NEW L \in [Users -> Seq(Line)], NEW u \in Users, NEW r \in Line,
         Uncited(L, r.type, r.ref)
  PROVE  CitedOnce(With(L, u, r), u, r.type, r.ref, r.amount)
<1> DEFINE M == With(L, u, r)
           n == Len(L[u]) + 1
<1>1. /\ n \in DOMAIN M[u] /\ M[u][n] = r
      /\ \A w \in Users : \A m \in DOMAIN L[w] : M[w][m] = L[w][m]
      /\ \A w \in Users : \A m \in DOMAIN M[w] :
           m \in DOMAIN L[w] \/ (w = u /\ m = n)
  BY WithParts
<1> HIDE DEF M, n
<1>2. \A w \in Users : \A m \in DOMAIN M[w] :
        Cites(M, w, m, r.type, r.ref) => w = u /\ m = n
  BY <1>1 DEF Uncited, Cites
<1> QED
  BY <1>1, <1>2 DEF CitedOnce, Cites, M

LEMMA NoDebt ==
  ASSUME NEW l \in Seq(Line), ChainedFrom(0, l)
  PROVE  FinalBalance(0, l) >= 0
<1>1. Len(l) # 0 => Len(l) \in 1..Len(l)
  OBVIOUS
<1> QED
  BY <1>1 DEF FinalBalance, ChainedFrom

(* A reference the table has no row for is not cited.                      *)
LEMMA NextUncited ==
  ASSUME NEW L, NEW type, NEW S, NEW T \in Seq(S), Refers(L, type, T)
  PROVE  Uncited(L, type, Len(T) + 1)
<1>1. Len(T) + 1 \notin DOMAIN T
  BY AppendParts
<1> QED
  BY <1>1 DEF Refers, Uncited, Cites

(* A new line refers to the table if its reference is in it.               *)
LEMMA WithRefers ==
  ASSUME NEW L \in [Users -> Seq(Line)], NEW u \in Users, NEW r \in Line,
         NEW type, NEW T, NEW T2, Refers(L, type, T),
         DOMAIN T \subseteq DOMAIN T2,
         r.type = type => r.ref \in DOMAIN T2
  PROVE  Refers(With(L, u, r), type, T2)
<1> DEFINE M == With(L, u, r)
           k == Len(L[u]) + 1
<1>1. /\ M[u][k] = r
      /\ \A w \in Users : \A n \in DOMAIN L[w] :
           n \in DOMAIN M[w] /\ M[w][n] = L[w][n]
      /\ \A w \in Users : \A n \in DOMAIN M[w] :
           n \in DOMAIN L[w] \/ (w = u /\ n = k)
  BY WithParts
<1> HIDE DEF M, k
<1>2. \A w \in Users : \A n \in DOMAIN M[w] :
        M[w][n].type = type => M[w][n].ref \in DOMAIN T2
  BY <1>1 DEF Refers
<1> QED
  BY <1>2 DEF Refers, M

-----------------------------------------------------------------------------
(* The writes of a transaction, one after another, on sound tables.        *)

Approval(D, d) == [D EXCEPT ![d].status = "APPROVED"]

(* A pending deposit approved with its credit.                             *)
LEMMA CreditSound ==
  ASSUME NEW L, NEW B, NEW O, NEW K, NEW I, NEW D, NEW d \in DOMAIN D,
         NEW r \in Line, Sound(L, B, O, K, I, D), D[d].status = "PENDING",
         r.type = "DEPOSIT", r.ref = d, r.amount = D[d].amount,
         r.balanceAfter = B[D[d].user] + r.amount
  PROVE  Sound(With(L, D[d].user, r), Left(B, D[d].user, r), O, K, I,
               Approval(D, d))
<1> DEFINE u == D[d].user
           E == Approval(D, d)
           M == With(L, u, r)
<1>1. /\ Tables(L, B, O, K, I, D) /\ Reconciled(L, B) /\ Paid(L, O)
      /\ Credited(L, D) /\ Keyed(O, K) /\ Placed(I, O) /\ Intended(D, I)
  BY DEF Sound
<1>2. /\ L \in [Users -> Seq(Line)] /\ B \in [Users -> Int]
      /\ D \in Seq(DepositRow)
  BY <1>1 DEF Tables
<1>3. /\ D[d] \in DepositRow /\ u \in Users /\ r.amount \in Nat
      /\ DOMAIN E = DOMAIN D /\ E \in Seq(DepositRow)
      /\ E[d].status = "APPROVED"
      /\ \A x \in DOMAIN D : /\ E[x].user = D[x].user
                             /\ E[x].amount = D[x].amount
                             /\ E[x].intent = D[x].intent
                             /\ x # d => E[x].status = D[x].status
  <2> DEFINE e == [D[d] EXCEPT !.status = "APPROVED"]
  <2>1. D[d] \in DepositRow
    BY <1>2
  <2>2. /\ e \in DepositRow /\ e.status = "APPROVED" /\ e.user = D[d].user
        /\ e.amount = D[d].amount /\ e.intent = D[d].intent
    BY <2>1 DEF DepositRow, DepositStatus
  <2>3. E = [D EXCEPT ![d] = e]
    BY DEF Approval
  <2> HIDE DEF e, E
  <2>4. /\ DOMAIN E = DOMAIN D /\ E \in Seq(DepositRow) /\ E[d] = e
        /\ \A x \in DOMAIN D \ {d} : E[x] = D[x]
    BY <1>2, <2>2, <2>3, RowChanged
  <2>5. u \in Users /\ r.amount \in Nat
    BY <2>1, AmountsAssumption DEF DepositRow
  <2> QED
    BY <2>1, <2>2, <2>4, <2>5
<1>4. r.balanceAfter >= 0
  <2>1. L[u] \in Seq(Line) /\ ChainedFrom(0, L[u])
        /\ B[u] = FinalBalance(0, L[u])
    BY <1>1, <1>2, <1>3 DEF Reconciled
  <2>2. B[u] >= 0 /\ B[u] \in Int
    BY <2>1, <1>2, <1>3, NoDebt
  <2> QED
    BY <2>2, <1>3
<1> HIDE DEF u, E
<1>5. Reconciled(M, Left(B, u, r)) /\ Left(B, u, r) \in [Users -> Int]
  BY <1>1, <1>2, <1>3, <1>4, WithReconciled DEF u
<1>6. M \in [Users -> Seq(Line)]
  BY <1>2, <1>3, WithParts
<1>7. Tables(M, Left(B, u, r), O, K, I, E)
  BY <1>1, <1>3, <1>5, <1>6 DEF Tables
<1>A. L \in [Users -> Seq(Line)] /\ u \in Users
  BY <1>2, <1>3
<1> HIDE DEF M
<1>8. Paid(M, O)
  <2>1. ASSUME NEW o \in DOMAIN O
        PROVE  CitedOnce(M, O[o].user, "ORDER_DEBIT", o, -O[o].charge)
    <3>1. O[o].user \in Users
      <4>1. O \in Seq(OrderRow)
        BY <1>1 DEF Tables
      <4>2. O[o] \in OrderRow
        BY <4>1
      <4> QED
        BY <4>2 DEF OrderRow
    <3>2. CitedOnce(L, O[o].user, "ORDER_DEBIT", o, -O[o].charge)
      BY <1>1 DEF Paid
    <3>3. ~(r.type = "ORDER_DEBIT" /\ r.ref = o)
      OBVIOUS
    <3> QED
      BY <1>A, <3>1, <3>2, <3>3, WithCites DEF M
  <2>2. Refers(M, "ORDER_DEBIT", O)
    BY <1>1, <1>2, <1>3, WithRefers DEF Paid, M
  <2> QED
    BY <2>1, <2>2 DEF Paid
<1>9. Credited(M, E)
  <2>1. ASSUME NEW x \in DOMAIN D, x # d, D[x].status = "APPROVED"
        PROVE  CitedOnce(M, D[x].user, "DEPOSIT", x, D[x].amount)
    <3>1. D[x].user \in Users
      <4>1. D[x] \in DepositRow
        BY <1>2
      <4> QED
        BY <4>1 DEF DepositRow
    <3>2. CitedOnce(L, D[x].user, "DEPOSIT", x, D[x].amount)
      BY <1>1, <2>1 DEF Credited
    <3>3. ~(r.type = "DEPOSIT" /\ r.ref = x)
      BY <2>1
    <3> QED
      BY <1>A, <3>1, <3>2, <3>3, WithCites DEF M
  <2>2. ASSUME NEW x \in DOMAIN D, x # d, D[x].status # "APPROVED"
        PROVE  Uncited(M, "DEPOSIT", x)
    <3>1. Uncited(L, "DEPOSIT", x)
      BY <1>1, <2>2 DEF Credited
    <3>2. ~(r.type = "DEPOSIT" /\ r.ref = x)
      BY <2>2
    <3> QED
      BY <1>2, <1>3, <3>1, <3>2, WithUncited, Zenon DEF M
  <2>3. CitedOnce(M, u, "DEPOSIT", d, D[d].amount)
    <3>1. Uncited(L, r.type, r.ref)
      BY <1>1 DEF Credited
    <3> QED
      BY <1>2, <1>3, <3>1, WithCitedOnce DEF M
  <2>4. Refers(M, "DEPOSIT", E)
    BY <1>1, <1>2, <1>3, WithRefers DEF Credited, M
  <2>5. ASSUME NEW x \in DOMAIN E
        PROVE  IF E[x].status = "APPROVED"
               THEN CitedOnce(M, E[x].user, "DEPOSIT", x, E[x].amount)
               ELSE Uncited(M, "DEPOSIT", x)
    BY <1>3, <2>1, <2>2, <2>3 DEF u
  <2> QED
    BY <2>4, <2>5 DEF Credited
<1>10. Intended(E, I)
  BY <1>1, <1>3 DEF Intended
<1> QED
  BY <1>1, <1>5, <1>7, <1>8, <1>9, <1>10 DEF Sound, M, u, E

OrderFor(u, k, q, c) == [user |-> u, key |-> k, quantity |-> q, charge |-> c]
KeyFor(K, u, k, q, o) == [K EXCEPT ![u][k] = [quantity |-> q, order |-> o]]

LEMMA KeyForParts ==
  ASSUME NEW K \in [Users -> [Keys -> KeyRow]], NEW u \in Users,
         NEW k \in Keys, NEW q \in Nat, NEW o \in Nat
  PROVE  /\ KeyFor(K, u, k, q, o) \in [Users -> [Keys -> KeyRow]]
         /\ KeyFor(K, u, k, q, o)[u][k] = [quantity |-> q, order |-> o]
<1> DEFINE row == [quantity |-> q, order |-> o]
           of == [K[u] EXCEPT ![k] = row]
<1>1. row \in KeyRow
  BY DEF KeyRow
<1> HIDE DEF row
<1>2. of \in [Keys -> KeyRow] /\ of[k] = row
  BY <1>1
<1>3. KeyFor(K, u, k, q, o) = [K EXCEPT ![u] = of]
  BY DEF KeyFor, row
<1> HIDE DEF of
<1> QED
  BY <1>2, <1>3 DEF row

(* The next order, with the debit that pays it and the key that names it.  *)
LEMMA OrderSound ==
  ASSUME NEW L, NEW B, NEW O, NEW K, NEW I, NEW D, Sound(L, B, O, K, I, D),
         NEW u \in Users, NEW k \in Keys, NEW q \in Quantities, NEW c \in Nat,
         K[u][k] = NoKeyRow,
         NEW r \in Line, r.type = "ORDER_DEBIT", r.ref = Len(O) + 1,
         r.amount = -c, r.balanceAfter = B[u] + r.amount, r.balanceAfter >= 0
  PROVE  /\ Sound(With(L, u, r), Left(B, u, r), Append(O, OrderFor(u, k, q, c)),
                  KeyFor(K, u, k, q, Len(O) + 1), I, D)
         /\ Len(O) \in Nat
<1> DEFINE row == OrderFor(u, k, q, c)
           P == Append(O, row)
           H == KeyFor(K, u, k, q, Len(O) + 1)
           M == With(L, u, r)
           new == Len(O) + 1
<1>1. /\ Tables(L, B, O, K, I, D) /\ Reconciled(L, B) /\ Paid(L, O)
      /\ Credited(L, D) /\ Keyed(O, K) /\ Placed(I, O) /\ Intended(D, I)
  BY DEF Sound
<1>2. /\ L \in [Users -> Seq(Line)] /\ B \in [Users -> Int]
      /\ O \in Seq(OrderRow) /\ K \in [Users -> [Keys -> KeyRow]]
      /\ D \in Seq(DepositRow)
  BY <1>1 DEF Tables
<1>3. row \in OrderRow /\ q \in Nat
  BY QuantitiesAssumption DEF OrderRow, OrderFor
<1>4. /\ P \in Seq(OrderRow) /\ Len(O) \in Nat /\ DOMAIN O = 1..Len(O)
      /\ DOMAIN P = 1..new /\ P[new] = row
      /\ \A o \in DOMAIN O : o \in DOMAIN P /\ P[o] = O[o]
      /\ \A o \in DOMAIN P : o \in DOMAIN O \/ o = new
  BY <1>2, <1>3, AppendParts
<1>5. /\ H \in [Users -> [Keys -> KeyRow]]
      /\ H[u][k] = [quantity |-> q, order |-> new]
      /\ \A w \in Users, h \in Keys : (w # u \/ h # k) => H[w][h] = K[w][h]
  <2>1. new \in Nat
    BY <1>4
  <2>2. \A w \in Users, h \in Keys : (w # u \/ h # k) => H[w][h] = K[w][h]
    BY <1>2 DEF KeyFor
  <2>3. K \in [Users -> [Keys -> KeyRow]] /\ q \in Nat
    BY <1>2, <1>3
  <2>4. H \in [Users -> [Keys -> KeyRow]]
    BY <2>1, <2>3, KeyForParts
  <2>5. H[u][k] = [quantity |-> q, order |-> new]
    BY <2>1, <2>3, KeyForParts
  <2> QED
    BY <2>2, <2>4, <2>5
<1>6. /\ row.user = u /\ row.key = k /\ row.quantity = q /\ row.charge = c
  BY DEF OrderFor
<1> HIDE DEF row, P, H, M
<1>7. Reconciled(M, Left(B, u, r)) /\ Left(B, u, r) \in [Users -> Int]
  BY <1>1, <1>2, WithReconciled DEF M
<1>8. M \in [Users -> Seq(Line)]
  BY <1>2, WithParts DEF M
<1>9. Tables(M, Left(B, u, r), P, H, I, D)
  BY <1>1, <1>4, <1>5, <1>7, <1>8 DEF Tables
<1>10. Paid(M, P)
  <2>1. ASSUME NEW o \in DOMAIN O
        PROVE  CitedOnce(M, O[o].user, "ORDER_DEBIT", o, -O[o].charge)
    <3>1. O[o].user \in Users
      <4>1. O[o] \in OrderRow
        BY <1>2
      <4> QED
        BY <4>1 DEF OrderRow
    <3>2. CitedOnce(L, O[o].user, "ORDER_DEBIT", o, -O[o].charge)
      BY <1>1 DEF Paid
    <3>3. ~(r.type = "ORDER_DEBIT" /\ r.ref = o)
      BY <1>4
    <3> QED
      BY <1>2, <3>1, <3>2, <3>3, WithCites DEF M
  <2>2. CitedOnce(M, u, "ORDER_DEBIT", new, -c)
    <3>1. Uncited(L, "ORDER_DEBIT", new)
      BY <1>1, <1>2, NextUncited DEF Paid
    <3> QED
      BY <1>2, <3>1, WithCitedOnce DEF M
  <2>3. Refers(M, "ORDER_DEBIT", P)
    BY <1>1, <1>2, <1>4, WithRefers DEF Paid, M
  <2>4. ASSUME NEW o \in DOMAIN P
        PROVE  CitedOnce(M, P[o].user, "ORDER_DEBIT", o, -P[o].charge)
    <3>1. CASE o \in DOMAIN O
      <4>1. P[o] = O[o]
        BY <1>4, <3>1
      <4> QED
        BY <2>1, <3>1, <4>1
    <3>2. CASE o = new
      <4>1. P[o].user = u /\ P[o].charge = c
        BY <1>4, <1>6, <3>2
      <4> QED
        BY <2>2, <3>2, <4>1
    <3> QED
      BY <1>4, <3>1, <3>2
  <2> QED
    BY <2>3, <2>4 DEF Paid
<1>11. Credited(M, D)
  <2>1. ASSUME NEW x \in DOMAIN D
        PROVE  ~(r.type = "DEPOSIT" /\ r.ref = x) /\ D[x].user \in Users
    <3>1. D[x] \in DepositRow
      BY <1>2
    <3> QED
      BY <3>1 DEF DepositRow
  <2>2. ASSUME NEW x \in DOMAIN D, D[x].status = "APPROVED"
        PROVE  CitedOnce(M, D[x].user, "DEPOSIT", x, D[x].amount)
    <3>1. CitedOnce(L, D[x].user, "DEPOSIT", x, D[x].amount)
      BY <1>1, <2>2 DEF Credited
    <3> QED
      BY <1>2, <2>1, <3>1, WithCites DEF M
  <2>3. ASSUME NEW x \in DOMAIN D, D[x].status # "APPROVED"
        PROVE  Uncited(M, "DEPOSIT", x)
    <3>1. Uncited(L, "DEPOSIT", x)
      BY <1>1, <2>3 DEF Credited
    <3> QED
      BY <1>2, <2>1, <3>1, WithUncited DEF M
  <2>4. Refers(M, "DEPOSIT", D)
    BY <1>1, <1>2, WithRefers DEF Credited, M
  <2> QED
    BY <2>2, <2>3, <2>4 DEF Credited
<1>12. Keyed(P, H)
  <2>1. ASSUME NEW o \in DOMAIN P
        PROVE  H[P[o].user][P[o].key]
                 = [quantity |-> P[o].quantity, order |-> o]
    <3>1. CASE o \in DOMAIN O
      <4>1. O[o] \in OrderRow
        BY <1>2, <3>1
      <4>2. K[O[o].user][O[o].key] = [quantity |-> O[o].quantity, order |-> o]
        BY <1>1, <3>1 DEF Keyed
      <4>3. O[o].user \in Users /\ O[o].key \in Keys
            /\ (O[o].user # u \/ O[o].key # k)
        BY <1>4, <3>1, <4>1, <4>2 DEF OrderRow, NoKeyRow, NoRef
      <4> QED
        BY <1>4, <1>5, <3>1, <4>2, <4>3
    <3>2. CASE o = new
      BY <1>4, <1>5, <1>6, <3>2
    <3> QED
      BY <1>4, <3>1, <3>2
  <2>2. ASSUME NEW w \in Users, NEW h \in Keys, H[w][h] # NoKeyRow
        PROVE  LET o == H[w][h].order
               IN  /\ o \in DOMAIN P /\ P[o].user = w /\ P[o].key = h
                   /\ P[o].quantity = H[w][h].quantity
    <3>1. CASE w = u /\ h = k
      BY <1>4, <1>5, <1>6, <3>1
    <3>2. CASE w # u \/ h # k
      BY <1>1, <1>4, <1>5, <2>2, <3>2 DEF Keyed
    <3> QED
      BY <3>1, <3>2
  <2> QED
    BY <2>1, <2>2 DEF Keyed
<1>13. Placed(I, P)
  BY <1>1, <1>4 DEF Placed, OrderOf
<1> QED
  BY <1>1, <1>4, <1>7, <1>9, <1>10, <1>11, <1>12, <1>13 DEF Sound, M, P, H, row

(* Intents that change without losing their customer or gaining an order   *)
(* that is not theirs.                                                     *)
LEMMA IntentsSound ==
  ASSUME NEW L, NEW B, NEW O, NEW K, NEW I, NEW D, Sound(L, B, O, K, I, D),
         NEW J \in Seq(IntentRow), Placed(J, O),
         \A i \in DOMAIN I : i \in DOMAIN J /\ J[i].user = I[i].user
  PROVE  Sound(L, B, O, K, J, D)
<1>1. Tables(L, B, O, K, J, D)
  BY DEF Sound, Tables
<1>2. Intended(D, J)
  BY DEF Sound, Intended, Belongs
<1> QED
  BY <1>1, <1>2 DEF Sound

(* Deposits that change without becoming APPROVED.                         *)
LEMMA DepositsSound ==
  ASSUME NEW L, NEW B, NEW O, NEW K, NEW I, NEW D, Sound(L, B, O, K, I, D),
         NEW E \in Seq(DepositRow), Intended(E, I),
         \A d \in DOMAIN D :
            /\ d \in DOMAIN E
            /\ E[d].user = D[d].user /\ E[d].amount = D[d].amount
            /\ E[d].status = "APPROVED" <=> D[d].status = "APPROVED",
         \A d \in DOMAIN E : d \in DOMAIN D \/ E[d].status # "APPROVED"
  PROVE  Sound(L, B, O, K, I, E)
<1>1. Tables(L, B, O, K, I, E)
  BY DEF Sound, Tables
<1>2. Credited(L, D)
  BY DEF Sound
<1>3. Refers(L, "DEPOSIT", E)
  BY <1>2 DEF Credited, Refers
<1>4. ASSUME NEW d \in DOMAIN E
      PROVE  IF E[d].status = "APPROVED"
             THEN CitedOnce(L, E[d].user, "DEPOSIT", d, E[d].amount)
             ELSE Uncited(L, "DEPOSIT", d)
  <2>1. CASE d \in DOMAIN D
    BY <1>2, <2>1 DEF Credited
  <2>2. CASE d \notin DOMAIN D
    BY <1>2, <2>2 DEF Credited, Refers, Uncited, Cites
  <2> QED
    BY <2>1, <2>2
<1> QED
  BY <1>1, <1>3, <1>4 DEF Sound, Credited

(* SetIntent, as a table.                                                  *)
Resolved(I, i, status, o) ==
  [I EXCEPT ![i].status = status, ![i].order = o]

LEMMA ResolvedParts ==
  ASSUME NEW I \in Seq(IntentRow), NEW i \in DOMAIN I,
         NEW status \in IntentStatus, NEW o \in Nat
  PROVE  /\ Resolved(I, i, status, o) \in Seq(IntentRow)
         /\ DOMAIN Resolved(I, i, status, o) = DOMAIN I
         /\ Resolved(I, i, status, o)[i].status = status
         /\ Resolved(I, i, status, o)[i].order = o
         /\ \A x \in DOMAIN I :
              /\ Resolved(I, i, status, o)[x].user = I[x].user
              /\ Resolved(I, i, status, o)[x].key = I[x].key
              /\ Resolved(I, i, status, o)[x].quantity = I[x].quantity
         /\ \A x \in DOMAIN I \ {i} : Resolved(I, i, status, o)[x] = I[x]
<1> DEFINE row == [I[i] EXCEPT !.status = status, !.order = o]
           J == Resolved(I, i, status, o)
<1>1. I[i] \in IntentRow
  OBVIOUS
<1>2. /\ row \in IntentRow /\ row.status = status /\ row.order = o
      /\ row.user = I[i].user /\ row.key = I[i].key
      /\ row.quantity = I[i].quantity
  BY <1>1 DEF IntentRow
<1>3. J = [I EXCEPT ![i] = row]
  BY DEF Resolved
<1> HIDE DEF row, J
<1>4. /\ J \in Seq(IntentRow) /\ DOMAIN J = DOMAIN I /\ J[i] = row
      /\ \A x \in DOMAIN I \ {i} : J[x] = I[x]
  BY <1>2, <1>3, RowChanged
<1>5. \A x \in DOMAIN I : /\ J[x].user = I[x].user /\ J[x].key = I[x].key
                          /\ J[x].quantity = I[x].quantity
  BY <1>2, <1>4
<1> QED
  BY <1>2, <1>4, <1>5 DEF J

LEMMA ResolvedSound ==
  ASSUME NEW L, NEW B, NEW O, NEW K, NEW I, NEW D, Sound(L, B, O, K, I, D),
         NEW i \in DOMAIN I, NEW status \in IntentStatus, NEW o \in Nat,
         status = "FULFILLED" => OrderOf(i, o, I, O)
  PROVE  Sound(L, B, O, K, Resolved(I, i, status, o), D)
<1> DEFINE J == Resolved(I, i, status, o)
<1>1. I \in Seq(IntentRow) /\ Placed(I, O)
  BY DEF Sound, Tables
<1>2. /\ J \in Seq(IntentRow) /\ DOMAIN J = DOMAIN I
      /\ J[i].status = status /\ J[i].order = o
      /\ \A x \in DOMAIN I : /\ J[x].user = I[x].user /\ J[x].key = I[x].key
                             /\ J[x].quantity = I[x].quantity
      /\ \A x \in DOMAIN I \ {i} : J[x] = I[x]
  BY <1>1, ResolvedParts
<1> HIDE DEF J
<1>3. Placed(J, O)
  <2> SUFFICES ASSUME NEW x \in DOMAIN J, J[x].status = "FULFILLED"
               PROVE  OrderOf(x, J[x].order, J, O)
    BY DEF Placed
  <2>1. CASE x = i
    BY <1>2, <2>1 DEF OrderOf
  <2>2. CASE x # i
    BY <1>1, <1>2, <2>2 DEF Placed, OrderOf
  <2> QED
    BY <2>1, <2>2
<1> QED
  BY <1>2, <1>3, IntentsSound DEF J

-----------------------------------------------------------------------------
(* The invariant.                                                          *)

JobRow == [at : JobAt, user : Users \cup {NoRef}, key : Keys \cup {NoRef},
           quantity : Nat, charge : Nat, deposit : Nat, intent : Nat]

(* The shape of what is not a table. *)
Around ==
  /\ service \in [price : Prices, active : BOOLEAN]
  /\ config \in [enabled : Enabled, autoVerify : AutoVerify]
  /\ gateway \in [1..MaxDeposits -> {"PENDING", "PAID", "FAILED"}]
  /\ walletLock \in [Users -> Jobs \cup {NoJob}]
  /\ depositLock \in [1..MaxDeposits -> Jobs \cup {NoJob}]
  /\ intentLock \in [1..MaxIntents -> Jobs \cup {NoJob}]
  /\ job \in [Jobs -> JobRow]
  /\ crashes \in Nat

TablesSound == Sound(ledger, balance, orders, keys, intents, deposits)

(* The deposit of a job is a deposit, of the job's customer. *)
HasDeposit(p) ==
  LET d == job[p].deposit
  IN d \in DOMAIN deposits /\ deposits[d].user = job[p].user

(* It is one of those that can be locked. *)
HoldsDeposit(p) ==
  LET d == job[p].deposit
  IN /\ d \in 1..MaxDeposits /\ depositLock[d] = p
     /\ deposits[d].status = "PENDING"

HasIntent(p) ==
  LET i == job[p].intent
  IN i \in DOMAIN intents /\ i \in 1..MaxIntents

HasOrder(p) ==
  /\ job[p].user \in Users /\ job[p].key \in Keys
  /\ job[p].quantity \in Quantities

(* What a job relies on between two of its steps: the deposit it approves  *)
(* is locked by it and still PENDING, the wallet it read is locked by it   *)
(* and still covers its order, the intent it retries is locked by it and   *)
(* still FAILED.                                                           *)
JobSound(p) ==
  /\ job[p].at \in {"redirect", "place", "debit", "commit"} => HasOrder(p)
  /\ job[p].at = "commit" =>
       /\ walletLock[job[p].user] = p
       /\ Adjustable(balance[job[p].user], -job[p].charge)
  /\ job[p].at \in {"create", "settle"} =>
       job[p].user \in Users /\ Belongs(job[p].intent, job[p].user, intents)
  /\ job[p].at \in {"initiate", "fail", "paid", "verified", "credit",
                    "settle", "approve", "reject", "release"} => HasDeposit(p)
  /\ job[p].at \in {"fail", "paid", "verified", "approve", "reject"} =>
       job[p].deposit \in 1..MaxDeposits
  /\ job[p].at \in {"credit", "settle", "release"} => HoldsDeposit(p)
  /\ job[p].at = "settle" => walletLock[job[p].user] = p
  /\ job[p].at \in {"retry", "retryDebit"} => HasIntent(p)
  /\ job[p].at = "retryDebit" =>
       /\ intentLock[job[p].intent] = p
       /\ intents[job[p].intent].status = "FAILED"

IInv == Around /\ TablesSound /\ \A p \in Jobs : JobSound(p)

-----------------------------------------------------------------------------
(* What a step of p may do to rows others rely on.                         *)

(* Rows keep their customers. *)
RowsStay ==
  /\ \A d \in DOMAIN deposits :
       d \in DOMAIN deposits' /\ deposits'[d].user = deposits[d].user
  /\ \A i \in DOMAIN intents :
       i \in DOMAIN intents' /\ intents'[i].user = intents[i].user

(* A row locked by another job keeps its status or balance. *)
LocksRespected(p) ==
  /\ \A u \in Users : Free(walletLock[u], p) \/ balance'[u] = balance[u]
  /\ \A d \in DOMAIN deposits :
       d \in 1..MaxDeposits =>
         Free(depositLock[d], p) \/ deposits'[d].status = deposits[d].status
  /\ \A i \in DOMAIN intents :
       i \in 1..MaxIntents =>
         Free(intentLock[i], p) \/ intents'[i].status = intents[i].status

(* What is settled stays settled. *)
Settled ==
  /\ Len(deposits') >= Len(deposits) /\ Len(intents') >= Len(intents)
  /\ \A d \in DOMAIN deposits :
       deposits[d].status # "PENDING" =>
         deposits'[d].status = deposits[d].status
  /\ \A i \in DOMAIN intents :
       intents[i].status \in {"FULFILLED", "EXPIRED"} =>
         /\ intents'[i].status = intents[i].status
         /\ intents'[i].order = intents[i].order

(* A legal change of the tables by p. *)
Writes(p) == TablesSound' /\ RowsStay /\ LocksRespected(p) /\ Settled

(* The locks another job holds stay its own. *)
LocksKept(q) ==
  /\ \A u \in Users : walletLock[u] = q => walletLock'[u] = q
  /\ \A d \in 1..MaxDeposits : depositLock[d] = q => depositLock'[d] = q
  /\ \A i \in 1..MaxIntents : intentLock[i] = q => intentLock'[i] = q

LEMMA OtherJobs ==
  ASSUME IInv, NEW p, NEW q \in Jobs, q # p,
         RowsStay, LocksRespected(p), LocksKept(q), job'[q] = job[q]
  PROVE  JobSound(q)'
<1>1. JobSound(q) /\ job[q] \in JobRow
  BY DEF IInv, Around
<1>2. q # NoJob
  BY JobsAssumption
<1>3. \A u \in Users : walletLock[u] = q =>
         walletLock'[u] = q /\ balance'[u] = balance[u]
  BY <1>2 DEF LocksRespected, LocksKept, Free
<1>4. \A d \in DOMAIN deposits : d \in 1..MaxDeposits /\ depositLock[d] = q =>
         depositLock'[d] = q /\ deposits'[d].status = deposits[d].status
  BY <1>2 DEF LocksRespected, LocksKept, Free
<1>5. \A i \in DOMAIN intents : i \in 1..MaxIntents /\ intentLock[i] = q =>
         intentLock'[i] = q /\ intents'[i].status = intents[i].status
  BY <1>2 DEF LocksRespected, LocksKept, Free
<1>6. HasOrder(q) => HasOrder(q)'
  BY DEF HasOrder
<1>7. HasDeposit(q) => HasDeposit(q)'
  BY DEF HasDeposit, RowsStay
<1>8. HasIntent(q) => HasIntent(q)'
  BY DEF HasIntent, RowsStay
<1>9. HasDeposit(q) /\ HoldsDeposit(q) => HoldsDeposit(q)'
  BY <1>4 DEF HasDeposit, HoldsDeposit
<1>10. HasIntent(q) /\ intentLock[job[q].intent] = q =>
         /\ intentLock'[job[q].intent] = q
         /\ intents'[job[q].intent].status = intents[job[q].intent].status
  BY <1>5 DEF HasIntent
<1>11. Belongs(job[q].intent, job[q].user, intents) =>
         Belongs(job[q].intent, job[q].user, intents)'
  BY DEF Belongs, RowsStay
<1>12. HasOrder(q) => job[q].user \in Users
  BY DEF HasOrder
<1>13. job'[q] = job[q]
  OBVIOUS
<1> QED
  BY <1>1, <1>3, <1>6, <1>7, <1>8, <1>9, <1>10, <1>11, <1>12, <1>13
     DEF JobSound

LEMMA Unwritten ==
  ASSUME IInv, UNCHANGED db, NEW p
  PROVE  Writes(p)
<1>1. /\ balance' = balance /\ ledger' = ledger /\ orders' = orders
      /\ keys' = keys /\ intents' = intents /\ deposits' = deposits
  BY DEF db
<1>2. TablesSound'
  BY <1>1 DEF IInv, TablesSound
<1>3. Len(deposits) \in Nat /\ Len(intents) \in Nat
  <2>1. deposits \in Seq(DepositRow) /\ intents \in Seq(IntentRow)
    BY DEF IInv, TablesSound, Sound, Tables
  <2> QED
    BY <2>1
<1> QED
  BY <1>1, <1>2, <1>3 DEF Writes, RowsStay, LocksRespected, Settled

(* A step of p that ends its transaction. *)
LEMMA FinishStep ==
  ASSUME IInv, NEW p \in Jobs, Finish(p), Writes(p)
  PROVE  IInv'
<1>1. Around
  BY DEF IInv
<1>2. job' = [job EXCEPT ![p] = Idle] /\ Idle \in JobRow /\ Idle.at = "idle"
  BY DEF Finish, Idle, JobRow, JobAt, NoRef
<1>3. job' \in [Jobs -> JobRow] /\ job'[p] = Idle
      /\ \A q \in Jobs \ {p} : job'[q] = job[q]
  BY <1>1, <1>2 DEF Around
<1>4. /\ walletLock' \in [Users -> Jobs \cup {NoJob}]
      /\ depositLock' \in [1..MaxDeposits -> Jobs \cup {NoJob}]
      /\ intentLock' \in [1..MaxIntents -> Jobs \cup {NoJob}]
  BY <1>1 DEF Around, Finish
<1>5. Around'
  BY <1>1, <1>3, <1>4 DEF Around, Finish, world
<1>6. ASSUME NEW q \in Jobs, q # p
      PROVE  JobSound(q)'
  <2>1. LocksKept(q)
    BY <1>1, <1>6 DEF Finish, LocksKept, Around
  <2> QED
    BY <1>3, <1>6, <2>1, OtherJobs DEF Writes
<1>7. JobSound(p)'
  BY <1>2, <1>3 DEF JobSound
<1> QED
  BY <1>5, <1>6, <1>7 DEF IInv, Writes

(* A step of p that goes on with it. *)
LEMMA MoveStep ==
  ASSUME IInv, NEW p \in Jobs, NEW r \in JobRow, job' = [job EXCEPT ![p] = r],
         Writes(p), UNCHANGED <<world, crashes>>,
         walletLock' \in [Users -> Jobs \cup {NoJob}],
         depositLock' \in [1..MaxDeposits -> Jobs \cup {NoJob}],
         intentLock' \in [1..MaxIntents -> Jobs \cup {NoJob}],
         \A q \in Jobs \ {p} : LocksKept(q), JobSound(p)'
  PROVE  IInv'
<1>1. Around
  BY DEF IInv
<1>2. job' \in [Jobs -> JobRow] /\ \A q \in Jobs \ {p} : job'[q] = job[q]
  BY <1>1 DEF Around
<1>3. Around'
  BY <1>1, <1>2 DEF Around, world
<1>4. ASSUME NEW q \in Jobs, q # p
      PROVE  JobSound(q)'
  BY <1>2, <1>4, OtherJobs DEF Writes
<1> QED
  BY <1>3, <1>4 DEF IInv, Writes

(* A step of p that takes no lock and goes on with it. *)
LEMMA PlainMove ==
  ASSUME IInv, NEW p \in Jobs, NEW r \in JobRow, job' = [job EXCEPT ![p] = r],
         Writes(p), UNCHANGED <<world, crashes, locks>>, JobSound(p)'
  PROVE  IInv'
<1>1. /\ walletLock' = walletLock /\ depositLock' = depositLock
      /\ intentLock' = intentLock
  BY DEF locks
<1>2. \A q \in Jobs \ {p} : LocksKept(q)
  BY <1>1 DEF LocksKept
<1> QED
  BY <1>1, <1>2, MoveStep DEF IInv, Around

-----------------------------------------------------------------------------
(* The ways tables are written.                                            *)

LEMMA TableTypes ==
  ASSUME IInv
  PROVE  /\ ledger \in [Users -> Seq(Line)] /\ balance \in [Users -> Int]
         /\ orders \in Seq(OrderRow) /\ keys \in [Users -> [Keys -> KeyRow]]
         /\ intents \in Seq(IntentRow) /\ deposits \in Seq(DepositRow)
BY DEF IInv, TablesSound, Sound, Tables

LEMMA IntentAdded ==
  ASSUME IInv, NEW p, NEW row \in IntentRow, row.status = "PENDING",
         intents' = Append(intents, row),
         UNCHANGED <<balance, ledger, orders, keys, deposits>>
  PROVE  Writes(p)
<1>1. intents \in Seq(IntentRow) /\ deposits \in Seq(DepositRow)
  BY TableTypes
<1>2. /\ intents' \in Seq(IntentRow) /\ Len(intents) \in Nat
      /\ Len(deposits) \in Nat
      /\ Len(intents') = Len(intents) + 1
      /\ intents'[Len(intents) + 1] = row
      /\ \A i \in DOMAIN intents : i \in DOMAIN intents'
                                   /\ intents'[i] = intents[i]
      /\ \A i \in DOMAIN intents' : i \in DOMAIN intents \/ i = Len(intents) + 1
  BY <1>1
<1>3. TablesSound /\ Placed(intents, orders)
  BY DEF IInv, TablesSound, Sound
<1>4. Placed(intents', orders)
  BY <1>2, <1>3 DEF Placed, OrderOf
<1>5. TablesSound'
  <2>1. Sound(ledger, balance, orders, keys, intents', deposits)
    BY <1>2, <1>3, <1>4, IntentsSound DEF TablesSound
  <2> QED
    BY <2>1 DEF TablesSound
<1> QED
  BY <1>2, <1>5 DEF Writes, RowsStay, LocksRespected, Settled

LEMMA IntentResolved ==
  ASSUME IInv, NEW p, NEW i \in DOMAIN intents, NEW status \in IntentStatus,
         NEW o \in Nat, SetIntent(i, status, o),
         UNCHANGED <<balance, ledger, orders, keys, deposits>>,
         status = "FULFILLED" => OrderOf(i, o, intents, orders),
         Free(intentLock[i], p),
         \/ intents[i].status \notin {"FULFILLED", "EXPIRED"}
         \/ intents[i].status = status /\ intents[i].order = o
  PROVE  Writes(p)
<1>1. intents \in Seq(IntentRow) /\ deposits \in Seq(DepositRow)
  BY TableTypes
<1>2. intents' = Resolved(intents, i, status, o)
  BY DEF SetIntent, Resolved
<1>3. Len(intents') = Len(intents) /\ Len(intents) \in Nat
      /\ Len(deposits) \in Nat
  BY <1>1, <1>2 DEF Resolved
<1>4. /\ DOMAIN intents' = DOMAIN intents
      /\ intents'[i].status = status /\ intents'[i].order = o
      /\ \A x \in DOMAIN intents : intents'[x].user = intents[x].user
      /\ \A x \in DOMAIN intents \ {i} : intents'[x] = intents[x]
  <2> DEFINE J == Resolved(intents, i, status, o)
  <2>1. /\ J \in Seq(IntentRow) /\ DOMAIN J = DOMAIN intents
        /\ J[i].status = status /\ J[i].order = o
        /\ \A x \in DOMAIN intents :
             /\ J[x].user = intents[x].user /\ J[x].key = intents[x].key
             /\ J[x].quantity = intents[x].quantity
        /\ \A x \in DOMAIN intents \ {i} : J[x] = intents[x]
    BY <1>1, ResolvedParts, Z3
  <2> HIDE DEF J
  <2>2. intents' = J
    BY <1>2 DEF J
  <2> QED
    BY <2>1, <2>2
<1>5. TablesSound'
  <2>1. Sound(ledger, balance, orders, keys, Resolved(intents, i, status, o),
              deposits)
    BY ResolvedSound DEF IInv, TablesSound
  <2> QED
    BY <1>2, <2>1 DEF TablesSound
<1> QED
  BY <1>3, <1>4, <1>5 DEF Writes, RowsStay, LocksRespected, Settled

LEMMA DepositAdded ==
  ASSUME IInv, NEW p, NEW row \in DepositRow, row.status = "PENDING",
         Belongs(row.intent, row.user, intents),
         deposits' = Append(deposits, row),
         UNCHANGED <<balance, ledger, orders, keys, intents>>
  PROVE  Writes(p)
<1>1. intents \in Seq(IntentRow) /\ deposits \in Seq(DepositRow)
  BY TableTypes
<1>2. /\ deposits' \in Seq(DepositRow) /\ Len(intents) \in Nat
      /\ Len(deposits) \in Nat
      /\ Len(deposits') = Len(deposits) + 1
      /\ deposits'[Len(deposits) + 1] = row
      /\ \A d \in DOMAIN deposits : d \in DOMAIN deposits'
                                    /\ deposits'[d] = deposits[d]
      /\ \A d \in DOMAIN deposits' : \/ d \in DOMAIN deposits
                                     \/ deposits'[d] = row
  BY <1>1
<1>3. TablesSound /\ Intended(deposits, intents)
  BY DEF IInv, TablesSound, Sound
<1>4. Intended(deposits', intents)
  BY <1>2, <1>3 DEF Intended
<1>5. TablesSound'
  <2>1. Sound(ledger, balance, orders, keys, intents, deposits')
    BY <1>2, <1>3, <1>4, DepositsSound DEF TablesSound
  <2> QED
    BY <2>1 DEF TablesSound
<1> QED
  BY <1>2, <1>5 DEF Writes, RowsStay, LocksRespected, Settled

(* A deposit that changes, but does not become APPROVED. *)
LEMMA DepositChanged ==
  ASSUME IInv, NEW p, NEW d \in DOMAIN deposits, NEW row \in DepositRow,
         deposits' = [deposits EXCEPT ![d] = row],
         UNCHANGED <<balance, ledger, orders, keys, intents>>,
         row.user = deposits[d].user, row.amount = deposits[d].amount,
         row.intent = deposits[d].intent,
         \/ row.status = deposits[d].status
         \/ /\ deposits[d].status = "PENDING" /\ row.status = "REJECTED"
            /\ Free(depositLock[d], p)
  PROVE  Writes(p)
<1>1. intents \in Seq(IntentRow) /\ deposits \in Seq(DepositRow)
  BY TableTypes
<1>2. /\ deposits' \in Seq(DepositRow) /\ DOMAIN deposits' = DOMAIN deposits
      /\ deposits'[d] = row
      /\ \A x \in DOMAIN deposits \ {d} : deposits'[x] = deposits[x]
  BY <1>1, RowChanged
<1>3. Len(deposits') = Len(deposits) /\ Len(intents) \in Nat
      /\ Len(deposits) \in Nat
  BY <1>1, <1>2
<1>4. TablesSound /\ Intended(deposits, intents)
  BY DEF IInv, TablesSound, Sound
<1>5. Intended(deposits', intents)
  BY <1>2, <1>4 DEF Intended
<1>6. TablesSound'
  <2>1. Sound(ledger, balance, orders, keys, intents, deposits')
    BY <1>2, <1>4, <1>5, DepositsSound DEF TablesSound
  <2> QED
    BY <2>1 DEF TablesSound
<1> QED
  BY <1>2, <1>3, <1>6 DEF Writes, RowsStay, LocksRespected, Settled

-----------------------------------------------------------------------------
(* Placing an order.                                                       *)

LEMMA ChargeType ==
  ASSUME IInv, NEW q \in Quantities
  PROVE  Charge(q) \in Nat
<1>1. service.price \in Nat /\ q \in Nat
  BY PricesAssumption, QuantitiesAssumption DEF IInv, Around
<1> QED
  BY <1>1 DEF Charge

LEMMA SubmitStep ==
  ASSUME IInv, NEW p \in Jobs, NEW u \in Users, NEW k \in Keys,
         NEW q \in Quantities, Submit(p, u, k, q)
  PROVE  Writes(p) /\ IInv'
<1> DEFINE r == [Idle EXCEPT !.user = u, !.key = k, !.quantity = q,
                   !.at = IF balance[u] >= Charge(q) THEN "place"
                                                     ELSE "redirect"]
<1>1. Writes(p)
  BY Unwritten DEF Submit
<1>2. /\ r \in JobRow /\ r.user = u /\ r.key = k /\ r.quantity = q
      /\ r.at \in {"place", "redirect"}
  BY QuantitiesAssumption DEF JobRow, JobAt, Idle, NoRef
<1>3. job' = [job EXCEPT ![p] = r] /\ UNCHANGED <<world, crashes, locks>>
  BY DEF Submit
<1> HIDE DEF r
<1>4. job'[p] = r
  BY <1>3 DEF IInv, Around
<1>5. JobSound(p)'
  BY <1>2, <1>4 DEF JobSound, HasOrder
<1> QED
  BY <1>1, <1>2, <1>3, <1>5, PlainMove

LEMMA RedirectStep ==
  ASSUME IInv, NEW p \in Jobs, Redirect(p)
  PROVE  Writes(p) /\ IInv'
<1> DEFINE row == [user |-> job[p].user, key |-> job[p].key,
                   quantity |-> job[p].quantity, status |-> "PENDING",
                   order |-> NoRef, expired |-> FALSE]
<1>1. HasOrder(p)
  BY DEF IInv, JobSound, Redirect, At
<1>2. row \in IntentRow /\ row.status = "PENDING"
  BY <1>1 DEF HasOrder, IntentRow, IntentStatus, NoRef
<1>3. intents' = Append(intents, row)
  BY DEF Redirect
<1> HIDE DEF row
<1>4. Writes(p)
  BY <1>2, <1>3, IntentAdded DEF Redirect
<1> QED
  BY <1>4, FinishStep DEF Redirect

LEMMA DraftOrderStep ==
  ASSUME IInv, NEW p \in Jobs, DraftOrder(p)
  PROVE  Writes(p) /\ IInv'
<1> DEFINE r == [job[p] EXCEPT !.at = "debit",
                               !.charge = Charge(job[p].quantity)]
<1>1. Writes(p)
  BY Unwritten DEF DraftOrder
<1>2. job[p] \in JobRow /\ HasOrder(p)
  BY DEF IInv, Around, JobSound, DraftOrder, At
<1>3. Charge(job[p].quantity) \in Nat
  BY <1>2, ChargeType DEF HasOrder
<1>4. /\ r \in JobRow /\ r.at = "debit" /\ r.user = job[p].user
      /\ r.key = job[p].key /\ r.quantity = job[p].quantity
  BY <1>2, <1>3 DEF JobRow, JobAt
<1>5. job' = [job EXCEPT ![p] = r] /\ UNCHANGED <<world, crashes, locks>>
  BY DEF DraftOrder
<1> HIDE DEF r
<1>6. job'[p] = r
  BY <1>5 DEF IInv, Around
<1>7. JobSound(p)'
  BY <1>2, <1>4, <1>6 DEF JobSound, HasOrder
<1> QED
  BY <1>1, <1>4, <1>5, <1>7, PlainMove

(* A step that takes u's wallet. *)
LEMMA WalletMove ==
  ASSUME IInv, NEW p \in Jobs, NEW r \in JobRow, job' = [job EXCEPT ![p] = r],
         NEW u \in Users, Free(walletLock[u], p),
         walletLock' = [walletLock EXCEPT ![u] = p],
         UNCHANGED <<world, db, depositLock, intentLock, crashes>>,
         JobSound(p)'
  PROVE  Writes(p) /\ IInv'
<1>1. Writes(p)
  BY Unwritten
<1>2. /\ walletLock \in [Users -> Jobs \cup {NoJob}]
      /\ depositLock' \in [1..MaxDeposits -> Jobs \cup {NoJob}]
      /\ intentLock' \in [1..MaxIntents -> Jobs \cup {NoJob}]
  BY DEF IInv, Around
<1>3. walletLock' \in [Users -> Jobs \cup {NoJob}]
  BY <1>2
<1>4. \A q \in Jobs \ {p} : LocksKept(q)
  BY <1>2, JobsAssumption DEF LocksKept, Free
<1> QED
  BY <1>1, <1>2, <1>3, <1>4, MoveStep

LEMMA DebitStep ==
  ASSUME IInv, NEW p \in Jobs, Debit(p)
  PROVE  Writes(p) /\ IInv'
<1> DEFINE r == [job[p] EXCEPT !.at = "commit"]
           u == job[p].user
<1>1. job[p] \in JobRow /\ HasOrder(p)
  BY DEF IInv, Around, JobSound, Debit, At
<1>2. /\ r \in JobRow /\ r.at = "commit" /\ r.user = job[p].user
      /\ r.key = job[p].key /\ r.quantity = job[p].quantity
      /\ r.charge = job[p].charge
  BY <1>1 DEF JobRow, JobAt
<1>3. job' = [job EXCEPT ![p] = r]
  BY DEF Debit
<1> HIDE DEF r
<1>4. job'[p] = r
  BY <1>3 DEF IInv, Around
<1>5. /\ u \in Users /\ Free(walletLock[u], p)
      /\ walletLock' = [walletLock EXCEPT ![u] = p]
      /\ Adjustable(balance[u], -job[p].charge)
      /\ UNCHANGED <<world, db, depositLock, intentLock, crashes>>
  BY <1>1 DEF Debit, HasOrder
<1>6. walletLock'[u] = p /\ balance' = balance
  BY <1>5 DEF IInv, Around, db
<1>7. JobSound(p)'
  BY <1>1, <1>2, <1>4, <1>5, <1>6 DEF JobSound, HasOrder
<1> QED
  BY <1>2, <1>3, <1>5, <1>7, WalletMove

(* Rows as Post appends them.                                              *)
LEMMA PostOne ==
  ASSUME IInv, NEW u \in Users, NEW r \in Line, Post(u, <<r>>)
  PROVE  ledger' = With(ledger, u, r) /\ balance' = Left(balance, u, r)
<1>1. ledger[u] \in Seq(Line)
  BY TableTypes
<1>2. ledger[u] \o <<r>> = Append(ledger[u], r)
  BY <1>1
<1>3. FinalBalance(balance[u], <<r>>) = r.balanceAfter
  BY DEF FinalBalance
<1> QED
  BY <1>2, <1>3 DEF Post, With, Left

LEMMA CommitOrderStep ==
  ASSUME IInv, NEW p \in Jobs, CommitOrder(p)
  PROVE  Writes(p) /\ IInv'
<1> DEFINE u == job[p].user
           k == job[p].key
           q == job[p].quantity
           c == job[p].charge
           r == OrderLine(balance[u], c)
<1>1. /\ job[p] \in JobRow /\ HasOrder(p) /\ walletLock[u] = p
      /\ Adjustable(balance[u], -c)
  BY DEF IInv, Around, JobSound, CommitOrder, At
<1>2. u \in Users /\ k \in Keys /\ q \in Quantities /\ c \in Nat
  BY <1>1 DEF JobRow, HasOrder
<1>3. /\ keys[u][k] = NoKeyRow /\ InsertOrder(u, k, q, c)
      /\ Post(u, <<r>>) /\ intents' = intents /\ deposits' = deposits
      /\ Finish(p)
  BY DEF CommitOrder
<1>4. balance[u] \in Int /\ Len(orders) \in Nat
  BY <1>2, TableTypes
<1>5. /\ r \in Line /\ r.type = "ORDER_DEBIT" /\ r.ref = Len(orders) + 1
      /\ r.amount = -c /\ r.balanceAfter = balance[u] + r.amount
      /\ r.balanceAfter >= 0
  BY <1>1, <1>2, <1>4 DEF OrderLine, LedgerLine, Line, Adjustable
<1> HIDE DEF u, k, q, c, r
<1>6. /\ orders' = Append(orders, OrderFor(u, k, q, c))
      /\ keys' = KeyFor(keys, u, k, q, Len(orders) + 1)
  BY <1>3 DEF InsertOrder, OrderFor, KeyFor
<1>7. ledger' = With(ledger, u, r) /\ balance' = Left(balance, u, r)
  BY <1>2, <1>3, <1>5, PostOne
<1>8. TablesSound'
  <2>1. Sound(With(ledger, u, r), Left(balance, u, r),
              Append(orders, OrderFor(u, k, q, c)),
              KeyFor(keys, u, k, q, Len(orders) + 1), intents, deposits)
    BY <1>2, <1>3, <1>5, OrderSound DEF IInv, TablesSound
  <2> QED
    BY <1>3, <1>6, <1>7, <2>1 DEF TablesSound
<1>9. \A w \in Users : Free(walletLock[w], p) \/ balance'[w] = balance[w]
  BY <1>1, <1>2, <1>7, TableTypes DEF Free, Left, u
<1>10. Len(intents) \in Nat /\ Len(deposits) \in Nat
  BY TableTypes
<1>11. Writes(p)
  BY <1>3, <1>8, <1>9, <1>10 DEF Writes, RowsStay, LocksRespected, Settled
<1> QED
  BY <1>3, <1>11, FinishStep

-----------------------------------------------------------------------------
(* Opening and confirming a deposit.                                       *)

LEMMA StartDepositStep ==
  ASSUME IInv, NEW p \in Jobs, NEW u \in Users, NEW i \in 0..MaxIntents,
         StartDeposit(p, u, i)
  PROVE  Writes(p) /\ IInv'
<1> DEFINE kept == /\ i # NoRef
                   /\ intents[i].user = u
                   /\ intents[i].status = "PENDING"
                   /\ ~intents[i].expired
           x == IF kept THEN i ELSE NoRef
           r == [Idle EXCEPT !.at = "create", !.user = u, !.intent = x]
<1>1. Writes(p)
  BY Unwritten DEF StartDeposit
<1>2. /\ r \in JobRow /\ r.user = u /\ r.at = "create"
      /\ r.intent = x
  <2>1. x \in Nat
    BY BoundsAssumption DEF NoRef
  <2> HIDE DEF x
  <2> QED
    BY <2>1 DEF JobRow, JobAt, Idle, NoRef
<1>3. /\ job' = [job EXCEPT ![p] = r] /\ UNCHANGED <<world, crashes, locks>>
      /\ i \in {NoRef} \cup DOMAIN intents /\ UNCHANGED db
  BY DEF StartDeposit
<1> HIDE DEF r
<1>4. job'[p] = r
  BY <1>3 DEF IInv, Around
<1>5. Belongs(r.intent, u, intents')
  BY <1>2, <1>3 DEF Belongs, db
<1>6. JobSound(p)'
  BY <1>2, <1>4, <1>5 DEF JobSound
<1> QED
  BY <1>1, <1>2, <1>3, <1>6, PlainMove

LEMMA CreateDepositStep ==
  ASSUME IInv, NEW p \in Jobs, NEW amount \in Amounts, CreateDeposit(p, amount)
  PROVE  Writes(p) /\ IInv'
<1> DEFINE row == [user |-> job[p].user, amount |-> amount,
                   status |-> "PENDING", intent |-> job[p].intent,
                   gatewayRef |-> FALSE]
           d == Len(deposits) + 1
           r == [job[p] EXCEPT !.at = "initiate", !.deposit = d]
<1>1. /\ job[p] \in JobRow /\ job[p].user \in Users
      /\ Belongs(job[p].intent, job[p].user, intents)
  BY DEF IInv, Around, JobSound, CreateDeposit, At
<1>2. deposits \in Seq(DepositRow) /\ Len(deposits) \in Nat
  BY TableTypes
<1>3. /\ row \in DepositRow /\ row.status = "PENDING"
      /\ row.user = job[p].user /\ row.intent = job[p].intent
  BY <1>1 DEF DepositRow, DepositStatus, JobRow
<1>4. /\ r \in JobRow /\ r.at = "initiate" /\ r.user = job[p].user
      /\ r.deposit = d
  <2>1. d \in Nat
    BY <1>2
  <2> HIDE DEF d
  <2> QED
    BY <1>1, <2>1 DEF JobRow, JobAt
<1>5. /\ job' = [job EXCEPT ![p] = r] /\ UNCHANGED <<world, crashes, locks>>
      /\ deposits' = Append(deposits, row)
      /\ UNCHANGED <<balance, ledger, orders, keys, intents>>
  BY DEF CreateDeposit
<1> HIDE DEF r, row
<1>6. job'[p] = r
  BY <1>5 DEF IInv, Around
<1>7. Writes(p)
  BY <1>1, <1>3, <1>5, DepositAdded
<1>8. d \in DOMAIN deposits' /\ deposits'[d] = row
  BY <1>2, <1>3, <1>5
<1>9. JobSound(p)'
  BY <1>3, <1>4, <1>6, <1>8 DEF JobSound, HasDeposit
<1> QED
  BY <1>4, <1>5, <1>7, <1>9, PlainMove

LEMMA InitiateStep ==
  ASSUME IInv, NEW p \in Jobs, Initiate(p)
  PROVE  Writes(p) /\ IInv'
<1> DEFINE d == job[p].deposit
           row == [deposits[d] EXCEPT !.gatewayRef = TRUE]
<1>1. d \in DOMAIN deposits
  BY DEF IInv, JobSound, Initiate, At, HasDeposit
<1>2. deposits[d] \in DepositRow
  BY <1>1, TableTypes
<1>3. /\ row \in DepositRow /\ row.user = deposits[d].user
      /\ row.amount = deposits[d].amount /\ row.intent = deposits[d].intent
      /\ row.status = deposits[d].status
  BY <1>2 DEF DepositRow
<1>4. /\ deposits' = [deposits EXCEPT ![d] = row] /\ Finish(p)
      /\ UNCHANGED <<balance, ledger, orders, keys, intents>>
  BY DEF Initiate
<1> HIDE DEF d, row
<1>5. Writes(p)
  BY <1>1, <1>3, <1>4, DepositChanged
<1> QED
  BY <1>4, <1>5, FinishStep

(* Confirm and Review hand a deposit to a job. *)
LEMMA ListDeposit ==
  ASSUME IInv, NEW p \in Jobs, NEW d \in 1..MaxDeposits, d \in DOMAIN deposits,
         NEW at \in {"fail", "paid", "verified", "approve", "reject"},
         job' = [job EXCEPT ![p] = [Idle EXCEPT !.user = deposits[d].user,
                                                !.deposit = d, !.at = at]],
         UNCHANGED <<world, db, locks, crashes>>
  PROVE  Writes(p) /\ IInv'
<1> DEFINE r == [Idle EXCEPT !.user = deposits[d].user, !.deposit = d,
                             !.at = at]
<1>1. Writes(p)
  BY Unwritten
<1>2. deposits[d] \in DepositRow
  BY TableTypes
<1>3. deposits[d].user \in Users /\ d \in Nat
  BY <1>2, BoundsAssumption DEF DepositRow
<1>4. /\ r \in JobRow /\ r.user = deposits[d].user /\ r.deposit = d
      /\ r.at = at
  BY <1>3 DEF JobRow, JobAt, Idle, NoRef
<1>5. job' = [job EXCEPT ![p] = r]
  OBVIOUS
<1> HIDE DEF r
<1>6. job'[p] = r /\ deposits' = deposits
  BY <1>5 DEF IInv, Around, db
<1>7. JobSound(p)'
  BY <1>4, <1>6 DEF JobSound, HasDeposit
<1> QED
  BY <1>1, <1>4, <1>5, <1>7, PlainMove

LEMMA ConfirmStep ==
  ASSUME IInv, NEW p \in Jobs, NEW d \in 1..MaxDeposits, Confirm(p, d)
  PROVE  Writes(p) /\ IInv'
<1> DEFINE at == CASE gateway[d] = "FAILED" -> "fail"
                   [] gateway[d] = "PAID" /\ config.autoVerify -> "paid"
                   [] OTHER -> "verified"
<1>1. at \in {"fail", "paid", "verified", "approve", "reject"}
  OBVIOUS
<1>2. /\ job' = [job EXCEPT ![p] = [Idle EXCEPT !.user = deposits[d].user,
                                                !.deposit = d, !.at = at]]
      /\ UNCHANGED <<world, db, locks, crashes>> /\ d \in DOMAIN deposits
  BY DEF Confirm
<1> HIDE DEF at
<1> QED
  BY <1>1, <1>2, ListDeposit

(* The deposit is rejected. *)
LEMMA RejectStep ==
  ASSUME IInv, NEW p \in Jobs, job[p].at \in {"fail", "reject"},
         Free(depositLock[job[p].deposit], p),
         deposits[job[p].deposit].status = "PENDING",
         SetDeposit(job[p].deposit, "REJECTED"),
         UNCHANGED <<balance, ledger, orders, keys, intents>>, Finish(p)
  PROVE  Writes(p) /\ IInv'
<1> DEFINE d == job[p].deposit
           row == [deposits[d] EXCEPT !.status = "REJECTED"]
<1>1. d \in DOMAIN deposits
  BY DEF IInv, JobSound, HasDeposit
<1>2. deposits[d] \in DepositRow
  BY <1>1, TableTypes
<1>3. /\ row \in DepositRow /\ row.user = deposits[d].user
      /\ row.amount = deposits[d].amount /\ row.intent = deposits[d].intent
      /\ row.status = "REJECTED"
  BY <1>2 DEF DepositRow, DepositStatus
<1>4. deposits' = [deposits EXCEPT ![d] = row]
  BY DEF SetDeposit
<1>5. Free(depositLock[d], p) /\ deposits[d].status = "PENDING"
  OBVIOUS
<1> HIDE DEF d, row
<1>6. Writes(p)
  BY <1>1, <1>3, <1>4, <1>5, DepositChanged
<1> QED
  BY <1>6, FinishStep

(* The deposit is locked, to be approved. *)
LEMMA TakeDeposit ==
  ASSUME IInv, NEW p \in Jobs, job[p].at \in {"paid", "approve"},
         NEW at \in {"credit", "release"},
         Free(depositLock[job[p].deposit], p),
         deposits[job[p].deposit].status = "PENDING",
         depositLock' = [depositLock EXCEPT ![job[p].deposit] = p],
         job' = [job EXCEPT ![p].at = at],
         UNCHANGED <<world, db, walletLock, intentLock, crashes>>
  PROVE  Writes(p) /\ IInv'
<1> DEFINE d == job[p].deposit
           r == [job[p] EXCEPT !.at = at]
<1>1. job[p] \in JobRow /\ HasDeposit(p) /\ d \in 1..MaxDeposits
  BY DEF IInv, Around, JobSound
<1>2. /\ r \in JobRow /\ r.at = at /\ r.user = job[p].user
      /\ r.deposit = job[p].deposit
  BY <1>1 DEF JobRow, JobAt
<1>3. job' = [job EXCEPT ![p] = r]
  OBVIOUS
<1> HIDE DEF r
<1>4. job'[p] = r
  BY <1>3 DEF IInv, Around
<1>5. /\ depositLock \in [1..MaxDeposits -> Jobs \cup {NoJob}]
      /\ walletLock' \in [Users -> Jobs \cup {NoJob}]
      /\ intentLock' \in [1..MaxIntents -> Jobs \cup {NoJob}]
  BY DEF IInv, Around
<1>6. /\ depositLock' \in [1..MaxDeposits -> Jobs \cup {NoJob}]
      /\ depositLock'[d] = p
  BY <1>1, <1>5
<1>7. \A q \in Jobs \ {p} : LocksKept(q)
  BY <1>1, <1>5, JobsAssumption DEF LocksKept, Free
<1>8. deposits' = deposits
  BY DEF db
<1>9. JobSound(p)'
  BY <1>1, <1>2, <1>4, <1>6, <1>8 DEF JobSound, HasDeposit, HoldsDeposit
<1>10. Writes(p)
  BY Unwritten
<1> QED
  BY <1>2, <1>3, <1>5, <1>6, <1>7, <1>9, <1>10, MoveStep

LEMMA CreditStep ==
  ASSUME IInv, NEW p \in Jobs, Credit(p)
  PROVE  Writes(p) /\ IInv'
<1> DEFINE d == job[p].deposit
           u == job[p].user
           r == [job[p] EXCEPT !.at = "settle", !.intent = deposits[d].intent]
<1>1. /\ job[p] \in JobRow /\ HasDeposit(p) /\ HoldsDeposit(p)
      /\ Intended(deposits, intents)
  BY DEF IInv, Around, JobSound, Credit, At, TablesSound, Sound
<1>2. deposits[d] \in DepositRow /\ deposits[d].user = u
  BY <1>1, TableTypes DEF HasDeposit
<1>3. /\ r \in JobRow /\ r.at = "settle" /\ r.user = u /\ r.deposit = d
      /\ r.intent = deposits[d].intent
  BY <1>1, <1>2 DEF JobRow, JobAt, DepositRow
<1>4. job' = [job EXCEPT ![p] = r]
  BY DEF Credit
<1>5. /\ u \in Users /\ Free(walletLock[u], p)
      /\ walletLock' = [walletLock EXCEPT ![u] = p]
      /\ UNCHANGED <<world, db, depositLock, intentLock, crashes>>
  BY <1>2 DEF Credit, DepositRow
<1> HIDE DEF r
<1>6. /\ job'[p] = r /\ walletLock'[u] = p /\ deposits' = deposits
      /\ intents' = intents /\ depositLock' = depositLock
  BY <1>4, <1>5 DEF IInv, Around, db
<1>7. Belongs(deposits[d].intent, u, intents)
  BY <1>1, <1>2 DEF Intended, HasDeposit
<1>8. JobSound(p)'
  BY <1>1, <1>3, <1>5, <1>6, <1>7 DEF JobSound, HasDeposit, HoldsDeposit
<1> QED
  BY <1>3, <1>4, <1>5, <1>8, WalletMove

-----------------------------------------------------------------------------
(* Approving a deposit: the credit, and what its intent comes to.          *)

(* The line that credits the deposit of an approving job. *)
LEMMA CreditedTables ==
  ASSUME IInv, NEW p \in Jobs, HasDeposit(p), HoldsDeposit(p)
  PROVE  LET line == DepositLine(job[p].deposit)
         IN  /\ line \in Line
             /\ Sound(With(ledger, job[p].user, line),
                      Left(balance, job[p].user, line), orders, keys, intents,
                      Approval(deposits, job[p].deposit))
<1> DEFINE d == job[p].deposit
           u == job[p].user
           r == DepositLine(d)
<1>1. /\ d \in DOMAIN deposits /\ deposits[d].user = u /\ d \in Nat
      /\ deposits[d].status = "PENDING"
  BY BoundsAssumption DEF HasDeposit, HoldsDeposit
<1>2. deposits[d] \in DepositRow
  BY <1>1, TableTypes
<1>3. u \in Users /\ deposits[d].amount \in Nat
  BY <1>1, <1>2, AmountsAssumption DEF DepositRow
<1>4. balance[u] \in Int
  BY <1>3, TableTypes
<1>5. /\ r \in Line /\ r.type = "DEPOSIT" /\ r.ref = d
      /\ r.amount = deposits[d].amount
      /\ r.balanceAfter = balance[u] + r.amount
  BY <1>1, <1>3, <1>4 DEF DepositLine, LedgerLine, Line
<1>6. TablesSound
  BY DEF IInv
<1> HIDE DEF d, u, r
<1>7. Sound(With(ledger, deposits[d].user, r),
            Left(balance, deposits[d].user, r), orders, keys, intents,
            Approval(deposits, d))
  BY <1>1, <1>5, <1>6, CreditSound DEF TablesSound
<1> QED
  BY <1>1, <1>5, <1>7 DEF d, u, r

LEMMA Approving ==
  ASSUME IInv, NEW p \in Jobs, HasDeposit(p), HoldsDeposit(p),
         Approve(p, <<DepositLine(job[p].deposit)>>)
  PROVE  /\ ledger' = With(ledger, job[p].user, DepositLine(job[p].deposit))
         /\ balance' = Left(balance, job[p].user, DepositLine(job[p].deposit))
         /\ deposits' = Approval(deposits, job[p].deposit)
<1> DEFINE d == job[p].deposit
           u == job[p].user
<1>1. d \in DOMAIN deposits /\ deposits[d].user = u /\ d \in Nat
  BY BoundsAssumption DEF HasDeposit, HoldsDeposit
<1>2. deposits[d] \in DepositRow
  BY <1>1, TableTypes
<1>3. u \in Users
  BY <1>1, <1>2 DEF DepositRow
<1>4. DepositLine(d) \in Line
  BY CreditedTables
<1>5. Post(u, <<DepositLine(d)>>)
  BY DEF Approve
<1>6. /\ ledger' = With(ledger, u, DepositLine(d))
      /\ balance' = Left(balance, u, DepositLine(d))
  BY <1>3, <1>4, <1>5, PostOne
<1>7. deposits' = Approval(deposits, d)
  BY DEF Approve, SetDeposit, Approval
<1> QED
  BY <1>6, <1>7

(* Tables that are sound after a commit were lawfully written: the deposit *)
(* it approved was PENDING, the intent it moved was not settled, and these *)
(* rows and the wallet were free or p's own.                               *)
LEMMA CommitWrites ==
  ASSUME IInv, NEW p, TablesSound',
         \/ deposits' = deposits
         \/ \E d \in DOMAIN deposits :
               /\ deposits[d].status = "PENDING" /\ Free(depositLock[d], p)
               /\ deposits' = Approval(deposits, d),
         NEW u \in Users, Free(walletLock[u], p),
         \A w \in Users : w # u => balance'[w] = balance[w],
         \/ intents' = intents
         \/ \E i \in DOMAIN intents, status \in IntentStatus, o \in Nat :
               /\ intents[i].status \notin {"FULFILLED", "EXPIRED"}
               /\ Free(intentLock[i], p)
               /\ intents' = Resolved(intents, i, status, o)
  PROVE  Writes(p)
<1>1. deposits \in Seq(DepositRow) /\ intents \in Seq(IntentRow)
  BY TableTypes
<1>2. /\ Len(deposits') = Len(deposits) /\ Len(deposits) \in Nat
      /\ \A x \in DOMAIN deposits :
           /\ x \in DOMAIN deposits' /\ deposits'[x].user = deposits[x].user
           /\ \/ deposits'[x] = deposits[x]
              \/ deposits[x].status = "PENDING" /\ Free(depositLock[x], p)
  <2>1. CASE deposits' = deposits
    BY <1>1, <2>1
  <2>2. CASE \E d \in DOMAIN deposits :
               /\ deposits[d].status = "PENDING" /\ Free(depositLock[d], p)
               /\ deposits' = Approval(deposits, d)
    <3>1. PICK d \in DOMAIN deposits :
               /\ deposits[d].status = "PENDING" /\ Free(depositLock[d], p)
               /\ deposits' = Approval(deposits, d)
      BY <2>2
    <3>2. deposits' = Approval(deposits, d)
      BY <3>1
    <3>3. Len(deposits') = Len(deposits) /\ Len(deposits) \in Nat
      BY <1>1, <3>2 DEF Approval
    <3>4. DOMAIN deposits' = DOMAIN deposits
      BY <3>2 DEF Approval
    <3>5. ASSUME NEW x \in DOMAIN deposits
          PROVE  /\ deposits'[x].user = deposits[x].user
                 /\ x # d => deposits'[x] = deposits[x]
      <4>1. deposits[x] \in DepositRow
        BY <1>1
      <4> QED
        BY <3>2, <4>1 DEF Approval, DepositRow
    <3> QED
      BY <3>1, <3>3, <3>4, <3>5
  <2> QED
    BY <2>1, <2>2
<1>3. /\ Len(intents') = Len(intents) /\ Len(intents) \in Nat
      /\ \A x \in DOMAIN intents :
           /\ x \in DOMAIN intents' /\ intents'[x].user = intents[x].user
           /\ \/ intents'[x] = intents[x]
              \/ /\ intents[x].status \notin {"FULFILLED", "EXPIRED"}
                 /\ Free(intentLock[x], p)
  <2>1. CASE intents' = intents
    BY <1>1, <2>1
  <2>2. CASE \E i \in DOMAIN intents, status \in IntentStatus, o \in Nat :
               /\ intents[i].status \notin {"FULFILLED", "EXPIRED"}
               /\ Free(intentLock[i], p)
               /\ intents' = Resolved(intents, i, status, o)
    <3>1. PICK i \in DOMAIN intents, status \in IntentStatus, o \in Nat :
               /\ intents[i].status \notin {"FULFILLED", "EXPIRED"}
               /\ Free(intentLock[i], p)
               /\ intents' = Resolved(intents, i, status, o)
      BY <2>2
    <3>2. Len(intents') = Len(intents) /\ Len(intents) \in Nat
      <4>1. intents' = Resolved(intents, i, status, o)
        BY <3>1
      <4>2. Resolved(intents, i, status, o) \in Seq(IntentRow)
        BY <1>1, ResolvedParts
      <4>3. DOMAIN intents' = DOMAIN intents
        BY <4>1 DEF Resolved
      <4> QED
        BY <1>1, <4>1, <4>2, <4>3
    <3>3. DOMAIN intents' = DOMAIN intents
      BY <3>1 DEF Resolved
    <3>4. ASSUME NEW x \in DOMAIN intents
          PROVE  /\ intents'[x].user = intents[x].user
                 /\ x # i => intents'[x] = intents[x]
      <4>1. intents[x] \in IntentRow
        BY <1>1
      <4> QED
        BY <3>1, <4>1 DEF Resolved, IntentRow
    <3> QED
      BY <3>1, <3>2, <3>3, <3>4
  <2> QED
    BY <2>1, <2>2
<1>4. RowsStay
  BY <1>2, <1>3 DEF RowsStay
<1>5. LocksRespected(p)
  BY <1>2, <1>3 DEF LocksRespected, Free
<1>6. Settled
  BY <1>2, <1>3 DEF Settled
<1> QED
  BY <1>4, <1>5, <1>6 DEF Writes

(* What a settling job may rely on. *)
LEMMA Settling ==
  ASSUME IInv, NEW p \in Jobs, At(p, "settle") \/ At(p, "release")
  PROVE  /\ HasDeposit(p) /\ HoldsDeposit(p) /\ job[p].user \in Users
         /\ At(p, "settle") => /\ Free(walletLock[job[p].user], p)
                               /\ Belongs(job[p].intent, job[p].user, intents)
<1>1. HasDeposit(p) /\ HoldsDeposit(p)
  BY DEF IInv, JobSound, At
<1>2. deposits[job[p].deposit] \in DepositRow
  BY <1>1, TableTypes DEF HasDeposit
<1>3. job[p].user \in Users
  BY <1>1, <1>2 DEF HasDeposit, DepositRow
<1> QED
  BY <1>1, <1>3 DEF IInv, JobSound, At, Free

(* The approval with its credit alone. *)
LEMMA TopUpStep ==
  ASSUME IInv, NEW p \in Jobs, At(p, "settle") \/ At(p, "release"),
         Free(walletLock[job[p].user], p),
         Approve(p, <<DepositLine(job[p].deposit)>>),
         UNCHANGED <<orders, keys, intents>>
  PROVE  Writes(p) /\ IInv'
<1> DEFINE u == job[p].user
           r == DepositLine(job[p].deposit)
<1>1. /\ HasDeposit(p) /\ HoldsDeposit(p) /\ u \in Users
      /\ Free(walletLock[u], p)
  BY Settling
<1>2. /\ ledger' = With(ledger, u, r) /\ balance' = Left(balance, u, r)
      /\ deposits' = Approval(deposits, job[p].deposit)
  BY <1>1, Approving
<1>3. Sound(With(ledger, u, r), Left(balance, u, r), orders, keys, intents,
            Approval(deposits, job[p].deposit))
  BY <1>1, CreditedTables
<1> HIDE DEF u, r
<1>4. TablesSound'
  BY <1>2, <1>3 DEF TablesSound
<1>5. \A w \in Users : w # u => balance'[w] = balance[w]
  BY <1>2, TableTypes DEF Left
<1>6. Writes(p)
  BY <1>1, <1>2, <1>4, <1>5, CommitWrites DEF HasDeposit, HoldsDeposit, Free
<1> QED
  BY <1>6, FinishStep DEF Approve

(* The approval with its credit, and an outcome of the intent that places  *)
(* nothing.                                                                *)
LEMMA SettleStep ==
  ASSUME IInv, NEW p \in Jobs, Fulfilling(p),
         Approve(p, <<DepositLine(job[p].deposit)>>),
         NEW status \in IntentStatus, NEW o \in Nat,
         SetIntent(job[p].intent, status, o),
         status = "FULFILLED" => OrderOf(job[p].intent, o, intents, orders),
         UNCHANGED <<orders, keys>>
  PROVE  Writes(p) /\ IInv'
<1> DEFINE u == job[p].user
           i == job[p].intent
           r == DepositLine(job[p].deposit)
<1>1. /\ HasDeposit(p) /\ HoldsDeposit(p) /\ u \in Users
      /\ Free(walletLock[u], p) /\ i \in DOMAIN intents
      /\ intents[i].status = "PENDING" /\ Free(intentLock[i], p)
  BY Settling DEF Fulfilling, Belongs
<1>2. /\ ledger' = With(ledger, u, r) /\ balance' = Left(balance, u, r)
      /\ deposits' = Approval(deposits, job[p].deposit)
  BY <1>1, Approving
<1>3. Sound(With(ledger, u, r), Left(balance, u, r), orders, keys, intents,
            Approval(deposits, job[p].deposit))
  BY <1>1, CreditedTables
<1>4. intents' = Resolved(intents, i, status, o)
  BY DEF SetIntent, Resolved
<1>5. status = "FULFILLED" => OrderOf(i, o, intents, orders)
  OBVIOUS
<1> HIDE DEF u, r, i
<1>6. Sound(With(ledger, u, r), Left(balance, u, r), orders, keys,
            Resolved(intents, i, status, o),
            Approval(deposits, job[p].deposit))
  BY <1>1, <1>3, <1>5, ResolvedSound
<1>7. TablesSound'
  BY <1>2, <1>4, <1>6 DEF TablesSound
<1>8. \A w \in Users : w # u => balance'[w] = balance[w]
  BY <1>2, TableTypes DEF Left
<1>9. Writes(p)
  BY <1>1, <1>2, <1>4, <1>7, <1>8, CommitWrites
     DEF HasDeposit, HoldsDeposit, Free
<1> QED
  BY <1>9, FinishStep DEF Approve

(* The order a key names is the one of an intent with this key. *)
LEMMA ReplayedOrder ==
  ASSUME IInv, NEW i \in DOMAIN intents, Replayed(i)
  PROVE  LET o == keys[intents[i].user][intents[i].key].order
         IN  o \in Nat /\ OrderOf(i, o, intents, orders)
<1> DEFINE u == intents[i].user
           k == intents[i].key
<1>1. intents[i] \in IntentRow
  BY TableTypes
<1>2. u \in Users /\ k \in Keys /\ intents[i].quantity \in Nat \ {0}
  BY <1>1, QuantitiesAssumption DEF IntentRow
<1>3. keys[u][k] \in KeyRow
  BY <1>2, TableTypes
<1>4. keys[u][k].quantity = intents[i].quantity /\ keys[u][k] # NoKeyRow
  BY <1>2, <1>3 DEF Replayed, NoKeyRow
<1>5. Keyed(orders, keys)
  BY DEF IInv, TablesSound, Sound
<1> HIDE DEF u, k
<1>6. LET o == keys[u][k].order
      IN  /\ o \in DOMAIN orders /\ orders[o].user = u /\ orders[o].key = k
          /\ orders[o].quantity = keys[u][k].quantity
  BY <1>2, <1>4, <1>5 DEF Keyed
<1> QED
  BY <1>3, <1>4, <1>6 DEF u, k, KeyRow, OrderOf

LEMMA PostTwo ==
  ASSUME IInv, NEW u \in Users, NEW r \in Line, NEW t \in Line,
         Post(u, <<r, t>>)
  PROVE  /\ ledger' = With(With(ledger, u, r), u, t)
         /\ balance' = Left(Left(balance, u, r), u, t)
<1>1. ledger[u] \in Seq(Line)
  BY TableTypes
<1>2. ledger[u] \o <<r, t>> = Append(Append(ledger[u], r), t)
  BY <1>1
<1>3. FinalBalance(balance[u], <<r, t>>) = t.balanceAfter
  BY DEF FinalBalance
<1>4. ledger' = [ledger EXCEPT ![u] = Append(Append(ledger[u], r), t)]
      /\ balance' = [balance EXCEPT ![u] = t.balanceAfter]
  BY <1>2, <1>3 DEF Post
<1>5. /\ With(With(ledger, u, r), u, t)
           = [ledger EXCEPT ![u] = Append(Append(ledger[u], r), t)]
      /\ Left(Left(balance, u, r), u, t)
           = [balance EXCEPT ![u] = t.balanceAfter]
  BY TableTypes DEF With, Left
<1> QED
  BY <1>4, <1>5

(* The approval with its credit, and the order the credit pays for: three  *)
(* sound writes in a row.                                                  *)
LEMMA SettlePlacedStep ==
  ASSUME IInv, NEW p \in Jobs, SettlePlaced(p)
  PROVE  Writes(p) /\ IInv'
<1> DEFINE d == job[p].deposit
           i == job[p].intent
           u == job[p].user
           k == intents[i].key
           q == intents[i].quantity
           c == Charge(q)
           r == DepositLine(d)
           t == OrderLine(r.balanceAfter, c)
           o == Len(orders) + 1
           L == With(ledger, u, r)
           B == Left(balance, u, r)
           D == Approval(deposits, d)
           P == Append(orders, OrderFor(u, k, q, c))
           K == KeyFor(keys, u, k, q, o)
<1>1. /\ HasDeposit(p) /\ HoldsDeposit(p) /\ u \in Users
      /\ Free(walletLock[u], p) /\ i \in DOMAIN intents
      /\ intents[i].status = "PENDING" /\ Free(intentLock[i], p)
      /\ intents[i].user = u
  BY Settling DEF SettlePlaced, Fulfilling, Belongs
<1>2. /\ keys[u][k] = NoKeyRow /\ Adjustable(r.balanceAfter, -c)
      /\ InsertOrder(u, k, q, c) /\ SetIntent(i, "FULFILLED", o)
      /\ Approve(p, <<r, t>>)
  BY <1>1 DEF SettlePlaced, Placeable
<1>3. r \in Line /\ Sound(L, B, orders, keys, intents, D)
  BY <1>1, CreditedTables
<1>4. k \in Keys /\ q \in Quantities /\ c \in Nat
  <2>1. intents[i] \in IntentRow
    BY <1>1, TableTypes
  <2>2. k \in Keys /\ q \in Quantities
    BY <2>1 DEF IntentRow
  <2> QED
    BY <2>2, ChargeType
<1>5. Len(orders) \in Nat
  BY TableTypes
<1>6. B[u] = r.balanceAfter /\ r.balanceAfter \in Int
  BY <1>1, <1>3, TableTypes DEF Left, Line
<1>7. /\ t \in Line /\ t.type = "ORDER_DEBIT" /\ t.ref = Len(orders) + 1
      /\ t.amount = -c /\ t.balanceAfter = r.balanceAfter + t.amount
      /\ t.balanceAfter >= 0
  <2> HIDE DEF r, c
  <2> QED
    BY <1>2, <1>4, <1>5, <1>6 DEF OrderLine, LedgerLine, Line, Adjustable
<1>8. /\ orders' = P /\ keys' = K
      /\ intents' = Resolved(intents, i, "FULFILLED", o)
      /\ deposits' = D
  BY <1>2 DEF InsertOrder, OrderFor, KeyFor, SetIntent, Resolved, Approve,
              SetDeposit, Approval
<1>9. ledger' = With(L, u, t) /\ balance' = Left(B, u, t)
  <2>1. Post(u, <<r, t>>)
    BY <1>2 DEF Approve
  <2> HIDE DEF u, r, t
  <2> QED
    BY <1>1, <1>3, <1>7, <2>1, PostTwo
<1> HIDE DEF u, k, q, c, r, t, L, B, D
<1>10. Sound(With(L, u, t), Left(B, u, t), P, K, intents, D)
  BY <1>1, <1>2, <1>3, <1>4, <1>6, <1>7, OrderSound
<1>11. OrderOf(i, o, intents, P)
  <2>1. o \in DOMAIN P /\ P[o] = OrderFor(u, k, q, c)
    <3>1. orders \in Seq(OrderRow) /\ OrderFor(u, k, q, c) \in OrderRow
      BY <1>1, <1>4, TableTypes DEF OrderFor, OrderRow
    <3> QED
      BY <3>1, AppendParts
  <2> QED
    BY <1>1, <2>1 DEF OrderOf, OrderFor, k, q
<1> HIDE DEF P, K, i, d
<1>12. Sound(With(L, u, t), Left(B, u, t), P, K,
             Resolved(intents, i, "FULFILLED", o), D)
  <2>1. "FULFILLED" \in IntentStatus /\ o \in Nat
    BY <1>5 DEF IntentStatus
  <2> QED
    BY <1>1, <1>10, <1>11, <2>1, ResolvedSound
<1>13. TablesSound'
  BY <1>8, <1>9, <1>12 DEF TablesSound
<1>14. \A w \in Users : w # u => balance'[w] = balance[w]
  BY <1>9, TableTypes DEF Left, B
<1>15. Writes(p)
  <2>1. \E x \in DOMAIN intents, status \in IntentStatus, y \in Nat :
           /\ intents[x].status \notin {"FULFILLED", "EXPIRED"}
           /\ Free(intentLock[x], p)
           /\ intents' = Resolved(intents, x, status, y)
    BY <1>1, <1>5, <1>8 DEF IntentStatus
  <2>2. \E x \in DOMAIN deposits :
           /\ deposits[x].status = "PENDING" /\ Free(depositLock[x], p)
           /\ deposits' = Approval(deposits, x)
    BY <1>1, <1>8 DEF HasDeposit, HoldsDeposit, Free, D, d
  <2> QED
    BY <1>1, <1>13, <1>14, <2>1, <2>2, CommitWrites
<1> QED
  BY <1>2, <1>15, FinishStep DEF Approve

-----------------------------------------------------------------------------
(* Retrying a paid intent.                                                 *)

LEMMA ListFailedStep ==
  ASSUME IInv, NEW p \in Jobs, NEW i \in 1..MaxIntents, ListFailed(p, i)
  PROVE  Writes(p) /\ IInv'
<1> DEFINE r == [Idle EXCEPT !.user = intents[i].user, !.intent = i,
                             !.at = "retry"]
<1>1. Writes(p)
  BY Unwritten DEF ListFailed
<1>2. i \in DOMAIN intents /\ i \in Nat
  BY BoundsAssumption DEF ListFailed
<1>3. intents[i] \in IntentRow
  BY <1>2, TableTypes
<1>4. /\ r \in JobRow /\ r.at = "retry" /\ r.intent = i
  BY <1>2, <1>3 DEF JobRow, JobAt, Idle, NoRef, IntentRow
<1>5. /\ job' = [job EXCEPT ![p] = r] /\ UNCHANGED <<world, crashes, locks>>
      /\ intents' = intents
  BY DEF ListFailed, db
<1> HIDE DEF r
<1>6. job'[p] = r
  BY <1>5 DEF IInv, Around
<1>7. JobSound(p)'
  BY <1>2, <1>4, <1>5, <1>6 DEF JobSound, HasIntent
<1> QED
  BY <1>1, <1>4, <1>5, <1>7, PlainMove

LEMMA RetryEndStep ==
  ASSUME IInv, NEW p \in Jobs, NEW status \in IntentStatus, NEW o \in Nat,
         NEW outcome, RetryEnd(p, outcome, status, o),
         status = "FULFILLED" => OrderOf(job[p].intent, o, intents, orders),
         \/ intents[job[p].intent].status \notin {"FULFILLED", "EXPIRED"}
         \/ /\ intents[job[p].intent].status = status
            /\ intents[job[p].intent].order = o
  PROVE  Writes(p) /\ IInv'
<1>1. job[p].intent \in DOMAIN intents
  BY DEF IInv, JobSound, RetryEnd, At, HasIntent
<1>2. /\ Free(intentLock[job[p].intent], p)
      /\ SetIntent(job[p].intent, status, o)
      /\ UNCHANGED <<balance, ledger, orders, keys, deposits>> /\ Finish(p)
  BY DEF RetryEnd
<1>3. Writes(p)
  BY <1>1, <1>2, IntentResolved
<1> QED
  BY <1>2, <1>3, FinishStep

LEMMA RetryDraftStep ==
  ASSUME IInv, NEW p \in Jobs, RetryDraft(p)
  PROVE  Writes(p) /\ IInv'
<1> DEFINE i == job[p].intent
           c == Charge(intents[i].quantity)
           r == [job[p] EXCEPT !.at = "retryDebit", !.charge = c]
<1>1. /\ job[p] \in JobRow /\ HasIntent(p)
  BY DEF IInv, Around, JobSound, RetryDraft, At
<1>2. i \in DOMAIN intents /\ i \in 1..MaxIntents
  BY <1>1 DEF HasIntent
<1>3. c \in Nat
  <2>1. intents[i] \in IntentRow
    BY <1>2, TableTypes
  <2> QED
    BY <2>1, ChargeType DEF IntentRow
<1>4. /\ job' = [job EXCEPT ![p] = r] /\ UNCHANGED <<world, crashes>>
      /\ walletLock' = walletLock /\ depositLock' = depositLock
      /\ intentLock' = [intentLock EXCEPT ![i] = p] /\ Free(intentLock[i], p)
      /\ intents[i].status = "FAILED" /\ UNCHANGED db
  BY DEF RetryDraft
<1> HIDE DEF c
<1>5. r \in JobRow /\ r.at = "retryDebit" /\ r.intent = i
  BY <1>1, <1>3 DEF JobRow, JobAt
<1> HIDE DEF r, i
<1>6. job'[p] = r
  BY <1>4 DEF IInv, Around
<1>7. /\ walletLock \in [Users -> Jobs \cup {NoJob}]
      /\ depositLock \in [1..MaxDeposits -> Jobs \cup {NoJob}]
      /\ intentLock \in [1..MaxIntents -> Jobs \cup {NoJob}]
  BY DEF IInv, Around
<1>8. intentLock' \in [1..MaxIntents -> Jobs \cup {NoJob}] /\ intentLock'[i] = p
  BY <1>2, <1>4, <1>7
<1>9. \A q \in Jobs \ {p} : LocksKept(q)
  BY <1>2, <1>4, <1>7, JobsAssumption DEF LocksKept, Free
<1>10. intents' = intents
  BY <1>4 DEF db
<1>11. JobSound(p)'
  BY <1>2, <1>4, <1>5, <1>6, <1>8, <1>10 DEF JobSound, HasIntent
<1>12. Writes(p)
  BY <1>4, Unwritten
<1> QED
  BY <1>4, <1>5, <1>7, <1>8, <1>9, <1>11, <1>12, MoveStep

LEMMA RetryPlacedStep ==
  ASSUME IInv, NEW p \in Jobs, RetryPlaced(p)
  PROVE  Writes(p) /\ IInv'
<1> DEFINE i == job[p].intent
           u == intents[i].user
           k == intents[i].key
           q == intents[i].quantity
           c == job[p].charge
           r == OrderLine(balance[u], c)
           o == Len(orders) + 1
           P == Append(orders, OrderFor(u, k, q, c))
           K == KeyFor(keys, u, k, q, o)
<1>1. /\ i \in DOMAIN intents /\ intentLock[i] = p
      /\ intents[i].status = "FAILED" /\ job[p] \in JobRow
  BY DEF IInv, Around, JobSound, RetryPlaced, At, HasIntent
<1>2. /\ Free(walletLock[u], p) /\ keys[u][k] = NoKeyRow
      /\ Adjustable(balance[u], -c) /\ InsertOrder(u, k, q, c)
      /\ Post(u, <<r>>) /\ SetIntent(i, "FULFILLED", o)
      /\ deposits' = deposits /\ Finish(p)
  BY DEF RetryPlaced
<1>3. /\ u \in Users /\ k \in Keys /\ q \in Quantities /\ c \in Nat
  <2>1. intents[i] \in IntentRow
    BY <1>1, TableTypes
  <2> QED
    BY <1>1, <2>1 DEF IntentRow, JobRow
<1>4. balance[u] \in Int /\ Len(orders) \in Nat
  BY <1>3, TableTypes
<1>5. /\ r \in Line /\ r.type = "ORDER_DEBIT" /\ r.ref = Len(orders) + 1
      /\ r.amount = -c /\ r.balanceAfter = balance[u] + r.amount
      /\ r.balanceAfter >= 0
  <2> HIDE DEF u, c
  <2> QED
    BY <1>2, <1>3, <1>4, SMTT(30) DEF OrderLine, LedgerLine, Line, Adjustable
<1>6. /\ orders' = P /\ keys' = K
      /\ intents' = Resolved(intents, i, "FULFILLED", o)
  BY <1>2 DEF InsertOrder, OrderFor, KeyFor, SetIntent, Resolved
<1> HIDE DEF u, k, q, c, r
<1>7. ledger' = With(ledger, u, r) /\ balance' = Left(balance, u, r)
  BY <1>2, <1>3, <1>5, PostOne
<1>8. TablesSound
  BY DEF IInv
<1>9. Sound(With(ledger, u, r), Left(balance, u, r), P, K, intents, deposits)
  BY <1>2, <1>3, <1>5, <1>8, OrderSound DEF TablesSound
<1>10. OrderOf(i, o, intents, P)
  <2>1. o \in DOMAIN P /\ P[o] = OrderFor(u, k, q, c)
    <3>1. orders \in Seq(OrderRow) /\ OrderFor(u, k, q, c) \in OrderRow
      BY <1>3, TableTypes DEF OrderFor, OrderRow
    <3> QED
      BY <3>1, AppendParts
  <2> QED
    BY <2>1 DEF OrderOf, OrderFor, u, k, q
<1> HIDE DEF P, K, i
<1>11. Sound(With(ledger, u, r), Left(balance, u, r), P, K,
             Resolved(intents, i, "FULFILLED", o), deposits)
  <2>1. "FULFILLED" \in IntentStatus /\ o \in Nat
    BY <1>4 DEF IntentStatus
  <2> QED
    BY <1>1, <1>9, <1>10, <2>1, ResolvedSound
<1>12. TablesSound'
  BY <1>2, <1>6, <1>7, <1>11 DEF TablesSound
<1>13. \A w \in Users : w # u => balance'[w] = balance[w]
  BY <1>7, TableTypes DEF Left
<1>14. Writes(p)
  <2>1. \E x \in DOMAIN intents, status \in IntentStatus, y \in Nat :
           /\ intents[x].status \notin {"FULFILLED", "EXPIRED"}
           /\ Free(intentLock[x], p)
           /\ intents' = Resolved(intents, x, status, y)
    BY <1>1, <1>4, <1>6 DEF IntentStatus, Free
  <2> QED
    BY <1>2, <1>3, <1>12, <1>13, <2>1, CommitWrites
<1> QED
  BY <1>2, <1>14, FinishStep

LEMMA RetryFailedStep ==
  ASSUME IInv, NEW p \in Jobs, RetryFailed(p)
  PROVE  Writes(p) /\ IInv'
<1>1. /\ job[p].intent \in DOMAIN intents /\ intentLock[job[p].intent] = p
      /\ intents[job[p].intent].status = "FAILED"
  BY DEF IInv, JobSound, RetryFailed, At, HasIntent
<1>2. /\ SetIntent(job[p].intent, "FAILED", NoRef) /\ Finish(p)
      /\ UNCHANGED <<balance, ledger, orders, keys, deposits>>
  BY DEF RetryFailed
<1>3. "FAILED" \in IntentStatus /\ NoRef \in Nat
  BY DEF IntentStatus, NoRef
<1>4. Writes(p)
  BY <1>1, <1>2, <1>3, IntentResolved DEF Free
<1> QED
  BY <1>2, <1>4, FinishStep

-----------------------------------------------------------------------------
(* Every step.                                                             *)

LEMMA StartSteps ==
  ASSUME IInv, NEW p \in Jobs, Start(p)
  PROVE  Writes(p) /\ IInv'
<1>1. CASE \E u \in Users, k \in Keys, q \in Quantities : Submit(p, u, k, q)
  BY <1>1, SubmitStep
<1>2. CASE \E u \in Users, i \in 0..MaxIntents : StartDeposit(p, u, i)
  BY <1>2, StartDepositStep
<1>3. CASE \E d \in 1..MaxDeposits : Confirm(p, d)
  BY <1>3, ConfirmStep
<1>4. ASSUME NEW d \in 1..MaxDeposits, NEW a \in {"approve", "reject"},
             Review(p, d, a)
      PROVE  Writes(p) /\ IInv'
  <2>1. a \in {"fail", "paid", "verified", "approve", "reject"}
    OBVIOUS
  <2>2. /\ d \in DOMAIN deposits
        /\ job' = [job EXCEPT ![p] = [Idle EXCEPT !.user = deposits[d].user,
                                                  !.deposit = d, !.at = a]]
        /\ UNCHANGED <<world, db, locks, crashes>>
    BY <1>4 DEF Review
  <2> QED
    BY <2>1, <2>2, ListDeposit
<1>5. CASE \E i \in 1..MaxIntents : ListFailed(p, i)
  BY <1>5, ListFailedStep
<1> QED
  BY <1>1, <1>2, <1>3, <1>4, <1>5 DEF Start

(* A transaction that ends without a write. *)
LEMMA EmptyHanded ==
  ASSUME IInv, NEW p \in Jobs, UNCHANGED db, Finish(p)
  PROVE  Writes(p) /\ IInv'
BY Unwritten, FinishStep

LEMMA OrderSteps ==
  ASSUME IInv, NEW p \in Jobs, OrderStep(p)
  PROVE  Writes(p) /\ IInv'
<1>1. CASE Redirect(p)
  BY <1>1, RedirectStep
<1>2. CASE AnswerWithoutWriting(p)
  BY <1>2, EmptyHanded DEF AnswerWithoutWriting
<1>3. CASE DraftOrder(p)
  BY <1>3, DraftOrderStep
<1>4. CASE Debit(p)
  BY <1>4, DebitStep
<1>5. CASE DebitRefused(p)
  BY <1>5, EmptyHanded DEF DebitRefused
<1>6. CASE CommitOrder(p)
  BY <1>6, CommitOrderStep
<1>7. CASE DuplicateKey(p)
  BY <1>7, EmptyHanded DEF DuplicateKey
<1> QED
  BY <1>1, <1>2, <1>3, <1>4, <1>5, <1>6, <1>7 DEF OrderStep

LEMMA DepositSteps ==
  ASSUME IInv, NEW p \in Jobs, DepositStep(p)
  PROVE  Writes(p) /\ IInv'
<1> DEFINE i == job[p].intent
<1>1. CASE \E amount \in Amounts : CreateDeposit(p, amount)
  BY <1>1, CreateDepositStep
<1>2. CASE Initiate(p)
  BY <1>2, InitiateStep
<1>3. CASE InitiateFails(p)
  BY <1>3, EmptyHanded DEF InitiateFails
<1>4. CASE ConfirmNothing(p)
  BY <1>4, EmptyHanded DEF ConfirmNothing
<1>5. CASE ConfirmFailed(p)
  BY <1>5, RejectStep DEF ConfirmFailed, At
<1>6. CASE ConfirmPaid(p)
  BY <1>6, TakeDeposit, ZenonT(40) DEF ConfirmPaid, At
<1>7. CASE Credit(p)
  BY <1>7, CreditStep
<1>8. CASE SettleTopUp(p)
  BY <1>8, Settling, TopUpStep DEF SettleTopUp
<1>9. CASE SettleExpired(p)
  <2>1. "EXPIRED" \in IntentStatus /\ NoRef \in Nat /\ "EXPIRED" # "FULFILLED"
    BY DEF IntentStatus, NoRef
  <2> QED
    BY <1>9, <2>1, SettleStep DEF SettleExpired
<1>10. CASE SettleReplayed(p)
  <2>1. i \in DOMAIN intents
    BY <1>10, Settling, SMTT(30) DEF SettleReplayed, Fulfilling, Belongs
  <2>2. LET o == keys[intents[i].user][intents[i].key].order
        IN  o \in Nat /\ OrderOf(i, o, intents, orders)
    BY <1>10, <2>1, ReplayedOrder DEF SettleReplayed
  <2>3. "FULFILLED" \in IntentStatus
    BY DEF IntentStatus
  <2> QED
    BY <1>10, <2>2, <2>3, SettleStep DEF SettleReplayed
<1>11. CASE SettlePlaced(p)
  BY <1>11, SettlePlacedStep
<1>12. CASE SettleFailed(p)
  <2>1. "FAILED" \in IntentStatus /\ NoRef \in Nat /\ "FAILED" # "FULFILLED"
    BY DEF IntentStatus, NoRef
  <2> QED
    BY <1>12, <2>1, SettleStep DEF SettleFailed
<1>13. CASE AlreadyReviewed(p)
  BY <1>13, EmptyHanded DEF AlreadyReviewed
<1>14. CASE ReviewReject(p)
  BY <1>14, RejectStep DEF ReviewReject, At
<1>15. CASE ReviewApprove(p)
  BY <1>15, TakeDeposit DEF ReviewApprove, At
<1>16. CASE ReviewCredit(p)
  BY <1>16, TopUpStep DEF ReviewCredit
<1> QED
  BY <1>1, <1>2, <1>3, <1>4, <1>5, <1>6, <1>7, <1>8, <1>9, <1>10, <1>11,
     <1>12, <1>13, <1>14, <1>15, <1>16 DEF DepositStep

LEMMA RetrySteps ==
  ASSUME IInv, NEW p \in Jobs, RetryStep(p)
  PROVE  Writes(p) /\ IInv'
<1> DEFINE i == job[p].intent
<1>1. At(p, "retry") => i \in DOMAIN intents /\ intents[i] \in IntentRow
  BY TableTypes DEF IInv, JobSound, At, HasIntent
<1>2. CASE RetryResolved(p)
  <2>1. i \in DOMAIN intents /\ intents[i] \in IntentRow
    BY <1>1, <1>2 DEF RetryResolved, RetryEnd
  <2>2. intents[i].status \in IntentStatus /\ intents[i].order \in Nat
    BY <2>1 DEF IntentRow
  <2>3. Placed(intents, orders)
    BY DEF IInv, TablesSound, Sound
  <2>4. intents[i].status = "FULFILLED" =>
           OrderOf(i, intents[i].order, intents, orders)
    BY <2>1, <2>3 DEF Placed
  <2>5. RetryEnd(p, intents[i].status # "FAILED", intents[i].status,
                 intents[i].order)
    BY <1>2 DEF RetryResolved
  <2> QED
    BY <2>2, <2>4, <2>5, RetryEndStep
<1>3. CASE RetryExpired(p)
  <2>1. "EXPIRED" \in IntentStatus /\ NoRef \in Nat /\ "EXPIRED" # "FULFILLED"
    BY DEF IntentStatus, NoRef
  <2>2. RetryEnd(p, intents[i].status = "FAILED" /\ intents[i].expired,
                 "EXPIRED", NoRef)
    BY <1>3 DEF RetryExpired
  <2>3. intents[i].status \notin {"FULFILLED", "EXPIRED"}
    BY <2>2 DEF RetryEnd
  <2> QED
    BY <2>1, <2>2, <2>3, RetryEndStep
<1>4. CASE RetryReplayed(p)
  <2> DEFINE o == keys[intents[i].user][intents[i].key].order
  <2>1. RetryEnd(p, /\ intents[i].status = "FAILED" /\ ~intents[i].expired
                    /\ Replayed(i), "FULFILLED", o)
    BY <1>4 DEF RetryReplayed
  <2>2. /\ i \in DOMAIN intents /\ Replayed(i)
        /\ intents[i].status \notin {"FULFILLED", "EXPIRED"}
    BY <1>1, <2>1 DEF RetryEnd
  <2>3. o \in Nat /\ OrderOf(i, o, intents, orders)
    BY <2>2, ReplayedOrder
  <2>4. "FULFILLED" \in IntentStatus
    BY DEF IntentStatus
  <2> HIDE DEF o
  <2> QED
    BY <2>1, <2>2, <2>3, <2>4, RetryEndStep
<1>5. CASE RetryRefused(p)
  <2> DEFINE outcome ==
        /\ intents[i].status = "FAILED" /\ ~intents[i].expired
        /\ ~Replayed(i)
        /\ \/ keys[intents[i].user][intents[i].key] # NoKeyRow
           \/ ~Orderable(intents[i].quantity)
  <2>1. "FAILED" \in IntentStatus /\ NoRef \in Nat /\ "FAILED" # "FULFILLED"
    BY DEF IntentStatus, NoRef
  <2>2. RetryEnd(p, outcome, "FAILED", NoRef)
    BY <1>5 DEF RetryRefused
  <2>3. intents[i].status \notin {"FULFILLED", "EXPIRED"}
    BY <2>2 DEF RetryEnd
  <2> HIDE DEF outcome
  <2> QED
    BY <2>1, <2>2, <2>3, RetryEndStep, SMTT(30)
<1>6. CASE RetryDraft(p)
  BY <1>6, RetryDraftStep
<1>7. CASE RetryPlaced(p)
  BY <1>7, RetryPlacedStep
<1>8. CASE RetryFailed(p)
  BY <1>8, RetryFailedStep
<1> QED
  BY <1>2, <1>3, <1>4, <1>5, <1>6, <1>7, <1>8 DEF RetryStep

(* A write of no job: everyone's locks are respected. *)
LEMMA OutsideWrite ==
  ASSUME IInv, Writes(NoJob), UNCHANGED <<world, locks, job, crashes>>
  PROVE  IInv' /\ Settled
<1>1. Around'
  BY DEF IInv, Around, world, locks
<1>2. ASSUME NEW q \in Jobs
      PROVE  JobSound(q)'
  <2>1. q # NoJob
    BY JobsAssumption
  <2>2. LocksKept(q) /\ job'[q] = job[q]
    BY DEF LocksKept, locks
  <2> QED
    BY <2>1, <2>2, OtherJobs DEF Writes
<1> QED
  BY <1>1, <1>2 DEF IInv, Writes

LEMMA OutsideSteps ==
  ASSUME IInv, Environment
  PROVE  IInv' /\ Settled
<1> USE DEF IInv
<1>1. ASSUME NEW u \in Users, NEW amount \in Amounts,
             CreateManualDeposit(u, amount)
      PROVE  IInv' /\ Settled
  <2> DEFINE row == [user |-> u, amount |-> amount, status |-> "PENDING",
                     intent |-> NoRef, gatewayRef |-> FALSE]
  <2>1. /\ row \in DepositRow /\ row.status = "PENDING"
        /\ Belongs(row.intent, row.user, intents)
    BY DEF DepositRow, DepositStatus, NoRef, Belongs
  <2>2. /\ deposits' = Append(deposits, row)
        /\ UNCHANGED <<balance, ledger, orders, keys, intents>>
        /\ UNCHANGED <<world, locks, job, crashes>>
    BY <1>1 DEF CreateManualDeposit
  <2> HIDE DEF row
  <2>3. Writes(NoJob)
    BY <2>1, <2>2, DepositAdded
  <2> QED
    BY <2>2, <2>3, OutsideWrite
<1>2. ASSUME UNCHANGED <<db, locks, job, crashes>>, Around'
      PROVE  IInv' /\ Settled
  <2>1. Writes(NoJob) /\ TablesSound' /\ Settled
    BY <1>2, Unwritten DEF Writes
  <2>2. /\ balance' = balance /\ intents' = intents /\ deposits' = deposits
        /\ walletLock' = walletLock /\ depositLock' = depositLock
        /\ intentLock' = intentLock /\ job' = job
    BY <1>2 DEF db, locks
  <2>3. \A q \in Jobs : JobSound(q)'
    BY <2>2 DEF JobSound, HasOrder, HasDeposit, HoldsDeposit, HasIntent
  <2> QED
    BY <1>2, <2>1, <2>3
<1>3. ASSUME NEW price \in Prices, NEW active \in BOOLEAN,
             SetService(price, active)
      PROVE  IInv' /\ Settled
  <2>1. Around'
    BY <1>3 DEF SetService, Around, locks
  <2> QED
    BY <1>2, <1>3, <2>1 DEF SetService
<1>4. ASSUME NEW enabled \in Enabled, NEW verify \in AutoVerify,
             UpsertGatewayConfig(enabled, verify)
      PROVE  IInv' /\ Settled
  <2>1. Around'
    BY <1>4 DEF UpsertGatewayConfig, Around, locks
  <2> QED
    BY <1>2, <1>4, <2>1 DEF UpsertGatewayConfig
<1>5. ASSUME NEW d \in 1..MaxDeposits, NEW status \in {"PAID", "FAILED"},
             GatewayDecides(d, status)
      PROVE  IInv' /\ Settled
  <2>1. Around'
    BY <1>5 DEF GatewayDecides, Around, locks
  <2> QED
    BY <1>2, <1>5, <2>1 DEF GatewayDecides
<1>6. ASSUME NEW i \in 1..MaxIntents, IntentExpires(i)
      PROVE  IInv' /\ Settled
  <2> DEFINE row == [intents[i] EXCEPT !.expired = TRUE]
  <2>1. i \in DOMAIN intents /\ intents \in Seq(IntentRow)
        /\ Len(deposits) \in Nat
    BY <1>6, TableTypes DEF IntentExpires
  <2>2. intents[i] \in IntentRow
    BY <2>1
  <2>3. /\ row \in IntentRow /\ row.user = intents[i].user
        /\ row.key = intents[i].key /\ row.quantity = intents[i].quantity
        /\ row.status = intents[i].status /\ row.order = intents[i].order
    BY <2>2 DEF IntentRow
  <2>4. /\ intents' = [intents EXCEPT ![i] = row]
        /\ UNCHANGED <<balance, ledger, orders, keys, deposits>>
        /\ UNCHANGED <<world, locks, job, crashes>>
    BY <1>6 DEF IntentExpires
  <2> HIDE DEF row
  <2>5. /\ intents' \in Seq(IntentRow) /\ DOMAIN intents' = DOMAIN intents
        /\ intents'[i] = row
        /\ \A x \in DOMAIN intents \ {i} : intents'[x] = intents[x]
    BY <2>1, <2>3, <2>4, RowChanged
  <2>6. Len(intents') = Len(intents) /\ Len(intents) \in Nat
    BY <2>1, <2>5
  <2>7. TablesSound /\ Placed(intents, orders)
    BY DEF TablesSound, Sound
  <2>8. Placed(intents', orders)
    BY <2>3, <2>5, <2>7 DEF Placed, OrderOf
  <2>9. Sound(ledger, balance, orders, keys, intents', deposits)
    BY <2>3, <2>5, <2>7, <2>8, IntentsSound DEF TablesSound
  <2>10. TablesSound'
    BY <2>4, <2>9 DEF TablesSound
  <2>11. Writes(NoJob)
    BY <2>1, <2>3, <2>4, <2>5, <2>6, <2>10
       DEF Writes, RowsStay, LocksRespected, Settled
  <2> QED
    BY <2>4, <2>11, OutsideWrite
<1>7. ASSUME Crash
      PROVE  IInv' /\ Settled
  <2>1. TablesSound' /\ Settled
    BY <1>7, Unwritten DEF Crash, Writes
  <2>2. Idle \in JobRow /\ Idle.at = "idle"
    BY DEF Idle, JobRow, JobAt, NoRef
  <2>3. Around'
    BY <1>7, <2>2 DEF Crash, Around, world
  <2>4. \A q \in Jobs : job'[q] = Idle
    BY <1>7 DEF Crash
  <2>5. \A q \in Jobs : JobSound(q)'
    BY <2>2, <2>4 DEF JobSound
  <2> QED
    BY <2>1, <2>3, <2>5
<1> QED
  BY <1>1, <1>3, <1>4, <1>5, <1>6, <1>7 DEF Environment

-----------------------------------------------------------------------------
LEMMA InitInv ==
  ASSUME Init
  PROVE  IInv
<1>1. /\ ledger = [u \in Users |-> <<>>] /\ balance = [u \in Users |-> 0]
      /\ orders = <<>> /\ intents = <<>> /\ deposits = <<>>
      /\ keys = [u \in Users |-> [k \in Keys |-> NoKeyRow]]
      /\ job = [p \in Jobs |-> Idle]
  BY DEF Init
<1>2. Idle \in JobRow /\ Idle.at = "idle" /\ NoKeyRow \in KeyRow
  BY DEF Idle, JobRow, JobAt, NoRef, KeyRow, NoKeyRow
<1>3. Around
  BY <1>1, <1>2, SwitchesAssumption, ZenonT(40) DEF Init, Around
<1>4. Tables(ledger, balance, orders, keys, intents, deposits)
  <2>1. keys \in [Users -> [Keys -> KeyRow]]
    BY <1>1, <1>2
  <2> QED
    BY <1>1, <2>1 DEF Tables
<1>5. Reconciled(ledger, balance)
  BY <1>1 DEF Reconciled, ChainedFrom, FinalBalance
<1>6. Paid(ledger, orders) /\ Credited(ledger, deposits)
  BY <1>1 DEF Paid, Credited, Refers
<1>7. Keyed(orders, keys) /\ Placed(intents, orders)
      /\ Intended(deposits, intents)
  BY <1>1 DEF Keyed, Placed, Intended
<1>8. \A p \in Jobs : JobSound(p)
  BY <1>1, <1>2 DEF JobSound
<1> QED
  BY <1>3, <1>4, <1>5, <1>6, <1>7, <1>8 DEF IInv, TablesSound, Sound

LEMMA StepInv ==
  ASSUME IInv, Next
  PROVE  IInv' /\ Settled
<1>1. CASE Environment
  BY <1>1, OutsideSteps
<1>2. ASSUME NEW p \in Jobs, Start(p) \/ Step(p)
      PROVE  IInv' /\ Settled
  <2>1. Writes(p) /\ IInv'
    BY <1>2, StartSteps, OrderSteps, DepositSteps, RetrySteps DEF Step
  <2> QED
    BY <2>1 DEF Writes
<1> QED
  BY <1>1, <1>2 DEF Next

LEMMA StutterInv ==
  ASSUME IInv, UNCHANGED vars
  PROVE  IInv'
<1>1. Writes(NoJob) /\ UNCHANGED <<world, locks, job, crashes>>
  BY Unwritten DEF vars
<1> QED
  BY <1>1, OutsideWrite

(* The invariant holds of every run, whatever the customers, the prices,   *)
(* the number of jobs and the crashes.                                     *)
THEOREM Invariance == Spec => []IInv
<1>1. Init => IInv
  BY InitInv
<1>2. IInv /\ [Next]_vars => IInv'
  BY StepInv, StutterInv
<1> QED
  BY <1>1, <1>2, PTL DEF Spec

(* The state keeps its shape: every row names a customer, a key and an     *)
(* order form that exist, every lock a job.                                *)
THEOREM TypeCorrect == Spec => []TypeOK
<1>1. IInv => TypeOK
  BY DEF IInv, Around, TablesSound, Sound, Tables, TypeOK, OrderRow, KeyRow,
         IntentRow, DepositRow, JobRow
<1> QED
  BY <1>1, Invariance, PTL

(* A wallet's balance is what its ledger adds up to and no line leaves it  *)
(* negative, whichever orders, credits and retries commit on it at once.   *)
THEOREM WalletsReconcile == Spec => []WalletReconciles
<1>1. IInv => WalletReconciles
  BY DEF IInv, TablesSound, Sound, Reconciled, WalletReconciles
<1> QED
  BY <1>1, Invariance, PTL

(* An order exists exactly when one debit of its customer pays its charge: *)
(* no interleaving, crash or rolled-back savepoint leaves one without the  *)
(* other.                                                                  *)
THEOREM OrdersPaidOnce == Spec => []EveryOrderPaidOnce
<1>1. ASSUME Paid(ledger, orders), orders \in Seq(OrderRow)
      PROVE  EveryOrderPaidOnce
  <2>1. ASSUME NEW o \in DOMAIN orders
        PROVE  \E n \in Lines(orders[o].user, "ORDER_DEBIT", o) :
                  /\ ledger[orders[o].user][n].amount = -orders[o].charge
                  /\ \A u \in Users : Lines(u, "ORDER_DEBIT", o) \subseteq
                                 IF u = orders[o].user THEN {n} ELSE {}
    <3> DEFINE w == orders[o].user
    <3>1. CitedOnce(ledger, w, "ORDER_DEBIT", o, -orders[o].charge)
      BY <1>1 DEF Paid
    <3>2. PICK n \in DOMAIN ledger[w] :
            /\ Cites(ledger, w, n, "ORDER_DEBIT", o)
            /\ ledger[w][n].amount = -orders[o].charge
            /\ \A x \in Users : \A m \in DOMAIN ledger[x] :
                 Cites(ledger, x, m, "ORDER_DEBIT", o) => x = w /\ m = n
      BY <3>1 DEF CitedOnce
    <3>3. n \in Lines(w, "ORDER_DEBIT", o)
      BY <3>2 DEF Lines, Cites
    <3>4. \A u \in Users : Lines(u, "ORDER_DEBIT", o) \subseteq
                              IF u = w THEN {n} ELSE {}
      BY <3>2 DEF Lines, Cites
    <3> QED
      BY <3>2, <3>3, <3>4
  <2> QED
    BY <1>1, <2>1 DEF EveryOrderPaidOnce, Paid, Refers
<1>2. IInv => EveryOrderPaidOnce
  BY <1>1 DEF IInv, TablesSound, Sound, Tables
<1> QED
  BY <1>2, Invariance, PTL

(* One Idempotency-Key, one order: the key's row names the only order      *)
(* placed under it.                                                        *)
THEOREM KeysPlaceOnce == Spec => []OneOrderPerKey
<1>1. IInv => OneOrderPerKey
  BY DEF IInv, TablesSound, Sound, Keyed, OneOrderPerKey
<1> QED
  BY <1>1, Invariance, PTL

(* A deposit is APPROVED exactly when one ledger line credits it, to its   *)
(* owner and in full, however often callback, webhook, cron and admin      *)
(* confirm it.                                                             *)
THEOREM DepositsCreditedOnce == Spec => []CreditedIffApproved
<1>1. ASSUME Credited(ledger, deposits), deposits \in Seq(DepositRow)
      PROVE  CreditedIffApproved
  <2>1. ASSUME NEW d \in DOMAIN deposits, NEW u \in Users,
               deposits[d].status = "APPROVED", deposits[d].user = u
        PROVE  \E n \in DOMAIN ledger[u] :
                  /\ Lines(u, "DEPOSIT", d) = {n}
                  /\ ledger[u][n].amount = deposits[d].amount
    <3>1. CitedOnce(ledger, u, "DEPOSIT", d, deposits[d].amount)
      BY <1>1, <2>1 DEF Credited
    <3>2. PICK n \in DOMAIN ledger[u] :
            /\ Cites(ledger, u, n, "DEPOSIT", d)
            /\ ledger[u][n].amount = deposits[d].amount
            /\ \A x \in Users : \A m \in DOMAIN ledger[x] :
                 Cites(ledger, x, m, "DEPOSIT", d) => x = u /\ m = n
      BY <3>1 DEF CitedOnce
    <3>3. Lines(u, "DEPOSIT", d) = {n}
      BY <3>2 DEF Lines, Cites
    <3> QED
      BY <3>2, <3>3
  <2>2. ASSUME NEW d \in DOMAIN deposits, NEW u \in Users,
               ~(deposits[d].status = "APPROVED" /\ deposits[d].user = u)
        PROVE  Lines(u, "DEPOSIT", d) = {}
    <3>1. CASE deposits[d].status = "APPROVED"
      BY <1>1, <2>2, <3>1 DEF Credited, CitedOnce, Lines, Cites
    <3>2. CASE deposits[d].status # "APPROVED"
      BY <1>1, <3>2 DEF Credited, Uncited, Lines, Cites
    <3> QED
      BY <3>1, <3>2
  <2> QED
    BY <1>1, <2>1, <2>2 DEF CreditedIffApproved, Credited, Refers
<1>2. IInv => CreditedIffApproved
  BY <1>1 DEF IInv, TablesSound, Sound, Tables
<1> QED
  BY <1>2, Invariance, PTL

(* A FULFILLED intent names an order its customer got under its key, for   *)
(* the quantity asked.                                                     *)
THEOREM FulfilledPlaced == Spec => []FulfilledHasOrder
<1>1. IInv => FulfilledHasOrder
  BY DEF IInv, TablesSound, Sound, Placed, OrderOf, FulfilledHasOrder
<1> QED
  BY <1>1, Invariance, PTL

(* A reviewed deposit keeps its verdict and a settled intent its outcome,  *)
(* although every handler decides on a status it read earlier: each reads  *)
(* it again under the row's lock.                                          *)
THEOREM OutcomesFinal == Spec => SettledStaysSettled
<1>1. IInv /\ Next => Settled
  BY StepInv
<1>2. IInv /\ UNCHANGED vars => Settled
  BY Unwritten DEF Writes, vars
<1>3. IInv /\ [Next]_vars => [Settled]_vars
  BY <1>1, <1>2
<1> QED
  BY <1>3, Invariance, PTL DEF Spec, SettledStaysSettled, Settled
-----------------------------------------------------------------------------
(* The wallets: every step appends to the ledgers.                         *)

(* Nothing a ledger says is changed. *)
Grows(L, M) ==
  \A u \in Users : /\ Len(L[u]) <= Len(M[u])
                   /\ \A n \in 1..Len(L[u]) : M[u][n] = L[u][n]

LEMMA PostGrows ==
  ASSUME IInv, NEW u, NEW r, NEW t, Post(u, <<r>>) \/ Post(u, <<r, t>>)
  PROVE  Grows(ledger, ledger')
<1> DEFINE S == Line \cup {r, t}
<1>1. ASSUME NEW l \in Seq(Line), NEW rows \in Seq(S)
      PROVE  /\ Len(l) <= Len(l \o rows)
             /\ \A n \in 1..Len(l) : (l \o rows)[n] = l[n]
  <2>1. l \in Seq(S)
    OBVIOUS
  <2> HIDE DEF S
  <2> QED
    BY <2>1
<1>2. <<r>> \in Seq(S) /\ <<r, t>> \in Seq(S)
  OBVIOUS
<1>3. PICK rows \in Seq(S) : Post(u, rows)
  BY <1>2
<1> HIDE DEF S
<1>4. ledger \in [Users -> Seq(Line)]
  BY TableTypes
<1>5. ASSUME NEW w \in Users
      PROVE  ledger'[w] = ledger[w] \/ ledger'[w] = ledger[w] \o rows
  BY <1>3, <1>4 DEF Post
<1>6. ASSUME NEW w \in Users
      PROVE  /\ Len(ledger[w]) <= Len(ledger'[w])
             /\ \A n \in 1..Len(ledger[w]) : ledger'[w][n] = ledger[w][n]
  <2>1. ledger[w] \in Seq(Line) /\ Len(ledger[w]) \in Nat
    BY <1>4
  <2> QED
    BY <1>1, <1>5, <2>1
<1> QED
  BY <1>6 DEF Grows

(* A step posts a credit, a debit, both or nothing. *)
LEMMA StepPosts ==
  ASSUME Next
  PROVE  \/ ledger' = ledger
         \/ \E u, r, t : Post(u, <<r>>) \/ Post(u, <<r, t>>)
<1>1. CASE Environment
  BY <1>1 DEF Environment, CreateManualDeposit, SetService, UpsertGatewayConfig,
              GatewayDecides, IntentExpires, Crash, db
<1>2. ASSUME NEW p \in Jobs, Start(p)
      PROVE  ledger' = ledger
  BY <1>2 DEF Start, Submit, StartDeposit, Confirm, Review, ListFailed, db
<1>3. ASSUME NEW p \in Jobs, OrderStep(p)
      PROVE  \/ ledger' = ledger
             \/ \E u, r : Post(u, <<r>>)
  <2>1. CASE CommitOrder(p)
    BY <2>1 DEF CommitOrder
  <2> QED
    BY <1>3, <2>1 DEF OrderStep, Redirect, AnswerWithoutWriting, DraftOrder,
                      Debit, DebitRefused, DuplicateKey, db
<1>4. ASSUME NEW p \in Jobs, DepositStep(p)
      PROVE  \/ ledger' = ledger
             \/ \E u, r, t : Post(u, <<r>>) \/ Post(u, <<r, t>>)
  <2>1. ASSUME SettleTopUp(p) \/ SettleExpired(p) \/ SettleReplayed(p)
               \/ SettleFailed(p) \/ ReviewCredit(p)
        PROVE  \E u, r : Post(u, <<r>>)
    BY <2>1 DEF SettleTopUp, SettleExpired, SettleReplayed, SettleFailed,
                ReviewCredit, Approve
  <2>2. CASE SettlePlaced(p)
    BY <2>2 DEF SettlePlaced, Approve
  <2> QED
    BY <1>4, <2>1, <2>2
       DEF DepositStep, CreateDeposit, Initiate, InitiateFails, ConfirmNothing,
           ConfirmFailed, ConfirmPaid, Credit, AlreadyReviewed, ReviewReject,
           ReviewApprove, db
<1>5. ASSUME NEW p \in Jobs, RetryStep(p)
      PROVE  \/ ledger' = ledger
             \/ \E u, r : Post(u, <<r>>)
  <2>1. CASE RetryPlaced(p)
    BY <2>1 DEF RetryPlaced
  <2> QED
    BY <1>5, <2>1 DEF RetryStep, RetryResolved, RetryExpired, RetryReplayed,
                      RetryRefused, RetryEnd, RetryDraft, RetryFailed, db
<1> QED
  BY <1>1, <1>2, <1>3, <1>4, <1>5 DEF Next, Step

(* Orders, credits and retries move money as the wallet service does: each *)
(* commit appends lines that continue their ledger, and no line already    *)
(* written is changed or dropped.                                          *)
THEOREM WalletsAudited == Spec => ImplementsAuditedWallets
<1>1. ASSUME IInv, Next PROVE Wallets!Transact
  <2>1. Reconciled(ledger', balance')
    BY <1>1, StepInv DEF IInv, TablesSound, Sound
  <2>2. Grows(ledger, ledger')
    <3>1. CASE ledger' = ledger
      <4>1. \A u \in Users : Len(ledger[u]) \in Nat
        BY <1>1, TableTypes
      <4> QED
        BY <3>1, <4>1 DEF Grows
    <3> QED
      BY <1>1, <3>1, StepPosts, PostGrows
  <2> QED
    BY <2>1, <2>2
       DEF Reconciled, Grows, ChainedFrom, FinalBalance, BalanceBefore,
           Wallets!Transact, Wallets!Extends, Wallets!ChainedFrom,
           Wallets!FinalBalance, Wallets!BalanceBefore
<1>2. UNCHANGED vars => UNCHANGED Wallets!vars
  BY DEF vars, db, Wallets!vars
<1>3. Init => Wallets!Init
  BY DEF Init, Wallets!Init
<1> QED
  BY <1>1, <1>2, <1>3, Invariance, PTL
     DEF Spec, ImplementsAuditedWallets, Wallets!Spec, Wallets!vars
-----------------------------------------------------------------------------
(* The shop.  Beyond the invariant, its steps rest on what a job remembers *)
(* from earlier reads: the charge it computed is a price of the service    *)
(* times the quantity, and the intent it is to grant was paid for.         *)

Quote(q, charge) == \E price \in Prices : charge = price * q

Remembers(p) ==
  /\ job[p].at \in {"debit", "commit"} => Quote(job[p].quantity, job[p].charge)
  /\ job[p].at = "retryDebit" =>
       Quote(intents[job[p].intent].quantity, job[p].charge)
  /\ job[p].at \in {"retry", "retryDebit"} => PaidFor(job[p].intent)
  /\ job[p].at = "settle" => job[p].intent = deposits[job[p].deposit].intent

ShopInv == IInv /\ \A p \in Jobs : Remembers(p)

LEMMA ChargeQuoted ==
  ASSUME IInv, NEW q
  PROVE  Quote(q, Charge(q))
<1>1. service.price \in Prices
  BY DEF IInv, Around
<1> QED
  BY <1>1 DEF Quote, Charge

(* Rows keep what they are for. *)
ColumnsStay ==
  /\ \A d \in DOMAIN deposits :
       d \in DOMAIN deposits' /\ deposits'[d].intent = deposits[d].intent
  /\ \A i \in DOMAIN intents :
       i \in DOMAIN intents' /\ intents'[i].quantity = intents[i].quantity

(* The ways a step writes deposits and intents. *)
DepositsWritten ==
  \/ deposits' = deposits
  \/ \E row : deposits' = Append(deposits, row)
  \/ \E d, status : SetDeposit(d, status)
  \/ \E d : deposits' = [deposits EXCEPT ![d].gatewayRef = TRUE]
IntentsWritten ==
  \/ intents' = intents
  \/ \E row : intents' = Append(intents, row)
  \/ \E i, status, order : SetIntent(i, status, order)
  \/ \E i : intents' = [intents EXCEPT ![i].expired = TRUE]

LEMMA StepWrites ==
  ASSUME Next
  PROVE  DepositsWritten /\ IntentsWritten
<1> USE DEF DepositsWritten, IntentsWritten
<1>1. CASE Environment
  BY <1>1 DEF Environment, CreateManualDeposit, SetService, UpsertGatewayConfig,
              GatewayDecides, IntentExpires, Crash, db
<1>2. ASSUME NEW p \in Jobs, Start(p)
      PROVE  deposits' = deposits /\ intents' = intents
  BY <1>2 DEF Start, Submit, StartDeposit, Confirm, Review, ListFailed, db
<1>3. ASSUME NEW p \in Jobs, OrderStep(p)
      PROVE  DepositsWritten /\ IntentsWritten
  BY <1>3 DEF OrderStep, Redirect, AnswerWithoutWriting, DraftOrder, Debit,
              DebitRefused, CommitOrder, DuplicateKey, db
<1>4. ASSUME NEW p \in Jobs, DepositStep(p)
      PROVE  DepositsWritten /\ IntentsWritten
  <2>1. ASSUME SettleTopUp(p) \/ SettleExpired(p) \/ SettleReplayed(p)
               \/ SettlePlaced(p) \/ SettleFailed(p) \/ ReviewCredit(p)
        PROVE  /\ \E d, status : SetDeposit(d, status)
               /\ \/ intents' = intents
                  \/ \E i, status, order : SetIntent(i, status, order)
    BY <2>1 DEF SettleTopUp, SettleExpired, SettleReplayed, SettlePlaced,
                SettleFailed, ReviewCredit, Approve
  <2> QED
    BY <1>4, <2>1
       DEF DepositStep, CreateDeposit, Initiate, InitiateFails, ConfirmNothing,
           ConfirmFailed, ConfirmPaid, Credit, AlreadyReviewed, ReviewReject,
           ReviewApprove, db
<1>5. ASSUME NEW p \in Jobs, RetryStep(p)
      PROVE  DepositsWritten /\ IntentsWritten
  BY <1>5 DEF RetryStep, RetryResolved, RetryExpired, RetryReplayed,
              RetryRefused, RetryEnd, RetryDraft, RetryPlaced, RetryFailed, db
<1> QED
  BY <1>1, <1>2, <1>3, <1>4, <1>5 DEF Next, Step

LEMMA ColumnsKept ==
  ASSUME IInv, Next
  PROVE  ColumnsStay
<1>1. deposits \in Seq(DepositRow) /\ intents \in Seq(IntentRow)
  BY TableTypes
<1>2. DepositsWritten /\ IntentsWritten
  BY StepWrites
<1>3. ASSUME NEW d \in DOMAIN deposits
      PROVE  d \in DOMAIN deposits' /\ deposits'[d].intent = deposits[d].intent
  <2>1. deposits[d] \in DepositRow
    BY <1>1
  <2>2. CASE \E row : deposits' = Append(deposits, row)
    BY <1>1, <2>2
  <2>3. CASE \E x, status : SetDeposit(x, status)
    BY <2>1, <2>3 DEF SetDeposit, DepositRow
  <2>4. CASE \E x : deposits' = [deposits EXCEPT ![x].gatewayRef = TRUE]
    BY <2>1, <2>4 DEF DepositRow
  <2> QED
    BY <1>2, <2>2, <2>3, <2>4 DEF DepositsWritten
<1>4. ASSUME NEW i \in DOMAIN intents
      PROVE  i \in DOMAIN intents' /\ intents'[i].quantity = intents[i].quantity
  <2>1. intents[i] \in IntentRow
    BY <1>1
  <2>2. CASE \E row : intents' = Append(intents, row)
    BY <1>1, <2>2
  <2>3. CASE \E x, status, order : SetIntent(x, status, order)
    BY <2>1, <2>3 DEF SetIntent, IntentRow
  <2>4. CASE \E x : intents' = [intents EXCEPT ![x].expired = TRUE]
    BY <2>1, <2>4 DEF IntentRow
  <2> QED
    BY <1>2, <2>2, <2>3, <2>4 DEF IntentsWritten
<1> QED
  BY <1>3, <1>4 DEF ColumnsStay

(* A job that does not move remembers right. *)
LEMMA StillRemembers ==
  ASSUME IInv, ColumnsStay, Settled, NEW p \in Jobs, Remembers(p),
         job'[p] = job[p]
  PROVE  Remembers(p)'
<1>1. JobSound(p)
  BY DEF IInv
<1>2. job[p].at \in {"retry", "retryDebit"} => PaidFor(job[p].intent)'
  <2>1. ASSUME NEW i, PaidFor(i) PROVE PaidFor(i)'
    BY <2>1 DEF PaidFor, ColumnsStay, Settled
  <2> QED
    BY <2>1 DEF Remembers
<1>3. job[p].at = "retryDebit" =>
        Quote(intents'[job[p].intent].quantity, job[p].charge)
  BY <1>1 DEF JobSound, HasIntent, ColumnsStay, Remembers
<1>4. job[p].at = "settle" => job[p].intent = deposits'[job[p].deposit].intent
  BY <1>1 DEF JobSound, HasDeposit, ColumnsStay, Remembers
<1> QED
  BY <1>2, <1>3, <1>4 DEF Remembers, PaidFor

(* A job that has moved on remembers what it has just read. *)
LEMMA MovedRemembers ==
  ASSUME ShopInv, NEW p \in Jobs, Start(p) \/ Step(p)
  PROVE  Remembers(p)'
<1> DEFINE Plain == {"idle", "redirect", "place", "create", "initiate", "fail",
                     "paid", "verified", "credit", "approve", "reject",
                     "release"}
<1>1. job'[p].at \in Plain => Remembers(p)'
  BY DEF Remembers
<1>2. job \in [Jobs -> JobRow] /\ job[p] \in JobRow /\ Remembers(p) /\ IInv
  BY DEF ShopInv, IInv, Around
<1>3. Finish(p) => job'[p].at \in Plain
  BY <1>2 DEF Finish, Idle
<1>4. CASE Start(p)
  <2>1. ASSUME NEW i \in 1..MaxIntents, ListFailed(p, i)
        PROVE  Remembers(p)'
    <3>1. /\ job'[p].at = "retry" /\ job'[p].intent = i /\ PaidFor(i)
          /\ deposits' = deposits
      BY <1>2, <2>1 DEF ListFailed, Idle, db
    <3> QED
      BY <3>1 DEF Remembers, PaidFor
  <2>2. ASSUME NEW u, NEW k, NEW q, Submit(p, u, k, q)
        PROVE  job'[p].at \in Plain
    BY <1>2, <2>2 DEF Submit, Idle
  <2>3. ASSUME NEW u, NEW i, StartDeposit(p, u, i)
        PROVE  job'[p].at \in Plain
    BY <1>2, <2>3 DEF StartDeposit, Idle
  <2>4. ASSUME NEW d, Confirm(p, d)
        PROVE  job'[p].at \in Plain
    <3> DEFINE at == CASE gateway[d] = "FAILED" -> "fail"
                       [] gateway[d] = "PAID" /\ config.autoVerify -> "paid"
                       [] OTHER -> "verified"
    <3>1. at \in Plain
      OBVIOUS
    <3>2. job' = [job EXCEPT ![p] = [Idle EXCEPT !.user = deposits[d].user,
                                                 !.deposit = d, !.at = at]]
      BY <2>4 DEF Confirm
    <3> HIDE DEF at, Plain
    <3> QED
      BY <1>2, <3>1, <3>2 DEF Idle
  <2>5. ASSUME NEW d, NEW a \in {"approve", "reject"}, Review(p, d, a)
        PROVE  job'[p].at \in Plain
    BY <1>2, <2>5 DEF Review, Idle
  <2> HIDE DEF Plain
  <2> QED
    BY <1>1, <1>4, <2>1, <2>2, <2>3, <2>4, <2>5 DEF Start
<1>5. CASE OrderStep(p)
  <2>1. CASE DraftOrder(p)
    <3> DEFINE c == Charge(job[p].quantity)
    <3>1. Quote(job[p].quantity, c)
      BY <1>2, ChargeQuoted
    <3>2. job' = [job EXCEPT ![p].at = "debit", ![p].charge = c]
      BY <2>1 DEF DraftOrder
    <3> HIDE DEF c
    <3>3. /\ job'[p].at = "debit" /\ job'[p].charge = c
          /\ job'[p].quantity = job[p].quantity
      BY <1>2, <3>2 DEF JobRow
    <3> QED
      BY <3>1, <3>3 DEF Remembers
  <2>2. CASE Debit(p)
    <3>1. /\ job'[p].at = "commit" /\ job'[p].charge = job[p].charge
          /\ job'[p].quantity = job[p].quantity /\ job[p].at = "debit"
      BY <1>2, <2>2 DEF Debit, At, JobRow
    <3> QED
      BY <1>2, <3>1 DEF Remembers
  <2>3. \/ Finish(p) \/ DraftOrder(p) \/ Debit(p)
    BY <1>5 DEF OrderStep, Redirect, AnswerWithoutWriting, DebitRefused,
                CommitOrder, DuplicateKey
  <2> QED
    BY <1>1, <1>3, <2>1, <2>2, <2>3
<1>6. CASE DepositStep(p)
  <2>1. CASE Credit(p)
    <3>1. /\ job'[p].at = "settle" /\ job'[p].deposit = job[p].deposit
          /\ job'[p].intent = deposits[job[p].deposit].intent
          /\ deposits' = deposits
      BY <1>2, <2>1 DEF Credit, JobRow, db
    <3> QED
      BY <3>1 DEF Remembers
  <2>2. ASSUME (\E amount \in Amounts : CreateDeposit(p, amount))
               \/ ConfirmPaid(p) \/ ReviewApprove(p)
        PROVE  job'[p].at \in Plain
    BY <1>2, <2>2 DEF CreateDeposit, ConfirmPaid, ReviewApprove, JobRow
  <2>3. \/ Finish(p) \/ Credit(p)
        \/ \E amount \in Amounts : CreateDeposit(p, amount)
        \/ ConfirmPaid(p) \/ ReviewApprove(p)
    BY <1>6
       DEF DepositStep, Initiate, InitiateFails, ConfirmNothing, ConfirmFailed,
           AlreadyReviewed, ReviewReject, ReviewCredit, SettleTopUp,
           SettleExpired, SettleReplayed, SettlePlaced, SettleFailed, Approve
  <2> QED
    BY <1>1, <1>3, <2>1, <2>2, <2>3
<1>7. CASE RetryStep(p)
  <2>1. CASE RetryDraft(p)
    <3> DEFINE i == job[p].intent
               c == Charge(intents[i].quantity)
    <3>1. Quote(intents[i].quantity, c)
      BY <1>2, ChargeQuoted
    <3>2. /\ job' = [job EXCEPT ![p].at = "retryDebit", ![p].charge = c]
          /\ job[p].at = "retry" /\ intents' = intents /\ deposits' = deposits
      BY <2>1 DEF RetryDraft, At, db
    <3> HIDE DEF c
    <3>3. /\ job'[p].at = "retryDebit" /\ job'[p].charge = c
          /\ job'[p].intent = i
      BY <1>2, <3>2 DEF JobRow
    <3>4. PaidFor(i)
      BY <1>2, <3>2 DEF Remembers
    <3> QED
      BY <3>1, <3>2, <3>3, <3>4 DEF Remembers, PaidFor
  <2>2. Finish(p) \/ RetryDraft(p)
    BY <1>7 DEF RetryStep, RetryResolved, RetryExpired, RetryReplayed,
                RetryRefused, RetryEnd, RetryPlaced, RetryFailed
  <2> QED
    BY <1>1, <1>3, <2>1, <2>2
<1> QED
  BY <1>4, <1>5, <1>6, <1>7 DEF Step

LEMMA OthersStand ==
  ASSUME IInv, NEW p \in Jobs, Start(p) \/ Step(p), NEW q \in Jobs, q # p
  PROVE  job'[q] = job[q]
<1>1. job \in [Jobs -> JobRow]
  BY DEF IInv, Around
<1>2. ASSUME NEW r, job' = [job EXCEPT ![p] = r] PROVE job'[q] = job[q]
  BY <1>1, <1>2
<1>3. Finish(p) => job'[q] = job[q]
  BY <1>1 DEF Finish
<1>4. CASE Start(p)
  BY <1>1, <1>4 DEF Start, Submit, StartDeposit, Confirm, Review, ListFailed
<1>5. CASE OrderStep(p)
  BY <1>1, <1>3, <1>5
     DEF OrderStep, Redirect, AnswerWithoutWriting, DraftOrder, Debit,
         DebitRefused, CommitOrder, DuplicateKey
<1>6. CASE DepositStep(p)
  BY <1>1, <1>3, <1>6
     DEF DepositStep, CreateDeposit, Initiate, InitiateFails, ConfirmNothing,
         ConfirmFailed, ConfirmPaid, Credit, AlreadyReviewed, ReviewReject,
         ReviewApprove, ReviewCredit, SettleTopUp, SettleExpired,
         SettleReplayed, SettlePlaced, SettleFailed, Approve
<1>7. CASE RetryStep(p)
  BY <1>1, <1>3, <1>7
     DEF RetryStep, RetryResolved, RetryExpired, RetryReplayed, RetryRefused,
         RetryEnd, RetryDraft, RetryPlaced, RetryFailed
<1> QED
  BY <1>4, <1>5, <1>6, <1>7 DEF Step

LEMMA ShopInvStep ==
  ASSUME ShopInv, [Next]_vars
  PROVE  ShopInv'
<1>1. IInv
  BY DEF ShopInv
<1>2. CASE Next
  <2>1. IInv' /\ Settled /\ ColumnsStay
    BY <1>1, <1>2, StepInv, ColumnsKept
  <2>2. ASSUME NEW q \in Jobs, job'[q] = job[q] PROVE Remembers(q)'
    BY <1>1, <2>1, <2>2, StillRemembers DEF ShopInv
  <2>3. CASE Environment
    <3>1. CASE Crash
      <4>1. \A q \in Jobs : job'[q].at = "idle"
        BY <3>1 DEF Crash, Idle
      <4> QED
        BY <2>1, <4>1 DEF ShopInv, Remembers
    <3>2. CASE job' = job
      BY <2>1, <2>2, <3>2 DEF ShopInv
    <3> QED
      BY <2>3, <3>1, <3>2
         DEF Environment, CreateManualDeposit, SetService, UpsertGatewayConfig,
             GatewayDecides, IntentExpires
  <2>4. ASSUME NEW p \in Jobs, Start(p) \/ Step(p) PROVE ShopInv'
    BY <1>1, <2>1, <2>2, <2>4, MovedRemembers, OthersStand DEF ShopInv
  <2> QED
    BY <1>2, <2>3, <2>4 DEF Next
<1>3. CASE UNCHANGED vars
  <2>1. IInv' /\ job' = job /\ intents' = intents /\ deposits' = deposits
    BY <1>1, <1>3, StutterInv DEF vars, db
  <2> QED
    BY <2>1 DEF ShopInv, Remembers, PaidFor
<1> QED
  BY <1>2, <1>3

LEMMA ShopInvariance == Spec => []ShopInv
<1>1. Init => ShopInv
  <2>1. ASSUME Init PROVE \A p \in Jobs : Remembers(p)
    BY <2>1 DEF Init, Remembers, Idle
  <2> QED
    BY <2>1, InitInv DEF ShopInv
<1> QED
  BY <1>1, ShopInvStep, PTL DEF Spec

-----------------------------------------------------------------------------
(* The shop's view of the tables, and what the writes do to it.            *)

WishRow == [user : Users, key : Keys, quantity : Quantities, order : Nat]
PaymentRow == [user : Users, amount : Amounts, status : DepositStatus,
               wish : Nat]

Got(status, o) == IF status = "FULFILLED" THEN o ELSE NoRef
WishOf(row) == [user |-> row.user, key |-> row.key, quantity |-> row.quantity,
                order |-> Got(row.status, row.order)]
PaymentOf(row) == [user |-> row.user, amount |-> row.amount,
                   status |-> row.status, wish |-> row.intent]

WishesIn(I) == [i \in DOMAIN I |-> WishOf(I[i])]
PaymentsIn(D) == [d \in DOMAIN D |-> PaymentOf(D[d])]

LEMMA Views ==
  /\ Wishes = WishesIn(intents) /\ Payments = PaymentsIn(deposits)
  /\ Wishes' = WishesIn(intents') /\ Payments' = PaymentsIn(deposits')
BY DEF Wishes, WishesIn, WishOf, Got, Payments, PaymentsIn, PaymentOf

LEMMA WishParts ==
  ASSUME NEW I \in Seq(IntentRow)
  PROVE  /\ WishesIn(I) \in Seq(WishRow) /\ Len(WishesIn(I)) = Len(I)
         /\ DOMAIN WishesIn(I) = DOMAIN I
         /\ \A i \in DOMAIN I : WishesIn(I)[i] = WishOf(I[i])
                                 /\ WishesIn(I)[i] \in WishRow
<1> DEFINE n == Len(I)
<1>1. n \in Nat /\ DOMAIN I = 1..n
  OBVIOUS
<1>2. ASSUME NEW i \in DOMAIN I PROVE WishOf(I[i]) \in WishRow
  <2>1. I[i] \in IntentRow
    OBVIOUS
  <2> QED
    BY <2>1 DEF WishOf, WishRow, IntentRow, Got, NoRef
<1> HIDE DEF n
<1>3. WishesIn(I) \in [1..n -> WishRow]
  BY <1>1, <1>2 DEF WishesIn
<1>4. WishesIn(I) \in Seq(WishRow)
  BY <1>1, <1>3, SeqDef
<1>5. Len(WishesIn(I)) = n
  BY <1>1, <1>3, <1>4, LenProperties
<1> QED
  BY <1>1, <1>2, <1>4, <1>5 DEF WishesIn, n

LEMMA PaymentParts ==
  ASSUME NEW D \in Seq(DepositRow)
  PROVE  /\ PaymentsIn(D) \in Seq(PaymentRow) /\ Len(PaymentsIn(D)) = Len(D)
         /\ DOMAIN PaymentsIn(D) = DOMAIN D
         /\ \A d \in DOMAIN D : PaymentsIn(D)[d] = PaymentOf(D[d])
                                 /\ PaymentsIn(D)[d] \in PaymentRow
<1> DEFINE n == Len(D)
<1>1. n \in Nat /\ DOMAIN D = 1..n
  OBVIOUS
<1>2. ASSUME NEW d \in DOMAIN D PROVE PaymentOf(D[d]) \in PaymentRow
  <2>1. D[d] \in DepositRow
    OBVIOUS
  <2> QED
    BY <2>1 DEF PaymentOf, PaymentRow, DepositRow
<1> HIDE DEF n
<1>3. PaymentsIn(D) \in [1..n -> PaymentRow]
  BY <1>1, <1>2 DEF PaymentsIn
<1>4. PaymentsIn(D) \in Seq(PaymentRow)
  BY <1>1, <1>3, SeqDef
<1>5. Len(PaymentsIn(D)) = n
  BY <1>1, <1>3, <1>4, LenProperties
<1> QED
  BY <1>1, <1>2, <1>4, <1>5 DEF PaymentsIn, n

(* A row added is seen as a row added. *)
LEMMA WishAdded ==
  ASSUME NEW I \in Seq(IntentRow), NEW row \in IntentRow
  PROVE  WishesIn(Append(I, row)) = Append(WishesIn(I), WishOf(row))
<1> DEFINE J == Append(I, row)
           V == WishesIn(I)
           w == WishOf(row)
<1>1. /\ J \in Seq(IntentRow) /\ Len(J) = Len(I) + 1 /\ Len(I) \in Nat
      /\ J[Len(I) + 1] = row /\ DOMAIN J = 1..(Len(I) + 1)
      /\ DOMAIN I = 1..Len(I) /\ \A i \in 1..Len(I) : J[i] = I[i]
  OBVIOUS
<1>2. /\ V \in Seq(WishRow) /\ Len(V) = Len(I)
      /\ \A i \in 1..Len(I) : V[i] = WishOf(I[i])
  BY <1>1, WishParts
<1> HIDE DEF J
<1>3. /\ WishesIn(J) \in Seq(WishRow) /\ Len(WishesIn(J)) = Len(I) + 1
      /\ \A i \in 1..(Len(I) + 1) : WishesIn(J)[i] = WishOf(J[i])
  BY <1>1, WishParts
<1>4. w \in WishRow
  BY DEF WishOf, WishRow, IntentRow, Got, NoRef
<1> HIDE DEF V, w
<1>5. /\ Append(V, w) \in Seq(WishRow) /\ Len(Append(V, w)) = Len(I) + 1
      /\ Append(V, w)[Len(I) + 1] = w
      /\ \A i \in 1..Len(I) : Append(V, w)[i] = V[i]
  BY <1>1, <1>2, <1>4
<1>6. \A i \in 1..(Len(I) + 1) : WishesIn(J)[i] = Append(V, w)[i]
  <2>1. \A i \in 1..(Len(I) + 1) : i \in 1..Len(I) \/ i = Len(I) + 1
    BY <1>1
  <2>2. w = WishOf(row)
    BY DEF w
  <2> QED
    BY <1>1, <1>2, <1>3, <1>5, <2>1, <2>2
<1>7. WishesIn(J) = Append(V, w)
  BY <1>3, <1>5, <1>6, SeqEqual
<1> QED
  BY <1>7 DEF J, V, w

LEMMA PaymentAdded ==
  ASSUME NEW D \in Seq(DepositRow), NEW row \in DepositRow
  PROVE  PaymentsIn(Append(D, row)) = Append(PaymentsIn(D), PaymentOf(row))
<1> DEFINE E == Append(D, row)
           V == PaymentsIn(D)
           w == PaymentOf(row)
<1>1. /\ E \in Seq(DepositRow) /\ Len(E) = Len(D) + 1 /\ Len(D) \in Nat
      /\ E[Len(D) + 1] = row /\ DOMAIN E = 1..(Len(D) + 1)
      /\ DOMAIN D = 1..Len(D) /\ \A d \in 1..Len(D) : E[d] = D[d]
  OBVIOUS
<1>2. /\ V \in Seq(PaymentRow) /\ Len(V) = Len(D)
      /\ \A d \in 1..Len(D) : V[d] = PaymentOf(D[d])
  BY <1>1, PaymentParts
<1> HIDE DEF E
<1>3. /\ PaymentsIn(E) \in Seq(PaymentRow) /\ Len(PaymentsIn(E)) = Len(D) + 1
      /\ \A d \in 1..(Len(D) + 1) : PaymentsIn(E)[d] = PaymentOf(E[d])
  BY <1>1, PaymentParts
<1>4. w \in PaymentRow
  BY DEF PaymentOf, PaymentRow, DepositRow
<1> HIDE DEF V, w
<1>5. /\ Append(V, w) \in Seq(PaymentRow) /\ Len(Append(V, w)) = Len(D) + 1
      /\ Append(V, w)[Len(D) + 1] = w
      /\ \A d \in 1..Len(D) : Append(V, w)[d] = V[d]
  BY <1>1, <1>2, <1>4
<1>6. \A d \in 1..(Len(D) + 1) : PaymentsIn(E)[d] = Append(V, w)[d]
  <2>1. \A d \in 1..(Len(D) + 1) : d \in 1..Len(D) \/ d = Len(D) + 1
    BY <1>1
  <2>2. w = PaymentOf(row)
    BY DEF w
  <2> QED
    BY <1>1, <1>2, <1>3, <1>5, <2>1, <2>2
<1>7. PaymentsIn(E) = Append(V, w)
  BY <1>3, <1>5, <1>6, SeqEqual
<1> QED
  BY <1>7 DEF E, V, w

(* Rows that keep what the shop sees of them are seen unchanged. *)
LEMMA WishesSame ==
  ASSUME NEW I \in Seq(IntentRow), NEW J, DOMAIN J = DOMAIN I,
         \A i \in DOMAIN I : WishOf(J[i]) = WishOf(I[i])
  PROVE  WishesIn(J) = WishesIn(I)
BY DEF WishesIn

(* An intent that is resolved is a wish granted, or left as it was. *)
LEMMA WishResolved ==
  ASSUME NEW I \in Seq(IntentRow), NEW i \in DOMAIN I,
         NEW status \in IntentStatus, NEW o \in Nat
  PROVE  /\ status = "FULFILLED" =>
               WishesIn(Resolved(I, i, status, o))
                 = [WishesIn(I) EXCEPT ![i].order = o]
         /\ Got(status, o) = Got(I[i].status, I[i].order) =>
               WishesIn(Resolved(I, i, status, o)) = WishesIn(I)
<1> DEFINE J == Resolved(I, i, status, o)
<1>1. /\ DOMAIN J = DOMAIN I /\ J[i].status = status /\ J[i].order = o
      /\ \A x \in DOMAIN I : /\ J[x].user = I[x].user /\ J[x].key = I[x].key
                             /\ J[x].quantity = I[x].quantity
      /\ \A x \in DOMAIN I \ {i} : J[x] = I[x]
  BY ResolvedParts, Z3
<1> HIDE DEF J
<1>2. \A x \in DOMAIN I \ {i} : WishOf(J[x]) = WishOf(I[x])
  BY <1>1
<1>3. WishOf(J[i]) = [user |-> I[i].user, key |-> I[i].key,
                      quantity |-> I[i].quantity, order |-> Got(status, o)]
  BY <1>1 DEF WishOf
<1>4. ASSUME Got(status, o) = Got(I[i].status, I[i].order)
      PROVE  WishesIn(J) = WishesIn(I)
  <2>1. WishOf(J[i]) = WishOf(I[i])
    BY <1>3, <1>4 DEF WishOf
  <2> QED
    BY <1>1, <1>2, <2>1, WishesSame
<1>5. ASSUME status = "FULFILLED"
      PROVE  WishesIn(J) = [WishesIn(I) EXCEPT ![i].order = o]
  <2>1. WishOf(J[i]) = [WishOf(I[i]) EXCEPT !.order = o]
    BY <1>3, <1>5 DEF WishOf, Got
  <2>2. WishesIn(J) = [x \in DOMAIN I |-> WishOf(J[x])]
    BY <1>1 DEF WishesIn
  <2>3. [WishesIn(I) EXCEPT ![i].order = o]
          = [x \in DOMAIN I |-> IF x = i THEN [WishOf(I[i]) EXCEPT !.order = o]
                                         ELSE WishOf(I[x])]
    BY DEF WishesIn
  <2> QED
    BY <1>2, <2>1, <2>2, <2>3
<1> QED
  BY <1>4, <1>5 DEF J

(* A deposit that is decided is a payment decided. *)
LEMMA PaymentDecided ==
  ASSUME NEW D \in Seq(DepositRow), NEW d \in DOMAIN D, NEW status
  PROVE  PaymentsIn([D EXCEPT ![d].status = status])
           = [PaymentsIn(D) EXCEPT ![d].status = status]
<1> DEFINE E == [D EXCEPT ![d].status = status]
<1>1. D[d] \in DepositRow /\ DOMAIN E = DOMAIN D
  OBVIOUS
<1>2. \A x \in DOMAIN D \ {d} : E[x] = D[x]
  OBVIOUS
<1>3. E[d] = [D[d] EXCEPT !.status = status]
  OBVIOUS
<1>4. PaymentOf(E[d]) = [PaymentOf(D[d]) EXCEPT !.status = status]
  BY <1>1, <1>3 DEF PaymentOf, DepositRow
<1> HIDE DEF E
<1>5. PaymentsIn(E) = [x \in DOMAIN D |-> PaymentOf(E[x])]
  BY <1>1 DEF PaymentsIn
<1>6. [PaymentsIn(D) EXCEPT ![d].status = status]
        = [x \in DOMAIN D |->
             IF x = d THEN [PaymentOf(D[d]) EXCEPT !.status = status]
                      ELSE PaymentOf(D[x])]
  BY DEF PaymentsIn
<1> QED
  BY <1>2, <1>4, <1>5, <1>6 DEF E

-----------------------------------------------------------------------------
(* Each step is one of the shop, or is not seen there.                     *)

LEMMA Unseen ==
  ASSUME UNCHANGED <<balance, orders, keys>>,
         WishesIn(intents') = WishesIn(intents),
         PaymentsIn(deposits') = PaymentsIn(deposits)
  PROVE  UNCHANGED Shop!shop
BY Views DEF Shop!shop

(* An order inserted with its debit is a sale. *)
LEMMA Sells ==
  ASSUME NEW u, NEW k, NEW q, NEW c \in Nat, NEW funds \in Int,
         Quote(q, c), keys[u][k] = NoKeyRow, InsertOrder(u, k, q, c),
         Adjustable(funds, -c), balance' = [balance EXCEPT ![u] = funds - c]
  PROVE  Shop!Sell(u, k, q, funds)
<1>1. PICK price \in Prices : c = price * q
  BY DEF Quote
<1>2. c \in 1..funds
  BY DEF Adjustable
<1>3. /\ price * q \in 1..funds
      /\ orders' = Append(orders, [user |-> u, key |-> k, quantity |-> q,
                                   charge |-> price * q])
      /\ balance' = [balance EXCEPT ![u] = funds - price * q]
  BY <1>1, <1>2 DEF InsertOrder
<1>4. keys[u][k] = Shop!NoAnswer
  BY DEF NoKeyRow, NoRef, Shop!NoAnswer, Shop!Nothing
<1> QED
  BY <1>3, <1>4, Zenon DEF InsertOrder, Shop!Sell

(* What the shop sees of a deposit, of an intent. *)
LEMMA SeenPayment ==
  ASSUME IInv, NEW d \in DOMAIN deposits
  PROVE  /\ d \in DOMAIN Payments /\ Payments[d].user = deposits[d].user
         /\ Payments[d].amount = deposits[d].amount
         /\ Payments[d].status = deposits[d].status
         /\ Payments[d].wish = deposits[d].intent
<1>1. deposits \in Seq(DepositRow)
  BY TableTypes
<1>2. /\ DOMAIN PaymentsIn(deposits) = DOMAIN deposits
      /\ PaymentsIn(deposits)[d] = PaymentOf(deposits[d])
  BY <1>1, PaymentParts
<1>3. Payments = PaymentsIn(deposits)
  BY Views
<1> QED
  BY <1>2, <1>3 DEF PaymentOf

LEMMA SeenWish ==
  ASSUME IInv, NEW i \in DOMAIN intents
  PROVE  /\ i \in DOMAIN Wishes /\ Wishes[i].user = intents[i].user
         /\ Wishes[i].key = intents[i].key
         /\ Wishes[i].quantity = intents[i].quantity
         /\ Wishes[i].order = Got(intents[i].status, intents[i].order)
         /\ i # NoRef
<1>1. intents \in Seq(IntentRow)
  BY TableTypes
<1>2. i # NoRef
  BY <1>1 DEF NoRef
<1>3. /\ DOMAIN WishesIn(intents) = DOMAIN intents
      /\ WishesIn(intents)[i] = WishOf(intents[i])
  BY <1>1, WishParts
<1>4. Wishes = WishesIn(intents)
  BY Views
<1> QED
  BY <1>2, <1>3, <1>4 DEF WishOf

LEMMA SeenDecided ==
  ASSUME IInv, NEW d \in DOMAIN deposits, NEW status, SetDeposit(d, status)
  PROVE  Payments' = [Payments EXCEPT ![d].status = status]
<1>1. deposits \in Seq(DepositRow)
  BY TableTypes
<1>2. PaymentsIn([deposits EXCEPT ![d].status = status])
        = [PaymentsIn(deposits) EXCEPT ![d].status = status]
  BY <1>1, PaymentDecided
<1>3. deposits' = [deposits EXCEPT ![d].status = status]
  BY DEF SetDeposit
<1>4. Payments = PaymentsIn(deposits) /\ Payments' = PaymentsIn(deposits')
  BY Views
<1> QED
  BY <1>2, <1>3, <1>4

LEMMA SeesRedirect ==
  ASSUME IInv, NEW p \in Jobs, Redirect(p)
  PROVE  Shop!ShopNext
<1> DEFINE u == job[p].user
           k == job[p].key
           q == job[p].quantity
           row == [user |-> u, key |-> k, quantity |-> q, status |-> "PENDING",
                   order |-> NoRef, expired |-> FALSE]
<1>1. u \in Users /\ k \in Keys /\ q \in Quantities
  BY DEF IInv, JobSound, Redirect, At, HasOrder
<1>2. row \in IntentRow /\ intents \in Seq(IntentRow)
  BY <1>1, TableTypes DEF IntentRow, IntentStatus, NoRef
<1>3. /\ intents' = Append(intents, row)
      /\ UNCHANGED <<balance, ledger, orders, keys, deposits>>
  BY DEF Redirect
<1>4. WishOf(row) = [user |-> u, key |-> k, quantity |-> q, order |-> 0]
  BY DEF WishOf, Got, NoRef
<1> HIDE DEF row, u, k, q
<1>5. Wishes' = Append(Wishes, WishOf(row))
  BY <1>2, <1>3, WishAdded, Views
<1>6. Payments' = Payments
  BY <1>3, Views
<1>7. Shop!Wish(u, k, q)
  BY <1>3, <1>4, <1>5, <1>6 DEF Shop!Wish, Shop!Nothing
<1> QED
  BY <1>1, <1>7 DEF Shop!ShopNext

LEMMA SeesCommit ==
  ASSUME ShopInv, NEW p \in Jobs, CommitOrder(p)
  PROVE  Shop!ShopNext
<1> DEFINE u == job[p].user
           k == job[p].key
           q == job[p].quantity
           c == job[p].charge
           r == OrderLine(balance[u], c)
<1>1. IInv /\ Remembers(p) /\ job[p] \in JobRow
  BY DEF ShopInv, IInv, Around
<1>2. /\ u \in Users /\ k \in Keys /\ q \in Quantities /\ c \in Nat
      /\ Adjustable(balance[u], -c) /\ Quote(q, c)
  BY <1>1 DEF IInv, JobSound, CommitOrder, At, HasOrder, JobRow, Remembers
<1>3. /\ keys[u][k] = NoKeyRow /\ InsertOrder(u, k, q, c)
      /\ Post(u, <<r>>) /\ intents' = intents /\ deposits' = deposits
  BY DEF CommitOrder
<1>4. balance[u] \in Int
  BY <1>1, <1>2, TableTypes
<1>5. balance' = [balance EXCEPT ![u] = balance[u] - c]
  <2>1. r.balanceAfter = balance[u] - c
    BY <1>2, <1>4 DEF OrderLine, LedgerLine
  <2>2. FinalBalance(balance[u], <<r>>) = r.balanceAfter
    BY DEF FinalBalance
  <2> HIDE DEF r, u, c
  <2> QED
    BY <1>3, <2>1, <2>2 DEF Post
<1> HIDE DEF u, k, q, c, r
<1>6. Shop!Sell(u, k, q, balance[u])
  BY <1>2, <1>3, <1>4, <1>5, Sells
<1>7. Wishes' = Wishes /\ Payments' = Payments
  BY <1>3, Views
<1>8. Shop!Buy(u, k, q)
  BY <1>6, <1>7 DEF Shop!Buy
<1> QED
  BY <1>2, <1>8 DEF Shop!ShopNext

(* A deposit row added is a payment promised. *)
LEMMA SeesDeposit ==
  ASSUME IInv, NEW u \in Users, NEW amount \in Amounts, NEW i \in Nat,
         Belongs(i, u, intents),
         deposits' = Append(deposits,
           [user |-> u, amount |-> amount, status |-> "PENDING",
            intent |-> i, gatewayRef |-> FALSE]),
         UNCHANGED <<balance, ledger, orders, keys, intents>>
  PROVE  Shop!ShopNext
<1> DEFINE row == [user |-> u, amount |-> amount, status |-> "PENDING",
                   intent |-> i, gatewayRef |-> FALSE]
<1>1. row \in DepositRow /\ deposits \in Seq(DepositRow)
  BY TableTypes DEF DepositRow, DepositStatus
<1>2. deposits' = Append(deposits, row)
  OBVIOUS
<1>3. PaymentOf(row) = [user |-> u, amount |-> amount, status |-> "PENDING",
                        wish |-> i]
  BY DEF PaymentOf
<1> HIDE DEF row
<1>4. Payments' = Append(Payments, PaymentOf(row))
  BY <1>1, <1>2, PaymentAdded, Views
<1>5. Wishes' = Wishes
  BY Views
<1>6. i # 0 => i \in DOMAIN Wishes /\ Wishes[i].user = u
  BY SeenWish DEF Belongs, NoRef
<1>7. Shop!Promise(u, amount, i)
  BY <1>3, <1>4, <1>5, <1>6 DEF Shop!Promise, Shop!Nothing
<1>8. i \in {Shop!Nothing} \cup DOMAIN Wishes
  BY <1>6 DEF Shop!Nothing
<1> QED
  BY <1>7, <1>8 DEF Shop!ShopNext

LEMMA SeesReject ==
  ASSUME IInv, NEW p \in Jobs, ConfirmFailed(p) \/ ReviewReject(p)
  PROVE  Shop!ShopNext
<1> DEFINE d == job[p].deposit
<1>1. d \in DOMAIN deposits
  BY DEF IInv, JobSound, ConfirmFailed, ReviewReject, At, HasDeposit
<1>2. /\ deposits[d].status = "PENDING" /\ SetDeposit(d, "REJECTED")
      /\ UNCHANGED <<balance, ledger, orders, keys, intents>>
  BY DEF ConfirmFailed, ReviewReject
<1> HIDE DEF d
<1>3. Payments' = [Payments EXCEPT ![d].status = "REJECTED"]
  BY <1>1, <1>2, SeenDecided
<1>4. Wishes' = Wishes
  BY <1>2, Views
<1>5. d \in DOMAIN Payments /\ Payments[d].status = "PENDING"
  BY <1>1, <1>2, SeenPayment
<1>6. Shop!Reject(d)
  BY <1>2, <1>3, <1>4, <1>5 DEF Shop!Reject, Shop!Decide
<1> QED
  BY <1>5, <1>6 DEF Shop!ShopNext

(* The deposit an approving job decides, and the funds it leaves. *)
LEMMA Accepts ==
  ASSUME IInv, NEW p \in Jobs, At(p, "settle") \/ At(p, "release"), NEW rows,
         Approve(p, rows)
  PROVE  LET d == job[p].deposit
             u == job[p].user
         IN  /\ d \in DOMAIN Payments /\ Shop!Decide(d, "APPROVED")
             /\ Payments[d].user = u /\ u \in Users
             /\ Payments[d].wish = deposits[d].intent
             /\ DepositLine(d).balanceAfter = balance[u] + Payments[d].amount
             /\ balance[u] \in Int /\ balance[u] + Payments[d].amount \in Int
<1> DEFINE d == job[p].deposit
           u == job[p].user
<1>1. /\ d \in DOMAIN deposits /\ deposits[d].user = u /\ u \in Users
      /\ deposits[d].status = "PENDING"
  BY Settling DEF HasDeposit, HoldsDeposit
<1>2. SetDeposit(d, "APPROVED")
  BY DEF Approve
<1> HIDE DEF d, u
<1>3. Payments' = [Payments EXCEPT ![d].status = "APPROVED"]
  BY <1>1, <1>2, SeenDecided
<1>4. /\ d \in DOMAIN Payments /\ Payments[d].status = "PENDING"
      /\ Payments[d].user = u /\ Payments[d].amount = deposits[d].amount
      /\ Payments[d].wish = deposits[d].intent
  BY <1>1, SeenPayment
<1>5. Shop!Decide(d, "APPROVED")
  BY <1>3, <1>4 DEF Shop!Decide
<1>6. balance[u] \in Int /\ deposits[d].amount \in Int
  <2>1. deposits[d] \in DepositRow /\ balance \in [Users -> Int]
    BY <1>1, TableTypes
  <2>2. deposits[d].amount \in Nat
    BY <2>1, AmountsAssumption DEF DepositRow
  <2> QED
    BY <1>1, <2>1, <2>2
<1>7. DepositLine(d).balanceAfter = balance[u] + deposits[d].amount
  BY <1>1 DEF DepositLine, LedgerLine
<1> QED
  BY <1>1, <1>4, <1>5, <1>6, <1>7 DEF d, u

(* A credit that leaves the customer's wishes as they were. *)
LEMMA SeesCredit ==
  ASSUME IInv, NEW p \in Jobs, At(p, "settle") \/ At(p, "release"),
         Approve(p, <<DepositLine(job[p].deposit)>>), UNCHANGED <<orders, keys>>,
         WishesIn(intents') = WishesIn(intents)
  PROVE  Shop!ShopNext
<1> DEFINE d == job[p].deposit
           u == job[p].user
           funds == balance[u] + Payments[d].amount
<1>1. /\ d \in DOMAIN Payments /\ Shop!Decide(d, "APPROVED")
      /\ Payments[d].user = u /\ DepositLine(d).balanceAfter = funds
  BY Accepts
<1>2. balance' = [balance EXCEPT ![u] = funds]
  <2>1. FinalBalance(balance[u], <<DepositLine(d)>>)
          = DepositLine(d).balanceAfter
    BY DEF FinalBalance
  <2>2. Post(u, <<DepositLine(d)>>)
    BY DEF Approve
  <2> HIDE DEF u, d, funds
  <2> QED
    BY <1>1, <2>1, <2>2 DEF Post
<1>3. Wishes' = Wishes
  BY Views
<1>4. Shop!Accept(d)
  BY <1>1, <1>2, <1>3 DEF Shop!Accept
<1> QED
  BY <1>1, <1>4 DEF Shop!ShopNext

(* The intent of a settling job is the wish of its payment. *)
LEMMA Granting ==
  ASSUME ShopInv, NEW p \in Jobs, Fulfilling(p)
  PROVE  LET i == job[p].intent
         IN  /\ IInv /\ At(p, "settle") /\ i \in DOMAIN intents
             /\ intents[i].user = job[p].user
             /\ deposits[job[p].deposit].intent = i
             /\ intents[i] \in IntentRow /\ intents[i].status = "PENDING"
<1>1. IInv /\ Remembers(p) /\ At(p, "settle") /\ job[p].intent # NoRef
      /\ intents[job[p].intent].status = "PENDING"
  BY DEF ShopInv, Fulfilling
<1>2. job[p].intent \in DOMAIN intents
      /\ intents[job[p].intent].user = job[p].user
  BY <1>1, Settling DEF Belongs
<1>3. intents[job[p].intent] \in IntentRow
  BY <1>1, <1>2, TableTypes
<1>4. deposits[job[p].deposit].intent = job[p].intent
  BY <1>1 DEF Remembers, At
<1> QED
  BY <1>1, <1>2, <1>3, <1>4

(* An outcome that grants nothing leaves the wish as it was. *)
LEMMA SeenUnresolved ==
  ASSUME IInv, NEW i \in DOMAIN intents, NEW status \in IntentStatus,
         NEW o \in Nat, SetIntent(i, status, o),
         Got(status, o) = Got(intents[i].status, intents[i].order)
  PROVE  WishesIn(intents') = WishesIn(intents)
<1>1. intents \in Seq(IntentRow)
  BY TableTypes
<1>2. intents' = Resolved(intents, i, status, o)
  BY DEF SetIntent, Resolved
<1>3. WishesIn(Resolved(intents, i, status, o)) = WishesIn(intents)
  BY <1>1, WishResolved
<1> QED
  BY <1>2, <1>3

(* An intent that is fulfilled is a wish that had nothing and is granted.  *)
LEMMA SeenGranted ==
  ASSUME IInv, NEW i \in DOMAIN intents, NEW o \in Nat,
         SetIntent(i, "FULFILLED", o), intents[i].status # "FULFILLED"
  PROVE  Shop!Grant(i, o)
<1>1. intents \in Seq(IntentRow) /\ "FULFILLED" \in IntentStatus
  BY TableTypes DEF IntentStatus
<1>2. intents' = Resolved(intents, i, "FULFILLED", o)
  BY DEF SetIntent, Resolved
<1>3. WishesIn(Resolved(intents, i, "FULFILLED", o))
        = [WishesIn(intents) EXCEPT ![i].order = o]
  BY <1>1, WishResolved
<1>4. Wishes' = [Wishes EXCEPT ![i].order = o]
  BY <1>2, <1>3, Views
<1>5. Wishes[i].order = NoRef
  BY SeenWish DEF Got
<1> QED
  BY <1>4, <1>5 DEF Shop!Grant, Shop!Nothing, NoRef

(* The key's own order is what the intent gets. *)
LEMMA SeenReplayed ==
  ASSUME IInv, NEW i \in DOMAIN intents, Replayed(i),
         SetIntent(i, "FULFILLED",
                   keys[intents[i].user][intents[i].key].order),
         intents[i].status # "FULFILLED", UNCHANGED <<orders, keys>>
  PROVE  Shop!GrantOld(i)
<1> DEFINE answer == keys[intents[i].user][intents[i].key]
<1>1. answer.order \in Nat
  BY ReplayedOrder
<1>2. Shop!Grant(i, answer.order)
  BY <1>1, SeenGranted
<1>3. answer.quantity = intents[i].quantity
  BY DEF Replayed
<1>4. /\ Wishes[i].user = intents[i].user /\ Wishes[i].key = intents[i].key
      /\ Wishes[i].quantity = intents[i].quantity
  BY SeenWish
<1> QED
  BY <1>2, <1>3, <1>4 DEF Shop!GrantOld

(* The order placed for the intent is what it gets. *)
LEMMA SeenPlaced ==
  ASSUME IInv, NEW i \in DOMAIN intents, intents[i].status # "FULFILLED",
         NEW funds,
         Shop!Sell(intents[i].user, intents[i].key, intents[i].quantity, funds),
         SetIntent(i, "FULFILLED", Len(orders) + 1)
  PROVE  Shop!GrantNew(i, funds)
<1>1. Len(orders) + 1 \in Nat
  BY TableTypes
<1>2. Shop!Grant(i, Len(orders) + 1)
  BY <1>1, SeenGranted
<1>3. /\ Wishes[i].user = intents[i].user /\ Wishes[i].key = intents[i].key
      /\ Wishes[i].quantity = intents[i].quantity
  BY SeenWish
<1> QED
  BY <1>2, <1>3 DEF Shop!GrantNew

LEMMA SeesUnfulfilled ==
  ASSUME ShopInv, NEW p \in Jobs, SettleExpired(p) \/ SettleFailed(p)
  PROVE  Shop!ShopNext
<1> DEFINE i == job[p].intent
<1>1. PICK status \in {"EXPIRED", "FAILED"} :
        /\ Fulfilling(p) /\ SetIntent(i, status, NoRef)
        /\ Approve(p, <<DepositLine(job[p].deposit)>>)
        /\ UNCHANGED <<orders, keys>>
  BY DEF SettleExpired, SettleFailed
<1>2. /\ IInv /\ At(p, "settle") /\ i \in DOMAIN intents
      /\ intents[i].status = "PENDING"
  BY <1>1, Granting
<1>3. status \in IntentStatus /\ NoRef \in Nat
      /\ Got(status, NoRef) = Got(intents[i].status, intents[i].order)
  BY <1>2 DEF IntentStatus, NoRef, Got
<1>4. WishesIn(intents') = WishesIn(intents)
  BY <1>1, <1>2, <1>3, SeenUnresolved
<1> QED
  BY <1>1, <1>2, <1>4, SeesCredit

LEMMA SeesReplayed ==
  ASSUME ShopInv, NEW p \in Jobs, SettleReplayed(p)
  PROVE  Shop!ShopNext
<1> DEFINE d == job[p].deposit
           u == job[p].user
           i == job[p].intent
           funds == balance[u] + Payments[d].amount
<1>1. /\ Fulfilling(p) /\ Replayed(i)
      /\ SetIntent(i, "FULFILLED",
                   keys[intents[i].user][intents[i].key].order)
      /\ Approve(p, <<DepositLine(d)>>) /\ UNCHANGED <<orders, keys>>
  BY DEF SettleReplayed
<1>2. /\ IInv /\ At(p, "settle") /\ i \in DOMAIN intents
      /\ intents[i].status = "PENDING" /\ deposits[d].intent = i
  BY <1>1, Granting
<1>3. /\ d \in DOMAIN Payments /\ Shop!Decide(d, "APPROVED")
      /\ Payments[d].user = u /\ Payments[d].wish = i
      /\ DepositLine(d).balanceAfter = funds
  BY <1>1, <1>2, Accepts
<1>4. balance' = [balance EXCEPT ![u] = funds]
  <2>1. FinalBalance(balance[u], <<DepositLine(d)>>)
          = DepositLine(d).balanceAfter
    BY DEF FinalBalance
  <2>2. Post(u, <<DepositLine(d)>>)
    BY <1>1 DEF Approve
  <2> HIDE DEF u, d, funds
  <2> QED
    BY <1>3, <2>1, <2>2 DEF Post
<1>5. Shop!GrantOld(i) /\ i # 0
  BY <1>1, <1>2, SeenReplayed, SeenWish DEF NoRef
<1> HIDE DEF i, d, u
<1>6. Shop!Accept(d)
  BY <1>3, <1>4, <1>5 DEF Shop!Accept, Shop!Nothing
<1> QED
  BY <1>3, <1>6 DEF Shop!ShopNext

LEMMA SeesPlaced ==
  ASSUME ShopInv, NEW p \in Jobs, SettlePlaced(p)
  PROVE  Shop!ShopNext
<1> DEFINE d == job[p].deposit
           u == job[p].user
           i == job[p].intent
           k == intents[i].key
           q == intents[i].quantity
           c == Charge(q)
           r == DepositLine(d)
           t == OrderLine(r.balanceAfter, c)
           funds == balance[u] + Payments[d].amount
<1>1. Fulfilling(p) /\ Approve(p, <<r, t>>)
  BY DEF SettlePlaced
<1>2. /\ IInv /\ At(p, "settle") /\ i \in DOMAIN intents
      /\ intents[i].user = u /\ intents[i].status = "PENDING"
      /\ deposits[d].intent = i /\ intents[i] \in IntentRow
  BY <1>1, Granting
<1>3. /\ keys[u][k] = NoKeyRow /\ Adjustable(r.balanceAfter, -c)
      /\ InsertOrder(u, k, q, c) /\ SetIntent(i, "FULFILLED", Len(orders) + 1)
  BY <1>2 DEF SettlePlaced, Placeable
<1>4. c \in Nat /\ Quote(q, c)
  <2>1. q \in Quantities
    BY <1>2 DEF IntentRow
  <2> QED
    BY <1>2, <2>1, ChargeType, ChargeQuoted
<1>5. /\ d \in DOMAIN Payments /\ Shop!Decide(d, "APPROVED")
      /\ Payments[d].user = u /\ Payments[d].wish = i
      /\ r.balanceAfter = funds /\ funds \in Int
  BY <1>1, <1>2, Accepts
<1>6. balance' = [balance EXCEPT ![u] = funds - c]
  <2>1. t.balanceAfter = r.balanceAfter + -c
    BY DEF OrderLine, LedgerLine
  <2>2. FinalBalance(balance[u], <<r, t>>) = t.balanceAfter
    BY DEF FinalBalance
  <2>3. Post(u, <<r, t>>)
    BY <1>1 DEF Approve
  <2> HIDE DEF u, d, funds, r, t, c
  <2> QED
    BY <1>4, <1>5, <2>1, <2>2, <2>3 DEF Post
<1> HIDE DEF c, d, r, t, funds
<1>7. Shop!Sell(u, k, q, funds)
  BY <1>3, <1>4, <1>5, <1>6, Sells
<1>8. Shop!GrantNew(i, funds) /\ i # 0
  BY <1>2, <1>3, <1>7, SeenPlaced, SeenWish DEF NoRef
<1> HIDE DEF i, u
<1>9. Shop!Accept(d)
  BY <1>5, <1>8 DEF Shop!Accept, Shop!Nothing, funds
<1> QED
  BY <1>5, <1>9 DEF Shop!ShopNext

(* A retrying job grants an intent that was paid for. *)
LEMMA RetryPaid ==
  ASSUME ShopInv, NEW p \in Jobs, At(p, "retry") \/ At(p, "retryDebit")
  PROVE  LET i == job[p].intent
         IN  /\ IInv /\ i \in DOMAIN intents /\ intents[i] \in IntentRow
             /\ i \in DOMAIN Wishes
             /\ \E d \in DOMAIN Payments : /\ Payments[d].wish = i
                                           /\ Payments[d].status = "APPROVED"
<1>1. IInv /\ JobSound(p) /\ Remembers(p)
  BY DEF ShopInv, IInv
<1>2. job[p].intent \in DOMAIN intents /\ PaidFor(job[p].intent)
  BY <1>1 DEF JobSound, HasIntent, Remembers, At
<1>3. intents[job[p].intent] \in IntentRow
  BY <1>1, <1>2, TableTypes
<1>4. PICK d \in DOMAIN deposits : /\ deposits[d].intent = job[p].intent
                                   /\ deposits[d].status = "APPROVED"
  BY <1>2 DEF PaidFor
<1>5. /\ d \in DOMAIN Payments /\ Payments[d].wish = job[p].intent
      /\ Payments[d].status = "APPROVED"
  BY <1>1, <1>4, SeenPayment
<1> QED
  BY <1>1, <1>2, <1>3, <1>5, SeenWish

LEMMA SeesRetryReplayed ==
  ASSUME ShopInv, NEW p \in Jobs, RetryReplayed(p)
  PROVE  Shop!ShopNext
<1> DEFINE i == job[p].intent
           o == keys[intents[i].user][intents[i].key].order
<1>1. /\ At(p, "retry") /\ intents[i].status = "FAILED" /\ Replayed(i)
      /\ SetIntent(i, "FULFILLED", o)
      /\ UNCHANGED <<balance, ledger, orders, keys, deposits>>
  BY DEF RetryReplayed, RetryEnd
<1>2. /\ IInv /\ i \in DOMAIN intents /\ i \in DOMAIN Wishes
      /\ \E d \in DOMAIN Payments : /\ Payments[d].wish = i
                                    /\ Payments[d].status = "APPROVED"
  BY <1>1, RetryPaid
<1>3. Shop!GrantOld(i)
  BY <1>1, <1>2, SeenReplayed
<1>4. balance' = balance /\ Payments' = Payments
  BY <1>1, Views
<1> HIDE DEF i
<1>5. Shop!GrantLater(i)
  BY <1>2, <1>3, <1>4 DEF Shop!GrantLater
<1> QED
  BY <1>2, <1>5 DEF Shop!ShopNext

LEMMA SeesRetryPlaced ==
  ASSUME ShopInv, NEW p \in Jobs, RetryPlaced(p)
  PROVE  Shop!ShopNext
<1> DEFINE i == job[p].intent
           u == intents[i].user
           k == intents[i].key
           q == intents[i].quantity
           c == job[p].charge
           r == OrderLine(balance[u], c)
<1>1. At(p, "retryDebit")
  BY DEF RetryPlaced
<1>2. /\ IInv /\ i \in DOMAIN intents /\ i \in DOMAIN Wishes
      /\ intents[i] \in IntentRow
      /\ \E d \in DOMAIN Payments : /\ Payments[d].wish = i
                                    /\ Payments[d].status = "APPROVED"
  BY <1>1, RetryPaid
<1>3. /\ keys[u][k] = NoKeyRow /\ Adjustable(balance[u], -c)
      /\ InsertOrder(u, k, q, c) /\ Post(u, <<r>>)
      /\ SetIntent(i, "FULFILLED", Len(orders) + 1) /\ deposits' = deposits
  BY DEF RetryPlaced
<1>4. intents[i].status = "FAILED" /\ Quote(q, c) /\ c \in Nat
  <2>1. job[p] \in JobRow /\ JobSound(p) /\ Remembers(p)
    BY DEF ShopInv, IInv, Around
  <2> QED
    BY <1>1, <2>1 DEF JobSound, Remembers, At, JobRow
<1>5. balance[u] \in Int
  <2>1. u \in Users
    BY <1>2 DEF IntentRow
  <2> QED
    BY <1>2, <2>1, TableTypes
<1>6. balance' = [balance EXCEPT ![u] = balance[u] - c]
  <2>1. r.balanceAfter = balance[u] + -c
    BY DEF OrderLine, LedgerLine
  <2>2. FinalBalance(balance[u], <<r>>) = r.balanceAfter
    BY DEF FinalBalance
  <2> HIDE DEF r, u, c
  <2> QED
    BY <1>3, <1>4, <1>5, <2>1, <2>2 DEF Post
<1> HIDE DEF c, r
<1>7. Shop!Sell(u, k, q, balance[u])
  BY <1>3, <1>4, <1>5, <1>6, Sells
<1>8. Shop!GrantNew(i, balance[u]) /\ Wishes[i].user = u
  BY <1>2, <1>3, <1>4, <1>7, SeenPlaced, SeenWish
<1>9. Payments' = Payments
  BY <1>3, Views
<1> HIDE DEF i, u
<1>10. Shop!GrantLater(i)
  BY <1>2, <1>8, <1>9 DEF Shop!GrantLater
<1> QED
  BY <1>2, <1>10 DEF Shop!ShopNext

(* A retry that grants nothing. *)
LEMMA SeesRetryEnd ==
  ASSUME ShopInv, NEW p \in Jobs,
         RetryResolved(p) \/ RetryExpired(p) \/ RetryRefused(p) \/ RetryFailed(p)
  PROVE  UNCHANGED Shop!shop
<1> DEFINE i == job[p].intent
<1>1. /\ At(p, "retry") \/ At(p, "retryDebit")
      /\ UNCHANGED <<balance, ledger, orders, keys, deposits>>
  BY DEF RetryResolved, RetryExpired, RetryRefused, RetryEnd, RetryFailed
<1>2. IInv /\ i \in DOMAIN intents /\ intents[i] \in IntentRow
  BY <1>1, RetryPaid
<1>3. \E status \in IntentStatus, o \in Nat :
         /\ SetIntent(i, status, o)
         /\ Got(status, o) = Got(intents[i].status, intents[i].order)
  <2>1. CASE RetryResolved(p)
    <3>1. SetIntent(i, intents[i].status, intents[i].order)
      BY <2>1 DEF RetryResolved, RetryEnd
    <3> QED
      BY <1>2, <3>1 DEF IntentRow
  <2>2. CASE RetryExpired(p) \/ RetryRefused(p) \/ RetryFailed(p)
    <3>1. intents[i].status = "FAILED"
      <4>1. JobSound(p)
        BY DEF ShopInv, IInv
      <4> QED
        BY <2>2, <4>1 DEF RetryExpired, RetryRefused, RetryEnd, RetryFailed,
                          JobSound, At
    <3>2. \E status \in {"EXPIRED", "FAILED"} : SetIntent(i, status, NoRef)
      BY <2>2 DEF RetryExpired, RetryRefused, RetryEnd, RetryFailed
    <3> QED
      BY <3>1, <3>2 DEF Got, IntentStatus, NoRef
  <2> QED
    BY <2>1, <2>2
<1>4. WishesIn(intents') = WishesIn(intents)
  BY <1>2, <1>3, SeenUnresolved
<1> QED
  BY <1>1, <1>4, Unseen

(* A reference stored, thirty minutes passed: not seen in the shop. *)
LEMMA SeesInitiate ==
  ASSUME IInv, NEW p \in Jobs, Initiate(p)
  PROVE  UNCHANGED Shop!shop
<1> DEFINE d == job[p].deposit
<1>1. /\ deposits' = [deposits EXCEPT ![d].gatewayRef = TRUE]
      /\ UNCHANGED <<balance, ledger, orders, keys, intents>>
  BY DEF Initiate
<1>2. deposits \in Seq(DepositRow)
  BY TableTypes
<1> HIDE DEF d
<1>3. ASSUME NEW x \in DOMAIN deposits
      PROVE  PaymentOf(deposits'[x]) = PaymentOf(deposits[x])
  <2>1. deposits[x] \in DepositRow
    BY <1>2
  <2> QED
    BY <1>1, <2>1 DEF PaymentOf, DepositRow
<1>4. DOMAIN deposits' = DOMAIN deposits
  BY <1>1
<1>5. PaymentsIn(deposits') = PaymentsIn(deposits)
  BY <1>3, <1>4 DEF PaymentsIn
<1> QED
  BY <1>1, <1>5, Unseen

LEMMA SeesExpiry ==
  ASSUME IInv, NEW i \in 1..MaxIntents, IntentExpires(i)
  PROVE  UNCHANGED Shop!shop
<1>1. /\ intents' = [intents EXCEPT ![i].expired = TRUE]
      /\ UNCHANGED <<balance, ledger, orders, keys, deposits>>
  BY DEF IntentExpires
<1>2. intents \in Seq(IntentRow)
  BY TableTypes
<1>3. ASSUME NEW x \in DOMAIN intents
      PROVE  WishOf(intents'[x]) = WishOf(intents[x])
  <2>1. intents[x] \in IntentRow
    BY <1>2
  <2> QED
    BY <1>1, <2>1 DEF WishOf, IntentRow
<1>4. DOMAIN intents' = DOMAIN intents
  BY <1>1
<1>5. WishesIn(intents') = WishesIn(intents)
  BY <1>2, <1>3, <1>4, WishesSame
<1> QED
  BY <1>1, <1>5, Unseen

LEMMA UnchangedUnseen ==
  ASSUME UNCHANGED db
  PROVE  UNCHANGED Shop!shop
BY Unseen DEF db

LEMMA ShopSteps ==
  ASSUME ShopInv, NEW p \in Jobs, Start(p) \/ Step(p)
  PROVE  [Shop!ShopNext]_Shop!shop
<1>1. IInv
  BY DEF ShopInv
<1>2. CASE Start(p)
  <2>1. UNCHANGED db
    BY <1>2 DEF Start, Submit, StartDeposit, Confirm, Review, ListFailed
  <2> QED
    BY <2>1, UnchangedUnseen
<1>3. CASE OrderStep(p)
  <2>1. CASE Redirect(p)
    BY <1>1, <2>1, SeesRedirect
  <2>2. CASE CommitOrder(p)
    BY <2>2, SeesCommit
  <2>3. CASE \/ AnswerWithoutWriting(p) \/ DraftOrder(p) \/ Debit(p)
             \/ DebitRefused(p) \/ DuplicateKey(p)
    BY <2>3, UnchangedUnseen
       DEF AnswerWithoutWriting, DraftOrder, Debit, DebitRefused, DuplicateKey
  <2> QED
    BY <1>3, <2>1, <2>2, <2>3 DEF OrderStep
<1>4. CASE DepositStep(p)
  <2>1. ASSUME NEW amount \in Amounts, CreateDeposit(p, amount)
        PROVE  Shop!ShopNext
    <3>1. JobSound(p) /\ job[p] \in JobRow
      BY <1>1 DEF IInv, Around
    <3>2. /\ job[p].user \in Users /\ job[p].intent \in Nat
          /\ Belongs(job[p].intent, job[p].user, intents)
      BY <2>1, <3>1 DEF JobSound, CreateDeposit, At, JobRow
    <3> QED
      BY <1>1, <2>1, <3>2, SeesDeposit DEF CreateDeposit
  <2>2. CASE Initiate(p)
    BY <1>1, <2>2, SeesInitiate
  <2>3. CASE ConfirmFailed(p) \/ ReviewReject(p)
    BY <1>1, <2>3, SeesReject
  <2>4. ASSUME SettleTopUp(p) \/ ReviewCredit(p)
        PROVE  Shop!ShopNext
    <3>1. intents' = intents
      BY <2>4 DEF SettleTopUp, ReviewCredit
    <3> QED
      BY <1>1, <2>4, <3>1, SeesCredit DEF SettleTopUp, ReviewCredit
  <2>5. CASE SettleExpired(p) \/ SettleFailed(p)
    BY <2>5, SeesUnfulfilled
  <2>6. CASE SettleReplayed(p)
    BY <2>6, SeesReplayed
  <2>7. CASE SettlePlaced(p)
    BY <2>7, SeesPlaced
  <2>8. CASE \/ InitiateFails(p) \/ ConfirmNothing(p) \/ ConfirmPaid(p)
             \/ Credit(p) \/ AlreadyReviewed(p) \/ ReviewApprove(p)
    BY <2>8, UnchangedUnseen
       DEF InitiateFails, ConfirmNothing, ConfirmPaid, Credit, AlreadyReviewed,
           ReviewApprove
  <2> QED
    BY <1>4, <2>1, <2>2, <2>3, <2>4, <2>5, <2>6, <2>7, <2>8 DEF DepositStep
<1>5. CASE RetryStep(p)
  <2>1. CASE RetryReplayed(p)
    BY <2>1, SeesRetryReplayed
  <2>2. CASE RetryPlaced(p)
    BY <2>2, SeesRetryPlaced
  <2>3. CASE RetryDraft(p)
    BY <2>3, UnchangedUnseen DEF RetryDraft
  <2> QED
    BY <1>5, <2>1, <2>2, <2>3, SeesRetryEnd DEF RetryStep
<1> QED
  BY <1>2, <1>3, <1>4, <1>5 DEF Step

LEMMA ShopSurroundings ==
  ASSUME IInv, Environment
  PROVE  [Shop!ShopNext]_Shop!shop
<1>1. ASSUME NEW u \in Users, NEW amount \in Amounts,
             CreateManualDeposit(u, amount)
      PROVE  Shop!ShopNext
  <2>1. NoRef \in Nat /\ Belongs(NoRef, u, intents)
    BY DEF NoRef, Belongs
  <2> QED
    BY <1>1, <2>1, SeesDeposit DEF CreateManualDeposit
<1>2. CASE \E i \in 1..MaxIntents : IntentExpires(i)
  BY <1>2, SeesExpiry
<1>3. CASE UNCHANGED db
  BY <1>3, UnchangedUnseen
<1> QED
  BY <1>1, <1>2, <1>3
     DEF Environment, SetService, UpsertGatewayConfig, GatewayDecides, Crash

(* However requests, payments, reviews, retries and crashes interleave,    *)
(* and whatever prices change meanwhile, the panel does what a shop does   *)
(* that serves one customer after another: an order is sold once for its   *)
(* key, at a price of the service, with its debit; an intent is granted    *)
(* once and only if it was paid for; a payment is decided once.            *)
THEOREM SellsAsAShop == Spec => ImplementsPrepaidShop
<1>1. Init => Shop!ShopInit
  <2>1. ASSUME Init PROVE Wishes = <<>> /\ Payments = <<>>
    BY <2>1 DEF Init, Wishes, Payments
  <2> QED
    BY <2>1 DEF Init, NoKeyRow, NoRef, Shop!ShopInit, Shop!NoAnswer,
                Shop!Nothing
<1>2. ASSUME ShopInv, [Next]_vars PROVE [Shop!ShopNext]_Shop!shop
  <2>1. CASE Next
    BY <1>2, <2>1, ShopSteps, ShopSurroundings DEF Next, ShopInv
  <2>2. CASE UNCHANGED vars
    BY <2>2, UnchangedUnseen DEF vars
  <2> QED
    BY <1>2, <2>1, <2>2
<1> QED
  BY <1>1, <1>2, ShopInvariance, PTL
     DEF Spec, ImplementsPrepaidShop, Shop!ShopSpec
=============================================================================
