----------------------------- MODULE StoreProofs -----------------------------
(***************************************************************************)
(* The store sells as its vending machine does, proved for any customers,  *)
(* keys, pools and jobs.  The invariant says what a job relies on between  *)
(* its steps: the code it claimed is still on the shelf and the balance it *)
(* read is still there, since it holds their locks and no two jobs hold    *)
(* the same one; and its intent is paid already, or it brings the money.   *)
(***************************************************************************)
EXTENDS Store, SequenceTheorems, WellFoundedInduction, TLAPS

CodeRow == [pool : Pools, sale : Nat,
            status : {"AVAILABLE", "CONSUMED", "REVOKED", "DELETED"}]
SaleRow == [buyer : Buyers, charge : StorePrices]
AnswerRow == [input : Entries \cup {""}, sale : Nat, code : Nat]
StashRow == [buyer : Buyers, key : BuyKeys, input : Entries,
             charge : StorePrices, sale : Nat, paid : BOOLEAN,
             expired : BOOLEAN,
             status : {"PENDING", "FULFILLED", "FAILED", "EXPIRED"}]

(* The locks of a job.                                                     *)
HoldsCode(w) == w.at \in {"debit", "commit"} /\ w.code # NoCode
HoldsWallet(w) == w.at = "commit" \/ w.credit > 0

(* The intent of a job is its buyer's, and the job brings what was paid    *)
(* for it unless an earlier one did.                                       *)
Funded(w, S) ==
  /\ w.intent \in DOMAIN S /\ S[w.intent].buyer = w.buyer
  /\ w.credit = IF S[w.intent].paid THEN 0 ELSE S[w.intent].charge

(* What a job's record w says of the codes, the intents and the balances.  *)
Sound(w, C, S, F) ==
  /\ w.at \in {"look", "claim", "debit", "commit"} =>
       w.buyer \in Buyers /\ w.key \in BuyKeys /\ w.input \in Entries
  /\ w.at \in {"idle", "revoke", "delete"} => w.intent = 0
  /\ w.at \in {"look", "claim"} => w.code = NoCode
  /\ w.at \in {"claim", "debit", "commit"} => w.price \in StorePrices
  /\ HoldsCode(w) => w.code \in DOMAIN C /\ C[w.code].status = "AVAILABLE"
  /\ w.at = "revoke" => w.code \in DOMAIN C
  /\ IF w.intent = 0 THEN w.credit = 0 ELSE Funded(w, S)
  /\ w.at = "commit" => w.left = F[w.buyer] + w.credit - w.price

(* Two jobs have no lock and no intent in common.                          *)
Apart(v, w) ==
  /\ HoldsCode(v) /\ HoldsCode(w) => v.code # w.code
  /\ HoldsWallet(v) /\ HoldsWallet(w) => v.buyer # w.buyer
  /\ v.intent # 0 => v.intent # w.intent

(* An answer is about an order and a code that exist.                      *)
Answers(A, n, m) ==
  \A u \in Buyers, k \in BuyKeys : A[u][k].sale <= n /\ A[u][k].code <= m

StoreIInv ==
  /\ StoreTypeOK
  /\ Answers(answers, Len(sales), Len(codes))
  /\ \A p \in Clerks : Sound(clerk[p], codes, stash, funds)
  /\ \A p, q \in Clerks : p # q => Apart(clerk[p], clerk[q])

Tables ==
  /\ pack \in [active : BOOLEAN, price : StorePrices, pools : SUBSET Pools]
  /\ open \subseteq Pools
  /\ codes \in Seq(CodeRow) /\ funds \in [Buyers -> Nat]
  /\ sales \in Seq(SaleRow) /\ answers \in [Buyers -> [BuyKeys -> AnswerRow]]
  /\ stash \in Seq(StashRow) /\ errands \in Nat
  /\ Answers(answers, Len(sales), Len(codes))
-----------------------------------------------------------------------------
(* Jobs.                                                                   *)

LEMMA InvParts ==
  StoreIInv <=> /\ Tables /\ clerk \in [Clerks -> ClerkRow]
                /\ \A p \in Clerks : Sound(clerk[p], codes, stash, funds)
                /\ \A p, q \in Clerks : p # q => Apart(clerk[p], clerk[q])
  BY DEF StoreIInv, StoreTypeOK, Tables, CodeRow, SaleRow, AnswerRow, StashRow

LEMMA InvPartsNext ==
  StoreIInv' <=> /\ Tables' /\ clerk' \in [Clerks -> ClerkRow]
                 /\ \A p \in Clerks : Sound(clerk'[p], codes', stash', funds')
                 /\ \A p, q \in Clerks : p # q => Apart(clerk'[p], clerk'[q])
  BY DEF StoreIInv, StoreTypeOK, Tables, CodeRow, SaleRow, AnswerRow, StashRow

LEMMA PriceType == \A x \in StorePrices \cup {0} : x \in Nat
<1>1. ASSUME NEW x \in StorePrices PROVE x \in Nat
  BY StorePricesAssumption
<1> QED
  BY <1>1

LEMMA ClerkAtRest ==
  /\ OffDuty \in ClerkRow /\ OffDuty.at = "idle"
  /\ [OffDuty EXCEPT !.at = "idle"] = OffDuty
  /\ \A C, S, F : Sound(OffDuty, C, S, F)
  /\ \A w : Apart(OffDuty, w)
<1>1. /\ OffDuty.at = "idle" /\ OffDuty.intent = 0 /\ OffDuty.credit = 0
      /\ OffDuty.code = NoCode
  BY DEF OffDuty
<1>2. OffDuty \in ClerkRow
  BY DEF OffDuty, ClerkRow, NoCode
<1>3. [OffDuty EXCEPT !.at = "idle"] = OffDuty
  BY <1>1, Zenon DEF OffDuty
<1> QED
  BY <1>1, <1>2, <1>3 DEF Sound, Apart, HoldsCode, HoldsWallet

LEMMA ApartBoth == ASSUME NEW v, NEW w, Apart(v, w) PROVE Apart(w, v)
  BY DEF Apart

(* p's job goes on with w: what it relies on has to be so, and what the    *)
(* others rely on.                                                         *)
LEMMA JobStep ==
  ASSUME StoreIInv, NEW p \in Clerks, NEW w \in ClerkRow,
         clerk' = [clerk EXCEPT ![p] = w], Tables',
         Sound(w, codes', stash', funds'),
         \A q \in Clerks \ {p} : /\ Sound(clerk[q], codes', stash', funds')
                                 /\ Apart(w, clerk[q])
  PROVE  StoreIInv'
<1>1. /\ clerk \in [Clerks -> ClerkRow]
      /\ \A q, r \in Clerks : q # r => Apart(clerk[q], clerk[r])
  BY InvParts
<1>2. /\ clerk' \in [Clerks -> ClerkRow] /\ clerk'[p] = w
      /\ \A q \in Clerks \ {p} : clerk'[q] = clerk[q]
  BY <1>1
<1>3. \A q \in Clerks : Sound(clerk'[q], codes', stash', funds')
  BY <1>2
<1>4. \A q, r \in Clerks : q # r => Apart(clerk'[q], clerk'[r])
  BY <1>1, <1>2, ApartBoth
<1> QED
  BY <1>2, <1>3, <1>4, InvPartsNext

(* Where nothing but the job's record changes. *)
LEMMA WorkStep ==
  ASSUME StoreIInv, NEW p \in Clerks, NEW w \in ClerkRow,
         clerk' = [clerk EXCEPT ![p] = w], UNCHANGED <<stock, accounts>>,
         errands' \in Nat, Sound(w, codes, stash, funds),
         \A q \in Clerks \ {p} : Apart(w, clerk[q])
  PROVE  StoreIInv'
<1>1. /\ pack' = pack /\ open' = open /\ codes' = codes /\ funds' = funds
      /\ sales' = sales /\ answers' = answers /\ stash' = stash
  BY DEF stock, accounts
<1>2. Tables
  BY InvParts
<1>3. Tables'
  BY <1>1, <1>2 DEF Tables
<1>4. \A q \in Clerks : Sound(clerk[q], codes', stash', funds')
  BY <1>1, InvParts
<1>5. Sound(w, codes', stash', funds')
  BY <1>1
<1> QED
  BY <1>3, <1>4, <1>5, JobStep

(* What a job relies on stays so when its code stays, its intent keeps its *)
(* buyer, charge and payment, and its locked balance is not touched.       *)
LEMMA SoundKept ==
  ASSUME NEW w, NEW C, NEW S, NEW F, NEW C2, NEW S2, NEW F2,
         Sound(w, C, S, F), DOMAIN C \subseteq DOMAIN C2,
         HoldsCode(w) => C2[w.code].status = C[w.code].status,
         w.intent # 0 => /\ w.intent \in DOMAIN S2
                         /\ S2[w.intent].buyer = S[w.intent].buyer
                         /\ S2[w.intent].charge = S[w.intent].charge
                         /\ S2[w.intent].paid = S[w.intent].paid,
         w.at = "commit" => F2[w.buyer] = F[w.buyer]
  PROVE  Sound(w, C2, S2, F2)
<1>1. w.intent # 0 => Funded(w, S2)
  BY DEF Sound, Funded
<1> QED
  BY <1>1 DEF Sound

LEMMA ErrandStep ==
  ASSUME StoreIInv, NEW p \in Clerks, NEW u \in Buyers, NEW k \in BuyKeys,
         NEW f \in Inputs, Ask(p, u, k, f)
  PROVE  StoreIInv'
<1> DEFINE w == [[OffDuty EXCEPT !.buyer = u, !.key = k, !.input = f]
                   EXCEPT !.at = "look"]
<1>1. /\ w \in ClerkRow /\ w.at = "look" /\ w.buyer = u /\ w.key = k
      /\ w.input = f /\ w.intent = 0 /\ w.credit = 0 /\ w.code = NoCode
  BY DEF OffDuty, ClerkRow, Entries, NoCode
<1>2. clerk' = [clerk EXCEPT ![p] = w] /\ UNCHANGED <<stock, accounts>>
  BY DEF Ask, Works
<1> HIDE DEF w
<1>3. Sound(w, codes, stash, funds)
  BY <1>1 DEF Sound, HoldsCode, Entries
<1>4. \A q \in Clerks : Apart(w, clerk[q])
  BY <1>1 DEF Apart, HoldsCode, HoldsWallet
<1>5. errands' \in Nat
  BY InvParts DEF Ask, Errand, Tables
<1> QED
  BY <1>1, <1>2, <1>3, <1>4, <1>5, WorkStep

(* A job for an intent nobody else is at, with what was paid for it. *)
LEMMA FulfillingStep ==
  ASSUME StoreIInv, NEW p \in Clerks, NEW i \in DOMAIN stash, NEW credit,
         Fulfilling(p, i, credit), UNCHANGED <<stock, accounts>>,
         errands' \in Nat, \A q \in Clerks : clerk[q].intent # i,
         credit = IF stash[i].paid THEN 0 ELSE stash[i].charge,
         credit > 0 => ~WalletLocked(stash[i].buyer)
  PROVE  StoreIInv'
<1> DEFINE w == [[OffDuty EXCEPT !.intent = i, !.credit = credit,
                    !.buyer = stash[i].buyer, !.key = stash[i].key,
                    !.input = stash[i].input] EXCEPT !.at = "look"]
<1>1. stash \in Seq(StashRow)
  BY InvParts DEF Tables
<1>2. stash[i] \in StashRow /\ i \in Nat \ {0}
  BY <1>1
<1>3. /\ stash[i].buyer \in Buyers /\ stash[i].key \in BuyKeys
      /\ stash[i].input \in Entries /\ credit \in Nat
  BY <1>2, StorePricesAssumption DEF StashRow
<1>4. /\ w \in ClerkRow /\ w.at = "look" /\ w.buyer = stash[i].buyer
      /\ w.key = stash[i].key /\ w.input = stash[i].input /\ w.intent = i
      /\ w.credit = credit /\ w.code = NoCode
  BY <1>2, <1>3 DEF OffDuty, ClerkRow, NoCode
<1>5. clerk' = [clerk EXCEPT ![p] = w]
  BY DEF Fulfilling, Works
<1> HIDE DEF w
<1>6. Sound(w, codes, stash, funds)
  BY <1>2, <1>3, <1>4 DEF Sound, HoldsCode, Funded
<1>7. ASSUME NEW q \in Clerks PROVE Apart(w, clerk[q])
  <2>1. clerk[q].intent # i
    OBVIOUS
  <2>2. HoldsWallet(w) /\ HoldsWallet(clerk[q]) => clerk[q].buyer # w.buyer
    BY <1>4 DEF HoldsWallet, WalletLocked
  <2> QED
    BY <1>4, <2>1, <2>2 DEF Apart, HoldsCode
<1> QED
  BY <1>4, <1>5, <1>6, <1>7, WorkStep

LEMMA PayStep ==
  ASSUME StoreIInv, NEW p \in Clerks, NEW i \in DOMAIN stash,
         Pay(p, i) \/ Retry(p, i)
  PROVE  StoreIInv'
<1>1. errands' \in Nat
  BY InvParts DEF Pay, Retry, Errand, Tables
<1>2. CASE Pay(p, i)
  BY <1>1, <1>2, FulfillingStep DEF Pay
<1>3. CASE Retry(p, i)
  BY <1>1, <1>3, FulfillingStep DEF Retry
<1> QED
  BY <1>2, <1>3

(* What is known of a job that is buying. *)
LEMMA Buying ==
  ASSUME StoreIInv, NEW p \in Clerks,
         clerk[p].at \in {"look", "claim", "debit", "commit"}
  PROVE  /\ clerk[p] \in ClerkRow /\ Sound(clerk[p], codes, stash, funds)
         /\ clerk[p].buyer \in Buyers /\ clerk[p].key \in BuyKeys
         /\ clerk[p].input \in Entries
         /\ clerk[p].credit \in Nat /\ funds[clerk[p].buyer] \in Nat
         /\ \A q \in Clerks \ {p} : Apart(clerk[p], clerk[q])
<1>1. /\ clerk[p] \in ClerkRow /\ Sound(clerk[p], codes, stash, funds)
      /\ \A q \in Clerks \ {p} : Apart(clerk[p], clerk[q])
  BY InvParts
<1>2. /\ clerk[p].buyer \in Buyers /\ clerk[p].key \in BuyKeys
      /\ clerk[p].input \in Entries
  BY <1>1 DEF Sound
<1>3. clerk[p].credit \in Nat
  BY <1>1 DEF ClerkRow
<1>4. funds \in [Buyers -> Nat]
  BY InvParts DEF Tables
<1> QED
  BY <1>1, <1>2, <1>3, <1>4

LEMMA LookStep ==
  ASSUME StoreIInv, NEW p \in Clerks, Look(p)
  PROVE  StoreIInv'
<1> DEFINE v == clerk[p]
           to == IF pack.pools = {} THEN "debit" ELSE "claim"
           w == [[v EXCEPT !.price = pack.price, !.pools = pack.pools]
                   EXCEPT !.at = to]
<1>1. /\ v.at = "look" /\ clerk' = [clerk EXCEPT ![p] = w]
      /\ UNCHANGED <<stock, accounts>> /\ errands' = errands
  BY DEF Look, Busy, Works
<1>2. /\ v \in ClerkRow /\ Sound(v, codes, stash, funds)
      /\ \A q \in Clerks \ {p} : Apart(v, clerk[q])
  BY <1>1, Buying
<1>3. pack.price \in StorePrices /\ pack.pools \in SUBSET Pools /\ errands \in Nat
  BY InvParts DEF Tables
<1>4. /\ w \in ClerkRow /\ w.at \in {"debit", "claim"}
      /\ w.price \in StorePrices /\ w.code = v.code /\ w.intent = v.intent
      /\ w.credit = v.credit /\ w.buyer = v.buyer /\ w.key = v.key
      /\ w.input = v.input
  BY <1>2, <1>3 DEF ClerkRow
<1> HIDE DEF w, v
<1>5. Sound(w, codes, stash, funds)
  BY <1>1, <1>2, <1>4 DEF Sound, Funded, HoldsCode
<1>6. v.code = NoCode
  BY <1>1, <1>2 DEF Sound
<1>7. \A q \in Clerks \ {p} : Apart(w, clerk[q])
  BY <1>1, <1>2, <1>4, <1>6 DEF Apart, HoldsCode, HoldsWallet
<1> QED
  BY <1>1, <1>3, <1>4, <1>5, <1>7, WorkStep DEF v

LEMMA ClaimStep ==
  ASSUME StoreIInv, NEW p \in Clerks, ClaimCode(p)
  PROVE  StoreIInv'
<1>1. PICK c \in Claimable(p) :
        Works(p, "debit", [clerk[p] EXCEPT !.code = c])
  BY DEF ClaimCode
<1> DEFINE v == clerk[p]
           w == [[v EXCEPT !.code = c] EXCEPT !.at = "debit"]
<1>2. /\ v.at = "claim" /\ clerk' = [clerk EXCEPT ![p] = w]
      /\ UNCHANGED <<stock, accounts>> /\ errands' = errands
  BY <1>1 DEF ClaimCode, Busy, Works
<1>3. /\ v \in ClerkRow /\ Sound(v, codes, stash, funds)
      /\ \A q \in Clerks \ {p} : Apart(v, clerk[q])
  BY <1>2, Buying
<1>4. errands \in Nat /\ codes \in Seq(CodeRow)
  BY InvParts DEF Tables
<1>5. /\ c \in DOMAIN codes /\ codes[c].status = "AVAILABLE" /\ c \in Nat
      /\ ~CodeLocked(c)
  BY <1>4 DEF Claimable
<1>6. /\ w \in ClerkRow /\ w.at = "debit"
      /\ w.price = v.price /\ w.code = c /\ w.intent = v.intent
      /\ w.credit = v.credit /\ w.buyer = v.buyer /\ w.key = v.key
      /\ w.input = v.input
  BY <1>3, <1>5 DEF ClerkRow
<1> HIDE DEF w, v
<1>7. Sound(w, codes, stash, funds)
  BY <1>2, <1>3, <1>5, <1>6 DEF Sound, Funded, HoldsCode
<1>8. ASSUME NEW q \in Clerks \ {p} PROVE Apart(w, clerk[q])
  <2>1. Apart(v, clerk[q])
    BY <1>3
  <2>2. ~(HoldsCode(clerk[q]) /\ clerk[q].code = c)
    BY <1>5 DEF HoldsCode, CodeLocked
  <2> QED
    BY <1>2, <1>6, <2>1, <2>2 DEF Apart, HoldsWallet
<1> QED
  BY <1>2, <1>4, <1>6, <1>7, <1>8, WorkStep DEF v

LEMMA DebitStep ==
  ASSUME StoreIInv, NEW p \in Clerks, Debit(p)
  PROVE  StoreIInv'
<1> DEFINE v == clerk[p]
           left == funds[v.buyer] + v.credit - v.price
           w == [[v EXCEPT !.left = left] EXCEPT !.at = "commit"]
<1>1. /\ v.at = "debit" /\ clerk' = [clerk EXCEPT ![p] = w] /\ left >= 0
      /\ UNCHANGED <<stock, accounts>> /\ errands' = errands
      /\ v.credit > 0 \/ ~WalletLocked(v.buyer)
  BY DEF Debit, Busy, Works, Left
<1>2. /\ v \in ClerkRow /\ Sound(v, codes, stash, funds)
      /\ v.credit \in Nat /\ funds[v.buyer] \in Nat
      /\ \A q \in Clerks \ {p} : Apart(v, clerk[q])
  BY <1>1, Buying
<1>3. errands \in Nat
  BY InvParts DEF Tables
<1>4. left \in Nat
  <2>1. v.price \in Nat
    <3>1. v.price \in StorePrices \cup {0}
      BY <1>2 DEF ClerkRow
    <3> HIDE DEF v
    <3> QED
      BY <3>1, PriceType
  <2> HIDE DEF v
  <2> QED
    BY <1>1, <1>2, <2>1
<1> HIDE DEF left
<1>5. /\ w \in ClerkRow /\ w.at = "commit" /\ w.left = left
      /\ w.price = v.price /\ w.code = v.code /\ w.intent = v.intent
      /\ w.credit = v.credit /\ w.buyer = v.buyer /\ w.key = v.key
      /\ w.input = v.input
  BY <1>2, <1>4 DEF ClerkRow
<1> HIDE DEF w, v
<1>6. Sound(w, codes, stash, funds)
  BY <1>1, <1>2, <1>5 DEF Sound, Funded, HoldsCode, left
<1>7. ASSUME NEW q \in Clerks \ {p} PROVE Apart(w, clerk[q])
  <2>1. Apart(v, clerk[q])
    BY <1>2
  <2>2. v.credit > 0 \/ ~(HoldsWallet(clerk[q]) /\ clerk[q].buyer = v.buyer)
    BY <1>1 DEF HoldsWallet, WalletLocked
  <2> QED
    BY <1>1, <1>5, <2>1, <2>2 DEF Apart, HoldsWallet, HoldsCode
<1> QED
  BY <1>1, <1>3, <1>5, <1>6, <1>7, WorkStep DEF v

LEMMA AdminLooks ==
  ASSUME StoreIInv, NEW p \in Clerks,
         \/ \E c \in DOMAIN codes : CheckCode(p, c)
         \/ \E s \in Pools : CheckPool(p, s)
  PROVE  StoreIInv'
<1>1. ASSUME NEW w \in ClerkRow, w.at \in {"revoke", "delete"},
             w.intent = 0, w.credit = 0,
             w.at = "revoke" => w.code \in DOMAIN codes
      PROVE  /\ Sound(w, codes, stash, funds)
             /\ \A q \in Clerks : Apart(w, clerk[q])
  BY <1>1 DEF Sound, Apart, HoldsCode, HoldsWallet
<1>2. codes \in Seq(CodeRow)
  BY InvParts DEF Tables
<1>3. ASSUME NEW c \in DOMAIN codes, CheckCode(p, c)
      PROVE  StoreIInv'
  <2> DEFINE w == [[OffDuty EXCEPT !.code = c] EXCEPT !.at = "revoke"]
  <2>1. /\ w \in ClerkRow /\ w.at = "revoke" /\ w.intent = 0 /\ w.credit = 0
        /\ w.code = c
    <3>1. c \in Nat
      BY <1>2
    <3> QED
      BY <3>1 DEF OffDuty, ClerkRow
  <2>2. clerk' = [clerk EXCEPT ![p] = w] /\ UNCHANGED <<stock, accounts>>
    BY <1>3 DEF CheckCode, Works
  <2>3. errands' \in Nat
    BY <1>3, InvParts DEF CheckCode, Errand, Tables
  <2> HIDE DEF w
  <2> QED
    BY <1>1, <2>1, <2>2, <2>3, WorkStep
<1>4. ASSUME NEW s \in Pools, CheckPool(p, s)
      PROVE  StoreIInv'
  <2> DEFINE w == [[OffDuty EXCEPT !.pools = {s}] EXCEPT !.at = "delete"]
  <2>1. /\ w \in ClerkRow /\ w.at = "delete" /\ w.intent = 0 /\ w.credit = 0
    BY DEF OffDuty, ClerkRow, NoCode
  <2>2. clerk' = [clerk EXCEPT ![p] = w] /\ UNCHANGED <<stock, accounts>>
    BY <1>4 DEF CheckPool, Works
  <2>3. errands' \in Nat
    BY <1>4, InvParts DEF CheckPool, Errand, Tables
  <2> HIDE DEF w
  <2> QED
    BY <1>1, <2>1, <2>2, <2>3, WorkStep
<1> QED
  BY <1>3, <1>4
-----------------------------------------------------------------------------
(* The tables.                                                             *)

(* The jobs of Q find what they rely on. *)
Kept(Q) ==
  /\ DOMAIN codes \subseteq DOMAIN codes'
  /\ DOMAIN stash \subseteq DOMAIN stash'
  /\ \A q \in Q :
       /\ HoldsCode(clerk[q]) =>
            codes'[clerk[q].code].status = codes[clerk[q].code].status
       /\ clerk[q].intent # 0 =>
            /\ stash'[clerk[q].intent].buyer = stash[clerk[q].intent].buyer
            /\ stash'[clerk[q].intent].charge = stash[clerk[q].intent].charge
            /\ stash'[clerk[q].intent].paid = stash[clerk[q].intent].paid
       /\ clerk[q].at = "commit" =>
            funds'[clerk[q].buyer] = funds[clerk[q].buyer]

LEMMA KeptSound ==
  ASSUME StoreIInv, NEW Q \in SUBSET Clerks, Kept(Q)
  PROVE  \A q \in Q : Sound(clerk[q], codes', stash', funds')
<1> TAKE q \in Q
<1> DEFINE w == clerk[q]
<1>1. Sound(w, codes, stash, funds)
  BY InvParts
<1>2. /\ DOMAIN codes \subseteq DOMAIN codes'
      /\ HoldsCode(w) => codes'[w.code].status = codes[w.code].status
      /\ w.at = "commit" => funds'[w.buyer] = funds[w.buyer]
  BY DEF Kept
<1>3. w.intent # 0 => /\ w.intent \in DOMAIN stash'
                      /\ stash'[w.intent].buyer = stash[w.intent].buyer
                      /\ stash'[w.intent].charge = stash[w.intent].charge
                      /\ stash'[w.intent].paid = stash[w.intent].paid
  BY <1>1 DEF Kept, Sound, Funded
<1> DEFINE C2 == codes'
           S2 == stash'
           F2 == funds'
<1> HIDE DEF w, C2, S2, F2
<1>4. Sound(w, C2, S2, F2)
  <2>1. /\ DOMAIN codes \subseteq DOMAIN C2
        /\ HoldsCode(w) => C2[w.code].status = codes[w.code].status
        /\ w.at = "commit" => F2[w.buyer] = funds[w.buyer]
    BY <1>2 DEF C2, F2
  <2>2. w.intent # 0 => /\ w.intent \in DOMAIN S2
                        /\ S2[w.intent].buyer = stash[w.intent].buyer
                        /\ S2[w.intent].charge = stash[w.intent].charge
                        /\ S2[w.intent].paid = stash[w.intent].paid
    BY <1>3 DEF S2
  <2> QED
    BY <1>1, <2>1, <2>2, SoundKept
<1> QED
  BY <1>4 DEF w, C2, S2, F2

(* A job ends, or a table changes under the jobs. *)
LEMMA EndStep ==
  ASSUME StoreIInv, NEW p \in Clerks, clerk' = [clerk EXCEPT ![p] = OffDuty],
         Tables', Kept(Clerks \ {p})
  PROVE  StoreIInv'
<1>1. \A q \in Clerks \ {p} : Sound(clerk[q], codes', stash', funds')
  BY KeptSound
<1>2. Sound(OffDuty, codes', stash', funds')
  BY ClerkAtRest
<1> QED
  BY <1>1, <1>2, ClerkAtRest, JobStep

LEMMA TableStep ==
  ASSUME StoreIInv, clerk' = clerk, Tables', Kept(Clerks)
  PROVE  StoreIInv'
<1>1. \A q \in Clerks : Sound(clerk[q], codes', stash', funds')
  BY KeptSound
<1> QED
  BY <1>1, InvParts, InvPartsNext

(* What settling intent i of u's changes. *)
Settlement(i, u, balance) ==
  /\ stash' \in Seq(StashRow) /\ Len(stash') = Len(stash)
  /\ DOMAIN stash' = DOMAIN stash /\ i \in DOMAIN stash
  /\ \A n \in DOMAIN stash :
       /\ stash'[n].buyer = stash[n].buyer /\ stash'[n].charge = stash[n].charge
       /\ stash'[n].paid = IF n = i THEN TRUE ELSE stash[n].paid
  /\ funds' \in [Buyers -> Nat] /\ funds'[u] = balance
  /\ \A v \in Buyers : v # u => funds'[v] = funds[v]

LEMMA StashSettled ==
  ASSUME StoreIInv, NEW p \in Clerks,
         clerk[p].at \in {"look", "claim", "debit", "commit"},
         clerk[p].intent # 0,
         NEW status \in {"FULFILLED", "FAILED", "EXPIRED"}, NEW sale \in Nat,
         NEW balance \in Nat, Settle(p, status, sale, balance)
  PROVE  Settlement(clerk[p].intent, clerk[p].buyer, balance)
<1> DEFINE i == clerk[p].intent
           u == clerk[p].buyer
           row == [stash[i] EXCEPT !.status = status, !.sale = sale,
                                   !.paid = TRUE]
<1>1. /\ stash \in Seq(StashRow) /\ funds \in [Buyers -> Nat]
      /\ u \in Buyers /\ i \in DOMAIN stash
  BY Buying, InvParts DEF Tables, Sound, Funded
<1>2. stash[i] \in StashRow
  BY <1>1
<1>3. /\ row \in StashRow /\ row.buyer = stash[i].buyer
      /\ row.charge = stash[i].charge /\ row.paid = TRUE
  BY <1>2 DEF StashRow
<1>4. stash' = [stash EXCEPT ![i] = row]
  BY <1>1 DEF Settle
<1>5. funds' = [funds EXCEPT ![u] = balance]
  BY DEF Settle
<1> HIDE DEF row, i, u
<1>6. /\ stash' \in Seq(StashRow) /\ Len(stash') = Len(stash)
      /\ DOMAIN stash' = DOMAIN stash
  BY <1>1, <1>3, <1>4
<1>7. \A n \in DOMAIN stash :
        /\ stash'[n].buyer = stash[n].buyer
        /\ stash'[n].charge = stash[n].charge
        /\ stash'[n].paid = IF n = i THEN TRUE ELSE stash[n].paid
  BY <1>1, <1>3, <1>4
<1>8. /\ funds' \in [Buyers -> Nat] /\ funds'[u] = balance
      /\ \A v \in Buyers : v # u => funds'[v] = funds[v]
  BY <1>1, <1>5
<1> QED
  BY <1>1, <1>6, <1>7, <1>8 DEF Settlement, i, u

(* A purchase ends without an order: what was credited stays. *)
Unsold(p, status, sale) ==
  /\ IF clerk[p].intent = 0 THEN UNCHANGED <<stash, funds>>
     ELSE Settle(p, status, sale, funds[clerk[p].buyer] + clerk[p].credit)
  /\ Works(p, "idle", OffDuty)
  /\ UNCHANGED <<stock, sales, answers, errands>>

LEMMA UnsoldStep ==
  ASSUME StoreIInv, NEW p \in Clerks,
         clerk[p].at \in {"look", "claim", "debit", "commit"},
         NEW status \in {"FULFILLED", "FAILED", "EXPIRED"}, NEW sale \in Nat,
         Unsold(p, status, sale)
  PROVE  StoreIInv'
<1> DEFINE v == clerk[p]
<1>1. /\ v \in ClerkRow /\ Sound(v, codes, stash, funds)
      /\ v.buyer \in Buyers /\ v.credit \in Nat /\ funds[v.buyer] \in Nat
      /\ \A q \in Clerks \ {p} : Apart(v, clerk[q])
  BY Buying
<1>2. clerk' = [clerk EXCEPT ![p] = OffDuty]
  BY ClerkAtRest DEF Unsold, Works
<1>3. /\ pack' = pack /\ open' = open /\ codes' = codes /\ sales' = sales
      /\ answers' = answers /\ errands' = errands
  BY DEF Unsold, stock
<1>4. Tables
  BY InvParts
<1>5. CASE v.intent = 0
  <2>1. stash' = stash /\ funds' = funds
    BY <1>5 DEF Unsold
  <2>2. Tables'
    BY <1>3, <1>4, <2>1 DEF Tables
  <2>3. Kept(Clerks \ {p})
    BY <1>3, <2>1 DEF Kept
  <2> QED
    BY <1>2, <2>2, <2>3, EndStep
<1>6. CASE v.intent # 0
  <2> DEFINE balance == funds[v.buyer] + v.credit
  <2>1. balance \in Nat /\ Settle(p, status, sale, balance)
    BY <1>1, <1>6 DEF Unsold
  <2>2. Settlement(v.intent, v.buyer, balance)
    <3> HIDE DEF balance
    <3> QED
      BY <1>6, <2>1, StashSettled
  <2>3. Tables'
    BY <1>3, <1>4, <2>2 DEF Tables, Settlement
  <2>4. ASSUME NEW q \in Clerks \ {p}
        PROVE  /\ clerk[q].intent # 0 =>
                    /\ stash'[clerk[q].intent].buyer = stash[clerk[q].intent].buyer
                    /\ stash'[clerk[q].intent].charge = stash[clerk[q].intent].charge
                    /\ stash'[clerk[q].intent].paid = stash[clerk[q].intent].paid
               /\ clerk[q].at = "commit" =>
                    funds'[clerk[q].buyer] = funds[clerk[q].buyer]
    <3> DEFINE w == clerk[q]
    <3>1. Apart(v, w) /\ Sound(w, codes, stash, funds)
      BY <1>1, InvParts
    <3> HIDE DEF v, w
    <3>2. w.intent # 0 => w.intent \in DOMAIN stash /\ w.intent # v.intent
      BY <1>6, <3>1 DEF Apart, Sound, Funded
    <3>3. w.intent # 0 => /\ stash'[w.intent].buyer = stash[w.intent].buyer
                          /\ stash'[w.intent].charge = stash[w.intent].charge
                          /\ stash'[w.intent].paid = stash[w.intent].paid
      BY <2>2, <3>2 DEF Settlement
    <3>4. w.at = "commit" => w.buyer \in Buyers /\ HoldsWallet(w)
      BY <3>1 DEF Sound, HoldsWallet
    <3>5. v.credit = 0 \/ HoldsWallet(v)
      BY <1>1 DEF HoldsWallet
    <3>6. w.at = "commit" => funds'[w.buyer] = funds[w.buyer]
      <4>1. CASE v.credit = 0
        BY <1>1, <2>2, <3>4, <4>1 DEF Settlement
      <4>2. CASE HoldsWallet(v)
        BY <2>2, <3>1, <3>4, <4>2 DEF Apart, Settlement
      <4> QED
        BY <3>5, <4>1, <4>2
    <3> QED
      BY <3>3, <3>6 DEF w
  <2>5. Kept(Clerks \ {p})
    BY <1>3, <2>2, <2>4 DEF Kept, Settlement
  <2> QED
    BY <1>2, <2>3, <2>5, EndStep
<1> QED
  BY <1>5, <1>6

LEMMA EndsUnsold ==
  ASSUME StoreIInv, NEW p \in Clerks, TooLate(p) \/ Replay(p) \/ Refuse(p)
  PROVE  /\ clerk[p].at \in {"look", "claim", "debit", "commit"}
         /\ \E status \in {"FULFILLED", "FAILED", "EXPIRED"}, sale \in Nat :
              Unsold(p, status, sale)
<1>1. CASE TooLate(p)
  BY <1>1 DEF TooLate, Busy, Unsold
<1>2. CASE Replay(p)
  <2>1. clerk[p].at = "look"
    BY <1>2 DEF Replay, Busy
  <2>2. Answered(p).sale \in Nat
    BY <2>1, Buying, InvParts DEF Answered, Tables, AnswerRow
  <2>3. Unsold(p, "FULFILLED", Answered(p).sale)
    BY <1>2 DEF Replay, Unsold
  <2> QED
    BY <2>1, <2>2, <2>3
<1>3. CASE Refuse(p)
  BY <1>3 DEF Refuse, Refusal, Busy, Unsold
<1> QED
  BY <1>1, <1>2, <1>3

LEMMA SameLength ==
  ASSUME NEW S, NEW s \in Seq(S), NEW t \in [DOMAIN s -> S]
  PROVE  t \in Seq(S) /\ Len(t) = Len(s) /\ DOMAIN t = DOMAIN s
<1>1. Len(s) \in Nat /\ DOMAIN s = 1..Len(s)
  BY LenProperties
<1>2. t \in [1..Len(s) -> S]
  BY <1>1
<1> QED
  BY <1>1, <1>2

(* What a delivery changes; v is the job's record. *)
Delivery(v) ==
  /\ codes' \in Seq(CodeRow) /\ Len(codes') = Len(codes)
  /\ DOMAIN codes' = DOMAIN codes
  /\ \A c \in DOMAIN codes :
       codes'[c].status = IF c = v.code THEN "CONSUMED" ELSE codes[c].status
  /\ sales' \in Seq(SaleRow) /\ Len(sales') = Len(sales) + 1
  /\ sales'[Len(sales) + 1] = [buyer |-> v.buyer, charge |-> v.price]
  /\ \A n \in 1..Len(sales) : sales'[n] = sales[n]
  /\ answers' \in [Buyers -> [BuyKeys -> AnswerRow]]
  /\ \A u \in Buyers, k \in BuyKeys :
       answers'[u][k] = IF u = v.buyer /\ k = v.key
                        THEN [input |-> v.input, sale |-> Len(sales) + 1,
                              code |-> v.code]
                        ELSE answers[u][k]
  /\ IF v.intent = 0
     THEN stash' = stash /\ funds' = [funds EXCEPT ![v.buyer] = v.left]
     ELSE Settlement(v.intent, v.buyer, v.left)

LEMMA DeliveryTables ==
  ASSUME StoreIInv, NEW p \in Clerks, Deliver(p)
  PROVE  Delivery(clerk[p])
<1> DEFINE v == clerk[p]
           n == Len(sales) + 1
<1>1. /\ v.at = "commit" /\ v \in ClerkRow /\ Sound(v, codes, stash, funds)
      /\ v.buyer \in Buyers /\ v.key \in BuyKeys /\ v.input \in Entries
  BY Buying DEF Deliver, Busy
<1>2. /\ codes \in Seq(CodeRow) /\ sales \in Seq(SaleRow)
      /\ answers \in [Buyers -> [BuyKeys -> AnswerRow]]
  BY InvParts DEF Tables
<1>3. v.left \in Nat /\ v.code \in Nat /\ v.price \in StorePrices /\ n \in Nat
  <2>1. v.left \in Nat /\ v.code \in Nat
    BY <1>1 DEF ClerkRow
  <2>2. v.price \in StorePrices
    BY <1>1 DEF Sound
  <2> QED
    BY <1>2, <2>1, <2>2
<1>4. /\ codes' \in Seq(CodeRow) /\ Len(codes') = Len(codes)
      /\ DOMAIN codes' = DOMAIN codes
      /\ \A c \in DOMAIN codes :
           codes'[c].status = IF c = v.code THEN "CONSUMED" ELSE codes[c].status
  <2>1. codes' = [c \in DOMAIN codes |->
           IF c = v.code
           THEN [codes[c] EXCEPT !.status = "CONSUMED", !.sale = n]
           ELSE codes[c]]
    BY DEF Deliver
  <2>2. \A c \in DOMAIN codes : codes[c] \in CodeRow
    BY <1>2
  <2> HIDE DEF n
  <2>3. codes' \in [DOMAIN codes -> CodeRow]
    BY <1>3, <2>1, <2>2 DEF CodeRow
  <2>4. \A c \in DOMAIN codes :
          codes'[c].status = IF c = v.code THEN "CONSUMED" ELSE codes[c].status
    BY <2>1, <2>2 DEF CodeRow
  <2> QED
    BY <1>2, <2>3, <2>4, SameLength
<1>5. /\ sales' \in Seq(SaleRow) /\ Len(sales') = Len(sales) + 1
      /\ sales'[Len(sales) + 1] = [buyer |-> v.buyer, charge |-> v.price]
      /\ \A m \in 1..Len(sales) : sales'[m] = sales[m]
  <2> DEFINE row == [buyer |-> v.buyer, charge |-> v.price]
  <2>1. row \in SaleRow
    BY <1>1, <1>3 DEF SaleRow
  <2>2. sales' = Append(sales, row)
    BY DEF Deliver
  <2> HIDE DEF row
  <2>3. /\ sales' \in Seq(SaleRow) /\ Len(sales') = Len(sales) + 1
        /\ sales'[Len(sales) + 1] = row
        /\ \A m \in 1..Len(sales) : sales'[m] = sales[m]
    BY <1>2, <2>1, <2>2, AppendProperties
  <2> QED
    BY <2>3 DEF row
<1>6. /\ answers' \in [Buyers -> [BuyKeys -> AnswerRow]]
      /\ \A u \in Buyers, k \in BuyKeys :
           answers'[u][k] = IF u = v.buyer /\ k = v.key
                            THEN [input |-> v.input, sale |-> Len(sales) + 1,
                                  code |-> v.code]
                            ELSE answers[u][k]
  <2> DEFINE row == [input |-> v.input, sale |-> n, code |-> v.code]
  <2>1. row \in AnswerRow
    BY <1>1, <1>3 DEF AnswerRow
  <2>2. answers' = [answers EXCEPT ![v.buyer][v.key] = row]
    BY DEF Deliver
  <2> HIDE DEF row
  <2>3. /\ answers' \in [Buyers -> [BuyKeys -> AnswerRow]]
        /\ \A u \in Buyers, k \in BuyKeys :
             answers'[u][k] = IF u = v.buyer /\ k = v.key THEN row
                                                          ELSE answers[u][k]
    BY <1>1, <1>2, <2>1, <2>2
  <2> QED
    BY <2>3 DEF row
<1>7. CASE v.intent = 0
  <2>1. stash' = stash /\ funds' = [funds EXCEPT ![v.buyer] = v.left]
    BY <1>7 DEF Deliver
  <2> QED
    BY <1>4, <1>5, <1>6, <1>7, <2>1 DEF Delivery
<1>8. CASE v.intent # 0
  <2> DEFINE left == v.left
  <2>1. Settle(p, "FULFILLED", n, left) /\ left \in Nat
    BY <1>3, <1>8 DEF Deliver
  <2> HIDE DEF left, n
  <2>2. Settlement(v.intent, v.buyer, left)
    BY <1>1, <1>3, <1>8, <2>1, StashSettled
  <2>3. Settlement(v.intent, v.buyer, v.left)
    BY <2>2 DEF left
  <2> QED
    BY <1>4, <1>5, <1>6, <1>8, <2>3 DEF Delivery
<1> QED
  BY <1>7, <1>8

LEMMA DeliverStep ==
  ASSUME StoreIInv, NEW p \in Clerks, Deliver(p)
  PROVE  StoreIInv'
<1> DEFINE v == clerk[p]
<1>1. /\ v.at = "commit" /\ v \in ClerkRow /\ Sound(v, codes, stash, funds)
      /\ v.buyer \in Buyers /\ v.key \in BuyKeys
      /\ \A q \in Clerks \ {p} : Apart(v, clerk[q])
  BY Buying DEF Deliver, Busy
<1>2. Tables /\ Delivery(v) /\ v.left \in Nat
  BY <1>1, InvParts, DeliveryTables DEF ClerkRow
<1>3. /\ pack' = pack /\ open' = open /\ errands' = errands
      /\ clerk' = [clerk EXCEPT ![p] = OffDuty]
  BY ClerkAtRest DEF Deliver, Works
<1>4. /\ DOMAIN stash' = DOMAIN stash /\ stash' \in Seq(StashRow)
      /\ funds' \in [Buyers -> Nat]
      /\ \A n \in DOMAIN stash :
           n # v.intent => /\ stash'[n].buyer = stash[n].buyer
                           /\ stash'[n].charge = stash[n].charge
                           /\ stash'[n].paid = stash[n].paid
      /\ \A u \in Buyers : u # v.buyer => funds'[u] = funds[u]
  <2>1. CASE v.intent = 0
    <3>1. stash' = stash /\ funds' = [funds EXCEPT ![v.buyer] = v.left]
      BY <1>2, <2>1 DEF Delivery
    <3> QED
      BY <1>1, <1>2, <3>1 DEF Tables
  <2>2. CASE v.intent # 0
    BY <1>2, <2>2 DEF Delivery, Settlement
  <2> QED
    BY <2>1, <2>2
<1>5. v.code <= Len(codes)
  <2>1. v.code \in Nat /\ (v.code # 0 => v.code \in DOMAIN codes)
    BY <1>1 DEF ClerkRow, Sound, HoldsCode, NoCode
  <2>2. codes \in Seq(CodeRow)
    BY <1>2 DEF Tables
  <2> QED
    BY <2>1, <2>2
<1>6. Answers(answers, Len(sales), Len(codes))
  BY <1>2 DEF Tables
<1>7. Answers(answers', Len(sales'), Len(codes'))
  <2>1. Len(sales') = Len(sales) + 1 /\ Len(codes') = Len(codes)
    BY <1>2 DEF Delivery
  <2>2. Len(sales) \in Nat /\ answers \in [Buyers -> [BuyKeys -> AnswerRow]]
    BY <1>2 DEF Tables
  <2>3. ASSUME NEW u \in Buyers, NEW k \in BuyKeys
        PROVE  /\ answers'[u][k].sale <= Len(sales) + 1
               /\ answers'[u][k].code <= Len(codes)
    <3>1. CASE u = v.buyer /\ k = v.key
      <4>1. answers'[u][k] = [input |-> v.input, sale |-> Len(sales) + 1,
                              code |-> v.code]
        BY <1>2, <3>1 DEF Delivery
      <4> QED
        BY <1>5, <2>2, <4>1
    <3>2. CASE ~(u = v.buyer /\ k = v.key)
      <4>1. answers'[u][k] = answers[u][k]
        BY <1>2, <3>2 DEF Delivery
      <4>2. answers[u][k].sale \in Nat
        BY <2>2 DEF AnswerRow
      <4> QED
        BY <1>6, <2>2, <4>1, <4>2 DEF Answers
    <3> QED
      BY <3>1, <3>2
  <2> QED
    BY <2>1, <2>3 DEF Answers
<1>8. Tables'
  BY <1>2, <1>3, <1>4, <1>7 DEF Tables, Delivery
<1>9. ASSUME NEW q \in Clerks \ {p}
      PROVE  /\ HoldsCode(clerk[q]) =>
                  codes'[clerk[q].code].status = codes[clerk[q].code].status
             /\ clerk[q].intent # 0 =>
                  /\ stash'[clerk[q].intent].buyer = stash[clerk[q].intent].buyer
                  /\ stash'[clerk[q].intent].charge = stash[clerk[q].intent].charge
                  /\ stash'[clerk[q].intent].paid = stash[clerk[q].intent].paid
             /\ clerk[q].at = "commit" =>
                  funds'[clerk[q].buyer] = funds[clerk[q].buyer]
  <2> DEFINE w == clerk[q]
  <2>1. Apart(v, w) /\ Sound(w, codes, stash, funds)
    BY <1>1, InvParts
  <2> HIDE DEF v, w
  <2>2. HoldsCode(w) => w.code \in DOMAIN codes /\ w.code # v.code
    BY <1>1, <2>1 DEF Apart, Sound, HoldsCode
  <2>3. HoldsCode(w) => codes'[w.code].status = codes[w.code].status
    BY <1>2, <2>2 DEF Delivery
  <2>4. w.intent # 0 => w.intent \in DOMAIN stash /\ w.intent # v.intent
    BY <2>1 DEF Apart, Sound, Funded
  <2>5. w.at = "commit" => w.buyer \in Buyers /\ w.buyer # v.buyer
    BY <1>1, <2>1 DEF Sound, Apart, HoldsWallet
  <2> QED
    BY <1>4, <2>3, <2>4, <2>5 DEF w
<1>10. Kept(Clerks \ {p})
  <2>1. DOMAIN codes' = DOMAIN codes
    BY <1>2 DEF Delivery
  <2> QED
    BY <1>4, <1>9, <2>1 DEF Kept
<1> QED
  BY <1>3, <1>8, <1>10, EndStep

(* A code somebody has claimed is not revoked, nor deleted. *)
Unclaimed(c) == \A q \in Clerks : HoldsCode(clerk[q]) => clerk[q].code # c

LEMMA CodesStep ==
  ASSUME StoreIInv, NEW p \in Clerks, RevokeCode(p) \/ DeletePool(p)
  PROVE  /\ StoreIInv'
         /\ DOMAIN codes' = DOMAIN codes
         /\ \A c \in DOMAIN codes :
              codes'[c].status = "AVAILABLE" => codes[c].status = "AVAILABLE"
<1>1. Tables /\ codes \in Seq(CodeRow)
  BY InvParts DEF Tables
<1>2. \A c \in DOMAIN codes : codes[c] \in CodeRow /\ c # NoCode
  BY <1>1 DEF NoCode
<1>3. \A c \in DOMAIN codes : ~CodeLocked(c) => Unclaimed(c)
  BY DEF CodeLocked, Unclaimed, HoldsCode
<1>4. ASSUME codes' \in [DOMAIN codes -> CodeRow],
             \A c \in DOMAIN codes :
               codes'[c].status = codes[c].status
                 \/ (Unclaimed(c) /\ codes'[c].status # "AVAILABLE"),
             pack' \in [active : BOOLEAN, price : StorePrices,
                        pools : SUBSET Pools],
             open' \subseteq Pools, UNCHANGED <<accounts, errands>>,
             Works(p, "idle", OffDuty)
      PROVE  /\ StoreIInv'
             /\ DOMAIN codes' = DOMAIN codes
             /\ \A c \in DOMAIN codes :
                  codes'[c].status = "AVAILABLE" => codes[c].status = "AVAILABLE"
  <2>1. /\ codes' \in Seq(CodeRow) /\ Len(codes') = Len(codes)
        /\ DOMAIN codes' = DOMAIN codes
    BY <1>1, <1>4, SameLength
  <2>2. /\ funds' = funds /\ sales' = sales /\ answers' = answers
        /\ stash' = stash /\ errands' = errands
    BY <1>4 DEF accounts
  <2>3. Tables'
    BY <1>1, <1>4, <2>1, <2>2 DEF Tables
  <2>4. ASSUME NEW q \in Clerks, HoldsCode(clerk[q])
        PROVE  codes'[clerk[q].code].status = codes[clerk[q].code].status
    <3>1. clerk[q].code \in DOMAIN codes
      BY <2>4, InvParts DEF Sound
    <3> QED
      BY <1>4, <2>4, <3>1 DEF Unclaimed
  <2>5. Kept(Clerks \ {p})
    BY <2>1, <2>2, <2>4 DEF Kept
  <2>6. clerk' = [clerk EXCEPT ![p] = OffDuty]
    BY <1>4, ClerkAtRest DEF Works
  <2> QED
    BY <1>4, <2>1, <2>3, <2>5, <2>6, EndStep
<1>5. CASE RevokeCode(p)
  <2> DEFINE c == clerk[p].code
             to == IF codes[c].status = "DELETED" THEN "DELETED" ELSE "REVOKED"
             row == [codes[c] EXCEPT !.status = to]
  <2>1. clerk[p].at = "revoke"
    BY <1>5 DEF RevokeCode, Busy
  <2>2. c \in DOMAIN codes /\ ~CodeLocked(c)
    BY <1>5, <2>1, InvParts DEF RevokeCode, Sound
  <2>3. row \in CodeRow /\ row.status \in {"DELETED", "REVOKED"}
    BY <1>2, <2>2 DEF CodeRow
  <2>4. codes' = [codes EXCEPT ![c] = row]
    BY <1>5, <2>2 DEF RevokeCode
  <2> HIDE DEF row, c
  <2>5. /\ codes' \in [DOMAIN codes -> CodeRow]
        /\ codes'[c] = row
        /\ \A d \in DOMAIN codes : d # c => codes'[d] = codes[d]
    BY <1>2, <2>2, <2>3, <2>4
  <2>6. \A d \in DOMAIN codes :
          codes'[d].status = codes[d].status
            \/ (Unclaimed(d) /\ codes'[d].status # "AVAILABLE")
    <3>1. Unclaimed(c)
      BY <1>3, <2>2
    <3>2. codes'[c].status # "AVAILABLE"
      BY <2>3, <2>5
    <3>3. ASSUME NEW d \in DOMAIN codes
          PROVE  codes'[d].status = codes[d].status
                   \/ (Unclaimed(d) /\ codes'[d].status # "AVAILABLE")
      <4>1. CASE d = c
        BY <3>1, <3>2, <4>1, Zenon
      <4>2. CASE d # c
        <5>1. codes'[d] = codes[d]
          BY <2>5, <4>2
        <5> QED
          BY <5>1, Zenon
      <4> QED
        BY <4>1, <4>2
    <3> QED
      BY <3>3
  <2>7. /\ pack' = pack /\ open' = open /\ UNCHANGED <<accounts, errands>>
        /\ Works(p, "idle", OffDuty)
    BY <1>5 DEF RevokeCode
  <2>8. pack' \in [active : BOOLEAN, price : StorePrices, pools : SUBSET Pools]
        /\ open' \subseteq Pools
    BY <1>1, <2>7 DEF Tables
  <2> QED
    BY <1>4, <2>5, <2>6, <2>7, <2>8
<1>6. CASE DeletePool(p)
  <2>1. /\ \A c \in DOMAIN codes :
             codes[c].pool \in clerk[p].pools => ~CodeLocked(c)
        /\ codes' = [c \in DOMAIN codes |->
             IF codes[c].pool \in clerk[p].pools
             THEN [codes[c] EXCEPT !.status = "DELETED"] ELSE codes[c]]
        /\ pack' = [pack EXCEPT !.pools = @ \ clerk[p].pools]
        /\ open' = open \ clerk[p].pools
        /\ UNCHANGED <<accounts, errands>> /\ Works(p, "idle", OffDuty)
    BY <1>6 DEF DeletePool
  <2>2. codes' \in [DOMAIN codes -> CodeRow]
    BY <1>2, <2>1 DEF CodeRow
  <2>3. ASSUME NEW d \in DOMAIN codes
        PROVE  codes'[d].status = codes[d].status
                 \/ (Unclaimed(d) /\ codes'[d].status # "AVAILABLE")
    <3>1. CASE codes[d].pool \in clerk[p].pools
      <4>1. codes'[d].status = "DELETED"
        BY <1>2, <2>1, <3>1 DEF CodeRow
      <4> QED
        BY <1>3, <2>1, <3>1, <4>1
    <3>2. CASE codes[d].pool \notin clerk[p].pools
      <4>1. codes' = [c \in DOMAIN codes |->
                        IF codes[c].pool \in clerk[p].pools
                        THEN [codes[c] EXCEPT !.status = "DELETED"]
                        ELSE codes[c]]
        BY <2>1
      <4>2. codes'[d] = codes[d]
        BY <3>2, <4>1, Zenon
      <4> QED
        BY <4>2, Zenon
    <3> QED
      BY <3>1, <3>2
  <2>4. pack' \in [active : BOOLEAN, price : StorePrices, pools : SUBSET Pools]
        /\ open' \subseteq Pools
    BY <1>1, <2>1 DEF Tables
  <2> QED
    BY <1>4, <2>1, <2>2, <2>3, <2>4
<1> QED
  BY <1>5, <1>6

LEMMA EditStep ==
  ASSUME StoreIInv,
         NEW form \in [active : BOOLEAN, price : StorePrices,
                       pools : SUBSET Pools],
         EditPackage(form)
  PROVE  StoreIInv'
<1>1. /\ pack' = form /\ open' = open /\ codes' = codes /\ funds' = funds
      /\ sales' = sales /\ answers' = answers /\ stash' = stash
      /\ clerk' = clerk /\ errands > 0 /\ errands' = errands - 1
  BY DEF EditPackage, accounts, Errand
<1>2. Tables
  BY InvParts
<1>3. errands' \in Nat
  BY <1>1, <1>2 DEF Tables
<1>4. Tables'
  BY <1>1, <1>2, <1>3 DEF Tables
<1>5. Kept(Clerks)
  BY <1>1 DEF Kept
<1> QED
  BY <1>1, <1>4, <1>5, TableStep

LEMMA Added ==
  ASSUME StoreIInv, NEW s \in Pools, AddCode(s)
  PROVE  /\ codes' \in Seq(CodeRow) /\ Len(codes') = Len(codes) + 1
         /\ DOMAIN codes' = DOMAIN codes \cup {Len(codes) + 1}
         /\ \A c \in DOMAIN codes : codes'[c] = codes[c]
         /\ codes'[Len(codes) + 1].status = "AVAILABLE"
<1> DEFINE row == [pool |-> s, status |-> "AVAILABLE", sale |-> 0]
<1>1. codes \in Seq(CodeRow) /\ row \in CodeRow
  BY InvParts DEF Tables, CodeRow
<1>2. codes' = Append(codes, row) /\ row.status = "AVAILABLE"
  BY DEF AddCode
<1> HIDE DEF row
<1> QED
  BY <1>1, <1>2, AppendProperties

LEMMA AddStep ==
  ASSUME StoreIInv, NEW s \in Pools, AddCode(s)
  PROVE  StoreIInv'
<1>1. /\ codes' \in Seq(CodeRow) /\ Len(codes') = Len(codes) + 1
      /\ DOMAIN codes \subseteq DOMAIN codes'
      /\ \A c \in DOMAIN codes : codes'[c] = codes[c]
  BY Added
<1>2. /\ pack' = pack /\ open' = open /\ funds' = funds
      /\ sales' = sales /\ answers' = answers /\ stash' = stash
      /\ clerk' = clerk /\ errands > 0 /\ errands' = errands - 1
  BY DEF AddCode, accounts, Errand
<1>3. Tables
  BY InvParts
<1>4. Answers(answers', Len(sales'), Len(codes'))
  <2>1. /\ Answers(answers, Len(sales), Len(codes)) /\ Len(codes) \in Nat
        /\ answers \in [Buyers -> [BuyKeys -> AnswerRow]]
    BY <1>3 DEF Tables
  <2>2. ASSUME NEW u \in Buyers, NEW k \in BuyKeys
        PROVE  answers[u][k].sale <= Len(sales)
               /\ answers[u][k].code <= Len(codes) + 1
    <3>1. answers[u][k].code \in Nat
      BY <2>1 DEF AnswerRow
    <3> QED
      BY <2>1, <3>1 DEF Answers
  <2> QED
    BY <1>1, <1>2, <2>2 DEF Answers
<1>5. errands' \in Nat
  BY <1>2, <1>3 DEF Tables
<1>6. Tables'
  BY <1>1, <1>2, <1>3, <1>4, <1>5 DEF Tables
<1>7. \A q \in Clerks : HoldsCode(clerk[q]) => clerk[q].code \in DOMAIN codes
  BY InvParts DEF Sound
<1>8. Kept(Clerks)
  BY <1>1, <1>2, <1>7 DEF Kept
<1> QED
  BY <1>2, <1>6, <1>8, TableStep

(* The stash gets an unpaid intent, or an intent of it expires. *)
LEMMA Stashed ==
  ASSUME StoreIInv,
         \/ \E u \in Buyers, k \in BuyKeys, f \in Inputs : Redirect(u, k, f)
         \/ \E i \in DOMAIN stash : Expire(i)
  PROVE  /\ stash' \in Seq(StashRow) /\ DOMAIN stash \subseteq DOMAIN stash'
         /\ \A n \in DOMAIN stash : /\ stash'[n].buyer = stash[n].buyer
                                    /\ stash'[n].charge = stash[n].charge
                                    /\ stash'[n].paid = stash[n].paid
         /\ \/ Len(stash') = Len(stash)
            \/ Len(stash') = Len(stash) + 1 /\ ~stash'[Len(stash) + 1].paid
         /\ errands' \in Nat
         /\ UNCHANGED <<stock, funds, sales, answers, clerk>>
<1>1. /\ stash \in Seq(StashRow) /\ errands \in Nat
      /\ pack.price \in StorePrices
  BY InvParts DEF Tables
<1>2. ASSUME NEW u \in Buyers, NEW k \in BuyKeys, NEW f \in Inputs,
             Redirect(u, k, f)
      PROVE  /\ stash' \in Seq(StashRow) /\ DOMAIN stash \subseteq DOMAIN stash'
             /\ \A n \in DOMAIN stash : stash'[n] = stash[n]
             /\ Len(stash') = Len(stash) + 1 /\ ~stash'[Len(stash) + 1].paid
             /\ errands' \in Nat
             /\ UNCHANGED <<stock, funds, sales, answers, clerk>>
  <2> DEFINE row == [buyer |-> u, key |-> k, input |-> Sanitized[f],
                     charge |-> pack.price, status |-> "PENDING", sale |-> 0,
                     paid |-> FALSE, expired |-> FALSE]
  <2>1. row \in StashRow /\ row.paid = FALSE
    BY <1>1 DEF StashRow, Entries
  <2>2. stash' = Append(stash, row)
    BY <1>2 DEF Redirect
  <2> HIDE DEF row
  <2>3. /\ stash' \in Seq(StashRow) /\ DOMAIN stash \subseteq DOMAIN stash'
        /\ \A n \in DOMAIN stash : stash'[n] = stash[n]
        /\ Len(stash') = Len(stash) + 1 /\ stash'[Len(stash) + 1] = row
    BY <1>1, <2>1, <2>2, AppendProperties
  <2>4. /\ errands > 0 /\ errands' = errands - 1
        /\ UNCHANGED <<stock, funds, sales, answers, clerk>>
    BY <1>2 DEF Redirect, Errand
  <2> QED
    BY <1>1, <2>1, <2>3, <2>4
<1>3. ASSUME NEW i \in DOMAIN stash, Expire(i)
      PROVE  /\ stash' \in Seq(StashRow) /\ DOMAIN stash' = DOMAIN stash
             /\ Len(stash') = Len(stash)
             /\ \A n \in DOMAIN stash : /\ stash'[n].buyer = stash[n].buyer
                                        /\ stash'[n].charge = stash[n].charge
                                        /\ stash'[n].paid = stash[n].paid
             /\ errands' \in Nat
             /\ UNCHANGED <<stock, funds, sales, answers, clerk>>
  <2> DEFINE row == [stash[i] EXCEPT !.expired = TRUE]
  <2>1. stash[i] \in StashRow
    BY <1>1
  <2>2. /\ row \in StashRow /\ row.buyer = stash[i].buyer
        /\ row.charge = stash[i].charge /\ row.paid = stash[i].paid
    BY <2>1 DEF StashRow
  <2>3. stash' = [stash EXCEPT ![i] = row]
    BY <1>1, <1>3 DEF Expire
  <2> HIDE DEF row
  <2>4. /\ stash' \in Seq(StashRow) /\ DOMAIN stash' = DOMAIN stash
        /\ Len(stash') = Len(stash)
        /\ \A n \in DOMAIN stash : /\ stash'[n].buyer = stash[n].buyer
                                   /\ stash'[n].charge = stash[n].charge
                                   /\ stash'[n].paid = stash[n].paid
    BY <1>1, <2>2, <2>3
  <2>5. /\ errands > 0 /\ errands' = errands - 1
        /\ UNCHANGED <<stock, funds, sales, answers, clerk>>
    BY <1>3 DEF Expire, Errand
  <2> QED
    BY <1>1, <2>4, <2>5
<1> QED
  BY <1>2, <1>3

LEMMA StashStep ==
  ASSUME StoreIInv,
         \/ \E u \in Buyers, k \in BuyKeys, f \in Inputs : Redirect(u, k, f)
         \/ \E i \in DOMAIN stash : Expire(i)
  PROVE  StoreIInv'
<1>1. /\ stash' \in Seq(StashRow) /\ DOMAIN stash \subseteq DOMAIN stash'
      /\ \A n \in DOMAIN stash : /\ stash'[n].buyer = stash[n].buyer
                                 /\ stash'[n].charge = stash[n].charge
                                 /\ stash'[n].paid = stash[n].paid
      /\ errands' \in Nat
      /\ UNCHANGED <<stock, funds, sales, answers, clerk>>
  BY Stashed
<1>2. Tables
  BY InvParts
<1>3. Tables'
  BY <1>1, <1>2 DEF Tables, stock
<1>4. \A q \in Clerks : clerk[q].intent # 0 => clerk[q].intent \in DOMAIN stash
  BY InvParts DEF Sound, Funded
<1>5. Kept(Clerks)
  BY <1>1, <1>4 DEF Kept, stock
<1> QED
  BY <1>1, <1>3, <1>5, TableStep

LEMMA StoreInitInv == StoreInit => StoreIInv
<1> SUFFICES ASSUME StoreInit PROVE StoreIInv
  OBVIOUS
<1>1. codes \in Seq(CodeRow) /\ Len(codes) \in Nat
  <2>1. codes \in [1..Stocked ->
          [pool : Pools, status : {"AVAILABLE"}, sale : {0}]]
    BY DEF StoreInit
  <2>2. \A c \in 1..Stocked : codes[c] \in CodeRow
    <3> SUFFICES ASSUME NEW c \in 1..Stocked PROVE codes[c] \in CodeRow
      OBVIOUS
    <3>1. codes[c] \in [pool : Pools, status : {"AVAILABLE"}, sale : {0}]
      BY <2>1
    <3> QED
      BY <3>1 DEF CodeRow
  <2>3. codes \in [1..Stocked -> CodeRow]
    BY <2>1, <2>2
  <2> QED
    BY <2>3, StoreBoundsAssumption
<1>2. NoAnswer \in AnswerRow /\ NoAnswer.sale = 0 /\ NoAnswer.code = 0
  BY DEF NoAnswer, AnswerRow, NoCode
<1>3. Tables
  <2>1. /\ pack \in [active : BOOLEAN, price : StorePrices, pools : SUBSET Pools]
        /\ open \subseteq Pools /\ funds \in [Buyers -> Nat]
        /\ sales \in Seq(SaleRow) /\ stash \in Seq(StashRow)
        /\ errands \in Nat /\ Len(sales) = 0
    <3>1. /\ pack \in [active : {TRUE}, price : StorePrices,
                       pools : SUBSET Pools]
          /\ open = Pools /\ sales = <<>> /\ stash = <<>>
          /\ funds = [u \in Buyers |-> Opening]
          /\ errands \in {0, MaxErrands}
      BY DEF StoreInit
    <3>2. pack \in [active : BOOLEAN, price : StorePrices,
                    pools : SUBSET Pools]
      BY <3>1
    <3>3. funds \in [Buyers -> Nat] /\ errands \in Nat
      BY <3>1, StoreBoundsAssumption
    <3> QED
      BY <3>1, <3>2, <3>3
  <2>2. answers = [u \in Buyers |-> [k \in BuyKeys |-> NoAnswer]]
    BY DEF StoreInit
  <2>3. answers \in [Buyers -> [BuyKeys -> AnswerRow]]
    BY <1>2, <2>2
  <2>4. Answers(answers, Len(sales), Len(codes))
    BY <1>1, <1>2, <2>1, <2>2 DEF Answers
  <2> QED
    BY <1>1, <2>1, <2>3, <2>4 DEF Tables
<1>4. clerk = [p \in Clerks |-> OffDuty]
  BY DEF StoreInit
<1> QED
  BY <1>3, <1>4, ClerkAtRest, InvParts

LEMMA StoreStepInv == StoreIInv /\ [StoreNext]_storeVars => StoreIInv'
<1> SUFFICES ASSUME StoreIInv, [StoreNext]_storeVars PROVE StoreIInv'
  OBVIOUS
<1>1. ASSUME NEW p \in Clerks, ClerkStep(p) PROVE StoreIInv'
  <2>1. CASE TooLate(p) \/ Replay(p) \/ Refuse(p)
    BY <2>1, EndsUnsold, UnsoldStep
  <2>2. CASE RevokeCode(p) \/ DeletePool(p)
    BY <2>2, CodesStep
  <2> QED
    BY <1>1, <2>1, <2>2, LookStep, ClaimStep, DebitStep, DeliverStep
       DEF ClerkStep
<1>2. ASSUME NEW p \in Clerks,
             \/ \E u \in Buyers, k \in BuyKeys, f \in Inputs : Ask(p, u, k, f)
             \/ \E i \in DOMAIN stash : Pay(p, i) \/ Retry(p, i)
             \/ \E c \in DOMAIN codes : CheckCode(p, c)
             \/ \E s \in Pools : CheckPool(p, s)
      PROVE  StoreIInv'
  BY <1>2, ErrandStep, PayStep, AdminLooks
<1>3. CASE \/ \E u \in Buyers, k \in BuyKeys, f \in Inputs : Redirect(u, k, f)
           \/ \E i \in DOMAIN stash : Expire(i)
  BY <1>3, StashStep
<1>4. pack \in [active : BOOLEAN, price : StorePrices, pools : SUBSET Pools]
  BY InvParts DEF Tables
<1>5. CASE \/ \E x \in StorePrices : EditPackage([pack EXCEPT !.price = x])
           \/ \E l \in SUBSET Pools : EditPackage([pack EXCEPT !.pools = l])
           \/ EditPackage([pack EXCEPT !.active = ~@])
  <2>1. \A x \in StorePrices : [pack EXCEPT !.price = x] \in
          [active : BOOLEAN, price : StorePrices, pools : SUBSET Pools]
    BY <1>4
  <2>2. \A l \in SUBSET Pools : [pack EXCEPT !.pools = l] \in
          [active : BOOLEAN, price : StorePrices, pools : SUBSET Pools]
    BY <1>4
  <2>3. [pack EXCEPT !.active = ~@] \in
          [active : BOOLEAN, price : StorePrices, pools : SUBSET Pools]
    BY <1>4
  <2> QED
    BY <1>5, <2>1, <2>2, <2>3, EditStep
<1>6. CASE \E s \in Pools : AddCode(s)
  BY <1>6, AddStep
<1>7. CASE UNCHANGED storeVars
  <2>1. /\ pack' = pack /\ open' = open /\ codes' = codes /\ funds' = funds
        /\ sales' = sales /\ answers' = answers /\ stash' = stash
        /\ clerk' = clerk /\ errands' = errands
    BY <1>7 DEF storeVars, stock, accounts
  <2> QED
    BY <2>1, InvParts, InvPartsNext DEF Tables
<1> QED
  BY <1>1, <1>2, <1>3, <1>5, <1>6, <1>7 DEF StoreNext

(* The invariant holds for any customers, keys, pools and jobs: whoever    *)
(* has claimed a code or debited a wallet still finds it as it was when    *)
(* the purchase commits.                                                   *)
THEOREM StoreInvariance == StoreSpec => []StoreIInv
BY StoreInitInv, StoreStepInv, PTL DEF StoreSpec

(* The state of the store keeps its types: no balance becomes negative.    *)
THEOREM StoreTypes == StoreSpec => []StoreTypeOK
<1>1. StoreIInv => StoreTypeOK
  BY DEF StoreIInv
<1> QED
  BY <1>1, StoreInvariance, PTL
-----------------------------------------------------------------------------
(* What the payments of a customer's intents come to.  The prover knows    *)
(* nothing of a sum: so it is shown first that there is one, by going from *)
(* each number to the next, and then how it changes.                       *)

(* A set of numbers that has 0, and with each the next, has them all.      *)
LEMMA EveryNatural ==
  ASSUME NEW S, S \subseteq Nat, 0 \in S, \A n \in S : n + 1 \in S
  PROVE  S = Nat
<1> DEFINE T == Nat \ S
           R == OpToRel(<, Nat)
<1>1. IsWellFoundedOn(R, Nat)
  BY NatLessThanWellFounded, Zenon
<1>2. ASSUME T # {} PROVE FALSE
  <2>1. T \subseteq Nat
    OBVIOUS
  <2> HIDE DEF T, R
  <2>2. PICK x \in T : \A y \in T : ~ (<<y, x>> \in R)
    BY <1>1, <1>2, <2>1, WFMin
  <2>3. x \in Nat /\ x # 0 /\ x \notin S
    BY DEF T
  <2>4. x - 1 \in Nat /\ x - 1 < x /\ (x - 1) + 1 = x
    BY <2>3
  <2>5. x - 1 \in T
    BY <2>3, <2>4 DEF T
  <2>6. <<x - 1, x>> \in R
    BY <2>3, <2>4 DEF R, OpToRel
  <2> QED
    BY <2>2, <2>5, <2>6
<1> QED
  BY <1>2

LEMMA EveryPlace ==
  ASSUME NEW L \in Nat, NEW S, 0 \in S,
         \A n \in 0..L : n \in S /\ n < L => n + 1 \in S
  PROVE  0..L \subseteq S
<1> DEFINE T == {n \in Nat : n <= L => n \in S}
<1>1. T \subseteq Nat /\ 0 \in T
  OBVIOUS
<1>2. ASSUME NEW n \in T PROVE n + 1 \in T
  OBVIOUS
<1>3. T = Nat
  <2> HIDE DEF T
  <2> QED
    BY <1>1, <1>2, EveryNatural
<1> QED
  BY <1>3

(* What row n brings u, and how the sum of the first n rows is reached     *)
(* from that of one less, in g.                                            *)
Came(S, u, n) == IF S[n].buyer = u /\ S[n].paid THEN S[n].charge ELSE 0
Sum1(S, u, g, n) == IF n = 0 THEN Opening ELSE g[n - 1] + Came(S, u, n)
Adds(S, u, g) == \A n \in 0..Len(S) : g[n] = Sum1(S, u, g, n)
Paid(S, u) == CHOOSE v : \E g : Adds(S, u, g) /\ v = g[Len(S)]

LEMMA CameType ==
  ASSUME NEW S \in Seq(StashRow), NEW u, NEW n \in 1..Len(S)
  PROVE  Came(S, u, n) \in Nat
<1>1. S[n] \in StashRow
  BY ElementOfSeq
<1>2. S[n].charge \in StorePrices
  BY <1>1 DEF StashRow
<1>3. S[n].charge \in Nat
  BY <1>2, PriceType
<1> QED
  BY <1>3 DEF Came

(* There is such a function. *)
LEMMA AddsExist ==
  ASSUME NEW S \in Seq(StashRow), NEW u
  PROVE  \E g \in [0..Len(S) -> Nat] : Adds(S, u, g)
<1> DEFINE L == Len(S)
           Upto(g, n) == \A m \in 0..n : g[m] = Sum1(S, u, g, m)
           Good(n) == \E g \in [0..L -> Nat] : Upto(g, n)
           T == {n \in 0..L : Good(n)}
<1>1. L \in Nat /\ Opening \in Nat
  BY LenProperties, StoreBoundsAssumption
<1>2. 0 \in T
  <2> DEFINE g == [n \in 0..L |-> Opening]
  <2>1. g \in [0..L -> Nat] /\ Upto(g, 0)
    BY <1>1 DEF Sum1
  <2> HIDE DEF g
  <2>2. Good(0) /\ 0 \in 0..L
    BY <1>1, <2>1
  <2> QED
    BY <2>2
<1>3. ASSUME NEW n \in 0..L, n \in T, n < L
      PROVE  n + 1 \in T
  <2>1. PICK g \in [0..L -> Nat] : Upto(g, n)
    BY <1>3
  <2> DEFINE h == [g EXCEPT ![n + 1] = g[n] + Came(S, u, n + 1)]
  <2>2. n + 1 \in 1..L /\ g[n] \in Nat /\ n \in Nat
    BY <1>1, <1>3
  <2>3. Came(S, u, n + 1) \in Nat
    BY <2>2, CameType
  <2>4. h \in [0..L -> Nat]
    BY <2>2, <2>3
  <2>5. h[n + 1] = g[n] + Came(S, u, n + 1)
    BY <2>2
  <2>6. \A m \in 0..n : h[m] = g[m]
    BY <1>1, <1>3, <2>2
  <2> HIDE DEF h
  <2>7. ASSUME NEW m \in 0..(n + 1)
        PROVE  h[m] = Sum1(S, u, h, m)
    <3>1. CASE m = n + 1
      <4>1. m - 1 = n /\ m # 0 /\ n \in 0..n
        BY <2>2, <3>1
      <4> QED
        BY <2>5, <2>6, <3>1, <4>1 DEF Sum1
    <3>2. CASE m # n + 1
      <4>1. m \in 0..n /\ (m # 0 => m - 1 \in 0..n)
        BY <2>2, <3>2
      <4> QED
        BY <2>1, <2>6, <4>1 DEF Sum1
    <3> QED
      BY <3>1, <3>2
  <2> QED
    BY <2>2, <2>4, <2>7
<1>4. 0..L \subseteq T
  <2> HIDE DEF T, L
  <2> QED
    BY <1>1, <1>2, <1>3, EveryPlace
<1>5. L \in T
  BY <1>1, <1>4
<1> QED
  BY <1>5 DEF Adds

(* And only one. *)
LEMMA AddsSame ==
  ASSUME NEW S \in Seq(StashRow), NEW u, NEW g, NEW h,
         Adds(S, u, g), Adds(S, u, h)
  PROVE  \A n \in 0..Len(S) : g[n] = h[n] /\ g[n] \in Nat
<1> DEFINE T == {n \in 0..Len(S) : g[n] = h[n] /\ g[n] \in Nat}
<1>1. Len(S) \in Nat /\ Opening \in Nat
  BY LenProperties, StoreBoundsAssumption
<1>2. 0 \in T
  BY <1>1 DEF Adds, Sum1
<1>3. ASSUME NEW n \in 0..Len(S), n \in T, n < Len(S)
      PROVE  n + 1 \in T
  <2>1. /\ n + 1 \in 1..Len(S) /\ n + 1 \in 0..Len(S) /\ n + 1 # 0
        /\ (n + 1) - 1 = n
    BY <1>1, <1>3
  <2>2. Came(S, u, n + 1) \in Nat
    BY <2>1, CameType
  <2>3. /\ g[n + 1] = g[n] + Came(S, u, n + 1)
        /\ h[n + 1] = h[n] + Came(S, u, n + 1)
    BY <2>1 DEF Adds, Sum1
  <2> QED
    BY <1>3, <2>1, <2>2, <2>3
<1>4. 0..Len(S) \subseteq T
  <2> HIDE DEF T
  <2> QED
    BY <1>1, <1>2, <1>3, EveryPlace
<1> QED
  BY <1>4

LEMMA PaidIs ==
  ASSUME NEW S \in Seq(StashRow), NEW u, NEW g, Adds(S, u, g)
  PROVE  Paid(S, u) = g[Len(S)] /\ Paid(S, u) \in Nat
<1> DEFINE v == CHOOSE v : \E h : Adds(S, u, h) /\ v = h[Len(S)]
<1>1. \E w : \E h : Adds(S, u, h) /\ w = h[Len(S)]
  OBVIOUS
<1>2. \E h : Adds(S, u, h) /\ v = h[Len(S)]
  BY <1>1
<1>3. Paid(S, u) = v
  BY DEF Paid
<1> HIDE DEF v
<1>4. PICK h : Adds(S, u, h) /\ v = h[Len(S)]
  BY <1>2
<1>5. Len(S) \in 0..Len(S)
  BY LenProperties
<1> QED
  BY <1>3, <1>4, <1>5, AddsSame

(* If row i brings x more and nothing else does, the sum is x more.        *)
LEMMA PaidMore ==
  ASSUME NEW S \in Seq(StashRow), NEW R \in Seq(StashRow), NEW u,
         NEW i \in Nat, NEW x \in Nat,
         \A n \in 1..Len(S) :
           Came(R, u, n) = Came(S, u, n) + IF n = i THEN x ELSE 0,
         \/ Len(R) = Len(S)
         \/ Len(R) = Len(S) + 1 /\ Came(R, u, Len(R)) = 0
  PROVE  Paid(R, u) = Paid(S, u) + IF i \in 1..Len(S) THEN x ELSE 0
<1> DEFINE L == Len(S)
           More(n) == IF i \in 1..n THEN x ELSE 0
<1>1. L \in Nat /\ Len(R) \in Nat /\ (Len(R) = L \/ Len(R) = L + 1)
  BY LenProperties
<1>2. PICK g \in [0..L -> Nat] : Adds(S, u, g)
  BY AddsExist
<1>3. PICK h \in [0..Len(R) -> Nat] : Adds(R, u, h)
  BY AddsExist
<1> DEFINE T == {n \in 0..L : h[n] = g[n] + More(n)}
<1>4. 0 \in T
  <2>1. /\ 0 \in 0..L /\ 0 \in 0..Len(R) /\ i \notin 1..0 /\ Opening \in Nat
    BY <1>1, StoreBoundsAssumption
  <2>2. g[0] = Opening /\ h[0] = Opening
    BY <1>2, <1>3, <2>1 DEF Adds, Sum1
  <2> QED
    BY <2>1, <2>2
<1>5. ASSUME NEW n \in 0..L, n \in T, n < L
      PROVE  n + 1 \in T
  <2>1. /\ n + 1 \in 1..L /\ n + 1 \in 0..L /\ n + 1 \in 0..Len(R)
        /\ n + 1 # 0 /\ (n + 1) - 1 = n /\ n \in 0..Len(R)
    BY <1>1, <1>5
  <2>2. Came(S, u, n + 1) \in Nat /\ g[n] \in Nat
    BY <1>2, <2>1, CameType
  <2>3. /\ g[n + 1] = g[n] + Came(S, u, n + 1)
        /\ h[n + 1] = h[n] + Came(R, u, n + 1)
    BY <1>2, <1>3, <2>1 DEF Adds, Sum1
  <2>4. Came(R, u, n + 1) = Came(S, u, n + 1) + IF n + 1 = i THEN x ELSE 0
    BY <2>1
  <2>5. h[n] = g[n] + More(n)
    BY <1>5
  <2>6. More(n + 1) = More(n) + IF n + 1 = i THEN x ELSE 0
    BY <2>1
  <2>7. More(n) \in Nat /\ (IF n + 1 = i THEN x ELSE 0) \in Nat
    OBVIOUS
  <2> HIDE DEF More
  <2> QED
    BY <2>1, <2>2, <2>3, <2>4, <2>5, <2>6, <2>7
<1>6. 0..L \subseteq T
  <2> HIDE DEF T, L
  <2> QED
    BY <1>1, <1>4, <1>5, EveryPlace
<1>7. h[L] = g[L] + More(L)
  BY <1>1, <1>6
<1>8. h[Len(R)] = h[L]
  <2>1. CASE Len(R) = L + 1
    <3>1. /\ Len(R) \in 0..Len(R) /\ Len(R) # 0 /\ Len(R) - 1 = L
          /\ L \in 0..Len(R) /\ Came(R, u, Len(R)) = 0
      BY <1>1, <2>1
    <3>2. h[Len(R)] = h[L] + Came(R, u, Len(R)) /\ h[L] \in Nat
      BY <1>3, <3>1 DEF Adds, Sum1
    <3> QED
      BY <3>1, <3>2
  <2> QED
    BY <1>1, <2>1
<1>9. Paid(S, u) = g[L] /\ Paid(R, u) = h[Len(R)]
  BY <1>2, <1>3, PaidIs
<1> QED
  BY <1>7, <1>8, <1>9

LEMMA PaymentsArePaid ==
  StoreTypeOK => \A u \in Buyers : PaymentsOf(u) = Paid(stash, u)
<1> SUFFICES ASSUME StoreTypeOK, NEW u \in Buyers
             PROVE  PaymentsOf(u) = Paid(stash, u)
  OBVIOUS
<1> DEFINE Sums(g) == g = [n \in 0..Len(stash) |-> Sum1(stash, u, g, n)]
           Sum == CHOOSE g : Sums(g)
<1>1. stash \in Seq(StashRow)
  BY DEF StoreTypeOK, StashRow
<1>2. Sum[Len(stash)] = Paid(stash, u)
  <2>1. PICK g \in [0..Len(stash) -> Nat] : Adds(stash, u, g)
    BY <1>1, AddsExist
  <2>2. Sums(g)
    BY <2>1 DEF Adds
  <2>3. Sums(Sum)
    BY <2>2
  <2> HIDE DEF Sum
  <2>4. Adds(stash, u, Sum)
    BY <2>3 DEF Adds
  <2> QED
    BY <1>1, <2>4, PaidIs
<1>3. PaymentsOf(u) = Sum[Len(stash)]
  BY Zenon DEF PaymentsOf, Sum1, Came
<1> QED
  BY <1>2, <1>3
-----------------------------------------------------------------------------
(* The machine's view of codes C, of intents S, and of answers A for the   *)
(* sales T.                                                                *)
Shelf(C) == {c \in DOMAIN C : C[c].status = "AVAILABLE"}
PaidIn(S) == [u \in Buyers |-> Paid(S, u)]
Sale(A, T, u, k) == [buyer |-> u, key |-> k, code |-> A[u][k].code,
                     paid |-> T[A[u][k].sale].charge]
Sold(A, T) == {Sale(A, T, r[1], r[2]) :
                 r \in {q \in Buyers \X BuyKeys : A[q[1]][q[2]].sale # 0}}

LEMMA View ==
  StoreIInv => [u \in Buyers |-> PaymentsOf(u)] = PaidIn(stash)
<1>1. StoreIInv => StoreTypeOK
  BY DEF StoreIInv
<1> QED
  BY <1>1, PaymentsArePaid DEF PaidIn

LEMMA ViewNext ==
  StoreIInv' => [u \in Buyers |-> PaymentsOf(u)]' = PaidIn(stash')
<1>1. (StoreIInv => [u \in Buyers |-> PaymentsOf(u)] = PaidIn(stash))'
  BY View, PTL
<1> QED
  BY <1>1

(* The steps of the machine, on the views of the two states.               *)
LEMMA Stutters ==
  ASSUME StoreIInv, StoreIInv', Shelf(codes') = Shelf(codes),
         PaidIn(stash') = PaidIn(stash), funds' = funds, answers' = answers,
         sales' = sales
  PROVE  UNCHANGED Machine!machine
  BY View, ViewNext
     DEF Machine!machine, Shelf, Answering

LEMMA Restocks ==
  ASSUME StoreIInv, StoreIInv', Shelf(codes) \subseteq Shelf(codes'),
         \A s \in Sold(answers, sales) : s.code \notin Shelf(codes') \ Shelf(codes),
         PaidIn(stash') = PaidIn(stash), funds' = funds, answers' = answers,
         sales' = sales
  PROVE  Machine!Restock
  BY View, ViewNext
     DEF Machine!Restock, Shelf, Answering, Sold, Sale

LEMMA Withdraws ==
  ASSUME StoreIInv, StoreIInv', Shelf(codes') \subseteq Shelf(codes),
         PaidIn(stash') = PaidIn(stash), funds' = funds, answers' = answers,
         sales' = sales
  PROVE  Machine!Withdraw
  BY View, ViewNext
     DEF Machine!Withdraw, Shelf, Answering

(* u pays c, and x is taken from the purse.                                *)
Pays(u, c, x) ==
  /\ PaidIn(stash') = [PaidIn(stash) EXCEPT ![u] = @ + c]
  /\ funds' = [funds EXCEPT ![u] = @ + c - x]

LEMMA Changes ==
  ASSUME StoreIInv, StoreIInv', NEW u \in Buyers, NEW c \in Nat, NEW x \in Nat,
         Pays(u, c, x)
  PROVE  Machine!After(u, x)
<1> DEFINE P == PaidIn(stash)
           P2 == PaidIn(stash')
<1>1. P \in [Buyers -> Nat]
  <2>1. stash \in Seq(StashRow)
    BY InvParts DEF Tables
  <2>2. \A v \in Buyers : Paid(stash, v) \in Nat
    BY <2>1, AddsExist, PaidIs
  <2> QED
    BY <2>2 DEF PaidIn
<1>2. funds \in [Buyers -> Nat] /\ funds' \in [Buyers -> Nat]
  BY InvParts, InvPartsNext DEF Tables
<1>3. P2 = [P EXCEPT ![u] = P[u] + c] /\ funds' = [funds EXCEPT ![u] = funds[u] + c - x]
  BY DEF Pays
<1> HIDE DEF P, P2
<1>4. P2[u] = P[u] + c /\ P[u] \in Nat /\ funds'[u] \in Nat /\ funds[u] \in Nat
  BY <1>1, <1>2, <1>3
<1>5. P2[u] - P[u] = c /\ P2[u] >= P[u] /\ funds'[u] >= 0
  BY <1>4
<1>6. /\ P2 = [P EXCEPT ![u] = P2[u]] /\ P2[u] >= P[u]
      /\ funds' = [funds EXCEPT ![u] = funds[u] + (P2[u] - P[u]) - x]
      /\ funds'[u] >= 0
  BY <1>3, <1>4, <1>5
<1> DEFINE Q == [v \in Buyers |-> PaymentsOf(v)]
<1>7. Q = P /\ Q' = P2
  BY View, ViewNext DEF P, P2
<1> HIDE DEF Q
<1>8. /\ Q' = [Q EXCEPT ![u] = Q'[u]] /\ Q'[u] >= Q[u]
      /\ funds' = [funds EXCEPT ![u] = @ + (Q'[u] - Q[u]) - x]
      /\ funds'[u] >= 0
  BY <1>6, <1>7
<1> QED
  BY <1>8 DEF Machine!After, Q

(* What the intents bring stays, and grows by what a settlement pays.      *)
LEMMA PaidInKept ==
  ASSUME stash \in Seq(StashRow), stash' \in Seq(StashRow),
         \A n \in DOMAIN stash : /\ stash'[n].buyer = stash[n].buyer
                                 /\ stash'[n].charge = stash[n].charge
                                 /\ stash'[n].paid = stash[n].paid,
         \/ Len(stash') = Len(stash)
         \/ Len(stash') = Len(stash) + 1 /\ ~stash'[Len(stash) + 1].paid
  PROVE  PaidIn(stash') = PaidIn(stash)
<1> DEFINE S == stash
           R == stash'
<1>1. /\ S \in Seq(StashRow) /\ R \in Seq(StashRow) /\ Len(S) \in Nat
      /\ DOMAIN S = 1..Len(S)
  BY LenProperties
<1>2. \A n \in 1..Len(S) : /\ R[n].buyer = S[n].buyer
                           /\ R[n].charge = S[n].charge
                           /\ R[n].paid = S[n].paid
  BY <1>1
<1>3. \/ Len(R) = Len(S)
      \/ Len(R) = Len(S) + 1 /\ ~R[Len(R)].paid
  OBVIOUS
<1> HIDE DEF S, R
<1>4. ASSUME NEW u \in Buyers PROVE Paid(R, u) = Paid(S, u)
  <2>1. \A n \in 1..Len(S) :
          Came(R, u, n) = Came(S, u, n) + IF n = 0 THEN 0 ELSE 0
    <3> SUFFICES ASSUME NEW n \in 1..Len(S)
                 PROVE  Came(R, u, n) = Came(S, u, n)
      BY <1>1, CameType
    <3> QED
      BY <1>2 DEF Came
  <2>2. \/ Len(R) = Len(S)
        \/ Len(R) = Len(S) + 1 /\ Came(R, u, Len(R)) = 0
    BY <1>3 DEF Came
  <2>3. Paid(R, u) = Paid(S, u) + IF 0 \in 1..Len(S) THEN 0 ELSE 0
    BY <1>1, <2>1, <2>2, PaidMore
  <2>4. Paid(S, u) \in Nat
    BY <1>1, AddsExist, PaidIs
  <2> QED
    BY <2>3, <2>4
<1> QED
  BY <1>4 DEF PaidIn, S, R

LEMMA SettlementPays ==
  ASSUME stash \in Seq(StashRow), NEW v, NEW balance, v.buyer \in Buyers,
         Funded(v, stash), Settlement(v.intent, v.buyer, balance)
  PROVE  PaidIn(stash') = [PaidIn(stash) EXCEPT ![v.buyer] = @ + v.credit]
<1> DEFINE S == stash
           R == stash'
           i == v.intent
           x == v.credit
<1>1. /\ S \in Seq(StashRow) /\ R \in Seq(StashRow) /\ Len(R) = Len(S)
      /\ Len(S) \in Nat /\ DOMAIN S = 1..Len(S)
  BY LenProperties DEF Settlement
<1>2. /\ i \in DOMAIN S /\ S[i].buyer = v.buyer
      /\ x = IF S[i].paid THEN 0 ELSE S[i].charge
  BY DEF Funded
<1>3. \A n \in 1..Len(S) : /\ R[n].buyer = S[n].buyer
                           /\ R[n].charge = S[n].charge
                           /\ R[n].paid = IF n = i THEN TRUE ELSE S[n].paid
  BY <1>1 DEF Settlement
<1> HIDE DEF S, R, i, x
<1>4. i \in 1..Len(S) /\ i \in Nat /\ x \in Nat
  <2>1. i \in 1..Len(S) /\ S[i] \in StashRow
    BY <1>1, <1>2
  <2>2. S[i].charge \in StorePrices
    BY <2>1 DEF StashRow
  <2>3. S[i].charge \in Nat
    BY <2>2, PriceType
  <2> QED
    BY <1>1, <1>2, <2>1, <2>3
<1>5. ASSUME NEW u \in Buyers
      PROVE  Paid(R, u) = Paid(S, u) + IF u = v.buyer THEN x ELSE 0
  <2> DEFINE y == IF u = v.buyer THEN x ELSE 0
  <2>1. y \in Nat /\ Paid(S, u) \in Nat
    BY <1>1, <1>4, AddsExist, PaidIs
  <2>2. ASSUME NEW n \in 1..Len(S)
        PROVE  Came(R, u, n) = Came(S, u, n) + IF n = i THEN y ELSE 0
    <3>1. Came(S, u, n) \in Nat
      BY <1>1, CameType
    <3>2. CASE n # i
      <4>1. /\ R[n].buyer = S[n].buyer /\ R[n].charge = S[n].charge
            /\ R[n].paid = S[n].paid
        BY <1>3, <3>2, Zenon
      <4>2. Came(R, u, n) = Came(S, u, n)
        BY <4>1, Zenon DEF Came
      <4> QED
        BY <3>1, <3>2, <4>2
    <3>3. CASE n = i
      <4>1. /\ R[n].buyer = v.buyer /\ S[n].buyer = v.buyer
            /\ R[n].charge = S[n].charge /\ R[n].paid
        <5>1. /\ R[n].buyer = S[n].buyer /\ R[n].charge = S[n].charge
              /\ R[n].paid = IF n = i THEN TRUE ELSE S[n].paid
          BY <1>3, Zenon
        <5>2. R[n].paid
          BY <3>3, <5>1, Zenon
        <5> QED
          BY <1>2, <3>3, <5>1, <5>2, Zenon
      <4>2. CASE u # v.buyer
        <5>1. Came(R, u, n) = 0 /\ Came(S, u, n) = 0
          BY <4>1, <4>2, Zenon DEF Came
        <5>2. y = 0
          BY <4>2
        <5> QED
          BY <5>1, <5>2
      <4>3. CASE u = v.buyer /\ S[i].paid
        <5>1. Came(R, u, n) = Came(S, u, n)
          BY <3>3, <4>1, <4>3, Zenon DEF Came
        <5>2. x = 0
          BY <1>2, <4>3
        <5> QED
          BY <3>1, <5>1, <5>2
      <4>4. CASE u = v.buyer /\ ~S[i].paid
        <5>1. Came(R, u, n) = S[i].charge /\ Came(S, u, n) = 0
          BY <3>3, <4>1, <4>4, Zenon DEF Came
        <5>2. y = x /\ x = S[i].charge
          BY <1>2, <4>4
        <5> QED
          BY <1>4, <3>3, <5>1, <5>2
      <4> QED
        BY <4>2, <4>3, <4>4
    <3> QED
      BY <3>2, <3>3
  <2> HIDE DEF y
  <2>3. Paid(R, u) = Paid(S, u) + IF i \in 1..Len(S) THEN y ELSE 0
    BY <1>1, <1>4, <2>1, <2>2, PaidMore
  <2> QED
    BY <1>4, <2>3 DEF y
<1>6. \A u \in Buyers : Paid(S, u) \in Nat
  BY <1>1, AddsExist, PaidIs
<1>7. PaidIn(R) = [PaidIn(S) EXCEPT ![v.buyer] = PaidIn(S)[v.buyer] + x]
  BY <1>4, <1>5, <1>6 DEF PaidIn
<1> QED
  BY <1>7 DEF S, R, x

(* The steps of the store, as steps of the machine.                        *)
Rows ==
  /\ codes \in Seq(CodeRow) /\ codes' \in Seq(CodeRow)
  /\ stash \in Seq(StashRow) /\ stash' \in Seq(StashRow)
  /\ funds \in [Buyers -> Nat] /\ funds' \in [Buyers -> Nat]

LEMMA RowsAre == StoreIInv /\ StoreIInv' => Rows
BY InvParts, InvPartsNext DEF Rows, Tables

LEMMA UnsoldPays ==
  ASSUME StoreIInv, StoreIInv', NEW p \in Clerks,
         clerk[p].at \in {"look", "claim", "debit", "commit"},
         NEW status \in {"FULFILLED", "FAILED", "EXPIRED"}, NEW sale \in Nat,
         Unsold(p, status, sale)
  PROVE  [Machine!VendingNext]_(Machine!machine)
<1> DEFINE v == clerk[p]
<1>1. /\ v \in ClerkRow /\ Sound(v, codes, stash, funds)
      /\ v.buyer \in Buyers /\ v.credit \in Nat /\ funds[v.buyer] \in Nat
  BY Buying
<1>2. codes' = codes /\ sales' = sales /\ answers' = answers
  BY DEF Unsold, stock
<1>3. Rows
  BY RowsAre
<1>4. CASE v.intent = 0
  <2>1. stash' = stash /\ funds' = funds
    BY <1>4 DEF Unsold
  <2>2. UNCHANGED Machine!machine
    BY <1>2, <2>1, Stutters
  <2> QED
    BY <2>2
<1>5. CASE v.intent # 0
  <2> DEFINE balance == funds[v.buyer] + v.credit
  <2>1. balance \in Nat /\ Settle(p, status, sale, balance)
    BY <1>1, <1>5 DEF Unsold
  <2>2. Settlement(v.intent, v.buyer, balance)
    <3> HIDE DEF balance
    <3> QED
      BY <1>5, <2>1, StashSettled
  <2>3. Funded(v, stash)
    BY <1>1, <1>5 DEF Sound
  <2>4. PaidIn(stash') = [PaidIn(stash) EXCEPT ![v.buyer] = @ + v.credit]
    <3> HIDE DEF v, balance
    <3> QED
      BY <1>1, <1>3, <2>2, <2>3, SettlementPays DEF Rows
  <2>5. funds' = [funds EXCEPT ![v.buyer] = @ + v.credit - 0]
    BY <1>1, <1>3, <2>2 DEF Rows, Settlement
  <2>6. Machine!After(v.buyer, 0)
    <3>1. Pays(v.buyer, v.credit, 0)
      BY <2>4, <2>5 DEF Pays
    <3> HIDE DEF v
    <3> QED
      BY <1>1, <3>1, Changes
  <2>7. Machine!PayIn(v.buyer)
    BY <1>2, <2>6 DEF Machine!PayIn, Answering
  <2> QED
    BY <1>1, <2>7 DEF Machine!VendingNext
<1> QED
  BY <1>4, <1>5

LEMMA IsSold ==
  ASSUME NEW A, NEW T, NEW s
  PROVE  s \in Sold(A, T) <=>
           \E u \in Buyers, k \in BuyKeys :
             A[u][k].sale # 0 /\ s = Sale(A, T, u, k)
<1>1. ASSUME NEW u \in Buyers, NEW k \in BuyKeys, A[u][k].sale # 0,
             s = Sale(A, T, u, k)
      PROVE  s \in Sold(A, T)
  <2> DEFINE r == <<u, k>>
  <2>1. /\ r \in {q \in Buyers \X BuyKeys : A[q[1]][q[2]].sale # 0}
        /\ s = Sale(A, T, r[1], r[2])
    BY <1>1
  <2> QED
    BY <2>1 DEF Sold
<1>2. ASSUME s \in Sold(A, T)
      PROVE  \E u \in Buyers, k \in BuyKeys :
               A[u][k].sale # 0 /\ s = Sale(A, T, u, k)
  <2>1. PICK r \in {q \in Buyers \X BuyKeys : A[q[1]][q[2]].sale # 0} :
          s = Sale(A, T, r[1], r[2])
    BY <1>2 DEF Sold
  <2> QED
    BY <2>1
<1> QED
  BY <1>1, <1>2

(* A sale of the machine: the request is new, its code was on the shelf.   *)
NewSale(A, B, T, R, u, k) ==
  /\ u \in Buyers /\ k \in BuyKeys /\ A[u][k].sale = 0 /\ B[u][k].sale # 0
  /\ \A w \in Buyers, j \in BuyKeys :
       w # u \/ j # k =>
         /\ B[w][j] = A[w][j]
         /\ A[w][j].sale # 0 => R[A[w][j].sale] = T[A[w][j].sale]
SoldAlso(A, B, T, R, u, k) ==
  /\ Sold(B, R) = Sold(A, T) \cup {Sale(B, R, u, k)}
  /\ Sale(B, R, u, k) \in Sold(B, R) \ Sold(A, T)
  /\ \A old \in Sold(A, T) : old.buyer # u \/ old.key # k

LEMMA SoldMore ==
  ASSUME NEW A, NEW B, NEW T, NEW R, NEW u, NEW k, NewSale(A, B, T, R, u, k)
  PROVE  SoldAlso(A, B, T, R, u, k)
<1>0. /\ u \in Buyers /\ k \in BuyKeys /\ A[u][k].sale = 0 /\ B[u][k].sale # 0
      /\ \A w \in Buyers, j \in BuyKeys :
           w # u \/ j # k =>
             /\ B[w][j] = A[w][j]
             /\ A[w][j].sale # 0 => R[A[w][j].sale] = T[A[w][j].sale]
  BY DEF NewSale
<1>1. \A old \in Sold(A, T) :
        \E w \in Buyers, j \in BuyKeys :
          A[w][j].sale # 0 /\ old = Sale(A, T, w, j)
  BY IsSold
<1>2. \A w, j : Sale(A, T, w, j).buyer = w /\ Sale(A, T, w, j).key = j
  BY DEF Sale
<1>3. \A w, j : Sale(B, R, w, j).buyer = w /\ Sale(B, R, w, j).key = j
  BY DEF Sale
<1>4. \A w \in Buyers, j \in BuyKeys :
        (w # u \/ j # k) /\ A[w][j].sale # 0 => Sale(B, R, w, j) = Sale(A, T, w, j)
  <2> SUFFICES ASSUME NEW w \in Buyers, NEW j \in BuyKeys, w # u \/ j # k,
                      A[w][j].sale # 0
               PROVE  Sale(B, R, w, j) = Sale(A, T, w, j)
    OBVIOUS
  <2>1. B[w][j] = A[w][j] /\ R[A[w][j].sale] = T[A[w][j].sale]
    BY <1>0
  <2> QED
    BY <2>1, Zenon DEF Sale
<1>5. \A old \in Sold(A, T) : old.buyer # u \/ old.key # k
  BY <1>0, <1>1, <1>2
<1>6. Sale(B, R, u, k) \in Sold(B, R)
  BY <1>0, IsSold
<1>7. Sale(B, R, u, k) \notin Sold(A, T)
  BY <1>3, <1>5
<1>8. ASSUME NEW s PROVE s \in Sold(A, T) => s \in Sold(B, R)
  <2> SUFFICES ASSUME s \in Sold(A, T) PROVE s \in Sold(B, R)
    OBVIOUS
  <2>1. PICK w \in Buyers, j \in BuyKeys :
          A[w][j].sale # 0 /\ s = Sale(A, T, w, j)
    BY <1>1
  <2>2. w # u \/ j # k
    BY <1>0, <2>1
  <2>3. s = Sale(B, R, w, j) /\ B[w][j].sale # 0
    BY <1>0, <1>4, <2>1, <2>2
  <2> QED
    BY <2>3, IsSold
<1>9. ASSUME NEW s PROVE s \in Sold(B, R) => s \in Sold(A, T) \cup {Sale(B, R, u, k)}
  <2> SUFFICES ASSUME s \in Sold(B, R)
               PROVE  s \in Sold(A, T) \cup {Sale(B, R, u, k)}
    OBVIOUS
  <2>1. PICK w \in Buyers, j \in BuyKeys :
          B[w][j].sale # 0 /\ s = Sale(B, R, w, j)
    BY IsSold
  <2>2. CASE w = u /\ j = k
    BY <2>1, <2>2
  <2>3. CASE w # u \/ j # k
    <3>1. A[w][j].sale # 0 /\ s = Sale(A, T, w, j)
      BY <1>0, <1>4, <2>1, <2>3
    <3> QED
      BY <3>1, IsSold
  <2> QED
    BY <2>2, <2>3
<1> QED
  BY <1>5, <1>6, <1>7, <1>8, <1>9 DEF SoldAlso

LEMMA DeliverSells ==
  ASSUME StoreIInv, StoreIInv', NEW p \in Clerks, Deliver(p)
  PROVE  Machine!VendingNext
<1> DEFINE v == clerk[p]
           s == Sale(answers', sales', v.buyer, v.key)
<1>1. /\ v.at = "commit" /\ v \in ClerkRow /\ Sound(v, codes, stash, funds)
      /\ v.buyer \in Buyers /\ v.key \in BuyKeys /\ v.credit \in Nat
  BY Buying DEF Deliver, Busy
<1>2. Delivery(v) /\ Rows /\ answers[v.buyer][v.key].sale = 0
  BY DeliveryTables, RowsAre DEF Deliver, Answered
<1>3. /\ Len(sales) \in Nat
      /\ \A u \in Buyers, k \in BuyKeys :
           answers[u][k].sale \in Nat /\ answers[u][k].sale <= Len(sales)
  <2>1. /\ sales \in Seq(SaleRow) /\ answers \in [Buyers -> [BuyKeys -> AnswerRow]]
        /\ Answers(answers, Len(sales), Len(codes))
    BY InvParts DEF Tables
  <2>2. ASSUME NEW u \in Buyers, NEW k \in BuyKeys
        PROVE  answers[u][k].sale \in Nat /\ answers[u][k].sale <= Len(sales)
    <3>1. answers[u][k] \in AnswerRow
      BY <2>1
    <3> QED
      BY <2>1, <3>1 DEF Answers, AnswerRow
  <2> QED
    BY <2>1, <2>2
<1>4. /\ answers'[v.buyer][v.key] = [input |-> v.input, sale |-> Len(sales) + 1,
                                     code |-> v.code]
      /\ sales'[Len(sales) + 1] = [buyer |-> v.buyer, charge |-> v.price]
      /\ \A n \in 1..Len(sales) : sales'[n] = sales[n]
      /\ \A u \in Buyers, k \in BuyKeys :
           u # v.buyer \/ k # v.key => answers'[u][k] = answers[u][k]
  BY <1>1, <1>2 DEF Delivery
<1>5. s.buyer = v.buyer /\ s.key = v.key /\ s.code = v.code /\ s.paid = v.price
  BY <1>4 DEF Sale
<1>6. /\ Sold(answers', sales') = Sold(answers, sales) \cup {s}
      /\ s \in Sold(answers', sales') \ Sold(answers, sales)
      /\ \A old \in Sold(answers, sales) : old.buyer # v.buyer \/ old.key # v.key
  <2> DEFINE A == answers
             B == answers'
             T == sales
             R == sales'
             u == v.buyer
             k == v.key
  <2>1. NewSale(A, B, T, R, u, k)
    BY <1>1, <1>2, <1>3, <1>4 DEF NewSale
  <2> HIDE DEF A, B, T, R, u, k
  <2>2. SoldAlso(A, B, T, R, u, k)
    BY <2>1, SoldMore
  <2> QED
    BY <2>2 DEF A, B, T, R, u, k, SoldAlso
<1>7. s.code \in Shelf(codes) \cup {NoCode}
  BY <1>1, <1>5 DEF Sound, HoldsCode, Shelf
<1>8. Shelf(codes') = Shelf(codes) \ {s.code}
  BY <1>2, <1>5 DEF Delivery, Shelf
<1>9. v.price \in Nat /\ v.price \in StorePrices
  BY <1>1, PriceType DEF Sound
<1>10. v.left = funds[v.buyer] + v.credit - v.price /\ funds[v.buyer] \in Nat
  BY <1>1, <1>2 DEF Sound, Rows
<1>11. Pays(v.buyer, v.credit, v.price)
  <2>1. CASE v.intent = 0
    <3>1. v.credit = 0 /\ stash' = stash /\ funds' = [funds EXCEPT ![v.buyer] = v.left]
      BY <1>1, <1>2, <2>1 DEF Sound, Delivery
    <3>2. PaidIn(stash) = [PaidIn(stash) EXCEPT ![v.buyer] = @ + 0]
      <4>1. \A u \in Buyers : Paid(stash, u) \in Nat
        BY <1>2, AddsExist, PaidIs DEF Rows
      <4> QED
        BY <1>1, <4>1 DEF PaidIn
    <3> QED
      BY <1>10, <3>1, <3>2 DEF Pays
  <2>2. CASE v.intent # 0
    <3>1. Funded(v, stash) /\ Settlement(v.intent, v.buyer, v.left)
      BY <1>1, <1>2, <2>2 DEF Sound, Delivery
    <3> DEFINE left == v.left
    <3>2. Settlement(v.intent, v.buyer, left)
      BY <3>1
    <3>3. PaidIn(stash') = [PaidIn(stash) EXCEPT ![v.buyer] = @ + v.credit]
      <4> HIDE DEF v, left
      <4> QED
        BY <1>1, <1>2, <3>1, <3>2, SettlementPays DEF Rows
    <3>4. funds' = [funds EXCEPT ![v.buyer] = v.left]
      BY <1>1, <1>2, <3>1 DEF Rows, Settlement
    <3> QED
      BY <1>10, <3>3, <3>4 DEF Pays
  <2> QED
    BY <2>1, <2>2
<1>12. Machine!After(v.buyer, v.price)
  <2> HIDE DEF v
  <2> QED
    BY <1>1, <1>9, <1>11, Changes
<1>13. Machine!Sell(s)
  <2>1. /\ Shelf(codes) = {c \in DOMAIN codes : codes[c].status = "AVAILABLE"}
        /\ Shelf(codes)' = {c \in DOMAIN codes : codes[c].status = "AVAILABLE"}'
        /\ Sold(answers, sales) = {Answering(r[1], r[2]) :
             r \in {q \in Buyers \X BuyKeys : answers[q[1]][q[2]].sale # 0}}
        /\ Sold(answers, sales)' = {Answering(r[1], r[2]) :
             r \in {q \in Buyers \X BuyKeys : answers[q[1]][q[2]].sale # 0}}'
    BY DEF Shelf, Sold, Sale, Answering
  <2>2. Machine!After(s.buyer, s.paid)
    BY <1>5, <1>12
  <2> HIDE DEF s, v
  <2> QED
    BY <1>5, <1>6, <1>7, <1>8, <2>1, <2>2 DEF Machine!Sell
<1>14. \E t \in {Answering(r[1], r[2]) :
              r \in {q \in Buyers \X BuyKeys : answers[q[1]][q[2]].sale # 0}}'
         \ {Answering(r[1], r[2]) :
              r \in {q \in Buyers \X BuyKeys : answers[q[1]][q[2]].sale # 0}} :
         Machine!Sell(t)
  <2> DEFINE X == {Answering(r[1], r[2]) :
              r \in {q \in Buyers \X BuyKeys : answers[q[1]][q[2]].sale # 0}}
  <2> HIDE DEF s
  <2>1. s \in X' \ X
    BY <1>6 DEF Sold, Sale, Answering
  <2> DEFINE Y == X' \ X
  <2>2. s \in Y
    BY <2>1
  <2> HIDE DEF Y
  <2>3. \E t \in Y : Machine!Sell(t)
    BY <1>13, <2>2, Zenon DEF Machine!Sell, Machine!After
  <2> QED
    BY <2>3 DEF Y
<1> QED
  BY <1>14, Zenon DEF Machine!VendingNext

LEMMA AddRestocks ==
  ASSUME StoreIInv, StoreIInv', NEW s \in Pools, AddCode(s)
  PROVE  Machine!Restock
<1>1. /\ codes \in Seq(CodeRow) /\ Len(codes) \in Nat
      /\ answers \in [Buyers -> [BuyKeys -> AnswerRow]]
      /\ Answers(answers, Len(sales), Len(codes))
  BY InvParts DEF Tables
<1>2. /\ DOMAIN codes' = DOMAIN codes \cup {Len(codes) + 1}
      /\ \A c \in DOMAIN codes : codes'[c] = codes[c]
      /\ codes'[Len(codes) + 1].status = "AVAILABLE"
  BY Added
<1>3. /\ funds' = funds /\ sales' = sales /\ answers' = answers /\ stash' = stash
  BY DEF AddCode, accounts
<1>4. Shelf(codes') = Shelf(codes) \cup {Len(codes) + 1}
  BY <1>2 DEF Shelf
<1>5. ASSUME NEW old \in Sold(answers, sales) PROVE old.code # Len(codes) + 1
  <2>1. PICK u \in Buyers, k \in BuyKeys : old = Sale(answers, sales, u, k)
    BY IsSold
  <2>2. old.code = answers[u][k].code
    BY <2>1 DEF Sale
  <2>3. answers[u][k] \in AnswerRow
    BY <1>1
  <2>4. answers[u][k].code \in Nat /\ answers[u][k].code <= Len(codes)
    BY <1>1, <2>3 DEF Answers, AnswerRow
  <2> QED
    BY <1>1, <2>2, <2>4
<1> QED
  BY <1>3, <1>4, <1>5, Restocks

LEMMA StepSells ==
  StoreIInv /\ StoreIInv' /\ [StoreNext]_storeVars
    => [Machine!VendingNext]_(Machine!machine)
<1> SUFFICES ASSUME StoreIInv, StoreIInv', [StoreNext]_storeVars
             PROVE  [Machine!VendingNext]_(Machine!machine)
  OBVIOUS
<1>1. ASSUME UNCHANGED <<codes, accounts>>
      PROVE  UNCHANGED Machine!machine
  BY <1>1, Stutters DEF accounts
<1>2. ASSUME UNCHANGED <<stock, accounts>>
      PROVE  UNCHANGED Machine!machine
  BY <1>1, <1>2 DEF stock
<1>3. ASSUME NEW p \in Clerks, ClerkStep(p)
      PROVE  [Machine!VendingNext]_(Machine!machine)
  <2>1. CASE TooLate(p) \/ Replay(p) \/ Refuse(p)
    <3>1. /\ clerk[p].at \in {"look", "claim", "debit", "commit"}
          /\ \E status \in {"FULFILLED", "FAILED", "EXPIRED"}, sale \in Nat :
               Unsold(p, status, sale)
      BY <2>1, EndsUnsold
    <3> QED
      BY <3>1, UnsoldPays
  <2>2. CASE RevokeCode(p) \/ DeletePool(p)
    <3>1. Shelf(codes') \subseteq Shelf(codes)
      BY <2>2, CodesStep DEF Shelf
    <3>2. /\ funds' = funds /\ sales' = sales /\ answers' = answers
          /\ stash' = stash
      BY <2>2 DEF RevokeCode, DeletePool, accounts
    <3>3. Machine!Withdraw
      BY <3>1, <3>2, Withdraws
    <3> QED
      BY <3>3 DEF Machine!VendingNext
  <2>3. CASE Deliver(p)
    BY <2>3, DeliverSells
  <2>4. CASE Look(p) \/ ClaimCode(p) \/ Debit(p)
    <3>1. UNCHANGED <<stock, accounts>>
      BY <2>4 DEF Look, ClaimCode, Debit
    <3> QED
      BY <1>2, <3>1
  <2> QED
    BY <1>3, <2>1, <2>2, <2>3, <2>4 DEF ClerkStep
<1>4. ASSUME NEW p \in Clerks,
             \/ \E u \in Buyers, k \in BuyKeys, f \in Inputs : Ask(p, u, k, f)
             \/ \E i \in DOMAIN stash : Pay(p, i) \/ Retry(p, i)
             \/ \E c \in DOMAIN codes : CheckCode(p, c)
             \/ \E s \in Pools : CheckPool(p, s)
      PROVE  UNCHANGED Machine!machine
  <2>1. UNCHANGED <<stock, accounts>>
    BY <1>4 DEF Ask, Pay, Retry, CheckCode, CheckPool
  <2> QED
    BY <1>2, <2>1
<1>5. CASE \/ \E u \in Buyers, k \in BuyKeys, f \in Inputs : Redirect(u, k, f)
           \/ \E i \in DOMAIN stash : Expire(i)
  <2>1. /\ UNCHANGED <<stock, funds, sales, answers, clerk>>
        /\ \A n \in DOMAIN stash : /\ stash'[n].buyer = stash[n].buyer
                                   /\ stash'[n].charge = stash[n].charge
                                   /\ stash'[n].paid = stash[n].paid
        /\ \/ Len(stash') = Len(stash)
           \/ Len(stash') = Len(stash) + 1 /\ ~stash'[Len(stash) + 1].paid
    BY <1>5, Stashed
  <2>2. stash \in Seq(StashRow) /\ stash' \in Seq(StashRow)
    BY RowsAre DEF Rows
  <2>3. PaidIn(stash') = PaidIn(stash)
    BY <2>1, <2>2, PaidInKept
  <2>4. /\ codes' = codes /\ funds' = funds /\ sales' = sales
        /\ answers' = answers
    BY <2>1 DEF stock
  <2>5. UNCHANGED Machine!machine
    BY <2>3, <2>4, Stutters
  <2> QED
    BY <2>5
<1>6. ASSUME NEW form, EditPackage(form)
      PROVE  UNCHANGED Machine!machine
  BY <1>1, <1>6 DEF EditPackage
<1>7. CASE \E s \in Pools : AddCode(s)
  <2>1. Machine!Restock
    BY <1>7, AddRestocks
  <2> QED
    BY <2>1 DEF Machine!VendingNext
<1>8. CASE UNCHANGED storeVars
  BY <1>2, <1>8 DEF storeVars
<1> QED
  BY <1>3, <1>4, <1>5, <1>6, <1>7, <1>8 DEF StoreNext

LEMMA InitSells == StoreInit => Machine!VendingInit
<1> SUFFICES ASSUME StoreInit PROVE Machine!VendingInit
  OBVIOUS
<1>1. /\ stash = <<>> /\ funds = [u \in Buyers |-> Opening]
      /\ answers = [u \in Buyers |-> [k \in BuyKeys |-> NoAnswer]]
  BY DEF StoreInit
<1>2. Sold(answers, sales) = {}
  <2>1. \A u \in Buyers, k \in BuyKeys : answers[u][k].sale = 0
    BY <1>1 DEF NoAnswer
  <2>2. \A s : s \notin Sold(answers, sales)
    BY <2>1, IsSold
  <2> QED
    BY <2>2
<1>3. ASSUME NEW u \in Buyers PROVE Paid(stash, u) = Opening
  <2>1. stash \in Seq(StashRow) /\ Len(stash) = 0
    BY <1>1
  <2>2. PICK g \in [0..Len(stash) -> Nat] : Adds(stash, u, g)
    BY <2>1, AddsExist
  <2>3. g[0] = Opening
    BY <2>1, <2>2 DEF Adds, Sum1
  <2> QED
    BY <2>1, <2>2, <2>3, PaidIs
<1>4. [u \in Buyers |-> PaymentsOf(u)] = PaidIn(stash)
  BY StoreInitInv, View
<1>5. funds = [u \in Buyers |-> PaymentsOf(u)]
  BY <1>1, <1>3, <1>4 DEF PaidIn
<1> QED
  BY <1>2, <1>5 DEF Machine!VendingInit, Sold, Sale, Answering

(* The store sells as the vending machine does, for any customers, keys,   *)
(* pools and jobs: whatever purchases, payments, retries and admins run at *)
(* once, a key gets one order, a code goes to one buyer and off the shelf  *)
(* with the sale, and a wallet is down by its orders and no more.          *)
THEOREM SellsOnce == StoreSpec => StoreSellsOnce
BY StoreInvariance, StepSells, InitSells, PTL
   DEF StoreSpec, StoreSellsOnce, Machine!VendingSpec
=============================================================================
