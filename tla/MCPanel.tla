------------------------------ MODULE MCPanel ------------------------------
(***************************************************************************)
(* The parts of the panel that are smaller than the ways of money, checked *)
(* in one run: the store, the sessions, refills and tickets, the           *)
(* campaigns, and what rounding does to a wallet.  No two of them share a  *)
(* table, a lock or a call (but for the wallet, of which Money has the     *)
(* fractions and the store the rest), so interleaving two would show       *)
(* nothing that each does not show alone: a behaviour spends its budget on *)
(* one of them.                                                            *)
(***************************************************************************)
EXTENDS Store, Sessions, Support, Campaigns, Money

VARIABLE part   \* the part this behaviour is about

panelVars == <<storeVars, sessionVars, supportVars, campaignVars, money>>
allVars == <<panelVars, part>>

OnlyStart == CHOOSE p \in StorePrices : \A q \in StorePrices : p <= q

PanelInit ==
  /\ part \in {"store", "sessions", "support", "campaigns", "money"}
  /\ StoreInit /\ SessionsInit /\ SupportInit /\ CampaignsInit
  /\ MoneyInit
  /\ errands # 0 <=> part = "store"
  /\ visits # 0 <=> part = "sessions"
  /\ calls # 0 <=> part = "support"
  /\ planned # 0 <=> part = "campaigns"
  /\ bookings # 0 <=> part = "money"
  /\ part # "store" => pack.price = OnlyStart /\ pack.pools = {}

StorePart ==
  StoreNext /\ UNCHANGED <<sessionVars, supportVars, campaignVars, money>>
SessionsPart ==
  SessionsNext /\ UNCHANGED <<storeVars, supportVars, campaignVars, money>>
SupportPart ==
  SupportNext /\ UNCHANGED <<storeVars, sessionVars, campaignVars, money>>
CampaignsPart ==
  CampaignsNext /\ UNCHANGED <<storeVars, sessionVars, supportVars, money>>
MoneyPart ==
  MoneyNext /\ UNCHANGED <<storeVars, sessionVars, supportVars, campaignVars>>

PanelNext ==
  /\ \/ StorePart \/ SessionsPart \/ SupportPart \/ CampaignsPart
     \/ MoneyPart
  /\ UNCHANGED part

PanelSpec ==
  /\ PanelInit /\ [][PanelNext]_allVars
  /\ StoreFairness /\ SupportFairness /\ CampaignsFairness

PanelTypeOK ==
  /\ StoreTypeOK /\ SessionsTypeOK /\ SupportTypeOK /\ CampaignsTypeOK
  /\ MoneyTypeOK

-----------------------------------------------------------------------------
(* Values.                                                                 *)

(* Prices of 1.2345 and 0.0002 per thousand, which come to 1234.5, 3086.25, *)
(* 0.2 and 0.5 units, and a bonus of 3.33 %, of which there are 166.5.      *)
MCRates == {12345, 2}
MCLots == {100, 250}
MCTopUps == {5000}
MCPercents == {0, 333}

MCSanitized == [f \in Inputs |-> "name"]

CONSTANTS desktop, phone   \* browsers
CONSTANT onPhone           \* the phone's tab
MCBrowserOf == [t \in Tabs |-> IF t = onPhone THEN phone ELSE desktop]
=============================================================================
