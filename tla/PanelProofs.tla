---------------------------- MODULE PanelProofs ----------------------------
(***************************************************************************)
(* The campaigns, the fractions of money, and the parts of the panel that  *)
(* MCPanel runs side by side.                                              *)
(*                                                                         *)
(* Nobody is skipped by a campaign, for any audiences, batch size and      *)
(* number of ticks at once.  The invariant says what a tick's old snapshot *)
(* is still good for: everyone before the cursor it listed was sent to and *)
(* counted, and so was, beyond it, everyone of the batch it is sending.    *)
(*                                                                         *)
(* A behaviour of the panel is one of each of its parts, so what is proved *)
(* of the store, the sessions, the support desk, the campaigns and money   *)
(* alone holds of them together.                                           *)
(***************************************************************************)
EXTENDS MCPanel, StoreProofs, SessionProofs, SupportProofs


RowsSound ==
  \A i \in DOMAIN campaigns :
     /\ \A r \in 1..campaigns[i].processed : r \in reached[i]
     /\ campaigns[i].processed <= campaigns[i].counted
     /\ campaigns[i].status = "COMPLETED" =>
          /\ \A r \in 1..campaigns[i].count : r \in reached[i]
          /\ campaigns[i].count <= campaigns[i].counted

TickSound(t, i) ==
  /\ i \in DOMAIN campaigns /\ i \in DOMAIN tick[t].from
  /\ \A r \in 1..tick[t].from[i] : r \in reached[i]
  /\ tick[t].from[i] <= campaigns[i].counted
  /\ AtCampaign(t, i) =>
       \A r \in (tick[t].from[i] + 1)..Place(t, i) : r \in reached[i]

TicksSound == \A t \in Ticks : \A i \in tick[t].todo : TickSound(t, i)

CampaignIInv == CampaignsTypeOK /\ RowsSound /\ TicksSound

(* What the types say of the parts of a row. *)
LEMMA CampaignParts ==
  ASSUME CampaignsTypeOK
  PROVE  /\ DOMAIN campaigns = 1..Len(campaigns) /\ Len(campaigns) \in Nat
         /\ DOMAIN reached = DOMAIN campaigns
         /\ \A i \in DOMAIN campaigns :
              /\ campaigns[i] \in CampaignRow /\ reached[i] \in SUBSET Nat
              /\ campaigns[i].count \in Nat /\ campaigns[i].processed \in Nat
              /\ campaigns[i].counted \in Nat
         /\ \A t \in Ticks :
              /\ tick[t] \in TickRow /\ tick[t].todo \subseteq Nat
              /\ tick[t].sent \in Nat
              /\ \A i \in DOMAIN tick[t].from : tick[t].from[i] \in Nat
<1>1. campaigns \in Seq(CampaignRow) /\ reached \in Seq(SUBSET Nat)
      /\ Len(reached) = Len(campaigns) /\ tick \in [Ticks -> TickRow]
  BY DEF CampaignsTypeOK
<1>2. /\ DOMAIN campaigns = 1..Len(campaigns) /\ Len(campaigns) \in Nat
      /\ DOMAIN reached = DOMAIN campaigns
      /\ \A i \in DOMAIN campaigns :
           campaigns[i] \in CampaignRow /\ reached[i] \in SUBSET Nat
  BY <1>1
<1>3. \A c \in CampaignRow :
        c.count \in Nat /\ c.processed \in Nat /\ c.counted \in Nat
  BY DEF CampaignRow
<1>4. \A k \in TickRow : /\ k.todo \subseteq Nat /\ k.sent \in Nat
                         /\ k.from \in Seq(Nat)
  BY DEF TickRow
<1>5. \A s \in Seq(Nat) : \A i \in DOMAIN s : s[i] \in Nat
  OBVIOUS
<1> QED
  BY <1>1, <1>2, <1>3, <1>4, <1>5

LEMMA CampaignsInitIInv == CampaignsInit => CampaignIInv
<1> SUFFICES ASSUME CampaignsInit PROVE CampaignIInv
  OBVIOUS
<1>1. NoTick \in TickRow /\ NoTick.todo = {}
  BY DEF NoTick, TickRow
<1>2. CampaignsTypeOK
  BY <1>1, CampaignBoundsAssumption DEF CampaignsInit, CampaignsTypeOK
<1>3. RowsSound /\ TicksSound
  BY <1>1 DEF CampaignsInit, RowsSound, TicksSound
<1> QED
  BY <1>2, <1>3 DEF CampaignIInv

(* A new campaign is behind no cursor and on no list. *)
LEMMA CreateKeeps ==
  ASSUME CampaignIInv, NEW n \in Audiences, CreateCampaign(n)
  PROVE  CampaignIInv'
<1> DEFINE row == [status |-> "PENDING", count |-> n,
                   processed |-> 0, counted |-> 0]
<1>1. row \in CampaignRow
  BY AudiencesAssumption DEF CampaignRow
<1>2. /\ campaigns' \in Seq(CampaignRow) /\ reached' \in Seq(SUBSET Nat)
      /\ Len(campaigns') = Len(campaigns) + 1
      /\ Len(reached') = Len(campaigns')
      /\ campaigns'[Len(campaigns) + 1] = row
      /\ \A i \in 1..Len(campaigns) :
            campaigns'[i] = campaigns[i] /\ reached'[i] = reached[i]
  BY <1>1 DEF CreateCampaign, CampaignIInv, CampaignsTypeOK
<1>3. DOMAIN campaigns = 1..Len(campaigns) /\ Len(campaigns) \in Nat
      /\ DOMAIN campaigns' = 1..(Len(campaigns) + 1)
  BY <1>2 DEF CampaignIInv, CampaignsTypeOK
<1>4. CampaignsTypeOK'
  BY <1>2 DEF CreateCampaign, CampaignIInv, CampaignsTypeOK
<1>5. RowsSound'
  <2> SUFFICES ASSUME NEW i \in DOMAIN campaigns'
               PROVE  RowsSound!(i)'
    BY DEF RowsSound
  <2> QED
    BY <1>2, <1>3 DEF CampaignIInv, RowsSound
<1>6. TicksSound'
  <2> SUFFICES ASSUME NEW t \in Ticks, NEW i \in tick[t].todo
               PROVE  TickSound(t, i)'
    BY DEF TicksSound, CreateCampaign
  <2>1. TickSound(t, i) /\ tick' = tick
    BY DEF CampaignIInv, TicksSound, CreateCampaign
  <2>2. i \in 1..Len(campaigns)
    BY <1>3, <2>1 DEF TickSound
  <2> QED
    BY <1>2, <1>3, <2>1, <2>2 DEF TickSound, AtCampaign, Place
<1> QED
  BY <1>4, <1>5, <1>6 DEF CampaignIInv

(* A tick's snapshot is of rows for which the invariant holds. *)
LEMMA ListKeeps ==
  ASSUME CampaignIInv, NEW t \in Ticks, ListCampaigns(t)
  PROVE  CampaignIInv'
<1> DEFINE new == [todo |-> Oldest, sent |-> 0,
                   from |-> [i \in DOMAIN campaigns |-> campaigns[i].processed]]
<1>1. /\ UNCHANGED <<campaigns, reached, planned, outages>>
      /\ tick' = [tick EXCEPT ![t] = new]
  BY DEF ListCampaigns
<1>2. new \in TickRow
  <2>1. Oldest \subseteq DOMAIN campaigns /\ DOMAIN campaigns \subseteq Nat
    BY CampaignParts DEF Oldest, Unfinished, CampaignIInv
  <2>2. [i \in DOMAIN campaigns |-> campaigns[i].processed] \in Seq(Nat)
    BY CampaignParts DEF CampaignIInv
  <2> QED
    BY <2>1, <2>2 DEF TickRow
<1>3. CampaignsTypeOK'
  BY <1>1, <1>2 DEF CampaignIInv, CampaignsTypeOK
<1>4. RowsSound'
  BY <1>1 DEF CampaignIInv, RowsSound
<1>5. TicksSound'
  <2> SUFFICES ASSUME NEW s \in Ticks, NEW i \in tick'[s].todo
               PROVE  TickSound(s, i)'
    BY DEF TicksSound
  <2>1. CASE s = t
    <3>1. tick'[s] = new
      BY <1>1, <2>1 DEF CampaignIInv, CampaignsTypeOK
    <3>2. i \in DOMAIN campaigns /\ campaigns[i].processed \in Nat
      BY <3>1, CampaignParts DEF Oldest, Unfinished, CampaignIInv
    <3>3. /\ tick'[s].from[i] = campaigns[i].processed
          /\ i \in DOMAIN tick'[s].from /\ tick'[s].sent = 0
      BY <3>1, <3>2
    <3> QED
      BY <1>1, <3>2, <3>3
         DEF TickSound, AtCampaign, Place, CampaignIInv, RowsSound
  <2>2. CASE s # t
    <3>1. tick'[s] = tick[s]
      BY <1>1, <2>2 DEF CampaignIInv, CampaignsTypeOK
    <3> QED
      BY <1>1, <3>1
         DEF TickSound, AtCampaign, Place, CampaignIInv, TicksSound
  <2> QED
    BY <2>1, <2>2
<1> QED
  BY <1>3, <1>4, <1>5 DEF CampaignIInv

(* A message extends what was sent of the batch by its next recipient. *)
LEMMA SendKeeps ==
  ASSUME CampaignIInv, NEW t \in Ticks, NEW c \in DOMAIN campaigns,
         SendMessage(t, c)
  PROVE  CampaignIInv'
<1>1. /\ UNCHANGED <<campaigns, planned, outages>>
      /\ reached' = [reached EXCEPT ![c] = @ \cup {Place(t, c) + 1}]
      /\ tick' = [tick EXCEPT ![t].sent = @ + 1]
      /\ AtCampaign(t, c)
  BY DEF SendMessage
<1>2. /\ campaigns \in Seq(CampaignRow)
      /\ reached \in Seq(SUBSET Nat) /\ Len(reached) = Len(campaigns)
      /\ tick \in [Ticks -> TickRow]
      /\ planned \in Nat /\ outages \in Nat
  BY DEF CampaignIInv, CampaignsTypeOK
<1>3. /\ TickSound(t, c) /\ Place(t, c) \in Nat
      /\ Place(t, c) = tick[t].from[c] + tick[t].sent
      /\ tick[t].from[c] \in Nat /\ tick[t].sent \in Nat
  <2>1. TickSound(t, c)
    BY <1>1 DEF AtCampaign, TicksSound, CampaignIInv
  <2>2. tick[t].from[c] \in Nat /\ tick[t].sent \in Nat
    BY <2>1, CampaignParts DEF TickSound, CampaignIInv
  <2> QED
    BY <2>1, <2>2 DEF Place
<1>4. /\ reached' \in Seq(SUBSET Nat) /\ Len(reached') = Len(reached)
      /\ \A i \in DOMAIN campaigns : reached[i] \subseteq reached'[i]
      /\ Place(t, c) + 1 \in reached'[c]
  <2>1. reached[c] \cup {Place(t, c) + 1} \in SUBSET Nat
        /\ c \in DOMAIN reached /\ DOMAIN reached = DOMAIN campaigns
    BY <1>2, <1>3, CampaignParts DEF CampaignIInv
  <2> QED
    BY <1>1, <1>2, <2>1
<1>5. /\ tick' \in [Ticks -> TickRow]
      /\ \A s \in Ticks : /\ tick'[s].todo = tick[s].todo
                          /\ tick'[s].from = tick[s].from
                          /\ s # t => tick'[s].sent = tick[s].sent
      /\ tick'[t].sent = tick[t].sent + 1
  <2>1. [tick[t] EXCEPT !.sent = @ + 1] \in TickRow
    <3>1. tick[t] \in TickRow /\ tick[t].sent + 1 \in Nat
      BY CampaignParts DEF CampaignIInv
    <3> QED
      BY <3>1 DEF TickRow
  <2>2. tick' = [tick EXCEPT ![t] = [tick[t] EXCEPT !.sent = @ + 1]]
    BY <1>1
  <2>3. /\ tick' \in [Ticks -> TickRow]
        /\ tick'[t] = [tick[t] EXCEPT !.sent = @ + 1]
        /\ \A s \in Ticks : s # t => tick'[s] = tick[s]
    BY <1>2, <2>1, <2>2
  <2>4. /\ tick'[t].sent = tick[t].sent + 1
        /\ tick'[t].todo = tick[t].todo /\ tick'[t].from = tick[t].from
    BY <2>3, CampaignParts DEF TickRow, CampaignIInv
  <2> QED
    BY <2>3, <2>4
<1>6. CampaignsTypeOK'
  BY <1>1, <1>2, <1>4, <1>5 DEF CampaignsTypeOK
<1>7. RowsSound'
  BY <1>1, <1>4 DEF CampaignIInv, RowsSound
<1>8. TicksSound'
  <2> SUFFICES ASSUME NEW s \in Ticks, NEW i \in tick'[s].todo
               PROVE  TickSound(s, i)'
    BY DEF TicksSound
  <2>1. TickSound(s, i) /\ i \in tick[s].todo
    BY <1>5 DEF CampaignIInv, TicksSound
  <2>2. AtCampaign(s, i)' = AtCampaign(s, i)
    BY <1>5 DEF AtCampaign
  <2>3. CASE s = t
    <3>1. ASSUME AtCampaign(s, i) PROVE i = c
      <4>1. i \in Nat /\ c \in Nat
        BY <1>1, <2>1, CampaignParts DEF AtCampaign, CampaignIInv
      <4>2. i <= c /\ c <= i
        BY <1>1, <2>1, <2>3, <3>1 DEF AtCampaign
      <4> QED
        BY <4>1, <4>2
    <3>2. /\ tick[t].from[i] \in Nat
          /\ Place(t, i) = tick[t].from[i] + tick[t].sent
          /\ Place(t, i)' = Place(t, i) + 1
      <4>1. tick[t].from[i] \in Nat /\ tick[t].sent \in Nat
        BY <2>1, <2>3, CampaignParts DEF TickSound, CampaignIInv
      <4>2. tick'[t].from[i] = tick[t].from[i]
        BY <1>5
      <4> QED
        BY <1>5, <4>1, <4>2 DEF Place
    <3>3. ASSUME AtCampaign(t, i),
                 NEW r \in (tick[t].from[i] + 1)..(Place(t, i) + 1)
          PROVE  r \in reached'[i]
      <4>1. CASE r = Place(t, i) + 1
        BY <1>4, <2>3, <3>1, <3>3, <4>1
      <4>2. CASE r # Place(t, i) + 1
        <5>1. r \in (tick[t].from[i] + 1)..Place(t, i)
          BY <1>3, <3>2, <3>3, <4>2
        <5> QED
          BY <1>4, <2>1, <2>3, <3>3, <5>1 DEF TickSound
      <4> QED
        BY <4>1, <4>2
    <3> QED
      BY <1>1, <1>4, <1>5, <2>1, <2>2, <2>3, <3>2, <3>3 DEF TickSound
  <2>4. CASE s # t
    <3>1. Place(s, i)' = Place(s, i)
      BY <1>5, <2>4 DEF Place
    <3> QED
      BY <1>1, <1>4, <1>5, <2>1, <2>2, <3>1 DEF TickSound
  <2> QED
    BY <2>3, <2>4
<1> QED
  BY <1>6, <1>7, <1>8 DEF CampaignIInv

(* The row a batch leaves. *)
LEMMA BatchRow ==
  ASSUME NEW c \in CampaignRow, NEW at \in Nat, NEW sent \in Nat
  PROVE  LET row == Advanced(c, at, sent)
         IN  /\ row \in CampaignRow
             /\ row.processed = c.processed \/ row.processed = at
             /\ row.counted = c.counted + sent /\ row.count = c.count
             /\ row.status = "COMPLETED" => sent = 0 \/ at >= row.count
<1>1. c.count \in Nat /\ c.counted \in Nat /\ c.counted + sent \in Nat
  BY DEF CampaignRow
<1>2. CASE sent = 0 \/ at >= c.count
  BY <1>1, <1>2 DEF Advanced, CampaignRow
<1>3. CASE ~(sent = 0 \/ at >= c.count)
  BY <1>1, <1>3 DEF Advanced, CampaignRow
<1> QED
  BY <1>2, <1>3

(* The row a batch leaves is as good as the snapshot and the batch are:    *)
(* the cursor may fall back, the counts and the recipients do not.         *)
LEMMA SaveKeeps ==
  ASSUME CampaignIInv, NEW t \in Ticks, NEW c \in DOMAIN campaigns,
         SaveBatch(t, c)
  PROVE  CampaignIInv'
<1> DEFINE place == Place(t, c)
           sent == tick[t].sent
           row == Advanced(campaigns[c], place, sent)
<1>1. /\ UNCHANGED <<reached, planned, outages>>
      /\ campaigns' = [campaigns EXCEPT ![c] = row]
      /\ tick' = [tick EXCEPT ![t] = [todo |-> tick[t].todo \ {c},
                                      from |-> tick[t].from, sent |-> 0]]
      /\ AtCampaign(t, c) /\ ~BatchLeft(t, c)
  BY DEF SaveBatch
<1>2. /\ campaigns \in Seq(CampaignRow)
      /\ reached \in Seq(SUBSET Nat) /\ Len(reached) = Len(campaigns)
      /\ tick \in [Ticks -> TickRow]
      /\ planned \in Nat /\ outages \in Nat
  BY DEF CampaignIInv, CampaignsTypeOK
<1>3. /\ TickSound(t, c) /\ place = tick[t].from[c] + sent
      /\ tick[t].from[c] \in Nat /\ sent \in Nat /\ place \in Nat
      /\ campaigns[c].counted \in Nat /\ campaigns[c].count \in Nat
  <2>1. TickSound(t, c)
    BY <1>1 DEF AtCampaign, TicksSound, CampaignIInv
  <2>2. tick[t].from[c] \in Nat /\ sent \in Nat
    BY <2>1, CampaignParts DEF TickSound, CampaignIInv
  <2> QED
    BY <2>1, <2>2, CampaignParts DEF Place, CampaignIInv
<1>4. /\ row \in CampaignRow
      /\ row.processed = campaigns[c].processed \/ row.processed = place
      /\ row.counted = campaigns[c].counted + sent
      /\ row.count = campaigns[c].count
      /\ row.status = "COMPLETED" => sent = 0 \/ place >= row.count
  <2>1. campaigns[c] \in CampaignRow
    BY CampaignParts DEF CampaignIInv
  <2>2. place \in Nat /\ sent \in Nat
    BY <1>3
  <2> HIDE DEF place, sent
  <2> QED
    BY <2>1, <2>2, BatchRow
<1> HIDE DEF row
<1>5. /\ campaigns' \in Seq(CampaignRow) /\ Len(campaigns') = Len(campaigns)
      /\ campaigns'[c] = row /\ DOMAIN campaigns' = DOMAIN campaigns
      /\ \A i \in DOMAIN campaigns : i # c => campaigns'[i] = campaigns[i]
  BY <1>1, <1>2, <1>4
<1>6. /\ tick' \in [Ticks -> TickRow]
      /\ tick'[t].todo = tick[t].todo \ {c}
      /\ tick'[t].from = tick[t].from /\ tick'[t].sent = 0
      /\ \A s \in Ticks : s # t => tick'[s] = tick[s]
  <2> DEFINE new == [todo |-> tick[t].todo \ {c}, from |-> tick[t].from,
                     sent |-> 0]
  <2>1. tick[t] \in TickRow
    BY <1>2
  <2>2. new \in TickRow
    BY <2>1 DEF TickRow
  <2> QED
    BY <1>1, <1>2, <2>2
<1>7. CampaignsTypeOK'
  BY <1>1, <1>2, <1>5, <1>6 DEF CampaignsTypeOK
<1>8. RowsSound'
  <2> SUFFICES ASSUME NEW i \in DOMAIN campaigns
               PROVE  RowsSound!(i)'
    BY <1>5 DEF RowsSound
  <2>1. CASE i = c
    <3>1. \A r \in 1..place : r \in reached[c]
      <4> SUFFICES ASSUME NEW r \in 1..place PROVE r \in reached[c]
        OBVIOUS
      <4>1. \/ r \in 1..tick[t].from[c]
            \/ r \in (tick[t].from[c] + 1)..Place(t, c)
        BY <1>3
      <4> QED
        BY <1>1, <1>3, <4>1 DEF TickSound
    <3>2. place <= campaigns[c].counted + sent
      BY <1>3 DEF TickSound
    <3>3. sent = 0 => place >= campaigns[c].count
      BY <1>1, <1>3, BatchAssumption DEF BatchLeft
    <3>4. /\ \A r \in 1..campaigns[c].processed : r \in reached[c]
          /\ campaigns[c].processed <= campaigns[c].counted
          /\ campaigns[c].processed \in Nat
      BY CampaignParts DEF CampaignIInv, RowsSound
    <3>5. /\ \A r \in 1..row.processed : r \in reached[c]
          /\ row.processed <= row.counted
      BY <1>3, <1>4, <3>1, <3>2, <3>4
    <3>6. row.status = "COMPLETED" =>
             /\ \A r \in 1..row.count : r \in reached[c]
             /\ row.count <= row.counted
      BY <1>3, <1>4, <3>1, <3>2, <3>3
    <3> QED
      BY <1>1, <1>5, <2>1, <3>5, <3>6
  <2>2. CASE i # c
    BY <1>1, <1>5, <2>2 DEF CampaignIInv, RowsSound
  <2> QED
    BY <2>1, <2>2
<1>9. TicksSound'
  <2> SUFFICES ASSUME NEW s \in Ticks, NEW i \in tick'[s].todo
               PROVE  TickSound(s, i)'
    BY DEF TicksSound
  <2>1. /\ TickSound(s, i) /\ i \in tick[s].todo
        /\ tick'[s].from = tick[s].from
    BY <1>6 DEF CampaignIInv, TicksSound
  <2>2. campaigns[i].counted <= campaigns'[i].counted
        /\ campaigns'[i].counted \in Nat /\ campaigns[i].counted \in Nat
        /\ tick[s].from[i] \in Nat
    <3>1. i \in DOMAIN campaigns /\ tick[s].from[i] \in Nat
      BY <2>1, CampaignParts DEF TickSound, CampaignIInv
    <3>2. campaigns[i].counted \in Nat
      BY <3>1, CampaignParts DEF CampaignIInv
    <3> QED
      BY <1>3, <1>4, <1>5, <3>1, <3>2
  <2>3. tick[s].from[i] <= campaigns'[i].counted
    BY <2>1, <2>2 DEF TickSound
  <2>4. CASE s = t
    <3>1. Place(s, i)' = tick[s].from[i]
      BY <1>6, <2>1, <2>2, <2>4 DEF Place
    <3>2. \A r \in (tick[s].from[i] + 1)..tick[s].from[i] : r \in reached[i]
      BY <2>2
    <3> QED
      BY <1>1, <1>5, <2>1, <2>3, <3>1, <3>2 DEF TickSound
  <2>5. CASE s # t
    <3>1. tick'[s] = tick[s]
      BY <1>6, <2>5
    <3> QED
      BY <1>1, <1>5, <2>1, <2>3, <3>1 DEF TickSound, AtCampaign, Place
  <2> QED
    BY <2>4, <2>5
<1> QED
  BY <1>7, <1>8, <1>9 DEF CampaignIInv

(* A crash leaves the rows and no tick. *)
LEMMA OutageKeeps ==
  ASSUME CampaignIInv, Outage
  PROVE  CampaignIInv'
<1>1. NoTick \in TickRow /\ NoTick.todo = {}
  BY DEF NoTick, TickRow
<1>2. CampaignsTypeOK'
  BY <1>1 DEF Outage, CampaignIInv, CampaignsTypeOK
<1>3. RowsSound' /\ TicksSound'
  BY <1>1 DEF Outage, CampaignIInv, RowsSound, TicksSound
<1> QED
  BY <1>2, <1>3 DEF CampaignIInv

(* The invariant holds in every behaviour of the crons. *)
THEOREM CampaignInvariance == CampaignsSpec => []CampaignIInv
<1>1. CampaignIInv /\ [CampaignsNext]_campaignVars => CampaignIInv'
  <2> SUFFICES ASSUME CampaignIInv, [CampaignsNext]_campaignVars
               PROVE  CampaignIInv'
    OBVIOUS
  <2>1. ASSUME NEW n \in Audiences, CreateCampaign(n) PROVE CampaignIInv'
    BY <2>1, CreateKeeps
  <2>2. ASSUME NEW t \in Ticks, TickStep(t) PROVE CampaignIInv'
    BY <2>2, ListKeeps, SendKeeps, SaveKeeps DEF TickStep
  <2>3. CASE Outage
    BY <2>3, OutageKeeps
  <2>4. CASE UNCHANGED campaignVars
    <3>1. CampaignsTypeOK' /\ RowsSound'
      BY <2>4 DEF campaignVars, CampaignIInv, CampaignsTypeOK, RowsSound
    <3>2. TicksSound'
      BY <2>4 DEF campaignVars, CampaignIInv, TicksSound, TickSound,
                  AtCampaign, Place
    <3> QED
      BY <3>1, <3>2 DEF CampaignIInv
  <2> QED
    BY <2>1, <2>2, <2>3, <2>4 DEF CampaignsNext
<1> QED
  BY CampaignsInitIInv, <1>1, PTL DEF CampaignsSpec

(* Nobody on a campaign's list is skipped, whatever ticks overlap or die:  *)
(* the cursor that sendSmsCampaigns and sendEmailCampaigns store never     *)
(* passes a recipient no message was sent to, nor one nobody counted.      *)
THEOREM NobodyIsSkipped == CampaignsSpec => []NobodySkipped
<1>1. CampaignIInv => NobodySkipped
  <2> SUFFICES ASSUME CampaignIInv, NEW i \in DOMAIN campaigns
               PROVE  NobodySkipped!(i)
    BY DEF NobodySkipped
  <2>1. RowsSound!(i)
    BY DEF CampaignIInv, RowsSound
  <2>2. campaigns[i].count \in Nat /\ campaigns[i].processed \in Nat
        /\ campaigns[i].counted \in Nat
    BY CampaignParts DEF CampaignIInv
  <2> QED
    BY <2>1, <2>2
<1> QED
  BY CampaignInvariance, <1>1, PTL

-----------------------------------------------------------------------------
(* Money: what rounding each column by itself does to the books.           *)

(* What a price of n thousandths leaves in the balance and not in the      *)
(* ledger: a unit if it ends in exactly half a unit.                       *)
Excess(n) == IF n % 1000 = 500 THEN 1 ELSE 0

LEMMA RoundedWhole ==
  ASSUME NEW n \in Int
  PROVE  Rounded(n, 1) = n
BY DEF Rounded

(* A number rounds to a number, and its opposite to the opposite. *)
LEMMA RoundedPrice ==
  ASSUME NEW n \in Nat
  PROVE  /\ Rounded(n, Thousand) \in Nat
         /\ Rounded(-n, Thousand) = -Rounded(n, Thousand)
BY DEF Rounded, Thousand

(* A fraction that is added is rounded the same in balance and ledger. *)
LEMMA CreditExact ==
  ASSUME NEW b \in Nat, NEW n \in Nat
  PROVE  /\ Adjusted(b, n, TenThousand) = b + Rounded(n, TenThousand)
         /\ Rounded(n, TenThousand) \in Nat
BY DEF Adjusted, Rounded, TenThousand

(* One that is taken away is not, if it is a half. *)
LEMMA DebitDrifts ==
  ASSUME NEW b \in Nat, NEW n \in Nat, b * Thousand - n >= 0
  PROVE  /\ Adjusted(b, -n, Thousand) = b - Rounded(n, Thousand) + Excess(n)
         /\ Adjusted(b, -n, Thousand) \in Nat
         /\ Excess(n) \in {0, 1}
BY DEF Adjusted, Rounded, Excess, Thousand

(* The halves that are in the books, and what a new order adds to them.    *)
Halves == {o \in DOMAIN bought : Halved(o)}

MoneyInv == MoneyTypeOK /\ DriftIsHalves /\ OrderRowsCancel

LEMMA HalvesFinite ==
  ASSUME MoneyTypeOK
  PROVE  IsFiniteSet(Halves) /\ Cardinality(Halves) \in Nat
<1>1. Len(bought) \in Nat /\ DOMAIN bought = 1..Len(bought)
  BY DEF MoneyTypeOK
<1>2. IsFiniteSet(1..Len(bought))
  BY <1>1, FS_Interval
<1>3. IsFiniteSet(Halves)
  BY <1>1, <1>2, FS_Subset DEF Halves
<1> QED
  BY <1>3, FS_CardinalityType

LEMMA SameHalves ==
  ASSUME MoneyTypeOK, DOMAIN bought' = DOMAIN bought,
         \A o \in DOMAIN bought : bought'[o].exact = bought[o].exact
  PROVE  Halves' = Halves
BY DEF Halves, Halved

LEMMA PlaceKeeps ==
  ASSUME MoneyInv, NEW rate \in Rates, NEW lot \in Lots, PlaceOrder(rate, lot)
  PROVE  MoneyInv'
<1> DEFINE n == rate * lot
           m == Len(bought) + 1
           order == [exact |-> n, charge |-> Charge1000(n),
                     status |-> "PENDING", net |-> Rounded(-n, Thousand)]
<1>1. n \in Nat
  BY MoneyAssumption
<1>2. /\ stored \in Nat /\ told \in Int /\ bookings \in Nat
      /\ bought \in Seq(Bought) /\ Len(bought) \in Nat
      /\ DOMAIN bought = 1..Len(bought)
  BY DEF MoneyInv, MoneyTypeOK
<1>3. /\ Adjust(-n, Thousand) /\ bought' = Append(bought, order)
  BY DEF PlaceOrder
<1> HIDE DEF n
<1>4. /\ stored * Thousand - n >= 0 /\ bookings' \in Nat
      /\ stored' = Adjusted(stored, -n, Thousand)
      /\ told' = told + Rounded(-n, Thousand)
  <2>1. /\ bookings > 0 /\ bookings' = bookings - 1
        /\ stored * Thousand + -n >= 0
        /\ stored' = Adjusted(stored, -n, Thousand)
        /\ told' = told + Rounded(-n, Thousand)
    BY <1>3 DEF Adjust, Book, Covers
  <2>2. stored * Thousand \in Int
    BY <1>2 DEF Thousand
  <2>3. stored * Thousand - n >= 0
    BY <1>1, <2>1, <2>2
  <2> QED
    BY <1>2, <2>1, <2>3
<1>5. /\ Rounded(n, Thousand) \in Nat
      /\ Rounded(-n, Thousand) = -Rounded(n, Thousand)
  BY <1>1, RoundedPrice
<1>6. /\ stored' = stored - Rounded(n, Thousand) + Excess(n)
      /\ stored' \in Nat /\ Excess(n) \in {0, 1}
  <2>1. stored \in Nat /\ stored * Thousand - n >= 0
    BY <1>2, <1>4
  <2>2. /\ Adjusted(stored, -n, Thousand) = stored - Rounded(n, Thousand) + Excess(n)
        /\ Adjusted(stored, -n, Thousand) \in Nat
        /\ Excess(n) \in {0, 1}
    BY <1>1, <2>1, DebitDrifts, Zenon
  <2> QED
    BY <1>4, <2>2
<1>7. order \in Bought
  BY <1>1, <1>5 DEF Bought, Charge1000
<1> HIDE DEF order
<1>8. /\ bought' \in Seq(Bought) /\ DOMAIN bought' = 1..m /\ bought'[m] = order
      /\ \A o \in DOMAIN bought : bought'[o] = bought[o]
  BY <1>2, <1>3, <1>7
<1>9. MoneyTypeOK'
  BY <1>2, <1>4, <1>5, <1>6, <1>8 DEF MoneyTypeOK
<1>10. Halves' = IF n % 1000 = 500 THEN Halves \cup {m} ELSE Halves
  <2>1. bought'[m].exact = n
    BY <1>8 DEF order
  <2>2. DOMAIN bought' = DOMAIN bought \cup {m}
    BY <1>2, <1>8
  <2>3. \A o : o \in Halves'
                  <=> o \in DOMAIN bought' /\ bought'[o].exact % 1000 = 500
    BY DEF Halves, Halved
  <2>4. \A o : o \in Halves
                  <=> o \in DOMAIN bought /\ bought[o].exact % 1000 = 500
    BY DEF Halves, Halved
  <2>5. \A o : o \in Halves' <=> o \in Halves \/ (o = m /\ n % 1000 = 500)
    BY <1>2, <1>8, <2>1, <2>2, <2>3, <2>4
  <2>6. CASE n % 1000 = 500
    <3>1. Halves' = Halves \cup {m}
      BY <2>5, <2>6
    <3> QED
      BY <2>6, <3>1
  <2>7. CASE n % 1000 # 500
    <3>1. Halves' = Halves
      BY <2>5, <2>7
    <3> QED
      BY <2>7, <3>1
  <2> QED
    BY <2>6, <2>7
<1>11. Cardinality(Halves') = Cardinality(Halves) + Excess(n)
  <2>1. m \notin Halves
    BY <1>2 DEF Halves
  <2>2. IsFiniteSet(Halves) /\ Cardinality(Halves) \in Nat
    BY HalvesFinite DEF MoneyInv
  <2>3. Cardinality(Halves \cup {m}) = Cardinality(Halves) + 1
    BY <2>1, <2>2, FS_AddElement
  <2> QED
    BY <1>10, <2>2, <2>3 DEF Excess
<1>12. DriftIsHalves'
  <2>1. stored = told + Cardinality(Halves) /\ Cardinality(Halves) \in Nat
    BY HalvesFinite DEF MoneyInv, DriftIsHalves, Halves
  <2>2. stored' = told' + Cardinality(Halves')
    <3> DEFINE c == Cardinality(Halves)
               e == Excess(n)
               w == Rounded(n, Thousand)
    <3>1. /\ stored \in Nat /\ told \in Int /\ c \in Nat /\ e \in {0, 1}
          /\ w \in Nat /\ stored = told + c
      BY <1>2, <1>5, <1>6, <2>1
    <3>2. stored' = stored - w + e /\ told' = told + -w
          /\ Cardinality(Halves') = c + e
      BY <1>4, <1>5, <1>6, <1>11
    <3> HIDE DEF c, e, w
    <3> QED
      BY <3>1, <3>2
  <2> QED
    BY <2>2 DEF DriftIsHalves, Halves
<1>13. OrderRowsCancel'
  <2>1. order.net = -order.charge /\ order.status = "PENDING"
    BY <1>5 DEF order, Charge1000
  <2> QED
    BY <1>2, <1>8, <2>1 DEF MoneyInv, OrderRowsCancel
<1> QED
  BY <1>9, <1>12, <1>13 DEF MoneyInv

(* A posting of whole units, for an order that keeps its price. *)
LEMMA WholeKeeps ==
  ASSUME MoneyInv, NEW o \in DOMAIN bought, NEW n \in Int,
         NEW status \in {"PENDING"} \cup Terminal, Adjust(n, 1),
         bought' = [bought EXCEPT ![o].status = status, ![o].net = @ + n],
         bought[o].net + n = IF status = "PENDING" THEN -bought[o].charge ELSE 0
  PROVE  MoneyInv'
<1>1. /\ stored \in Nat /\ told \in Int /\ bookings \in Nat
      /\ bought \in Seq(Bought) /\ bought[o] \in Bought
  BY DEF MoneyInv, MoneyTypeOK
<1>2. /\ stored' = stored + n /\ stored' \in Nat /\ told' = told + n
      /\ bookings' \in Nat
  <2>1. stored * 1 + n = stored + n /\ stored + n \in Int
    BY <1>1
  <2>2. Rounded(stored * 1 + n, 1) = stored + n /\ Rounded(n, 1) = n
    BY <2>1, RoundedWhole
  <2>3. /\ stored * 1 + n >= 0 /\ bookings' \in Nat
        /\ stored' = Rounded(stored * 1 + n, 1) /\ told' = told + Rounded(n, 1)
    BY <1>1 DEF Adjust, Book, Covers, Adjusted
  <2> QED
    BY <2>1, <2>2, <2>3
<1> DEFINE net == bought[o].net + n
           order == [bought[o] EXCEPT !.status = status, !.net = net]
<1>3. bought' = [bought EXCEPT ![o] = order] /\ net \in Int
  <2>1. net \in Int
    BY <1>1 DEF Bought
  <2>2. bought' = [bought EXCEPT ![o].status = status, ![o].net = net]
    OBVIOUS
  <2> HIDE DEF net
  <2>3. bought' = [bought EXCEPT ![o] = order]
    BY <2>2
  <2> QED
    BY <2>1, <2>3
<1>4. net = IF status = "PENDING" THEN -bought[o].charge ELSE 0
  OBVIOUS
<1> HIDE DEF net
<1>5. /\ order \in Bought /\ order.exact = bought[o].exact
      /\ order.charge = bought[o].charge
      /\ order.status = status /\ order.net = net
  BY <1>1, <1>3 DEF Bought
<1> HIDE DEF order
<1>a. /\ bought' \in Seq(Bought) /\ DOMAIN bought' = DOMAIN bought
      /\ \A p \in DOMAIN bought : bought'[p] = IF p = o THEN order ELSE bought[p]
  <2>1. o \in 1..Len(bought) /\ DOMAIN bought = 1..Len(bought)
    BY <1>1
  <2>2. /\ bought' \in Seq(Bought) /\ Len(bought') = Len(bought)
        /\ \A p \in 1..Len(bought) :
             bought'[p] = IF p = o THEN order ELSE bought[p]
    <3> DEFINE list == [bought EXCEPT ![o] = order]
    <3>1. bought \in Seq(Bought) /\ order \in Bought
      BY <1>1, <1>5
    <3>2. /\ list \in Seq(Bought) /\ Len(list) = Len(bought)
          /\ \A p \in 1..Len(bought) : list[p] = IF p = o THEN order ELSE bought[p]
      BY <2>1, <3>1, ExceptSeq
    <3> QED
      BY <1>3, <3>2
  <2> QED
    BY <2>1, <2>2
<1>6. MoneyTypeOK'
  BY <1>1, <1>2, <1>a DEF MoneyTypeOK
<1>7. Halves' = Halves
  BY <1>5, <1>a, SameHalves DEF MoneyInv
<1>8. DriftIsHalves'
  <2>1. stored = told + Cardinality(Halves) /\ Cardinality(Halves) \in Nat
    BY HalvesFinite DEF MoneyInv, DriftIsHalves, Halves
  <2>2. stored' = told' + Cardinality(Halves')
    BY <1>1, <1>2, <1>7, <2>1
  <2> QED
    BY <2>2 DEF DriftIsHalves, Halves
<1>9. OrderRowsCancel'
  BY <1>4, <1>5, <1>a DEF MoneyInv, OrderRowsCancel
<1> QED
  BY <1>6, <1>8, <1>9 DEF MoneyInv

LEMMA RefundKeeps ==
  ASSUME MoneyInv, NEW o \in DOMAIN bought, NEW status \in Terminal,
         RefundOrder(o, status)
  PROVE  MoneyInv'
<1> DEFINE n == bought[o].charge
<1>1. n \in Nat /\ bought[o].net = -n
  <2>1. bought[o] \in Bought
    BY DEF MoneyInv, MoneyTypeOK
  <2> QED
    BY <2>1 DEF Bought, MoneyInv, OrderRowsCancel, RefundOrder
<1>2. status # "PENDING" /\ status \in {"PENDING"} \cup Terminal
  BY DEF Terminal
<1>3. bought[o].net + n = 0 /\ n \in Int
  BY <1>1
<1>4. /\ Adjust(n, 1)
      /\ bought' = [bought EXCEPT ![o].status = status, ![o].net = @ + n]
  BY DEF RefundOrder
<1> QED
  BY <1>2, <1>3, <1>4, WholeKeeps

LEMMA RechargeKeeps ==
  ASSUME MoneyInv, NEW o \in DOMAIN bought, RechargeOrder(o)
  PROVE  MoneyInv'
<1> DEFINE n == -bought[o].charge
<1>1. /\ bought[o] \in Bought /\ bought \in Seq(Bought)
      /\ bought[o].net = 0
  BY DEF MoneyInv, MoneyTypeOK, OrderRowsCancel, RechargeOrder
<1>2. n \in Int /\ bought[o].net + n = n
      /\ bought[o].net - bought[o].charge = bought[o].net + n
  BY <1>1 DEF Bought
<1>3. bought' = [bought EXCEPT ![o].status = "PENDING", ![o].net = @ + n]
  BY <1>1, <1>2 DEF RechargeOrder
<1> QED
  BY <1>2, <1>3, WholeKeeps DEF RechargeOrder

LEMMA ApproveKeeps ==
  ASSUME MoneyInv, NEW amount \in TopUps, NEW percent \in Percents,
         ApproveDeposit(amount, percent)
  PROVE  MoneyInv'
<1> DEFINE bonus == amount * percent
<1>1. amount \in Nat /\ bonus \in Nat
  BY MoneyAssumption
<1>2. /\ stored \in Nat /\ told \in Int /\ bookings \in Nat
      /\ bought \in Seq(Bought) /\ bought' = bought
  BY DEF MoneyInv, MoneyTypeOK, ApproveDeposit
<1>3. /\ stored' = Adjusted(stored + amount, bonus, TenThousand)
      /\ told' = told + amount + Rounded(bonus, TenThousand)
      /\ bookings' \in Nat
  BY <1>2 DEF ApproveDeposit, Book
<1> HIDE DEF bonus
<1>4. /\ stored' = stored + amount + Rounded(bonus, TenThousand)
      /\ Rounded(bonus, TenThousand) \in Nat
  <2> DEFINE credited == stored + amount
  <2>1. credited \in Nat /\ stored' = Adjusted(credited, bonus, TenThousand)
    BY <1>1, <1>2, <1>3
  <2> HIDE DEF credited
  <2>2. /\ Adjusted(credited, bonus, TenThousand) = credited + Rounded(bonus, TenThousand)
        /\ Rounded(bonus, TenThousand) \in Nat
    BY <1>1, <2>1, CreditExact, Zenon
  <2> QED
    BY <1>1, <1>2, <2>1, <2>2 DEF credited
<1>5. MoneyTypeOK'
  BY <1>1, <1>2, <1>3, <1>4 DEF MoneyTypeOK
<1>6. Halves' = Halves
  BY <1>2, SameHalves DEF MoneyInv
<1>7. DriftIsHalves'
  <2>1. stored = told + Cardinality(Halves) /\ Cardinality(Halves) \in Nat
    BY HalvesFinite DEF MoneyInv, DriftIsHalves, Halves
  <2>2. stored' = told' + Cardinality(Halves')
    BY <1>1, <1>2, <1>3, <1>4, <1>6, <2>1
  <2> QED
    BY <2>2 DEF DriftIsHalves, Halves
<1>8. OrderRowsCancel'
  BY <1>2 DEF MoneyInv, OrderRowsCancel
<1> QED
  BY <1>5, <1>7, <1>8 DEF MoneyInv

(* Types, drift and cancelled rows are inductive together, for any prices, *)
(* quantities, deposits and percentages.                                   *)
THEOREM MoneyInvariance == MoneySpec => []MoneyInv
<1>1. MoneyInit => MoneyInv
  <2> SUFFICES ASSUME MoneyInit PROVE MoneyInv
    OBVIOUS
  <2>1. MoneyTypeOK
    BY MoneyAssumption DEF MoneyInit, MoneyTypeOK
  <2>2. {o \in DOMAIN bought : Halved(o)} = {}
    BY DEF MoneyInit
  <2>3. DriftIsHalves
    BY <2>2, FS_EmptySet DEF MoneyInit, DriftIsHalves
  <2> QED
    BY <2>1, <2>3 DEF MoneyInv, OrderRowsCancel, MoneyInit
<1>2. MoneyInv /\ [MoneyNext]_money => MoneyInv'
  <2> SUFFICES ASSUME MoneyInv, [MoneyNext]_money PROVE MoneyInv'
    OBVIOUS
  <2>1. ASSUME NEW rate \in Rates, NEW lot \in Lots, PlaceOrder(rate, lot)
        PROVE  MoneyInv'
    BY <2>1, PlaceKeeps
  <2>2. ASSUME NEW o \in DOMAIN bought, RechargeOrder(o) PROVE MoneyInv'
    BY <2>2, RechargeKeeps
  <2>3. ASSUME NEW o \in DOMAIN bought, NEW status \in Terminal,
               RefundOrder(o, status)
        PROVE  MoneyInv'
    BY <2>3, RefundKeeps
  <2>4. ASSUME NEW amount \in TopUps, NEW percent \in Percents,
               ApproveDeposit(amount, percent)
        PROVE  MoneyInv'
    BY <2>4, ApproveKeeps
  <2>5. CASE UNCHANGED money
    BY <2>5 DEF money, MoneyInv, MoneyTypeOK, DriftIsHalves, OrderRowsCancel,
                Halved
  <2> QED
    BY <2>1, <2>2, <2>3, <2>4, <2>5 DEF MoneyNext
<1> QED
  BY <1>1, <1>2, PTL DEF MoneySpec

(* The balance differs from its ledger by one unit per order whose price   *)
(* ended in half a unit and by nothing else, and the rows of an order      *)
(* cancel with its refund.                                                 *)
THEOREM RoundingAccounted == MoneySpec => []FractionsAccounted
BY MoneyInvariance, PTL DEF MoneyInv, FractionsAccounted

-----------------------------------------------------------------------------
(* The panel.  Each of its steps is one of a part, and leaves the tables   *)
(* of the other parts alone.                                               *)

LEMMA PartsBegin ==
  PanelInit => /\ StoreInit /\ SessionsInit /\ SupportInit /\ CampaignsInit
               /\ MoneyInit
BY DEF PanelInit

LEMMA PartsStep ==
  ASSUME [PanelNext]_allVars
  PROVE  /\ [StoreNext]_storeVars /\ [SessionsNext]_sessionVars
         /\ [SupportNext]_supportVars /\ [CampaignsNext]_campaignVars
         /\ [MoneyNext]_money
<1>1. CASE UNCHANGED allVars
  BY <1>1 DEF allVars, panelVars
<1>2. CASE PanelNext
  BY <1>2 DEF PanelNext, StorePart, SessionsPart, SupportPart, CampaignsPart,
              MoneyPart
<1> QED
  BY <1>1, <1>2

(* The panel runs its parts: whatever was shown of one of them alone, a    *)
(* sale, a session, a refill or a campaign does in the panel too.          *)
THEOREM PartsRun ==
  PanelSpec => StoreFairSpec /\ SessionsSpec /\ SupportFairSpec
               /\ CampaignsFairSpec /\ MoneySpec
BY PartsBegin, PartsStep, PTL
   DEF PanelSpec, StoreFairSpec, StoreSpec, SessionsSpec, SupportFairSpec,
       SupportSpec, CampaignsFairSpec, CampaignsSpec, MoneySpec

(* Every part keeps the shape of its rows, requests and crons, for any     *)
(* customers, pools, tabs, orders, tickets and audiences.                  *)
THEOREM PanelTypesKept == PanelSpec => []PanelTypeOK
<1>1. SessionIInv => SessionsTypeOK
  BY DEF SessionIInv
<1>2. CampaignIInv => CampaignsTypeOK
  BY DEF CampaignIInv
<1>3. MoneyInv => MoneyTypeOK
  BY DEF MoneyInv
<1> QED
  BY <1>1, <1>2, <1>3, PartsRun, StoreTypes, SessionInvariance, TypeCorrect,
     CampaignInvariance, MoneyInvariance, PTL
     DEF PanelTypeOK, StoreFairSpec, SupportFairSpec, CampaignsFairSpec

(* And every part keeps its promise: a code is sold once, a refresh token  *)
(* is worth one other, a reset ends the sessions before it, tabs of one    *)
(* browser stay signed in, an order has one open refill, the audit log     *)
(* tells what refills there are, no recipient is skipped, and what         *)
(* rounding does to the books is known to the unit.                        *)
THEOREM PanelIsSafe ==
  PanelSpec =>
    /\ StoreSellsOnce
    /\ [](ExchangedOnce /\ RevokedTogether /\ TabsStaySignedIn)
    /\ [](OneOpenRefill /\ AuditTellsRefills)
    /\ []NobodySkipped /\ []FractionsAccounted
BY PartsRun, SellsOnce, RefreshTokensExchangedOnce, ResetsEndSessions,
   TabsShareOneSession, OneRefillAtATime, AuditTrue, NobodyIsSkipped,
   RoundingAccounted, PTL
   DEF StoreFairSpec, SupportFairSpec, CampaignsFairSpec
=============================================================================
