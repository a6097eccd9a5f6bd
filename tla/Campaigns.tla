------------------------------ MODULE Campaigns ------------------------------
(***************************************************************************)
(* Mass mailings: createCampaign of smsCampaign.service.ts and             *)
(* emailCampaign.service.ts, and the crons sendSmsCampaigns.ts and         *)
(* sendEmailCampaigns.ts, which are the same but for what they send.       *)
(*                                                                         *)
(* A tick lists a few unfinished campaigns, sends one batch of each and    *)
(* stores how far it came.  node-cron starts a tick every minute whether   *)
(* or not the last one is done, so ticks overlap, and each works on the    *)
(* rows as it listed them.  The process may die between any two messages.  *)
(***************************************************************************)
EXTENDS Naturals, Sequences, FiniteSets

CONSTANTS Ticks,         \* ticks that may run at once
          BatchSize,     \* BATCH_SIZE
          PerTick,       \* MAX_CAMPAIGNS_PER_TICK
          Audiences,     \* numbers of recipients of a campaign
          MaxCampaigns, MaxOutages   \* bounds (model checking)

ASSUME BatchAssumption == BatchSize \in Nat \ {0} /\ PerTick \in Nat \ {0}
ASSUME AudiencesAssumption == Audiences \subseteq Nat \ {0}
ASSUME CampaignBoundsAssumption == MaxCampaigns \in Nat /\ MaxOutages \in Nat

VARIABLES
  campaigns,   \* the campaign rows, oldest first
  reached,     \* history: the recipients of each campaign a message was sent to
  tick,        \* the ticks under way
  planned,     \* campaigns the admins will still create
  outages      \* crashes so far

campaignVars == <<campaigns, reached, tick, planned, outages>>

NoTick == [todo |-> {}, from |-> <<>>, sent |-> 0]

CampaignsInit ==
  /\ campaigns = <<>>
  /\ reached = <<>>
  /\ tick = [t \in Ticks |-> NoTick]
  /\ planned \in {0, MaxCampaigns}
  /\ outages = 0

-----------------------------------------------------------------------------

(* createCampaign: an audience nobody is in is refused. *)
CreateCampaign(n) ==
  /\ planned > 0
  /\ planned' = planned - 1
  /\ campaigns' = Append(campaigns, [status |-> "PENDING", count |-> n,
                                     processed |-> 0, counted |-> 0])
  /\ reached' = Append(reached, {})
  /\ UNCHANGED <<tick, outages>>

(* Mutant: only campaigns that have not begun are listed. *)
NotBegun ==
  {i \in DOMAIN campaigns : campaigns[i].status = "PENDING"}
Unfinished ==
  {i \in DOMAIN campaigns : campaigns[i].status \in {"PENDING", "SENDING"}}

(* The oldest unfinished campaigns, PerTick of them. *)
Oldest ==
  {i \in Unfinished : Cardinality({j \in Unfinished : j < i}) < PerTick}

(* The query of a tick, and its snapshot of the cursors. *)
ListCampaigns(t) ==
  /\ tick[t].todo = {} /\ Unfinished # {}
  /\ tick' = [tick EXCEPT ![t] =
        [todo |-> Oldest, sent |-> 0,
         from |-> [i \in DOMAIN campaigns |-> campaigns[i].processed]]]
  /\ UNCHANGED <<campaigns, reached, planned, outages>>

(* The tick is at the oldest campaign left on its list. *)
AtCampaign(t, i) ==
  i \in tick[t].todo /\ \A j \in tick[t].todo : i <= j

(* The cursor before the next message of t's batch to campaign i. *)
Place(t, i) == tick[t].from[i] + tick[t].sent

(* The batch is a slice of the recipients, which ends where they do. *)
BatchLeft(t, i) == tick[t].sent < BatchSize /\ Place(t, i) < campaigns[i].count

(* sendSms or sendMail for one recipient; a failure counts and is logged. *)
SendMessage(t, i) ==
  /\ AtCampaign(t, i) /\ BatchLeft(t, i)
  /\ reached' = [reached EXCEPT ![i] = @ \cup {Place(t, i) + 1}]
  /\ tick' = [tick EXCEPT ![t].sent = @ + 1]
  /\ UNCHANGED <<campaigns, planned, outages>>

(* Mutant: the cursor is incremented as the counts are. *)
AdvancedByIncrement(c, at, sent) ==
  [c EXCEPT !.processed = @ + sent, !.counted = @ + sent,
            !.status = IF sent = 0 \/ c.processed + sent >= c.count
                       THEN "COMPLETED" ELSE "SENDING"]
(* The row after the batch: the cursor is written as the tick computed it, *)
(* successCount and failedCount, here their sum, are incremented.  A batch *)
(* of nobody closes the campaign and writes nothing else.                  *)
Advanced(c, at, sent) ==
  [status |-> IF sent = 0 \/ at >= c.count THEN "COMPLETED" ELSE "SENDING",
   count |-> c.count, processed |-> IF sent = 0 THEN c.processed ELSE at,
   counted |-> c.counted + sent]

SaveBatch(t, i) ==
  /\ AtCampaign(t, i) /\ ~BatchLeft(t, i)
  /\ campaigns' = [campaigns EXCEPT
        ![i] = Advanced(@, Place(t, i), tick[t].sent)]
  /\ tick' = [tick EXCEPT ![t] = [todo |-> tick[t].todo \ {i},
                                   from |-> tick[t].from, sent |-> 0]]
  /\ UNCHANGED <<reached, planned, outages>>

(* The process dies and its ticks with it. *)
Outage ==
  /\ outages < MaxOutages
  /\ \E t \in Ticks : tick[t].todo # {}
  /\ tick' = [t \in Ticks |-> NoTick]
  /\ outages' = outages + 1
  /\ UNCHANGED <<campaigns, reached, planned>>

-----------------------------------------------------------------------------

TickStep(t) ==
  \/ ListCampaigns(t)
  \/ \E i \in DOMAIN campaigns : SendMessage(t, i) \/ SaveBatch(t, i)

CampaignsNext ==
  \/ \E n \in Audiences : CreateCampaign(n)
  \/ \E t \in Ticks : TickStep(t)
  \/ Outage

CampaignsSpec == CampaignsInit /\ [][CampaignsNext]_campaignVars

(* node-cron starts ticks for ever, and a tick goes on until it ends. *)
CampaignsFairness == \A t \in Ticks : WF_campaignVars(TickStep(t))

CampaignsFairSpec == CampaignsSpec /\ CampaignsFairness

-----------------------------------------------------------------------------
(* Correctness.                                                            *)

CampaignRow ==
  [status : {"PENDING", "SENDING", "COMPLETED"}, count : Nat,
   processed : Nat, counted : Nat]

TickRow == [todo : SUBSET Nat, from : Seq(Nat), sent : Nat]

(* The shape of the state. *)
CampaignsTypeOK ==
  /\ campaigns \in Seq(CampaignRow)
  /\ reached \in Seq(SUBSET Nat) /\ Len(reached) = Len(campaigns)
  /\ tick \in [Ticks -> TickRow]
  /\ planned \in Nat /\ outages \in Nat

(* Nobody is skipped: whatever ticks overlapped or died, everyone before   *)
(* the cursor was sent to and counted, and everyone was when the campaign  *)
(* is reported as completed.                                               *)
NobodySkipped ==
  \A i \in DOMAIN campaigns :
     LET c == campaigns[i]
     IN  /\ 1..c.processed \subseteq reached[i]
         /\ c.processed <= c.counted
         /\ c.status = "COMPLETED" =>
              1..c.count \subseteq reached[i] /\ c.count <= c.counted

(* A tick that listed a campaign before another finished it writes its old *)
(* cursor over the new one and reopens it.  This cannot go on for ever:    *)
(* every campaign is completed and stays so, behind whichever others.      *)
CampaignsComplete ==
  <>[](\A i \in DOMAIN campaigns : campaigns[i].status = "COMPLETED")
=============================================================================
