------------------------- MODULE SubscriptionService -------------------------
(***************************************************************************)
(* What the near-RT RIC's API promises of subscriptions (near_ric_api.h):  *)
(* report_service_near_ric_api makes a new one, which becomes active once, *)
(* and rm_report_service_near_ric_api ends one that is active, for good.   *)
(***************************************************************************)
CONSTANT Ids       \* ids of requests

VARIABLES
  active,   \* subscriptions whose indications the RIC's iApps get
  ended     \* subscriptions that were active and have been removed

serviceVars == <<active, ended>>

ServiceInit == active = {} /\ ended = {}

Confirm(id) ==
  /\ id \notin active \cup ended
  /\ active' = active \cup {id}
  /\ UNCHANGED ended

Remove(id) ==
  /\ id \in active
  /\ active' = active \ {id}
  /\ ended' = ended \cup {id}

ServiceNext == \E id \in Ids : Confirm(id) \/ Remove(id)

ServiceSpec == ServiceInit /\ [][ServiceNext]_serviceVars

=============================================================================
