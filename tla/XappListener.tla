---------------------------- MODULE XappListener ----------------------------
(***************************************************************************)
(* The nng iApp of the near-RT RIC (ric/iApps/nng): xApps register with    *)
(* the ping server, keep their registration alive with pings, and send     *)
(* requests to the message server; a timer thread drops the xApps that     *)
(* have gone silent.  The three threads share the registry `reg' under     *)
(* one mutex, so each handler is one step.                                 *)
(*                                                                         *)
(* The xApps are not part of the repository: they are modelled as clients  *)
(* of the two nng request sockets, which send a request again when no      *)
(* answer comes, may crash at any time, and talk as req_reply.c expects.   *)
(***************************************************************************)
EXTENDS RegistryMachine

CONSTANTS
  Xapps,        \* the xApps
  MaxBox,       \* bound on the requests queued at one server
  MaxSilence,   \* bound on the history variable `silence'
  NoXapp        \* owner of an id that was not handed out yet

ASSUME XappValuesAssumption == Values = BOOLEAN
ASSUME XappBoundsAssumption == MaxBox \in Nat /\ MaxSilence \in Nat \ {0}
ASSUME NoXappAssumption == NoXapp \notin Xapps
ASSUME KeysSuffice == MaxKeyId < KeySpace

\* `reg' of RegistryMachine is the registry of xapp_act_t: the value of an id is
\* `active'.  MaxKeyId bounds the registrations.
VARIABLES
  box,        \* box[s]: requests server s has received and not handled
  xapp,       \* per xApp: what it waits for and the id it knows
  silence,    \* history: expirations since the last sign of life, per id
  owner       \* history: the xApp whose INIT message made the id

listenerVars == <<reg, box, xapp, silence, owner>>

Servers == {"ping", "msg"}
Keys == 1..MaxKeyId
XappId == 0..MaxKeyId     \* 0: none yet ("Reserved value" in find_reg)

XappState ==
  [pc : {"start", "INIT", "up", "PING", "REQUEST", "crashed"}, id : XappId]

Request == [from : Xapps, type : {"INIT", "PING", "REQUEST"}, id : XappId]

ListenerTypeOK ==
  /\ reg.arr \in Seq(Bucket)
  /\ reg.sz \in Nat /\ reg.cap \in Nat /\ reg.key_id \in 1..MaxKeyId
  /\ box \in [Servers -> Seq(Request)]
  /\ xapp \in [Xapps -> XappState]
  /\ silence \in [Keys -> 0..MaxSilence]
  /\ owner \in [Keys -> Xapps \cup {NoXapp}]

ListenerInit ==
  /\ reg = assoc_reg_init
  /\ box = [s \in Servers |-> << >>]
  /\ xapp = [x \in Xapps |-> [pc |-> "start", id |-> 0]]
  /\ silence = [k \in Keys |-> 0]
  /\ owner = [k \in Keys |-> NoXapp]

Registered(k) == \E i \in Live(reg.arr) : reg.arr[i].key = k

-----------------------------------------------------------------------------
(* The xApps (external) *)

ServerOf(type) == IF type = "REQUEST" THEN "msg" ELSE "ping"

Post(x, type) ==
  /\ Len(box[ServerOf(type)]) < MaxBox
  /\ box' = [box EXCEPT ![ServerOf(type)] =
               Append(@, [from |-> x, type |-> type, id |-> xapp[x].id])]

\* The xApp sends a new request; a REQ socket has one request open at a time.
XappSend(x, type) ==
  /\ xapp[x].pc = IF type = "INIT" THEN "start" ELSE "up"
  /\ xapp' = [xapp EXCEPT ![x].pc = type]
  /\ Post(x, type)
  /\ UNCHANGED <<reg, silence, owner>>

\* The REQ socket sends the open request again.
XappResend(x) ==
  /\ xapp[x].pc \in {"INIT", "PING", "REQUEST"}
  /\ Post(x, xapp[x].pc)
  /\ UNCHANGED <<reg, xapp, silence, owner>>

XappCrash(x) ==
  /\ xapp[x].pc # "crashed"
  /\ xapp' = [xapp EXCEPT ![x].pc = "crashed"]
  /\ UNCHANGED <<reg, box, silence, owner>>

\* The answer to a request of type `type' reaches x, if x still waits for one.
Answer(x, type, next, id) ==
  xapp' = IF xapp[x].pc = type
          THEN [xapp EXCEPT ![x] = [pc |-> next, id |-> id]]
          ELSE xapp

-----------------------------------------------------------------------------
(* Server threads *)

Receive(s, type) ==
  /\ box[s] # << >>
  /\ Head(box[s]).type = type
  /\ box' = [box EXCEPT ![s] = Tail(@)]

\* Mutant of GenerateId: a new xApp starts out inactive.
GenerateIdInactive ==
  LET x == Head(box["ping"]).from IN
  /\ Receive("ping", "INIT")
  /\ reg.key_id < MaxKeyId
  /\ reg' = assoc_reg_push_back(reg, FALSE)
  /\ owner' = [owner EXCEPT ![reg.key_id] = x]
  /\ Answer(x, "INIT", "up", reg.key_id)
  /\ UNCHANGED silence

\* XAPP_MSG_INIT: generate_id, and the answer with the id.
GenerateId ==
  LET x == Head(box["ping"]).from IN
  /\ Receive("ping", "INIT")
  /\ reg.key_id < MaxKeyId
  /\ reg' = assoc_reg_push_back(reg, TRUE)
  /\ owner' = [owner EXCEPT ![reg.key_id] = x]
  /\ Answer(x, "INIT", "up", reg.key_id)
  /\ UNCHANGED silence

\* XAPP_MSG_KEEP_ALIVE: keep_alive_ping.  A known id is marked active and gets
\* its PONG; an unknown one is ignored and gets no answer.
KeepAlivePing ==
  LET m == Head(box["ping"])
      it == find_reg(reg, m.id)
  IN
  /\ Receive("ping", "PING")
  /\ \/ /\ reg.sz # 0
        /\ it # assoc_reg_end(reg)
        /\ reg' = assoc_reg_value_set(reg, it, TRUE)
        /\ silence' = [silence EXCEPT ![m.id] = 0]
        /\ Answer(m.from, "PING", "up", m.id)
     \/ /\ reg.sz = 0 \/ it = assoc_reg_end(reg)
        /\ UNCHANGED <<reg, silence, xapp>>
  /\ UNCHANGED owner

\* XAPP_MSG_REQUEST: request_fun.  ANSWER_OK for a known id, which does not
\* count as a sign of life; UNKNOWN_ID otherwise, and the xApp starts over.
RequestFun ==
  LET m == Head(box["msg"])
      known == find_reg(reg, m.id) # assoc_reg_end(reg)
  IN
  /\ Receive("msg", "REQUEST")
  /\ \/ known /\ Answer(m.from, "REQUEST", "up", m.id)
     \/ ~known /\ Answer(m.from, "REQUEST", "start", 0)
  /\ UNCHANGED <<reg, silence, owner>>

\* History: one more expiration for every registered id.
CountSilence ==
  silence' = [k \in Keys |-> IF Registered(k) /\ silence[k] < MaxSilence
                              THEN silence[k] + 1 ELSE silence[k]]

\* Mutant of KeepAliveTimerExpired: the xApps that stay are not marked.
ExpiredNeverMarks ==
  /\ reg' = remove_if_range_reg(reg, {FALSE})
  /\ CountSilence
  /\ UNCHANGED <<box, xapp, owner>>

\* keep_alive_timer_expired: the inactive xApps are removed, the others marked
\* inactive until their next ping.
KeepAliveTimerExpired ==
  /\ reg' = for_each_reg_set(remove_if_range_reg(reg, {FALSE}), FALSE)
  /\ CountSilence
  /\ UNCHANGED <<box, xapp, owner>>

-----------------------------------------------------------------------------
ServerStep == GenerateId \/ KeepAlivePing \/ RequestFun

XappStep(x) ==
  \/ \E type \in {"INIT", "PING", "REQUEST"} : XappSend(x, type)
  \/ XappResend(x)
  \/ XappCrash(x)

ListenerNext ==
  \/ ServerStep
  \/ KeepAliveTimerExpired
  \/ \E x \in Xapps : XappStep(x)

ListenerSpec == ListenerInit /\ [][ListenerNext]_listenerVars

\* The timer is periodic (5000 ms) and its thread runs.
ListenerFairSpec == ListenerSpec /\ WF_listenerVars(KeepAliveTimerExpired)

-----------------------------------------------------------------------------
(* A registration is lost only at an expiration of the keep-alive timer that  *)
(* follows an earlier expiration with no ping handled in between: a ping that *)
(* arrives once per period keeps the xApp registered, however registrations,  *)
(* removals and compactions of other xApps interleave.                        *)
OnlySilentRemoved ==
  [][\A k \in Keys : Registered(k) /\ ~Registered(k)' => silence[k] >= 1]_listenerVars

(* No xApp survives two expirations without a ping in between.                *)
SilentRemovedInTime == \A k \in Keys : Registered(k) => silence[k] <= 1

(* An id is handed to one xApp only: a late or repeated ping never renews the *)
(* registration of another xApp, although an xApp whose INIT was sent twice   *)
(* leaves an id behind.                                                       *)
IdsNotShared ==
  /\ \A x \in Xapps : xapp[x].id # 0 => owner[xapp[x].id] = x
  /\ \A s \in Servers : \A i \in DOMAIN box[s] :
       box[s][i].type = "PING" => owner[box[s][i].id] = box[s][i].from

(* The listener's registry is well formed, no id has two owners and no silent *)
(* xApp stays: keep_alive_timer_expired and the servers' handlers keep all    *)
(* three while they take turns under the registry's mutex.                    *)
ListenerInvariant == ListenerTypeOK /\ IdsNotShared /\ SilentRemovedInTime

\* The xApp that registered id k is gone.
OwnerCrashed(k) == \E x \in Xapps : owner[k] = x /\ xapp[x].pc = "crashed"

(* The registration of an xApp that crashed is eventually dropped, although   *)
(* pings it sent before may still be queued and renew it.                     *)
CrashedRemoved ==
  \A k \in Keys : (Registered(k) /\ OwnerCrashed(k)) ~> ~Registered(k)

=============================================================================
