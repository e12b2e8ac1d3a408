------------------------------ MODULE SbpAgent ------------------------------
(***************************************************************************)
(* The command block agent of one login to the SBP-2 target, and the        *)
(* requests it hands to the target core (drivers/target/sbp/sbp_target.c).  *)
(* The session of the login changes by the bus resets, reconnects and       *)
(* releases of module SbpTarget.                                            *)
(*                                                                          *)
(* The owner is node 0 in even generations and node 1 in odd ones; another  *)
(* initiator has the other node ID.                                         *)
(***************************************************************************)
EXTENDS Integers, FiniteSets, SbpTarget

CONSTANTS
    NTag,       \* size of the tag pool of a session
    MaxOrb,     \* bound: command ORBs
    AgMaxGen    \* bound: bus resets

ASSUME AgAssumption == NTag \in Nat /\ MaxOrb \in Nat /\ AgMaxGen \in Nat

VARIABLES
    agGen,      \* generation of the bus
    agSess,     \* login and session
    agent,      \* struct sbp_target_agent, with the locals of its fetch work
    agOrbs,     \* the initiator's list of ORBs
    agReq,      \* requests, by tag
    agRace      \* the race that ended the behaviour

agvars == <<agGen, agSess, agent, agOrbs, agReq, agRace>>

Tag == 1 .. NTag
OwnerNode(g) == g % 2

NoAgent == [state |-> "reset", orb_pointer |-> 0, doorbell |-> FALSE, work |-> "idle",
            again |-> FALSE, next |-> 0, skip |-> FALSE]
NoReq == [st |-> "free", orb |-> 0, gen |-> 0, node |-> -1]

SbpAgentInit ==
    /\ agGen = 0
    /\ agSess = [live |-> FALSE, gen |-> 0, node |-> -1, updating |-> FALSE]
    /\ agent = NoAgent
    /\ agOrbs = [made |-> 0, linked |-> {}, served |-> {}, twice |-> FALSE, foreign |-> FALSE]
    /\ agReq = [t \in Tag |-> NoReq]
    /\ agRace = "none"

SbpAgentTypeOK ==
    /\ agSess.node \in -1 .. 1
    /\ agent.state \in {"reset", "active", "suspended", "dead"}
    /\ agent.work \in {"idle", "queued", "fetching", "fetched", "oops"}
    /\ agent.orb_pointer \in 0 .. MaxOrb /\ agent.next \in 0 .. MaxOrb
    /\ \A t \in Tag : agReq[t].st \in {"free", "fetched", "work", "core", "status", "sending", "leaked"}
    /\ agRace \in {"none", "login", "torn", "reset"}

AgRace(r) == agRace' = r
-----------------------------------------------------------------------------
(* What the rest of the target does to the login.                           *)

AgLogin ==
    /\ ~agSess.live
    /\ agSess' = [live |-> TRUE, gen |-> agGen, node |-> OwnerNode(agGen), updating |-> FALSE]
    /\ agent' = NoAgent
    /\ UNCHANGED <<agGen, agReq, agRace>>

AgBusReset ==
    /\ agSess.live /\ agGen < AgMaxGen
    /\ agGen' = agGen + 1
    /\ UNCHANGED <<agSess, agent, agReq, agRace>>

\* session_check_for_reset()
AgNoticeReset ==
    /\ agSess.live /\ agSess.gen # agGen /\ agSess.node # -1 /\ ~agSess.updating
    /\ agSess' = [agSess EXCEPT !.node = -1]
    /\ UNCHANGED <<agGen, agent, agReq, agRace>>

\* sbp_management_request_reconnect() updates the session under its lock; the fetch work
\* reads without it, so that the fields are written one by one.
AgReconnect ==
    /\ agSess.live /\ (agSess.updating \/ agSess.gen # agGen)
    /\ agSess' = IF agSess.updating
                 THEN [agSess EXCEPT !.updating = FALSE, !.node = OwnerNode(agSess.gen)]
                 ELSE [agSess EXCEPT !.updating = TRUE, !.gen = agGen]
    /\ UNCHANGED <<agGen, agent, agReq, agRace>>

\* sbp_login_release() waits for the fetch work but not for the requests, which hold
\* pointers to the login and to tags of its session.
AgRelease ==
    /\ agSess.live /\ ~agSess.updating /\ agent.work \in {"idle", "queued"}
    /\ agSess' = [agSess EXCEPT !.live = FALSE, !.node = -1]
    /\ agent' = NoAgent
    /\ IF \E t \in Tag : agReq[t].st \notin {"free", "leaked"}
       THEN AgRace("login") /\ UNCHANGED agReq
       ELSE agReq' = [t \in Tag |-> NoReq] /\ UNCHANGED agRace
    /\ UNCHANGED agGen

SessionStep == 
    /\ AgLogin \/ AgBusReset \/ AgNoticeReset \/ AgReconnect \/ AgRelease
    /\ UNCHANGED agOrbs

-----------------------------------------------------------------------------
(* Writes to the registers of the agent.                                    *)

\* tgt_agent_rw() lets pass what comes from the session's node in its generation.
tgt_agent_rw(source) ==
    agSess.live /\ ~agSess.updating /\ agSess.gen = agGen /\ agSess.node = source

tgt_agent_rw_agent_reset ==
    /\ agent' = [agent EXCEPT !.state = "reset"]
    /\ UNCHANGED <<agOrbs, agRace>>

Woken == [agent EXCEPT !.state = "active", !.work = IF @ = "idle" THEN "queued" ELSE @,
                       !.again = @ \/ agent.work \notin {"idle", "queued"}]

\* A new list of ORBs.  A fetch work that still runs follows the old one and would
\* overwrite the new pointer; one that died does not run again.
tgt_agent_rw_orb_pointer ==
    /\ agent.state \in {"suspended", "reset"} /\ agOrbs.made < MaxOrb
    /\ agOrbs' = [agOrbs EXCEPT !.made = @ + 1]
    /\ agent' = [Woken EXCEPT !.orb_pointer = agOrbs.made + 1, !.doorbell = FALSE]
    /\ IF agent.work \in {"fetching", "fetched"} THEN AgRace("reset") ELSE UNCHANGED agRace

\* The initiator links an ORB to its last one and rings.  While the agent is active the
\* doorbell is refused and not remembered.
tgt_agent_rw_doorbell ==
    /\ agOrbs.made \in 1 .. MaxOrb - 1
    /\ agOrbs' = [agOrbs EXCEPT !.made = @ + 1, !.linked = @ \cup {agOrbs.made}]
    /\ agent' = IF agent.state = "suspended" THEN [Woken EXCEPT !.doorbell = TRUE] ELSE agent
    /\ UNCHANGED agRace

\* A write by the owner, or by the other initiator.
AgentWrite(foreign) ==
    /\ tgt_agent_rw(IF foreign THEN 1 - OwnerNode(agGen) ELSE OwnerNode(agGen))
    /\ IF foreign
       THEN agOrbs' = [agOrbs EXCEPT !.foreign = TRUE] /\ UNCHANGED <<agent, agRace>>
       ELSE tgt_agent_rw_agent_reset \/ tgt_agent_rw_orb_pointer \/ tgt_agent_rw_doorbell
    /\ UNCHANGED <<agGen, agSess, agReq>>

-----------------------------------------------------------------------------
(* tgt_agent_fetch_work()                                                   *)

FetchStart ==
    /\ agent.work = "queued"
    /\ agent' = [agent EXCEPT !.work = "fetching", !.next = agent.orb_pointer,
                              !.skip = agent.doorbell]
    /\ UNCHANGED <<agOrbs, agReq, agRace>>

\* The work ends, or runs again.
Stopped(a) == [a EXCEPT !.work = IF a.again THEN "queued" ELSE "idle", !.again = FALSE,
                        !.next = 0, !.skip = FALSE]

tgt_agent_check_active == agent.state = "active"

FreeTags == {t \in Tag : agReq[t].st = "free"}

\* sbp_mgt_get_req()
sbp_mgt_get_req(t) == t \in FreeTags /\ \A u \in FreeTags : t <= u

\* One round: no tag or a failed fetch kills the agent.  A fetch during a reconnect may
\* combine the new generation with the old node.  sbp_send_status() after a failed fetch
\* puts a reference that target_submit_cmd() never took, which releases nothing.
FetchOrb ==
    /\ agent.work = "fetching"
    /\ \/ /\ agent.next = 0 \/ ~tgt_agent_check_active
          /\ agent' = Stopped(agent)
          /\ UNCHANGED <<agReq, agRace>>
       \/ /\ agent.next # 0 /\ tgt_agent_check_active /\ FreeTags = {}
          /\ agent' = Stopped([agent EXCEPT !.state = "dead"])
          /\ UNCHANGED <<agReq, agRace>>
       \/ /\ agent.next # 0 /\ tgt_agent_check_active
          /\ \E t \in Tag :
                /\ sbp_mgt_get_req(t)
                /\ \/ /\ agSess.gen = agGen /\ agSess.node # -1
                      /\ agReq' = [agReq EXCEPT ![t] = [NoReq EXCEPT !.st = "fetched", !.orb = agent.next]]
                      /\ agent' = [agent EXCEPT !.work = "fetched"]
                      /\ IF agSess.node # OwnerNode(agGen) THEN AgRace("torn") ELSE UNCHANGED agRace
                   \/ /\ agReq' = [agReq EXCEPT ![t] = [NoReq EXCEPT !.st = "leaked"]]
                      /\ agent' = Stopped([agent EXCEPT !.state = "dead"])
                      /\ UNCHANGED agRace
    /\ UNCHANGED agOrbs

\* Fetched for its next_ORB only, or after a reset, an ORB is not processed.
Processed == tgt_agent_check_active /\ ~agent.skip

\* The ORB is handed to tgt_agent_process_work().  At the end of the list the agent is
\* suspended, even if it was reset meanwhile.
OrbFetched ==
    /\ agent.work = "fetched" /\ Processed
    /\ \E t \in Tag :
          /\ agReq[t].st = "fetched"
          /\ LET orb == agReq[t].orb
                 more == orb \in agOrbs.linked
             IN /\ agReq' = [agReq EXCEPT ![t].st = "work"]
                /\ agOrbs' = [agOrbs EXCEPT !.served = @ \cup {orb},
                                            !.twice = @ \/ orb \in agOrbs.served]
                /\ agent' = [agent EXCEPT
                                !.work = "fetching", !.next = IF more THEN orb + 1 ELSE 0,
                                !.skip = FALSE, !.doorbell = FALSE,
                                !.orb_pointer = IF more THEN orb + 1 ELSE @,
                                !.state = IF more THEN @ ELSE "suspended"]
    /\ UNCHANGED agRace

\* sbp_free_request() of a request that was never submitted: its se_sess is still the null
\* pointer that sbp_mgt_get_req() left there, target_free_tag() follows it, and the worker
\* dies in the work item, which never ends.
OrbDropped ==
    /\ agent.work = "fetched" /\ ~Processed
    /\ \E t \in Tag :
          /\ agReq[t].st = "fetched"
          /\ agReq' = [agReq EXCEPT ![t] = [NoReq EXCEPT !.st = "leaked"]]
    /\ agent' = [agent EXCEPT !.work = "oops"]
    /\ UNCHANGED <<agOrbs, agRace>>

tgt_agent_fetch_work ==
    /\ FetchStart \/ FetchOrb \/ OrbFetched \/ OrbDropped
    /\ UNCHANGED <<agGen, agSess>>

-----------------------------------------------------------------------------
(* Requests.                                                                *)

\* tgt_agent_process_work() and sbp_handle_command(): the command is submitted, after its
\* command block and page table were fetched.
sbp_handle_command(t) ==
    /\ agReq[t].st = "work"
    /\ agReq' = [agReq EXCEPT ![t].st = "core"]
    /\ UNCHANGED agOrbs

\* A dummy ORB, or one whose command or page table cannot be fetched, only sends a status.
tgt_agent_process_work(t) ==
    /\ agReq[t].st = "work"
    /\ agReq' = [agReq EXCEPT ![t] = [NoReq EXCEPT !.st = "leaked"]]
    /\ UNCHANGED agOrbs

\* The target core calls sbp_write_pending(), sbp_queue_data_in() or sbp_queue_status();
\* data and sense decide what the status says.
sbp_queue_status(t) ==
    /\ agReq[t].st = "core"
    /\ agReq' = [agReq EXCEPT ![t].st = "status"]
    /\ UNCHANGED agOrbs

\* sbp_run_request_transaction() takes node ID and generation from the session under its
\* lock.
sbp_run_request_transaction(t) ==
    /\ agReq[t].st = "status" /\ ~agSess.updating
    /\ agReq' = [agReq EXCEPT ![t].st = "sending", ![t].gen = agSess.gen, ![t].node = agSess.node]
    /\ UNCHANGED agOrbs

\* sbp_send_status(): the status block arrives at a node, or does not.  sbp_release_cmd()
\* frees the tag in either case.
sbp_send_status(t) ==
    /\ agReq[t].st = "sending"
    /\ \/ agReq[t].gen = agGen /\ agReq[t].node # -1
          /\ agOrbs' = [agOrbs EXCEPT !.foreign = @ \/ agReq[t].node # OwnerNode(agGen)]
       \/ UNCHANGED agOrbs
    /\ agReq' = [agReq EXCEPT ![t] = NoReq]

RequestStep(t) ==
    /\ \/ sbp_handle_command(t) \/ tgt_agent_process_work(t) \/ sbp_queue_status(t)
       \/ sbp_run_request_transaction(t) \/ sbp_send_status(t)
    /\ UNCHANGED <<agGen, agSess, agent, agRace>>

-----------------------------------------------------------------------------
SbpAgentNext ==
    /\ agRace = "none"
    /\ \/ SessionStep \/ tgt_agent_fetch_work
       \/ \E foreign \in BOOLEAN : AgentWrite(foreign)
       \/ \E t \in Tag : RequestStep(t)

SbpAgentFairness ==
    /\ WF_agvars(tgt_agent_fetch_work)
    /\ \A t \in Tag : WF_agvars(RequestStep(t))

SbpAgentSpec == SbpAgentInit /\ [][SbpAgentNext]_agvars /\ SbpAgentFairness

-----------------------------------------------------------------------------
(* A command block agent serves the owner of the login and nobody else:     *)
(* node IDs change hands by a bus reset, but no other initiator's write is  *)
(* obeyed and none gets a status block (sbp_target.c:795-847, 1084-1106).   *)
(* No ORB is processed twice, also when a doorbell makes the agent read the *)
(* last one again (929-1009).  The exceptions are the races in agRace: a    *)
(* release with requests in flight, a fetch during a reconnect and a new    *)
(* list during a fetch.  It does not say that an ORB is served: a doorbell, *)
(* or an AGENT_RESET during a fetch, kills the fetch work (995).            *)
OrbsServedOnce ==
    /\ SbpAgentTypeOK
    /\ ~agOrbs.foreign
    /\ agRace = "none" => /\ ~agOrbs.twice
                          /\ agent.orb_pointer <= agOrbs.made
                          /\ agent.work = "fetched" => \E t \in Tag : agReq[t].st = "fetched"

(* The comment "don't process this request, just check next_ORB" (994):     *)
(* the fetch work goes on after an ORB that it need not process.            *)
FetchWorkSurvives == agent.work # "oops"

(* What an initiator may expect of the target: it is logged in if it was    *)
(* told so since the last bus reset, and is not if it was told that, except *)
(* after a lost answer or a transport failure; alone if it asked for that   *)
(* (management agent); and none of its ORBs is served twice, or for anybody *)
(* else (command block agent; sbp_target.c:212-474, 929-1009).  The races   *)
(* in tgtRace and agRace, which end the behaviour, are excepted.            *)
TargetExact == LoginsExact /\ OrbsServedOnce
=============================================================================
