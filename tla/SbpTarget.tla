------------------------------ MODULE SbpTarget -----------------------------
(***************************************************************************)
(* The SBP-2 target (drivers/target/sbp/sbp_target.c): the management agent *)
(* with login, reconnect and logout, and sessions with their maintenance    *)
(* work.  One target port group with one LUN; an initiator has at most one  *)
(* login.  Module SbpAgent has the command block agent of a login.          *)
(*                                                                          *)
(* A pointer that the code reads under one lock and uses later may be stale *)
(* by then.  What follows from such a use is not modelled: the step         *)
(* records the race in tgtRace and the behaviour ends.                      *)
(***************************************************************************)
EXTENDS Integers, FiniteSets

CONSTANTS
    NInit,      \* initiators on the bus
    MaxConfig,  \* bound: changes of the configuration
    MaxMgt,     \* bound: management requests
    TgtMaxGen   \* bound: bus resets

ASSUME TgtAssumption ==
    /\ NInit \in Nat \ {0} /\ MaxConfig \in Nat /\ MaxMgt \in Nat /\ TgtMaxGen \in Nat

VARIABLES
    tgtGen,     \* generation of the bus
    tport,      \* configuration of the target port
    mgt,        \* management agent and its request
    sess,       \* session of each initiator
    login,      \* login of each initiator
    told,       \* history: what each initiator knows of its login from status blocks
    tgtRace     \* the race that ended the behaviour

tgtvars == <<tgtGen, tport, mgt, sess, login, told, tgtRace>>

Initiator == 0 .. NInit - 1
\* Node IDs are assigned anew by every bus reset.
NodeId(i, g) == (i + g) % NInit

NoMgt == [state |-> "idle", pc |-> "none", from |-> 0, gen |-> 0, op |-> "none",
          excl |-> FALSE, held |-> FALSE, status |-> "same"]
NoSession == [live |-> FALSE, gen |-> 0, node |-> -1, maint |-> "off"]
NoLogin == [live |-> FALSE, sess |-> FALSE, excl |-> FALSE, handler |-> FALSE,
            fetching |-> FALSE]

SbpTargetInit ==
    /\ tgtGen = 0
    /\ tport = [tpg |-> FALSE, lun |-> FALSE, enable |-> FALSE, dir |-> FALSE, max_logins |-> 1,
                changes |-> 0, requests |-> 0]
    /\ mgt = NoMgt
    /\ sess = [i \in Initiator |-> NoSession]
    /\ login = [i \in Initiator |-> NoLogin]
    /\ told = [i \in Initiator |-> "out"]
    /\ tgtRace = "none"

SbpTargetTypeOK ==
    /\ mgt.state \in {"idle", "busy"}
    /\ mgt.pc \in {"none", "lost", "queued", "fetched", "found", "respond", "release", "status"}
    /\ \A i \in Initiator :
          /\ sess[i].node \in -1 .. NInit - 1 /\ sess[i].maint \in {"off", "armed", "expired"}
          /\ told[i] \in {"in", "out", "unsure"}
    /\ tgtRace \in {"none", "session", "login"}

Sessions == {i \in Initiator : sess[i].live}
\* Logins on the login_list of a session.
Logins == {i \in Initiator : login[i].live /\ login[i].sess}

Race(r) == tgtRace' = r
-----------------------------------------------------------------------------
(* Configuration.  Every change ends in sbp_update_unit_directory().        *)

Changed == [tport EXCEPT !.changes = @ + 1]

\* sbp_update_unit_directory(): the directory is in the ROM while the target is enabled,
\* unless there is no memory for it.
sbp_update_unit_directory(p) ==
    {[p EXCEPT !.dir = FALSE]} \cup (IF p.enable /\ p.tpg THEN {[p EXCEPT !.dir = TRUE]} ELSE {})

sbp_make_tpg ==
    /\ ~tport.tpg
    /\ tport' = [Changed EXCEPT !.tpg = TRUE, !.enable = FALSE, !.max_logins = 1]
    /\ mgt' = NoMgt

\* The administrator removes a group once it has no LUN and no session.  A request that
\* waits for the work is forgotten; a running one is waited for.
sbp_drop_tpg ==
    /\ tport.tpg /\ ~tport.lun /\ Sessions = {} /\ mgt.pc \in {"none", "lost", "queued"}
    /\ tport' = [Changed EXCEPT !.tpg = FALSE]
    /\ mgt' = NoMgt

sbp_post_link_lun ==
    /\ tport.tpg /\ ~tport.lun
    /\ tport' \in sbp_update_unit_directory([Changed EXCEPT !.lun = TRUE])
    /\ UNCHANGED mgt

\* fabric_pre_unlink runs before the LUN is gone, so that it is still counted and enable
\* stays.
sbp_pre_unlink_lun ==
    /\ tport.lun
    /\ \E p \in sbp_update_unit_directory(Changed) : tport' = [p EXCEPT !.lun = FALSE]
    /\ UNCHANGED mgt

sbp_enable_tpg(enable) ==
    /\ tport.tpg /\ tport.enable # enable
    /\ IF enable THEN tport.lun ELSE Sessions = {}
    /\ tport' \in sbp_update_unit_directory([Changed EXCEPT !.enable = enable])
    /\ UNCHANGED mgt

sbp_tpg_attrib_max_logins_per_lun_store(n) ==
    /\ tport.tpg /\ n # tport.max_logins
    /\ tport' = [Changed EXCEPT !.max_logins = n]
    /\ UNCHANGED mgt

Configure ==
    /\ \/ sbp_make_tpg \/ sbp_drop_tpg \/ sbp_post_link_lun \/ sbp_pre_unlink_lun
       \/ \E enable \in BOOLEAN : sbp_enable_tpg(enable)
       \/ \E n \in 1 .. NInit : sbp_tpg_attrib_max_logins_per_lun_store(n)
    /\ tport.changes < MaxConfig
    /\ UNCHANGED <<tgtGen, sess, login, told, tgtRace>>

\* An initiator has to reconnect, and what it was told may be void.
TgtBusReset ==
    /\ tgtGen < TgtMaxGen /\ tport.tpg
    /\ tgtGen' = tgtGen + 1
    /\ told' = [i \in Initiator |-> IF told[i] = "in" THEN "unsure" ELSE told[i]]
    /\ UNCHANGED <<tport, mgt, sess, login, tgtRace>>

-----------------------------------------------------------------------------
(* Logins and sessions are released.                                        *)

\* sbp_target_agent_unregister() removes the handler and waits for the fetch work.
AgentQuiet(i) == ~login[i].handler /\ ~login[i].fetching

\* session_maintenance_work() notices a bus reset (session_check_for_reset()).
session_check_for_reset(i) ==
    /\ sess[i].maint = "armed" /\ sess[i].node # -1 /\ sess[i].gen # tgtGen
    /\ sess' = [sess EXCEPT ![i].node = -1]
    /\ UNCHANGED <<login, tgtRace>>

\* session_maintenance_work() finds that the time to reconnect is over.
ReconnectTimeout(i) ==
    /\ sess[i].maint = "armed" /\ sess[i].node = -1 /\ login[i].live
    /\ sess' = [sess EXCEPT ![i].maint = "expired"]
    /\ UNCHANGED <<login, tgtRace>>

\* session_reconnect_expired() takes the logins off the list, even of a session that was
\* reconnected since.
session_reconnect_expired(i) ==
    /\ sess[i].maint = "expired" /\ login[i].sess
    /\ login' = [login EXCEPT ![i].sess = FALSE]
    /\ IF sess[i].node # -1 THEN Race("session") ELSE UNCHANGED tgtRace
    /\ UNCHANGED sess

\* ... and releases them and the session.
ReleaseExpired(i) ==
    /\ sess[i].maint = "expired" /\ login[i].live /\ ~login[i].sess
    /\ \/ /\ login[i].handler
          /\ login' = [login EXCEPT ![i].handler = FALSE] /\ UNCHANGED sess
       \/ /\ AgentQuiet(i)
          /\ login' = [login EXCEPT ![i] = NoLogin]
          /\ sess' = [sess EXCEPT ![i] = NoSession]
    /\ UNCHANGED tgtRace

session_maintenance_work(i) ==
    /\ session_check_for_reset(i) \/ ReconnectTimeout(i)
       \/ session_reconnect_expired(i) \/ ReleaseExpired(i)
    /\ UNCHANGED <<tgtGen, tport, mgt, told>>

-----------------------------------------------------------------------------
(* The management agent serves one request at a time.                       *)

Owned(pc, i, op, excl) == [NoMgt EXCEPT !.state = "busy", !.pc = pc, !.from = i,
                                        !.gen = tgtGen, !.op = op, !.excl = excl]

\* sbp_mgt_agent_rw(): without memory for the request the agent stays busy.
sbp_mgt_agent_rw(i, op, excl) ==
    /\ tport.tpg /\ tport.enable /\ mgt.state = "idle" /\ tport.requests < MaxMgt
    /\ tport' = [tport EXCEPT !.requests = @ + 1]
    /\ \/ mgt' = Owned("queued", i, op, excl)
       \/ mgt' = [NoMgt EXCEPT !.state = "busy", !.pc = "lost"]
    /\ UNCHANGED <<sess, login, tgtRace>>

\* Transactions with the sender of the request, in its generation.
MgtReaches == mgt.gen = tgtGen

MgtDone == mgt' = NoMgt

\* The status block to come says that the initiator is logged in ("in") or not ("out"), or
\* that a transaction failed ("unsure"), or nothing about its login ("same").
StatusNext(s) == mgt' = [NoMgt EXCEPT !.state = "busy", !.pc = "status", !.from = mgt.from,
                                      !.gen = mgt.gen, !.status = s]

\* sbp_mgt_agent_process() fetches the ORB; a failed fetch or a bad request ends it.
FetchMgtOrb ==
    /\ mgt.pc = "queued"
    /\ \/ MgtReaches /\ mgt.op # "other" /\ mgt' = [mgt EXCEPT !.pc = "fetched"]
       \/ MgtReaches /\ mgt.op = "other" /\ StatusNext("same")
       \/ MgtDone
    /\ UNCHANGED <<tport, sess, login, tgtRace>>

\* read_peer_guid(), sbp_session_find_by_guid(), sbp_login_find_by_lun() and
\* sbp_login_find_by_id(): held says that a login was found.
LookUp ==
    /\ mgt.pc = "fetched"
    /\ \/ /\ mgt.op = "login" => tport.lun
          /\ mgt.op # "logout" => MgtReaches
          /\ mgt' = [mgt EXCEPT !.pc = "found", !.held = mgt.from \in Logins]
       \/ mgt.op = "login" /\ ~tport.lun /\ StatusNext("same")
       \/ mgt.op # "logout" /\ StatusNext("unsure")
    /\ UNCHANGED <<tport, sess, login, tgtRace>>

\* Mutant: an exclusive login by another initiator is overlooked.
RefusesIfExclusive(excl) == (excl /\ Logins # {}) \/ Cardinality(Logins) >= tport.max_logins

\* sbp_login_count_all_by_lun() decides about a new login.
Refuses(excl) ==
    \/ excl /\ Logins # {}
    \/ \E i \in Logins : login[i].excl
    \/ Cardinality(Logins) >= tport.max_logins

\* The pointer that was looked up is stale.
Stale(i) == mgt.held /\ i \notin Logins

\* sbp_management_request_login() up to the response: a session is created if there is
\* none, and its work is scheduled a second ahead, which outlasts the allocations that
\* follow.  Memory may be short; a new session is then released again.
sbp_management_request_login ==
    LET i == mgt.from IN
    /\ mgt.pc = "found" /\ mgt.op = "login"
    /\ \/ mgt.held /\ ~Stale(i) /\ mgt' = [mgt EXCEPT !.pc = "respond"]
          /\ UNCHANGED <<sess, login, tgtRace>>
       \/ Stale(i) /\ StatusNext("out") /\ Race("login") /\ UNCHANGED <<sess, login>>
       \/ ~mgt.held /\ StatusNext("out") /\ UNCHANGED <<sess, login, tgtRace>>
       \/ /\ ~mgt.held /\ ~Refuses(mgt.excl)
          /\ IF sess[i].live
             THEN Race("login") /\ StatusNext("out") /\ UNCHANGED <<sess, login>>
             ELSE /\ sess' = [sess EXCEPT ![i] = [live |-> TRUE, gen |-> mgt.gen, maint |-> "armed",
                                                  node |-> NodeId(i, mgt.gen)]]
                  /\ login' = [login EXCEPT ![i] = [NoLogin EXCEPT !.live = TRUE, !.sess = TRUE,
                                        !.handler = TRUE, !.excl = mgt.excl]]
                  /\ mgt' = [mgt EXCEPT !.pc = "respond", !.held = TRUE]
                  /\ UNCHANGED tgtRace

\* The first step of sbp_login_release() by the management agent, and what the initiator
\* is told after it.
sbp_target_agent_unregister(i, s) ==
    /\ mgt' = [mgt EXCEPT !.pc = "release", !.status = s]
    /\ login' = [login EXCEPT ![i].handler = FALSE]
    /\ UNCHANGED tgtRace

\* sbp_login_release(login, true) and sbp_session_release(): the session goes with its
\* login.  If the maintenance work is past its decision, both free the session.
sbp_login_release ==
    LET i == mgt.from IN
    /\ mgt.pc = "release"
    /\ AgentQuiet(i)
    /\ login' = [login EXCEPT ![i] = NoLogin]
    /\ sess' = [sess EXCEPT ![i] = NoSession]
    /\ StatusNext(mgt.status)
    /\ IF sess[i].maint = "expired" THEN Race("session") ELSE UNCHANGED tgtRace

\* The login response goes to the node that the session knows, also if it logged in
\* before a bus reset; if the write fails, or there is no memory for it, the login is
\* released.
LoginResponse ==
    LET i == mgt.from IN
    /\ mgt.pc = "respond"
    /\ \/ Stale(i) /\ Race("login") /\ StatusNext("unsure") /\ UNCHANGED login
       \/ /\ ~Stale(i) /\ sess[i].gen = tgtGen /\ sess[i].node # -1
          /\ StatusNext("in") /\ UNCHANGED <<login, tgtRace>>
       \/ ~Stale(i) /\ \E s \in {"out", "unsure"} : sbp_target_agent_unregister(i, s)
    /\ UNCHANGED sess

\* sbp_management_request_reconnect() updates the session under its lock.
sbp_management_request_reconnect ==
    LET i == mgt.from IN
    /\ mgt.pc = "found" /\ mgt.op = "reconnect"
    /\ sess' = IF mgt.held /\ ~Stale(i)
               THEN [sess EXCEPT ![i].gen = mgt.gen, ![i].node = NodeId(i, mgt.gen)]
               ELSE sess
    /\ IF Stale(i) THEN Race("login") ELSE UNCHANGED tgtRace
    /\ StatusNext(IF mgt.held THEN "in" ELSE "out")
    /\ UNCHANGED login

\* sbp_management_request_logout(): unknown login, or access denied, or released.
sbp_management_request_logout ==
    LET i == mgt.from IN
    /\ mgt.pc = "found" /\ mgt.op = "logout"
    /\ \/ Stale(i) /\ Race("login") /\ StatusNext("out") /\ UNCHANGED login
       \/ ~mgt.held /\ StatusNext("out") /\ UNCHANGED <<login, tgtRace>>
       \/ /\ mgt.held /\ ~Stale(i) /\ NodeId(i, mgt.gen) # sess[i].node
          /\ StatusNext("same") /\ UNCHANGED <<login, tgtRace>>
       \/ /\ mgt.held /\ ~Stale(i) /\ NodeId(i, mgt.gen) = sess[i].node
          /\ sbp_target_agent_unregister(i, "out")
    /\ UNCHANGED sess

\* sbp_mgt_agent_process() writes the status and is idle again, whatever the write does:
\* an answer that does not arrive leaves the initiator in doubt, and the target as it is.
MgtStatus ==
    LET i == mgt.from IN
    /\ mgt.pc = "status" /\ MgtDone
    /\ \/ /\ MgtReaches
          /\ told' = IF mgt.status = "same" THEN told ELSE [told EXCEPT ![i] = mgt.status]
       \/ told' = [told EXCEPT ![i] = "unsure"]
    /\ UNCHANGED <<sess, login, tgtRace>>

sbp_mgt_agent_process ==
    /\ \/ MgtStatus
       \/ /\ \/ FetchMgtOrb \/ LookUp \/ sbp_management_request_login \/ LoginResponse
             \/ sbp_login_release \/ sbp_management_request_reconnect
             \/ sbp_management_request_logout
          /\ UNCHANGED told
    /\ UNCHANGED <<tgtGen, tport>>

MgtRequest ==
    /\ \E i \in Initiator, op \in {"login", "reconnect", "logout", "other"}, excl \in BOOLEAN :
          /\ excl => op = "login"
          /\ sbp_mgt_agent_rw(i, op, excl)
    /\ UNCHANGED <<tgtGen, told>>

-----------------------------------------------------------------------------
(* The command block agent, as far as the release of the login meets it.    *)

FetchStarts(i) ==
    /\ login[i].live /\ login[i].sess /\ login[i].handler /\ ~login[i].fetching
    /\ login' = [login EXCEPT ![i].fetching = TRUE]
    /\ UNCHANGED <<tgtGen, tport, mgt, sess, told, tgtRace>>

FetchEnds(i) ==
    /\ login[i].fetching
    /\ login' = [login EXCEPT ![i].fetching = FALSE]
    /\ UNCHANGED <<tgtGen, tport, mgt, sess, told, tgtRace>>

\* tgt_agent_rw() meets a login that lost its session, and follows a null pointer.
AgentWriteOrphan(i) ==
    /\ login[i].handler /\ ~login[i].sess
    /\ Race("login")
    /\ UNCHANGED <<tgtGen, tport, mgt, sess, login, told>>

AgentStep(i) == FetchStarts(i) \/ FetchEnds(i) \/ AgentWriteOrphan(i)

-----------------------------------------------------------------------------
SbpTargetNext ==
    /\ tgtRace = "none"
    /\ \/ Configure \/ TgtBusReset
       \/ MgtRequest \/ sbp_mgt_agent_process
       \/ \E i \in Initiator : session_maintenance_work(i) \/ AgentStep(i)

SbpTargetFairness ==
    /\ WF_tgtvars(sbp_mgt_agent_process)
    /\ \A i \in Initiator :
          WF_tgtvars(session_maintenance_work(i)) /\ WF_tgtvars(FetchEnds(i))

SbpTargetSpec == SbpTargetInit /\ [][SbpTargetNext]_tgtvars /\ SbpTargetFairness

-----------------------------------------------------------------------------
\* The management agent has decided about i, and i has no answer yet.
Answering(i) == mgt.from = i /\ mgt.pc \in {"respond", "release", "status"}

(* Each initiator can rely on what it was told (sbp_target.c:257-585, 1478- *)
(* 1566).  Told since the last bus reset that it is logged in, it is: the   *)
(* maintenance work does not expire its session, and no other initiator's   *)
(* request ends it.  Told that it is not, it is not.  The answer to its     *)
(* next request changes that.  An answer that got lost (1563) or a          *)
(* transport failure leaves the initiator in doubt, and after a bus reset a *)
(* session may expire without its being told (616-636).                     *)
LoginsAsTold ==
    \A i \in Initiator : ~Answering(i) =>
        (told[i] = "in" => i \in Logins) /\ (told[i] = "out" => i \notin Logins)

(* Logins are what the target promised (sbp_target.c:212-252, 257-474):     *)
(* an exclusive login is the only one of its LUN, a login has a session,    *)
(* and a session has a login and a maintenance work that will run, so that  *)
(* it can expire; and initiators know them.  The exceptions are the races   *)
(* in tgtRace: a login that was released after it was looked up, or lost    *)
(* its session while its agent is written to, and a session that is         *)
(* reconnected, or released, when its expiry was decided.                   *)
LoginsExact ==
    /\ SbpTargetTypeOK
    /\ \A i \in Logins : login[i].excl => Logins = {i}
    /\ tgtRace = "none" =>
          /\ \A i \in Initiator : /\ login[i].live <=> sess[i].live
                                 /\ sess[i].live => sess[i].maint # "off"
          /\ LoginsAsTold

(* The target gets over everything (sbp_target.c:587-665, 1449-1575): the   *)
(* management agent is free again, unless there was no memory for its       *)
(* request, and a session that a bus reset cut off is reconnected or        *)
(* released, as long as no fetch work died (FetchWorkSurvives of SbpAgent). *)
TargetRecovers ==
    /\ (mgt.state = "busy") ~> (mgt.state = "idle" \/ mgt.pc = "lost" \/ tgtRace # "none")
    /\ \A i \in Initiator :
          (sess[i].live /\ sess[i].gen # tgtGen)
              ~> (~sess[i].live \/ sess[i].gen = tgtGen \/ tgtRace # "none")
=============================================================================
