------------------------------- MODULE SndFcp -------------------------------
(***************************************************************************)
(* Function control protocol transactions of the sound drivers              *)
(* (sound/firewire/fcp.c): fcp_avc_transaction() writes a command frame to  *)
(* the unit and waits for the response frame, which fcp_response() receives *)
(* from any node and matches with all transactions that wait.               *)
(*                                                                          *)
(* Two devices, "own" with the unit of the transactions and "alien", swap   *)
(* their node IDs with every bus reset.  fcp_response() compares generation *)
(* and node ID in two reads, which no lock orders with the two writes of    *)
(* fw_node_event().                                                         *)
(***************************************************************************)
EXTENDS Integers, FiniteSets

CONSTANTS
    Call,           \* callers of fcp_avc_transaction()
    Command,        \* commands, told apart by their match bytes
    Deferrable,     \* those of type CONTROL or NOTIFY, which may be answered INTERIM
    FcpTries,       \* ERROR_RETRIES
    FcpMaxFrames,   \* bound: response frames under way
    FcpMaxGen       \* bound: bus resets

ASSUME FcpAssumption ==
    /\ Command # {} /\ Deferrable \subseteq Command
    /\ FcpTries \in Nat \ {0} /\ FcpMaxFrames \in Nat /\ FcpMaxGen \in Nat

VARIABLES
    fcpGen,     \* generation of the bus
    fcpDev,     \* generation and node_id of struct fw_device of the unit, the generation
                \* that fw_node_event() is about to write, and fw_device_update() queued
    fcp,        \* struct fcp_transaction of each call, with the locals
    frames,     \* response frames under way
    rx          \* fcp_response(), which holds transactions_lock

fcpvars == <<fcpGen, fcpDev, fcp, frames, rx>>

\* Device d has this node ID in generation g.
FcpNode(d, g) == IF (g % 2 = 0) = (d = "own") THEN 0 ELSE 1

NoCall == [pc |-> "idle", state |-> "pending", command |-> CHOOSE k \in Command : TRUE,
           tries |-> 0, by |-> "none"]
\* The frame, the transactions still to look at, and among them the one of which the
\* generation was found equal.  Ghost: torn, fw_node_event() had written the node ID but
\* not yet the generation when this was read, or wrote the node ID since.
NoFrame == [frame |-> [command |-> NoCall.command, interim |-> FALSE, from |-> "own", gen |-> 0],
            todo |-> {}, eq |-> {}, torn |-> FALSE]

SndFcpInit ==
    /\ fcpGen = 0
    /\ fcpDev = [gen |-> 0, node |-> FcpNode("own", 0), next |-> 0, update |-> FALSE]
    /\ fcp = [c \in Call |-> NoCall]
    /\ frames = {}
    /\ rx = NoFrame

Frame == [command : Command, interim : BOOLEAN, from : {"own", "alien"}, gen : 0 .. FcpMaxGen]

SndFcpTypeOK ==
    /\ \A c \in Call :
          /\ fcp[c].pc \in {"idle", "write", "wait", "done"}
          /\ fcp[c].state \in {"pending", "bus reset", "complete", "deferred"}
          /\ fcp[c].tries \in 0 .. FcpTries
    /\ frames \subseteq Frame
    /\ rx.frame \in Frame /\ rx.eq \subseteq rx.todo /\ rx.todo \subseteq Call

\* transactions_lock is taken.
Locked == rx.todo # {}
\* The transaction is in the list.
Listed(c) == fcp[c].pc # "idle"

Sends(f) == frames' = frames \cup {f} /\ Cardinality(frames) < FcpMaxFrames
-----------------------------------------------------------------------------
(* fcp_avc_transaction()                                                    *)

fcp_avc_transaction(c, k) ==
    /\ fcp[c].pc = "idle" /\ ~Locked
    /\ fcp' = [fcp EXCEPT ![c] = [NoCall EXCEPT !.pc = "write", !.command = k]]
    /\ UNCHANGED <<fcpGen, fcpDev, frames, rx>>

\* snd_fw_transaction() writes the command frame in the device's present generation; the
\* device will answer, once, or stay silent.
WriteCommand(c) ==
    /\ fcp[c].pc = "write"
    /\ \/ /\ fcpDev.gen = fcpGen
          /\ fcp' = [fcp EXCEPT ![c].pc = "wait"]
          /\ \/ Sends([command |-> fcp[c].command, interim |-> FALSE, from |-> "own", gen |-> fcpGen])
             \/ /\ fcp[c].command \in Deferrable
                /\ Sends([command |-> fcp[c].command, interim |-> TRUE, from |-> "own", gen |-> fcpGen])
             \/ UNCHANGED frames
       \/ /\ fcp' = [fcp EXCEPT ![c].pc = "done", ![c].tries = 0]
          /\ UNCHANGED frames
    /\ UNCHANGED <<fcpGen, fcpDev, rx>>

\* The device sends the final response to a command that it answers INTERIM, or the other
\* device sends a frame that matches to its own controller here.
DeviceSends ==
    /\ \E c \in Call, d \in {"own", "alien"} :
          /\ fcp[c].pc = "wait" /\ (d = "own" => fcp[c].command \in Deferrable)
          /\ Sends([command |-> fcp[c].command, interim |-> FALSE, from |-> d, gen |-> fcpGen])
    /\ UNCHANGED <<fcpGen, fcpDev, fcp, rx>>

\* Mutant: a try that timed out is not counted.
TriesForever(c) ==
    /\ fcp[c].pc = "wait"
    /\ fcp' = [fcp EXCEPT ![c] =
          CASE @.state = "deferred"  -> [@ EXCEPT !.state = "pending"]
            [] @.state = "complete"  -> [@ EXCEPT !.pc = "done"]
            [] OTHER -> [@ EXCEPT !.pc = "write"]]
    /\ UNCHANGED <<fcpGen, fcpDev, frames, rx>>

\* The wait ends: the state changed, or the time is over.  A transaction that met a bus
\* reset stays in STATE_BUS_RESET; msleep(ERROR_DELAY_MS) only delays its next write.
FcpWoken(c) ==
    /\ fcp[c].pc = "wait"
    /\ \/ /\ fcp[c].state = "deferred"
          /\ fcp' = [fcp EXCEPT ![c].state = "pending"]
       \/ /\ fcp[c].state = "complete" \/ (fcp[c].state = "pending" /\ fcp[c].tries + 1 >= FcpTries)
          /\ fcp' = [fcp EXCEPT ![c].pc = "done", ![c].tries = 0]
       \/ /\ fcp[c].state = "bus reset"
          /\ fcp' = [fcp EXCEPT ![c].pc = "write"]
       \/ /\ fcp[c].state = "pending" /\ fcp[c].tries + 1 < FcpTries
          /\ fcp' = [fcp EXCEPT ![c].pc = "write", ![c].tries = @ + 1]
    /\ UNCHANGED <<fcpGen, fcpDev, frames, rx>>

CallReturns(c) ==
    /\ fcp[c].pc = "done" /\ ~Locked
    /\ fcp' = [fcp EXCEPT ![c] = NoCall]
    /\ UNCHANGED <<fcpGen, fcpDev, frames, rx>>

-----------------------------------------------------------------------------
(* Responses and bus resets.                                                *)

\* Mutant: the generation of the frame is not compared.
AnyGeneration(f) == TRUE

SameGeneration(f) == fcpDev.gen = f.gen
SameNode(f) == fcpDev.node = FcpNode(f.from, f.gen)

\* is_matching_response()
is_matching_response(c, f) == fcp[c].command = f.command

\* The lock is released after the last transaction.
Looked(r) == IF r.todo = {} THEN NoFrame ELSE r

\* Of the transactions in the list, only those that match can take the frame.
fcp_response(f) ==
    /\ f \in frames /\ ~Locked
    /\ rx' = Looked([NoFrame EXCEPT !.frame = f,
                        !.todo = {c \in Call : Listed(c) /\ is_matching_response(c, f)}])
    /\ frames' = frames \ {f}
    /\ UNCHANGED <<fcpGen, fcpDev, fcp>>

GenerationRead(c) ==
    /\ c \in rx.todo /\ rx.eq = {}
    /\ rx' = IF SameGeneration(rx.frame)
             THEN [rx EXCEPT !.eq = {c}, !.torn = (fcpDev.next # fcpDev.gen)]
             ELSE Looked([rx EXCEPT !.todo = @ \ {c}])
    /\ UNCHANGED <<fcpGen, fcpDev, fcp, frames>>

NodeIdRead(c) ==
    /\ c \in rx.eq
    /\ fcp' = IF ~SameNode(rx.frame) \/ fcp[c].state # "pending"
              THEN fcp
              ELSE IF fcp[c].command \in Deferrable /\ rx.frame.interim
              THEN [fcp EXCEPT ![c].state = "deferred"]
              ELSE [fcp EXCEPT ![c].state = "complete", ![c].by = IF rx.torn THEN "race"
                                                             ELSE rx.frame.from]
    /\ rx' = Looked([rx EXCEPT !.todo = @ \ {c}, !.eq = {}, !.torn = FALSE])
    /\ UNCHANGED <<fcpGen, fcpDev, frames>>

FcpBusReset ==
    /\ fcpGen < FcpMaxGen
    /\ \E c \in Call : fcp[c].pc = "wait"
    /\ fcpGen' = fcpGen + 1
    /\ UNCHANGED <<fcpDev, fcp, frames, rx>>

\* fw_node_event() writes the node ID, and then the generation, and has the device updated.
NodeIdWritten ==
    /\ fcpDev.next = fcpDev.gen /\ fcpDev.gen # fcpGen
    /\ fcpDev' = [fcpDev EXCEPT !.node = FcpNode("own", fcpGen), !.next = fcpGen]
    /\ rx' = [rx EXCEPT !.torn = @ \/ rx.eq # {}]
    /\ UNCHANGED <<fcpGen, fcp, frames>>
GenerationWritten ==
    /\ fcpDev.next # fcpDev.gen
    /\ fcpDev' = [fcpDev EXCEPT !.gen = fcpDev.next, !.update = TRUE]
    /\ UNCHANGED <<fcpGen, fcp, frames, rx>>

\* fw_device_update(): the driver's .update handler with fcp_bus_reset().
fcp_bus_reset ==
    /\ fcpDev.update /\ ~Locked
    /\ fcpDev' = [fcpDev EXCEPT !.update = FALSE]
    /\ fcp' = [c \in Call |->
          IF Listed(c) /\ fcp[c].state \in {"pending", "deferred"}
          THEN [fcp[c] EXCEPT !.state = "bus reset"] ELSE fcp[c]]
    /\ UNCHANGED <<fcpGen, frames, rx>>

-----------------------------------------------------------------------------
CallStep(c) == WriteCommand(c) \/ FcpWoken(c) \/ CallReturns(c)
ResponseStep == \E c \in Call : GenerationRead(c) \/ NodeIdRead(c)

SndFcpNext ==
    \/ \E c \in Call, k \in Command : fcp_avc_transaction(c, k)
    \/ \E c \in Call : CallStep(c)
    \/ \E f \in frames : fcp_response(f)
    \/ ResponseStep
    \/ DeviceSends \/ FcpBusReset \/ NodeIdWritten \/ GenerationWritten \/ fcp_bus_reset

\* The caller's thread runs, frames that arrived are handled, and the device core serves
\* a bus reset.
SndFcpFairness ==
    /\ \A c \in Call : WF_fcpvars(CallStep(c))
    /\ WF_fcpvars(ResponseStep \/ \E f \in frames : fcp_response(f))
    /\ WF_fcpvars(NodeIdWritten \/ GenerationWritten \/ fcp_bus_reset)

SndFcpSpec == SndFcpInit /\ [][SndFcpNext]_fcpvars /\ SndFcpFairness

-----------------------------------------------------------------------------
(* A response that completes a transaction came from the unit's device      *)
(* (fcp.c:331-366), although frames of all nodes arrive at the same         *)
(* register, node IDs change hands by a bus reset, and the device structure *)
(* learns of it later.  The exception is a race: fcp_response() read        *)
(* the old generation (350) while or before fw_node_event() put the new     *)
(* node ID beside it (core-device.c:1389, 1406), and then read that node ID *)
(* (353).  The barriers only see to it that a new generation is not paired  *)
(* with an old node ID.                                                     *)
ResponseFromUnit ==
    /\ SndFcpTypeOK
    /\ \A c \in Call : fcp[c].state = "complete" => fcp[c].by \in {"own", "race"}

(* fcp_avc_transaction() returns (fcp.c:262-268 "we promise to finish this  *)
(* function for a caller").                                                 *)
TransactionReturns == \A c \in Call : (fcp[c].pc = "write") ~> (fcp[c].pc = "idle")

(* fcp_avc_transaction() leaves its loop, to take the transaction off the   *)
(* list and return, unless a bus reset met it (fcp.c:229-288): retries and  *)
(* deferred responses come to an end, as long as nobody else sends the same *)
(* command, whose INTERIM responses would defer both.                       *)
UndisturbedReturns ==
    \A c \in Call : (fcp[c].pc = "write") ~>
        \/ fcp[c].pc \in {"done", "idle"} \/ fcp[c].state = "bus reset"
        \/ \E d \in Call \ {c} : fcp[d].pc # "idle" /\ fcp[d].command = fcp[c].command
=============================================================================
