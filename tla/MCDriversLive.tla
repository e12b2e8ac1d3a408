---------------------------- MODULE MCDriversLive ----------------------------
(***************************************************************************)
(* Instances, for TLC, of parts of the drivers whose callers wait for      *)
(* something: transmission of datagrams, FCP transactions, connections and *)
(* MIDI output.  They are checked side by side, each with an environment   *)
(* of its own: only one of them, part, leaves its initial state, where no  *)
(* fair action is enabled.                                                 *)
(***************************************************************************)
EXTENDS FwNetTx, SndFcp, SndCmp, SndMidiOut

VARIABLE part

\* Running status and messages of one to four bytes; system exclusive messages;
\* an escape sequence of the driver.
MidiTexts ==
  { <<"s3", "d", "d", "d", "d", "s1">>, <<"f0", "d", "d", "d", "f7", "s2", "d">>,
    <<"esc", "d", "d", "f7", "s3", "d", "d">>, <<"f0", "d", "d", "d", "d", "d", "f7">> }

\* Of two callers, at most one sends a command that cannot be deferred.
OneUndeferrable == Cardinality({c \in Call : Listed(c) /\ fcp[c].command \notin Deferrable}) <= 1

DriversInit ==
  /\ part \in {"net", "fcp", "cmp", "midi"}
  /\ FwNetTxInit /\ SndFcpInit /\ SndCmpInit /\ SndMidiInit
DriversNext ==
  \/ part = "net" /\ FwNetTxNext /\ UNCHANGED <<part, fcpvars, cmpvars, mvars>>
  \/ part = "fcp" /\ SndFcpNext /\ OneUndeferrable' /\ UNCHANGED <<part, txvars, cmpvars, mvars>>
  \/ part = "cmp" /\ SndCmpNext /\ UNCHANGED <<part, txvars, fcpvars, mvars>>
  \/ part = "midi" /\ SndMidiNext /\ UNCHANGED <<part, txvars, fcpvars, cmpvars>>

DriversSpec ==
  /\ DriversInit /\ [][DriversNext]_<<part, txvars, fcpvars, cmpvars, mvars>>
  /\ FwNetTxFairness /\ SndFcpFairness /\ SndCmpFairness /\ SndMidiFairness
=============================================================================
