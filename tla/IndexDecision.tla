--------------------------- MODULE IndexDecision ----------------------------
(***************************************************************************)
(* What the trigger-engine promises: every window keeps the log of its     *)
(* daily readings and is decided at most once, on its complete log, with   *)
(* the severity the index definition gives that log.  No accumulator, no   *)
(* cursor, no clock and no intermediate state.                             *)
(***************************************************************************)
EXTENDS IndexSeries

CONSTANTS
  Windows,     \* pairs <<definition id, window id>>
  Definitions  \* the definitions that may be asked for

VARIABLES
  definition,  \* definition id -> definition, where there is one
  log,         \* window -> the readings of its days
  outcome      \* window -> its severity, or Open

decision_vars == <<definition, log, outcome>>

Open == -1

(* A definition under which every complete log has exactly one severity or *)
(* breaches nothing.                                                       *)
Sound(params) ==
  /\ params.window_len > 0
  /\ params.kind = "RainfallShortfall" =>
       params.baseline > 0 /\ params.exhaustion_ratio_bps < params.trigger_ratio_bps
  /\ params.kind = "ConsecutiveDryDays" =>
       params.trigger_days > 0 /\ params.exhaustion_days > params.trigger_days

Init ==
  /\ DOMAIN definition = {}
  /\ log = [w \in Windows |-> <<>>]
  /\ outcome = [w \in Windows |-> Open]

(* One definition is added, for good.                                      *)
Define ==
  \E i \in DOMAIN definition' \ DOMAIN definition :
    /\ definition'[i] \in Definitions
    /\ Sound(definition'[i])
    /\ definition' = [k \in DOMAIN definition \cup {i} |->
                        IF k = i THEN definition'[i] ELSE definition[k]]
    /\ UNCHANGED <<log, outcome>>

(* The reading of a later day is appended to an incomplete log.            *)
Record(w) ==
  LET n == Len(log[w])
      reading == log'[w][n + 1]
  IN  /\ w[1] \in DOMAIN definition
      /\ outcome[w] = Open
      /\ n < definition[w[1]].window_len
      /\ Len(log'[w]) = n + 1
      /\ log' = [log EXCEPT ![w] = Append(@, reading)]
      /\ reading.value >= 0
      /\ n > 0 => reading.day > log[w][n].day
      /\ UNCHANGED <<definition, outcome>>

Settle(w) ==
  /\ w[1] \in DOMAIN definition
  /\ outcome[w] = Open
  /\ outcome'[w] \in 0 .. BPS_DENOMINATOR
  /\ Breaches(definition[w[1]], log[w], outcome'[w])
  /\ outcome' = [outcome EXCEPT ![w] = outcome'[w]]
  /\ UNCHANGED <<definition, log>>

Next == Define \/ \E w \in Windows : Record(w) \/ Settle(w)

Spec == Init /\ [][Next]_decision_vars
=============================================================================
