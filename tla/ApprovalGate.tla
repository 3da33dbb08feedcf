---------------------------- MODULE ApprovalGate ----------------------------
(***************************************************************************)
(* What the quote side promises (NFR-1: no quote is sent without explicit  *)
(* estimator approval): an estimator approves a quote, its proposal is     *)
(* stored, and only a stored proposal is mailed, as often as it takes.     *)
(* QuoteLifecycle implements it.                                           *)
(***************************************************************************)
CONSTANT Quotes

VARIABLES approved,  \* quotes an estimator has approved
          stored,    \* quotes whose proposal is in the derived bucket
          mailed     \* quotes whose proposal was mailed

gateVars == <<approved, stored, mailed>>

GateInit == approved = {} /\ stored = {} /\ mailed = {}

Approve(q) ==
  /\ approved' = approved \cup {q}
  /\ UNCHANGED <<stored, mailed>>

Store(q) ==
  /\ q \in approved
  /\ stored' = stored \cup {q}
  /\ UNCHANGED <<approved, mailed>>

Mail(q) ==
  /\ q \in stored
  /\ mailed' = mailed \cup {q}
  /\ UNCHANGED <<approved, stored>>

GateNext == \E q \in Quotes : Approve(q) \/ Store(q) \/ Mail(q)

GateSpec == GateInit /\ [][GateNext]_gateVars
=============================================================================
