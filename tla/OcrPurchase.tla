---------------------------- MODULE OcrPurchase ----------------------------
(***************************************************************************)
(* What the pipeline promises about money (spec sections 4.6 and 9 B8):    *)
(* nothing is bought for a document before its manifest is persisted, and  *)
(* the same work on the same document is bought once, however many times   *)
(* its messages are delivered.  DocumentPipeline implements it.            *)
(***************************************************************************)
EXTENDS Integers, Sequences

CONSTANTS Docs,       \* documents
          FeatureSets \* the work that can be bought for one

VARIABLES decided,    \* [Docs -> BOOLEAN]: the manifest is persisted
          bought      \* [Docs -> Seq(FeatureSets)]: Textract jobs, in order

purchaseVars == <<decided, bought>>

PurchaseInit ==
  /\ decided = [d \in Docs |-> FALSE]
  /\ bought = [d \in Docs |-> << >>]

Decide(d) ==
  /\ ~decided[d]
  /\ decided' = [decided EXCEPT ![d] = TRUE]
  /\ UNCHANGED bought

Buy(d) ==
  /\ decided[d]
  /\ \E work \in FeatureSets :
       /\ \A n \in DOMAIN bought[d] : bought[d][n] # work
       /\ bought' = [bought EXCEPT ![d] = Append(@, work)]
  /\ UNCHANGED decided

PurchaseNext == \E d \in Docs : Decide(d) \/ Buy(d)

PurchaseSpec == PurchaseInit /\ [][PurchaseNext]_purchaseVars
=============================================================================
