------------------------- MODULE SubmissionLedger -------------------------
(***************************************************************************)
(* What the assertion log promises a writing client, with no segments,     *)
(* crashes or compaction in sight: a ledger of receipts.  A submission     *)
(* under a fresh idempotency key is recorded once; recorded receipts stay; *)
(* an acknowledgement hands out a recorded receipt, and only for the       *)
(* payload that receipt was minted for.  DurableAssertionLog implements    *)
(* this specification with `receipts` read off its segment files.          *)
(***************************************************************************)
CONSTANTS Mintable          \* every receipt that could ever be minted

VARIABLES receipts,         \* receipts recorded for good
          acked             \* acknowledgements clients have seen

ledger == <<receipts, acked>>

Acknowledgement(r) == [digest |-> r.digest, receipt |-> r]

Init ==
  /\ receipts = {}
  /\ acked = {}

FreshKey(r) == \A q \in receipts : q.key # r.key

\* A submission is recorded; its caller may or may not live to hear of it.
Record(r) ==
  /\ FreshKey(r)
  /\ receipts' = receipts \cup {r}
  /\ acked' \in {acked, acked \cup {Acknowledgement(r)}}

\* A retry of a recorded submission hears the original receipt.
Acknowledge(r) ==
  /\ r \in receipts
  /\ acked' = acked \cup {Acknowledgement(r)}
  /\ UNCHANGED receipts

Next == \E r \in Mintable : Record(r) \/ Acknowledge(r)

Spec == Init /\ [][Next]_ledger
=============================================================================
