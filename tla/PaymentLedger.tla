---------------------------- MODULE PaymentLedger ----------------------------
(***************************************************************************)
(* What the acquiring plugin promises of a counterparty's money, without   *)
(* attempts, transactions or locks: a payment is captured once, and in one *)
(* step its whole amount is laid on open documents, on none beyond what it *)
(* still asks, or kept as the counterparty's advance; closing an order     *)
(* moves what lies on its documents to the advance.                        *)
(***************************************************************************)
EXTENDS Naturals, FiniteSets, FiniteSetsExt

CONSTANTS
    Doc,        \* proforma invoices of one counterparty, organization and currency
    Ref,        \* payments, by channel and external reference
    Amount      \* money amounts

VARIABLES
    price,      \* what each document asks; 0: not issued yet
    captured,   \* per payment, the amount captured; 0: none
    laid,       \* money ever laid on each document
    lifted,     \* ... and moved off it again
    advance     \* money of the counterparty on no document

ledgerVars == <<price, captured, laid, lifted, advance>>

LedgerInit ==
    /\ price \in [Doc -> Amount \cup {0}]
    /\ captured = [r \in Ref |-> 0]
    /\ laid = [d \in Doc |-> 0] /\ lifted = [d \in Doc |-> 0]
    /\ advance = 0

Total(f) == MapThenSumSet(LAMBDA d : f[d], DOMAIN f)

IssueDocument(d, a) ==
    /\ price[d] = 0
    /\ price' = [price EXCEPT ![d] = a]
    /\ UNCHANGED <<captured, laid, lifted, advance>>

CapturePayment(r, a) ==
    /\ captured[r] = 0
    /\ captured' = [captured EXCEPT ![r] = a]
    /\ \E share \in [Doc -> 0..a] :
          /\ \A d \in Doc : share[d] <= price[d] - laid[d]
          /\ Total(share) <= a
          /\ laid' = [d \in Doc |-> laid[d] + share[d]]
          /\ advance' = advance + (a - Total(share))
    /\ UNCHANGED <<price, lifted>>

CloseDocuments(D) ==
    /\ lifted' = [d \in Doc |-> IF d \in D THEN laid[d] ELSE lifted[d]]
    /\ advance' = advance + Total([d \in D |-> laid[d] - lifted[d]])
    /\ UNCHANGED <<price, captured, laid>>

LedgerNext ==
    \/ \E d \in Doc, a \in Amount : IssueDocument(d, a)
    \/ \E r \in Ref, a \in Amount : CapturePayment(r, a)
    \/ \E D \in SUBSET Doc : CloseDocuments(D)

LedgerSpec == LedgerInit /\ [][LedgerNext]_ledgerVars
=============================================================================
