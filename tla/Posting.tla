------------------------------ MODULE Posting ------------------------------
(***************************************************************************)
(* The customer side of the general ledger (src/lib/posting.ts), seen from *)
(* one invoice: what the journals of that invoice, of its payments and of  *)
(* its credit notes have added up to on three accounts.                    *)
(*                                                                         *)
(*   ar        1-1100 accounts receivable   (debit balance)                *)
(*   deposit   2-1300 customer advances     (credit balance)               *)
(*   refund    2-1400 customer refunds due  (credit balance)               *)
(*   sale      the INVOICE journal: not posted, posted, or posted and      *)
(*             mirrored by a VOID_REVERSAL journal                         *)
(*   saleAr, saleDeposit   what that journal debited, kept for its mirror  *)
(*   shipRefs  references <<old, new>> of the shipping ADJUSTMENT journals *)
(*                                                                         *)
(* Every journal the code posts balances by the choice of its lines, so    *)
(* cash (1-1000), revenue (4-1000) and the cost accounts carry nothing     *)
(* that these fields do not already determine and are left out.  Tax and   *)
(* withholding (2-1100, 1-1500) are zero.                                  *)
(***************************************************************************)
EXTENDS Integers

SaleStates == {"NONE", "POSTED", "REVERSED"}

NoBooks ==
  [ar |-> 0, deposit |-> 0, refund |-> 0, sale |-> "NONE",
   saleAr |-> 0, saleDeposit |-> 0, shipRefs |-> {}]

Books(costs) ==
  [ar: Int, deposit: Int, refund: Int, sale: SaleStates,
   saleAr: Int, saleDeposit: Int, shipRefs: SUBSET (costs \X costs)]

\* What the invoice's customer owes on balance: receivable less what the
\* roastery owes back as advance or as refund.
NetPosition(g) == g.ar - g.deposit - g.refund

\* postJournalEntry refuses lines that do not balance: with more paid than
\* invoiced, postSalesInvoice has debits above its credits.
SalesInvoiceBalances(total, paid) == paid <= total

\* postSalesInvoice; a second call finds the journal by its reference and
\* changes nothing.
MutantPostSalesInvoice(g, total, paid) ==      \* receivable of the whole bill
  IF g.sale # "NONE" THEN g
  ELSE [g EXCEPT !.sale = "POSTED", !.saleAr = total, !.saleDeposit = paid,
                 !.ar = @ + total, !.deposit = @ - paid]
PostSalesInvoice(g, total, paid) ==
  IF g.sale # "NONE" THEN g
  ELSE [g EXCEPT !.sale = "POSTED",
                 !.saleAr = total - paid,
                 !.saleDeposit = paid,
                 !.ar = @ + (total - paid),
                 !.deposit = @ - paid]

\* postVoidReversal("INVOICE", ...): mirrors the sale journal; the mirror has
\* a reference of its own, so doing it again changes nothing.
MutantReverseSalesInvoice(g) == g              \* mirror forgotten
MutantForgetSalesInvoice(g) ==                 \* journal deleted instead
  [g EXCEPT !.sale = "NONE", !.ar = @ - g.saleAr,
            !.deposit = @ + g.saleDeposit]
ReverseSalesInvoice(g) ==
  IF g.sale # "POSTED" THEN g
  ELSE [g EXCEPT !.sale = "REVERSED",
                 !.ar = @ - g.saleAr,
                 !.deposit = @ + g.saleDeposit]

\* postCustomerPrepayment and postCustomerPayment.
PostCustomerPrepayment(g, amount) == [g EXCEPT !.deposit = @ + amount]
PostCustomerPayment(g, amount) == [g EXCEPT !.ar = @ - amount]

\* The journal of payment p, and its mirror posted by voidPayment.
PostPayment(g, p) ==
  IF p.book = "PREPAYMENT" THEN PostCustomerPrepayment(g, p.amount)
                           ELSE PostCustomerPayment(g, p.amount)
ReversePayment(g, p) ==
  IF p.book = "PREPAYMENT" THEN PostCustomerPrepayment(g, 0 - p.amount)
                           ELSE PostCustomerPayment(g, 0 - p.amount)

\* postCreditNote: arPortion off the receivable, refundPortion owed back.
PostCreditNote(g, arPortion, refundPortion) ==
  [g EXCEPT !.ar = @ - arPortion, !.refund = @ + refundPortion]

\* The ADJUSTMENT journal of a changed shipping cost.  Its reference is the
\* pair of costs, and a reference posted before is not posted again.
PostShippingAdjustment(g, old, new) ==
  IF old = new \/ <<old, new>> \in g.shipRefs THEN g
  ELSE [g EXCEPT !.ar = @ + (new - old), !.shipRefs = @ \cup {<<old, new>>}]
=============================================================================
