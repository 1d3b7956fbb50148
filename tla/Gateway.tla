------------------------------- MODULE Gateway -------------------------------
(***************************************************************************)
(* The paywall of the gateway: invoices, the proofs of payment presented   *)
(* for them, the single use of each, and the proxied call, with the chain  *)
(* of ServiceTerms moving underneath and requests in flight together.      *)
(*                                                                         *)
(* A request is a record in `requests` that waits for the chain's verdict  *)
(* ("verify"), the recovered signer ("sign") or the upstream ("proxy").    *)
(* Every service is mapped to an upstream here.  FileInvoiceStore changes  *)
(* its Map (`invoices`) first and then writes all of it to its file before *)
(* the method returns; the write can fail, the Map keeps the change, and   *)
(* the handler that called the method ends there with a 500.               *)
(***************************************************************************)
EXTENDS ServiceTerms, Sequences, FiniteSets

CONSTANTS
  CacheTtl,          \* SERVICE_CACHE_TTL_MS
  InvoiceTtl,        \* INVOICE_TTL_MS
  RedemptionWindow,  \* INVOICE_REDEMPTION_WINDOW_MS
  MaxInvoices,       \* bound: invoices issued
  MaxPayments,       \* bound: payments settled
  MaxRequests,       \* bound: proofs being handled together
  MaxCrashes,        \* bound: crashes of the gateway
  MaxFaults          \* bound: failed writes of the invoice store's file

ASSUME TtlAssumption ==
  /\ CacheTtl \in Nat \ {0} /\ InvoiceTtl \in Nat \ {0} /\ RedemptionWindow \in Nat
  /\ CacheTtl + InvoiceTtl < TermsDelay
  /\ InvoiceTtl <= RedemptionWindow
ASSUME GatewayBoundAssumption ==
  {MaxInvoices, MaxPayments, MaxRequests, MaxCrashes, MaxFaults} \subseteq Nat

VARIABLES
  cache,     \* ServiceCache.entries, by service; the empty set = no entry
  issued,    \* the deadlines of the invoices issued, by nonce
  invoices,  \* the Map of the invoice store; `quote`, what the 402 asked, is not stored
  file,      \* what its file holds
  faults,    \* writes of the file that failed so far
  paid,      \* the router's Paid events
  requests,  \* proofs being handled
  served,    \* history: the requests an upstream answered
  crashes,   \* crashes so far
  lost       \* history: nonces whose call was cut off, by a crash while it was with
             \* the upstream or by the failed write of its burn or its release

storeVars == <<issued, invoices, file, faults>>
gatewayVars == <<cache, storeVars, requests, served, crashes, lost>>
vars == <<termsVars, gatewayVars, paid>>

Nonce == 1 .. MaxInvoices

-----------------------------------------------------------------------------
(***************************************************************************)
(* The service record a handler works with.                                *)
(***************************************************************************)

\* The fields of a ServiceRecord the paywall reads.
Record(id) ==
  LET s == GetService(id)
  IN  [id |-> id, active |-> s.active, payTo |-> s.paymentTarget, amount |-> s.accepts]

\* ServiceCache.get resolves to `record`, from the cache while it is fresh.
Resolves(id, record) ==
  LET fresh == {entry \in cache[id] : now - entry.fetchedAt < CacheTtl} IN
  /\ Registered(id)
  /\ IF fresh # {}
       THEN (\E entry \in fresh : record = entry.record) /\ UNCHANGED cache
       ELSE /\ record = Record(id)
            /\ cache' = [cache EXCEPT ![id] = {[record |-> record, fetchedAt |-> now]}]

-----------------------------------------------------------------------------
(***************************************************************************)
(* The invoice store.                                                      *)
(***************************************************************************)

InvoiceOf(nonce) == {invoice \in invoices : invoice.nonce = nonce}

\* persist: the file takes the whole Map, if the Map has changed.
Saved ==
  /\ file' = IF invoices' = invoices THEN file ELSE invoices'
  /\ UNCHANGED faults

\* persist throws before its rename: the file stays as it was.
NotSaved ==
  /\ faults < MaxFaults
  /\ faults' = faults + 1
  /\ UNCHANGED file

\* respond402Fresh: a fresh invoice for the terms of this record.  An invoice
\* whose put throws stays in the Map under a random nonce that no answer names:
\* nobody can pay or present it, and it is left out.
Challenge(record) ==
  IF Len(issued) = MaxInvoices THEN UNCHANGED storeVars
  ELSE \/ /\ issued' = Append(issued, now + InvoiceTtl)
          /\ invoices' = invoices \cup
               {[nonce |-> Len(issued) + 1, id |-> record.id, quote |-> record,
                 expiresAt |-> now + InvoiceTtl, used |-> FALSE]}
          /\ Saved
       \/ NotSaved /\ UNCHANGED <<issued, invoices>>

\* The flag in the Map, which markUsed and release change before they persist.
SetUsed(nonce, used) ==
  invoices' = {[invoice EXCEPT !.used = IF invoice.nonce = nonce THEN used ELSE @]
                 : invoice \in invoices}

\* Mutant of Sweep: an invoice goes when its quote lapses.
SweepAtExpiry ==
  /\ \E invoice \in invoices : invoice.expiresAt < now
  /\ invoices' = {invoice \in invoices : invoice.expiresAt >= now}
  /\ Saved \/ NotSaved
  /\ UNCHANGED <<termsVars, cache, issued, requests, served, crashes, lost, paid>>

\* Invoices go a redemption window after their quote lapsed.  A write that fails
\* here throws out of the timer and main.ts takes the process down: a Crash
\* follows, and until then the handlers go on.
Sweep ==
  /\ \E invoice \in invoices : invoice.expiresAt < now - RedemptionWindow
  /\ invoices' = {invoice \in invoices : invoice.expiresAt >= now - RedemptionWindow}
  /\ Saved \/ NotSaved
  /\ UNCHANGED <<termsVars, cache, issued, requests, served, crashes, lost, paid>>

-----------------------------------------------------------------------------
(***************************************************************************)
(* The paywall.                                                            *)
(***************************************************************************)

\* A request without a proof.
Ask(id) ==
  \E record \in {Record(id)} \cup {entry.record : entry \in cache[id]} :
    /\ Resolves(id, record)
    /\ record.active
    /\ Challenge(record)
    /\ UNCHANGED <<termsVars, requests, served, crashes, lost, paid>>

\* A proof names a payment and a nonce.  An unknown or used nonce is answered
\* with a new challenge, and expiry is not looked at yet.
Present(presenter, id, nonce, payment) ==
  \E record \in {Record(id)} \cup {entry.record : entry \in cache[id]} :
    /\ Resolves(id, record)
    /\ record.active
    /\ Cardinality(requests) < MaxRequests
    /\ LET usable == {invoice \in InvoiceOf(nonce) : invoice.id = id /\ ~invoice.used}
       IN  IF usable = {}
             THEN Challenge(record) /\ UNCHANGED requests
             ELSE /\ requests' = requests \cup
                       {[ presenter |-> presenter, nonce |-> nonce, payment |-> payment,
                          record |-> record, step |-> "verify",
                          expiresAt |-> (CHOOSE invoice \in usable : TRUE).expiresAt ]}
                  /\ UNCHANGED storeVars
    /\ UNCHANGED <<termsVars, served, crashes, lost, paid>>

\* verifyTransfer of a mined payment through the router.
TransferOk(record, nonce, payment) ==
  /\ payment.payTo = record.payTo
  /\ payment.nonce = nonce /\ payment.id = record.id
  /\ payment.amount >= record.amount
  /\ now - payment.timestamp <= RedemptionWindow

MovesTo(request, step) ==
  requests' = (requests \ {request}) \cup {[request EXCEPT !.step = step]}

Refuse(request) == requests' = requests \ {request} /\ Challenge(request.record)

\* Mutant of Verify: the quote must still stand when its proof is looked at.
VerifyAtPresentation(request) ==
  /\ request.step = "verify"
  /\ IF /\ TransferOk(request.record, request.nonce, request.payment)
        /\ now <= request.expiresAt
       THEN MovesTo(request, "sign") /\ UNCHANGED storeVars
       ELSE Refuse(request)
  /\ UNCHANGED <<termsVars, cache, served, crashes, lost, paid>>

\* The chain's verdict, then the only expiry check: did the payment beat the
\* deadline the invoice had when it was looked up?
Verify(request) ==
  /\ request.step = "verify"
  /\ IF /\ TransferOk(request.record, request.nonce, request.payment)
        /\ request.payment.timestamp <= request.expiresAt
       THEN MovesTo(request, "sign") /\ UNCHANGED storeVars
       ELSE Refuse(request)
  /\ UNCHANGED <<termsVars, cache, served, crashes, lost, paid>>

\* The transaction is not final on the gateway's node: the invoice is left alone
\* and the buyer may come back with the same proof.
VerifyPending(request) ==
  /\ request.step = "verify"
  /\ requests' = requests \ {request}
  /\ UNCHANGED <<termsVars, cache, storeVars, served, crashes, lost, paid>>

\* Mutant of Burn: the lookup that found the invoice unused is trusted.
BurnTrustsLookup(request) ==
  /\ request.step = "sign"
  /\ IF request.presenter = request.payment.payer
       THEN SetUsed(request.nonce, TRUE) /\ Saved /\ MovesTo(request, "proxy") /\ UNCHANGED issued
       ELSE Refuse(request)
  /\ UNCHANGED <<termsVars, cache, served, crashes, lost, paid>>

\* The recovered signer is the payer, and markUsed finds the invoice unused.
MayBurn(request) ==
  /\ request.presenter = request.payment.payer
  /\ \E invoice \in InvoiceOf(request.nonce) : ~invoice.used

\* markUsed burns the nonce, for one request only, which goes to the upstream.
Burn(request) ==
  /\ request.step = "sign"
  /\ IF MayBurn(request)
       THEN SetUsed(request.nonce, TRUE) /\ Saved /\ MovesTo(request, "proxy") /\ UNCHANGED issued
       ELSE Refuse(request)
  /\ UNCHANGED <<termsVars, cache, served, crashes, lost, paid>>

\* markUsed throws: the Map holds the invoice burned, its file does not, and the
\* handler is left with a 500 before the proxy and before any release.
BurnFails(request) ==
  /\ request.step = "sign"
  /\ MayBurn(request)
  /\ SetUsed(request.nonce, TRUE) /\ NotSaved
  /\ requests' = requests \ {request}
  /\ lost' = lost \cup {request.nonce}
  /\ UNCHANGED <<termsVars, cache, issued, served, crashes, paid>>

\* The upstream answers, whatever it says, and the buyer gets the answer.
UpstreamAnswers(request) ==
  /\ request.step = "proxy"
  /\ served' = Append(served, request)
  /\ requests' = requests \ {request}
  /\ UNCHANGED <<termsVars, cache, storeVars, crashes, lost, paid>>

\* Mutant of UpstreamFails: the invoice stays burned.
UpstreamFailsKeepsBurned(request) ==
  /\ request.step = "proxy"
  /\ requests' = requests \ {request}
  /\ UNCHANGED <<termsVars, cache, storeVars, served, crashes, lost, paid>>

\* No answer from the upstream: the invoice is released, if it is still there.
UpstreamFails(request) ==
  /\ request.step = "proxy"
  /\ SetUsed(request.nonce, FALSE) /\ Saved
  /\ requests' = requests \ {request}
  /\ UNCHANGED <<termsVars, cache, issued, served, crashes, lost, paid>>

\* release throws: the Map has freed the invoice, its file holds it burned, and
\* the buyer gets a 500.
ReleaseFails(request) ==
  /\ request.step = "proxy"
  /\ \E invoice \in InvoiceOf(request.nonce) : invoice.used
  /\ SetUsed(request.nonce, FALSE) /\ NotSaved
  /\ requests' = requests \ {request}
  /\ lost' = lost \cup {request.nonce}
  /\ UNCHANGED <<termsVars, cache, issued, served, crashes, paid>>

\* The process dies and is started again: the store is what its file holds, the
\* requests and the cache are gone.
Crash ==
  /\ crashes < MaxCrashes
  /\ crashes' = crashes + 1
  /\ lost' = lost \cup {request.nonce : request \in {r \in requests : r.step = "proxy"}}
  /\ requests' = {}
  /\ cache' = [id \in ServiceId |-> {}]
  /\ invoices' = file
  /\ UNCHANGED <<termsVars, issued, file, faults, served, paid>>

-----------------------------------------------------------------------------

\* PaymentRouter.pay, of an invoice that has been quoted.
Pay(payer, id, nonce, payTo, amount) ==
  /\ Cardinality(paid) < MaxPayments
  /\ nonce \in DOMAIN issued
  /\ ~ \E payment \in paid : /\ payment.id = id /\ payment.nonce = nonce
                             /\ payment.payer = payer /\ payment.payTo = payTo
  /\ paid' = paid \cup {[id |-> id, nonce |-> nonce, payer |-> payer, payTo |-> payTo,
                         amount |-> amount, timestamp |-> now]}
  /\ UNCHANGED <<termsVars, gatewayVars>>

Init ==
  /\ TermsInit
  /\ cache = [id \in ServiceId |-> {}]
  /\ issued = <<>>
  /\ invoices = {} /\ file = {} /\ faults = 0
  /\ paid = {}
  /\ requests = {}
  /\ served = <<>>
  /\ crashes = 0
  /\ lost = {}

PaywallNext(presenters) ==
  \/ \E id \in ServiceId : Ask(id)
  \/ \E presenter \in presenters, id \in ServiceId, nonce \in Nonce, payment \in paid :
       Present(presenter, id, nonce, payment)
  \/ \E request \in requests :
       \/ Verify(request)
       \/ VerifyPending(request)
       \/ Burn(request) \/ BurnFails(request)
       \/ UpstreamAnswers(request)
       \/ UpstreamFails(request) \/ ReleaseFails(request)
  \/ Sweep
  \/ Crash

Next ==
  \/ TermsNext /\ UNCHANGED <<gatewayVars, paid>>
  \/ PaywallNext(Account)
  \/ \E payer, payTo \in Account, id \in ServiceId, nonce \in Nonce, amount \in Price :
       Pay(payer, id, nonce, payTo, amount)

Spec == Init /\ [][Next]_vars

-----------------------------------------------------------------------------
(***************************************************************************)
(* Properties.                                                             *)
(***************************************************************************)

\* The payment beat the deadline of the invoice it names, and can be collected.
Collectable(payment) ==
  /\ payment.timestamp <= issued[payment.nonce]
  /\ now - payment.timestamp <= RedemptionWindow

\* Every call an upstream answered was paid by its own presenter with a
\* settlement of its own, made before the quote lapsed: no interleaving of
\* proofs of one invoice, no release and no restart buys a second answer.
EveryServeHasItsOwnPayment ==
  \A i \in DOMAIN served :
    /\ served[i].payment \in paid
    /\ served[i].payment.payer = served[i].presenter
    /\ served[i].payment.timestamp <= served[i].expiresAt
    /\ \A j \in DOMAIN served : served[i].nonce = served[j].nonce => i = j

Calls(nonce) == {r \in requests : r.nonce = nonce /\ r.step = "proxy"}
Answers(nonce) == {i \in DOMAIN served : served[i].nonce = nonce}

\* markUsed, release, the sweeps, the writes of them that fail and the restarts
\* keep the burns in step with the deliveries, in the Map and in the file a
\* restart goes by: an invoice is never with the upstream twice, nor again after
\* an answer; one that is there or was answered is burned in both, so that no
\* restart sells it again; and one that is burned for neither had its call cut
\* off, by a crash or by a failed write of its own burn or release, or is past
\* the redemption window.
BurnedMeansDelivered ==
  \A invoice \in invoices \cup file :
    LET deliveries == Cardinality(Calls(invoice.nonce)) + Cardinality(Answers(invoice.nonce))
    IN  /\ deliveries <= 1
        /\ deliveries = 1 => invoice.used
        /\ invoice.used => \/ deliveries = 1
                           \/ invoice.nonce \in lost
                           \/ invoice.expiresAt < now - RedemptionWindow

\* A burn is undone when the gateway, not the buyer, is why the call was not
\* delivered (the promise of InvoiceStore.release): while the process lives, a
\* burned invoice is with the upstream or was answered.
UndeliveredIsReleased ==
  \A invoice \in invoices :
    invoice.used => Calls(invoice.nonce) # {} \/ Answers(invoice.nonce) # {}

\* A payment that beat its invoice's deadline finds the invoice in the store for
\* the whole redemption window, through sweeps and restarts.
PaidInvoiceIsKept ==
  \A payment \in paid : Collectable(payment) => InvoiceOf(payment.nonce) # {}

\* As the paywall says, a payment that beat the deadline is honoured however late
\* it is presented: one that followed its quote passes verification for as long
\* as its window lasts.
TimelyPaymentIsHonoured ==
  \A payment \in paid : \A invoice \in InvoiceOf(payment.nonce) :
    /\ Collectable(payment)
    /\ payment.id = invoice.id
    /\ payment.payTo = invoice.quote.payTo /\ payment.amount >= invoice.quote.amount
    => TransferOk(Record(invoice.id), invoice.nonce, payment)

=============================================================================
