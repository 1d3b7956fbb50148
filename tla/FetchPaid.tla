----------------------------- MODULE FetchPaid -----------------------------
(***************************************************************************)
(* The buyer's side of the paywall: fetchPaid as `agentgate buy` and the   *)
(* buyer agent drive it.  A call reads the service's record on the chain,  *)
(* asks the gateway, checks the quote it gets against that record, pays,   *)
(* and presents the proof until it has a verdict.  `calls` holds one call  *)
(* for each buyer; Gateway answers them.                                   *)
(***************************************************************************)
EXTENDS Gateway

CONSTANTS
  Buyer,             \* the accounts that use this client
  MaxPendingRetries  \* MAX_PENDING_RETRIES

ASSUME BuyerAssumption == Buyer \subseteq Account /\ MaxPendingRetries \in Nat

VARIABLE calls  \* the call of each buyer

NoCall == [step |-> "idle"]

\* A call at this step, which remembers what it has learnt.
At(buyer, step) == calls[buyer].step = step
Goes(buyer, call) == calls' = [calls EXCEPT ![buyer] = call]
Ends(buyer, step) == Goes(buyer, [calls[buyer] EXCEPT !.step = step])

\* The buyer's call still waits for the answer to this request.
Awaits(request) ==
  LET call == calls[request.presenter]
  IN  call.step = "waiting" /\ call.nonce = request.nonce

-----------------------------------------------------------------------------

\* The record on the chain, which the call holds the quote against.
Lookup(buyer, id) ==
  /\ At(buyer, "idle")
  /\ Registered(id) /\ services[id].active
  /\ Goes(buyer, [step |-> "listed", listed |-> Record(id)])
  /\ UNCHANGED vars

\* The first request: the 402 names the nonce, the terms and the deadline.  A 500
\* ends the call, here and wherever the gateway answers with one.
CallAsks(buyer) ==
  /\ At(buyer, "listed")
  /\ Len(issued) < MaxInvoices
  /\ Ask(calls[buyer].listed.id)
  /\ IF issued' = issued THEN Goes(buyer, [step |-> "unquoted", listed |-> calls[buyer].listed])
     ELSE LET invoice == CHOOSE i \in invoices' : i.nonce = Len(issued')
          IN  Goes(buyer, [step |-> "quoted", listed |-> calls[buyer].listed, quote |-> invoice.quote,
                           nonce |-> invoice.nonce, expiresAt |-> invoice.expiresAt, retries |-> 0])

\* parsePaymentRequired and the guards behind it.
QuoteIsFair(call) ==
  /\ call.expiresAt > now
  /\ call.quote.amount <= call.listed.amount
  /\ call.quote.payTo = call.listed.payTo
  /\ call.quote.id = call.listed.id

CheckQuote(buyer) ==
  /\ At(buyer, "quoted")
  /\ Ends(buyer, IF QuoteIsFair(calls[buyer]) THEN "paying" ELSE "declined")
  /\ UNCHANGED vars

\* chain.transfer: the payment settles some time after the checks and its receipt
\* arrives; or transfer throws, before or after it settled, and nothing is presented.
CallPays(buyer) ==
  LET call == calls[buyer]
      Settles == Pay(buyer, call.quote.id, call.nonce, call.quote.payTo, call.quote.amount)
  IN  /\ At(buyer, "paying")
      /\ \/ Settles /\ Ends(buyer, "paid")
         \/ (Settles \/ UNCHANGED vars) /\ Ends(buyer, "failed")

PaymentOf(buyer) == CHOOSE payment \in paid : payment.payer = buyer /\ payment.nonce = calls[buyer].nonce

\* How the answer that replaces a proxied call ends it: a new 402 refuses it, a
\* 500, of an invoice that could not be written, is no verdict.
Refusal == IF faults' = faults THEN "refused" ELSE "failed"

\* The proof, with whatever record the gateway has by now.
CallPresents(buyer) ==
  LET call == calls[buyer] IN
  /\ At(buyer, "paid")
  /\ Present(buyer, call.quote.id, call.nonce, PaymentOf(buyer))
  /\ Goes(buyer, [call EXCEPT !.step = IF requests' = requests THEN Refusal ELSE "waiting"])

\* Mutant of CallTimesOut: a proof that got no answer is presented again.
CallTimesOutAndRetries(buyer) ==
  /\ At(buyer, "waiting")
  /\ Ends(buyer, "paid")
  /\ UNCHANGED vars

\* doFetch gives up on a request the gateway still works on.
CallTimesOut(buyer) ==
  /\ At(buyer, "waiting")
  /\ Ends(buyer, "failed")
  /\ UNCHANGED vars

-----------------------------------------------------------------------------
(***************************************************************************)
(* The gateway's answers.                                                  *)
(***************************************************************************)

Tells(request, step) ==
  IF Awaits(request) THEN Ends(request.presenter, step) ELSE UNCHANGED calls

\* A check passes and the request goes on, or it is refused with a new 402.
RefusedOrOn(request) ==
  IF \E r \in requests' : r.presenter = request.presenter /\ r.nonce = request.nonce
    THEN UNCHANGED calls
    ELSE Tells(request, Refusal)

\* 402 with Retry-After: the same proof again, MaxPendingRetries times.
AnswerPending(request) ==
  /\ VerifyPending(request)
  /\ LET call == calls[request.presenter] IN
     IF Awaits(request) /\ call.retries < MaxPendingRetries
       THEN Goes(request.presenter, [call EXCEPT !.step = "paid", !.retries = @ + 1])
       ELSE Tells(request, "gaveUp")

Answer(request) ==
  \/ Verify(request) /\ RefusedOrOn(request)
  \/ AnswerPending(request)
  \/ Burn(request) /\ RefusedOrOn(request)
  \/ BurnFails(request) /\ Tells(request, "failed")
  \/ UpstreamAnswers(request) /\ Tells(request, "served")
  \/ UpstreamFails(request) /\ Tells(request, "upstreamFailed")
  \/ ReleaseFails(request) /\ Tells(request, "failed")

\* The connections break with the process.
CrashDisconnects ==
  /\ Crash
  /\ calls' = [buyer \in Buyer |->
       IF At(buyer, "waiting") THEN [calls[buyer] EXCEPT !.step = "failed"] ELSE calls[buyer]]

CallsInit == calls = [buyer \in Buyer |-> NoCall]

CallNext ==
  \/ \E buyer \in Buyer :
       \/ \E id \in ServiceId : Lookup(buyer, id)
       \/ CallAsks(buyer)
       \/ CheckQuote(buyer)
       \/ CallPays(buyer)
       \/ CallPresents(buyer)
       \/ CallTimesOut(buyer)
  \/ \E request \in requests : Answer(request)
  \/ CrashDisconnects
  \/ Sweep /\ UNCHANGED calls

\* All buyers use this client, and the terms move as they will.
ClientInit == Init /\ CallsInit

ClientNext ==
  \/ CallNext
  \/ TermsNext /\ UNCHANGED <<gatewayVars, paid, calls>>

ClientSpec == ClientInit /\ [][ClientNext]_<<vars, calls>>

-----------------------------------------------------------------------------
(***************************************************************************)
(* Properties.                                                             *)
(***************************************************************************)

\* The chain no longer lists the terms this call was quoted, or its payment was
\* late or its window is over: only then may the proof be refused.
MayRefuse(buyer) ==
  \/ ~ Collectable(PaymentOf(buyer))
  \/ calls[buyer].quote # Record(calls[buyer].quote.id)

\* A call that paid before its deadline, at the terms the chain still lists, is
\* not refused inside the redemption window: not by a slow client, a slow chain,
\* a sweep, a restart or a record that was cached in between.
PaidCallIsNotRefused ==
  \A buyer \in Buyer : At(buyer, "refused") => MayRefuse(buyer)

\* A verdict is final: no upstream has answered a call that was told it is
\* refused or that the upstream failed, and none is working on it.
RefusedMeansNotServed ==
  \A buyer \in Buyer : calls[buyer].step \in {"refused", "gaveUp", "upstreamFailed"} =>
    /\ \A i \in DOMAIN served : served[i].nonce # calls[buyer].nonce
    /\ \A request \in requests : request.nonce # calls[buyer].nonce

=============================================================================
