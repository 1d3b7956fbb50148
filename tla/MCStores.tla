------------------------------ MODULE MCStores ------------------------------
(***************************************************************************)
(* What the gateway keeps in files, one store to a scene: the attestation  *)
(* queue, the invoice store's lock and the upstream map share no state.    *)
(***************************************************************************)
EXTENDS AttestationQueue, InvoiceLock, UpstreamMap

VARIABLE scene

StoresInit ==
  /\ scene \in {"queue", "lock", "upstreams"}
  /\ Init
  /\ LockInit
  /\ UpstreamInit

StoresNext ==
  /\ UNCHANGED scene
  /\ \/ scene = "queue" /\ Next /\ UNCHANGED <<lockVars, upstreamVars>>
     \/ scene = "lock" /\ SerialLockNext /\ UNCHANGED <<vars, upstreamVars>>
     \/ scene = "upstreams" /\ UpstreamNext /\ UNCHANGED <<vars, lockVars>>

\* The fairness of each store.  Nothing but the clock of the queue could move in
\* a scene that is not its own.
StoresSpec ==
  /\ StoresInit
  /\ [][StoresNext]_<<scene, vars, lockVars, upstreamVars>>
  /\ WF_vars(scene = "queue" /\ Tick) /\ WF_vars(Boot) /\ WF_vars(Prune)
  /\ \A g \in Gateway : WF_lockVars(BootStep(g))
  /\ UpstreamFairness

=============================================================================
