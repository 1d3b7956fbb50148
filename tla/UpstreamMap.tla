---------------------------- MODULE UpstreamMap -----------------------------
(***************************************************************************)
(* How a service gets its upstream: `wrap` registers it on chain and asks  *)
(* the gateway to map it, `map` asks again, and UpstreamStore keeps the    *)
(* answer in a Map and, one write of the whole Map after another, in a     *)
(* file.  Requests may be lost, or arrive late, or be answered too late;   *)
(* writes may fail; the gateway may die and be restarted at any moment.    *)
(*                                                                         *)
(* A request is numbered by when it was sent, which is the timestamp its   *)
(* signature covers.  Which url it names matters to nobody here: an entry  *)
(* of the Map is the change that made it.                                  *)
(***************************************************************************)
EXTENDS Integers, Sequences, FiniteSets

CONSTANTS
  Service,      \* services to be wrapped
  MaxExtras,    \* bound: requests beyond those a seller needs
  MaxTroubles   \* bound: requests lost or late, failed writes and restarts

ASSUME UpstreamBoundAssumption == MaxExtras \in Nat /\ MaxTroubles \in Nat

VARIABLES
  registered,     \* services on chain
  sent,           \* requests sent so far
  extras,
  troubles,
  waiting,        \* by service, the request its seller waits for; 0 = none
  mapped,         \* services whose seller was told that they are mapped
  requests,       \* sent, and not yet handled
  handled,        \* changes made so far
  upstreams,      \* UpstreamStore.map, with a change per service
  writes,         \* UpstreamStore.queue: the snapshots yet to be written
  upstreamsFile,
  lastSelfMapTs,  \* by service, the newest signed timestamp accepted; 0 = none
  acknowledged    \* history: by service, the latest change answered 204, the
                  \* latest DELETE so answered and this process's newest signature

sellerVars == <<registered, sent, extras, waiting, mapped>>
storeVars == <<handled, upstreams, writes, lastSelfMapTs>>
upstreamVars == <<sellerVars, troubles, requests, storeVars, upstreamsFile, acknowledged>>

\* No upstream, and never had one.
NoChange == [at |-> 0, signed |-> 0, up |-> FALSE]

Trouble == troubles < MaxTroubles /\ troubles' = troubles + 1

-----------------------------------------------------------------------------
(***************************************************************************)
(* wrap, map and the operator.                                             *)
(***************************************************************************)

\* wrap, first step.  Whether it learns the id or loses the answer, the service
\* is there, and `map` needs no more than its id.
Register(s) ==
  /\ s \notin registered
  /\ registered' = registered \cup {s}
  /\ UNCHANGED <<sent, extras, waiting, mapped, troubles, requests, storeVars,
                 upstreamsFile, acknowledged>>

Send(kind, s) ==
  /\ sent' = sent + 1
  /\ requests' = requests \cup {[kind |-> kind, service |-> s, number |-> sent + 1]}
  /\ UNCHANGED <<registered, mapped, troubles, storeVars, upstreamsFile, acknowledged>>

\* Mutant of AskToMap: wrap's own request is the only one.
AskToMapOnce(s) ==
  /\ s \in registered /\ waiting[s] = 0 /\ s \notin mapped
  /\ \A r \in requests : r.service # s
  /\ upstreams[s] = NoChange /\ troubles = 0
  /\ \E kind \in {"signed", "admin"} : Send(kind, s)
  /\ waiting' = [waiting EXCEPT ![s] = sent + 1]
  /\ UNCHANGED extras

\* wrap, second step, and `map` for as long as it has not succeeded: with the
\* owner's signature or the admin token.
AskToMap(s) ==
  /\ s \in registered /\ waiting[s] = 0 /\ s \notin mapped
  /\ \E kind \in {"signed", "admin"} : Send(kind, s)
  /\ waiting' = [waiting EXCEPT ![s] = sent + 1]
  /\ UNCHANGED extras

\* A second thought of the seller, or a DELETE of the operator.
AskAgain(s) ==
  /\ s \in registered /\ extras < MaxExtras
  /\ extras' = extras + 1
  /\ \E kind \in {"signed", "admin", "delete"} : Send(kind, s)
  /\ UNCHANGED waiting

\* The request, or its answer, takes longer than the client's timeout, and the
\* request may yet arrive.
TimesOut(s) ==
  /\ waiting[s] # 0
  /\ Trouble
  /\ waiting' = [waiting EXCEPT ![s] = 0]
  /\ \/ UNCHANGED requests
     \/ requests' = {r \in requests : r.number # waiting[s]}
  /\ UNCHANGED <<registered, sent, extras, mapped, storeVars, upstreamsFile, acknowledged>>

-----------------------------------------------------------------------------
(***************************************************************************)
(* The gateway.                                                            *)
(***************************************************************************)

\* The seller that waits for this request hears that it failed.
Fails(number) ==
  /\ waiting' = [s \in Service |-> IF waiting[s] = number THEN 0 ELSE waiting[s]]
  /\ UNCHANGED <<mapped, acknowledged>>

Later(m, n) == IF m < n THEN n ELSE m

\* ... or gets a 204, for a change of its own or because there was nothing to do.
Succeeds(r, change) ==
  /\ waiting' = [s \in Service |-> IF waiting[s] = r.number THEN 0 ELSE waiting[s]]
  /\ mapped' = IF waiting[r.service] = r.number THEN mapped \cup {r.service} ELSE mapped
  /\ acknowledged' = [acknowledged EXCEPT ![r.service] =
       [ change |-> Later(@.change, IF change.up THEN change.at ELSE 0),
         delete |-> Later(@.delete, IF change.up THEN 0 ELSE change.at),
         signed |-> Later(@.signed, change.signed) ]]

\* set and delete: the Map changes and its snapshot is queued at once.
SetAndPersist(r, change) ==
  /\ handled' = handled + 1
  /\ upstreams' = [upstreams EXCEPT ![r.service] = change]
  /\ writes' = Append(writes, [request |-> r, snapshot |-> upstreams'])

\* Mutant of SelfMap: any fresh signature will do.
SelfMapUnordered(r) ==
  /\ r.kind = "signed"
  /\ lastSelfMapTs' = [lastSelfMapTs EXCEPT ![r.service] = r.number]
  /\ SetAndPersist(r, [at |-> handled + 1, signed |-> r.number, up |-> TRUE])
  /\ UNCHANGED <<waiting, mapped, acknowledged>>

\* POST /services/:id/map, whose signature is newer than any accepted before.
SelfMap(r) ==
  /\ r.kind = "signed"
  /\ r.number > lastSelfMapTs[r.service]
  /\ lastSelfMapTs' = [lastSelfMapTs EXCEPT ![r.service] = r.number]
  /\ SetAndPersist(r, [at |-> handled + 1, signed |-> r.number, up |-> TRUE])
  /\ UNCHANGED <<waiting, mapped, acknowledged>>

\* 409: replayed or overtaken.
RefuseSelfMap(r) ==
  /\ r.kind = "signed"
  /\ r.number <= lastSelfMapTs[r.service]
  /\ Fails(r.number)
  /\ UNCHANGED storeVars

\* POST /admin/services.
AdminMap(r) ==
  /\ r.kind = "admin"
  /\ SetAndPersist(r, [at |-> handled + 1, signed |-> 0, up |-> TRUE])
  /\ UNCHANGED <<lastSelfMapTs, waiting, mapped, acknowledged>>

\* DELETE /admin/services/:id.  Without an entry there is nothing to write.
Unmap(r) ==
  /\ r.kind = "delete"
  /\ IF upstreams[r.service].up
       THEN /\ SetAndPersist(r, [at |-> handled + 1, signed |-> 0, up |-> FALSE])
            /\ UNCHANGED <<lastSelfMapTs, waiting, mapped, acknowledged>>
       ELSE /\ Succeeds(r, [at |-> handled, signed |-> 0, up |-> FALSE])
            /\ UNCHANGED storeVars

Handle(r) ==
  /\ SelfMap(r) \/ RefuseSelfMap(r) \/ AdminMap(r) \/ Unmap(r)
  /\ requests' = requests \ {r}
  /\ UNCHANGED <<registered, sent, extras, troubles, upstreamsFile>>

\* Mutant of NextWrite: writes race each other.
NextWriteAny == DOMAIN writes

\* Writes take place one at a time, in the order in which they were asked for.
NextWrite == DOMAIN writes \cap {1}

\* writeAtomic: a temporary file takes the place of the old one.
Write ==
  \E i \in NextWrite :
    /\ upstreamsFile' = writes[i].snapshot
    /\ Succeeds(writes[i].request, writes[i].snapshot[writes[i].request.service])
    /\ writes' = SubSeq(writes, 1, i - 1) \o SubSeq(writes, i + 1, Len(writes))
    /\ UNCHANGED <<registered, sent, extras, troubles, requests, handled, upstreams,
                   lastSelfMapTs>>

\* The disk is full, or the directory is gone: the Map keeps the change, and the
\* queue goes on.
WriteFails ==
  \E i \in NextWrite :
    /\ Trouble
    /\ Fails(writes[i].request.number)
    /\ writes' = SubSeq(writes, 1, i - 1) \o SubSeq(writes, i + 1, Len(writes))
    /\ UNCHANGED <<registered, sent, extras, requests, handled, upstreams, lastSelfMapTs,
                   upstreamsFile>>

\* The process dies, after the rename of a write it will not acknowledge or
\* before, and loadSync reads the file back.  Its callers hear nothing.
Restart ==
  /\ Trouble
  /\ \E file \in {upstreamsFile} \cup {writes[i].snapshot : i \in NextWrite} :
       upstreamsFile' = file /\ upstreams' = file
  /\ waiting' = [s \in Service |->
       IF \E i \in DOMAIN writes : writes[i].request.number = waiting[s] THEN 0 ELSE waiting[s]]
  /\ writes' = <<>>
  /\ lastSelfMapTs' = [s \in Service |-> 0]
  /\ acknowledged' = [s \in Service |-> [acknowledged[s] EXCEPT !.signed = 0]]
  /\ UNCHANGED <<registered, sent, extras, mapped, requests, handled>>

-----------------------------------------------------------------------------

UpstreamInit ==
  /\ registered = {} /\ sent = 0 /\ extras = 0 /\ troubles = 0
  /\ waiting = [s \in Service |-> 0] /\ mapped = {}
  /\ requests = {} /\ handled = 0
  /\ upstreams = [s \in Service |-> NoChange]
  /\ writes = <<>>
  /\ upstreamsFile = [s \in Service |-> NoChange]
  /\ lastSelfMapTs = [s \in Service |-> 0]
  /\ acknowledged = [s \in Service |-> [change |-> 0, delete |-> 0, signed |-> 0]]

UpstreamNext ==
  \/ \E s \in Service : Register(s) \/ AskToMap(s) \/ AskAgain(s) \/ TimesOut(s)
  \/ \E r \in requests : Handle(r)
  \/ Write
  \/ WriteFails
  \/ Restart

\* A seller runs `map` until it succeeds, requests arrive unless they were lost,
\* and the file system answers.
UpstreamFairness ==
  /\ \A s \in Service : WF_upstreamVars(AskToMap(s))
  /\ WF_upstreamVars(\E r \in requests : Handle(r))
  /\ WF_upstreamVars(Write)

UpstreamSpec == UpstreamInit /\ [][UpstreamNext]_upstreamVars /\ UpstreamFairness

-----------------------------------------------------------------------------
(***************************************************************************)
(* Properties.                                                             *)
(***************************************************************************)

\* A mapping that was answered 204 is on disk and stays there until a later change
\* replaces it, through failed writes and restarts.
AcknowledgedChangeSticks ==
  \A s \in Service : upstreamsFile[s].at >= acknowledged[s].change

\* Of two requests an owner has signed, the older one never ends up in the file
\* once the newer one has been answered, however late it arrives (the monotonic
\* timestamp, which is as old as the process).
NewestSignedMapWins ==
  \A s \in Service :
    upstreamsFile[s].signed = 0 \/ upstreamsFile[s].signed >= acknowledged[s].signed

\* A service on chain is mapped in the end, whatever failed between wrap's two
\* steps: the mapping can be asked for again without registering again.
FailedWrapIsRepaired == \A s \in Service : s \in registered ~> s \in mapped

\* As the store says, delete removes a mapping, any number of times, and persists
\* that: once its writes are done, nothing is left that a restart would bring back.
AcknowledgedDeleteSticks ==
  \A s \in Service :
    writes = <<>> /\ upstreamsFile[s].up => upstreamsFile[s].at > acknowledged[s].delete

=============================================================================
