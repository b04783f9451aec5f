-------------------------------- MODULE Link --------------------------------
(***************************************************************************)
(* link(): a scalar location of the tree kept in step with a value outside *)
(* it (the endpoint).  The module composes the link with the transaction   *)
(* runtime, the durable-consequence gate and the microtask queue they all  *)
(* share.                                                                  *)
(*                                                                         *)
(* Outbound: a flush of the notifier that delivered something appends a    *)
(* run to the link's promise chain, through the gate; a run sends laps of  *)
(* the `eligible' value until the endpoint has acknowledged it.  Inbound:  *)
(* what the endpoint emits is written as external truth.                   *)
(*                                                                         *)
(* Microtasks run in their order; user code may come between two of them.  *)
(* A continuation of the chain takes a few microtasks: `Hop' lets it take  *)
(* any number.  The notifier is asked to flush by the first entry of an    *)
(* empty queue; a flush that comes too late finds nothing.                 *)
(***************************************************************************)
EXTENDS Transactions

CONSTANTS
    Source,          \* the linked location
    RejectsUnderWay, \* whether a rejection may come while a step of the chain
                     \* waits in the microtask queue
    EmitsInFlight,   \* whether the endpoint may emit while a send is in flight
    EmitsUndelivered \* whether it may emit the very value the tree shows while
                     \* the notifier has yet to deliver that value

ASSUME SourceAssumption == Source \in Cell
ASSUME LinkSwitchesAssumption ==
    /\ RejectsUnderWay \in BOOLEAN
    /\ EmitsInFlight \in BOOLEAN /\ EmitsUndelivered \in BOOLEAN

VARIABLES
    gate,      \* the durable-consequence gate of the tree
    micro,     \* the microtask queue
    link,      \* the variables of link()
    endpoint,  \* [value, sending, landed]: the outside, and the send in flight
    waiter     \* a call of settled(): [stage, at]

linkVars == <<gate, micro, link, endpoint, waiter>>
allVars == <<vars, linkVars>>

Gate == INSTANCE CommitConsequence WITH
    Key <- {"flush", "send"}, Listener <- {}, MaxScopes <- 0, MaxScheduled <- 0,
    gate <- gate, frames <- <<>>, outcome <- <<>>, fate <- <<>>, torn <- FALSE

Nothing == "nothing"

InitialLink == [
    eligible |-> Initially,  \* the value that may become external truth
    known    |-> Nothing,    \* what the endpoint is known to hold (knownY)
    held     |-> FALSE,      \* an observation waits to be released
    runs     |-> 0,          \* unfinished runs of the chain
    phase    |-> "idle",     \* of the oldest run
    failed   |-> FALSE,      \* history: the last send was refused
    disposed |-> FALSE ]

-----------------------------------------------------------------------------
(* The operations of the link, on the state s = [gate, micro, link].       *)

Now == [gate |-> gate, micro |-> micro, link |-> link]
Change(s) == gate' = s.gate /\ micro' = s.micro /\ link' = s.link
Queued(s, task) == [s EXCEPT !.micro = Append(@, task)]
Held(s, key) == [s EXCEPT !.gate = Gate!HeldBack(@, [key |-> key, serial |-> 0])]

StartRun(s) == Queued([s EXCEPT !.link.phase = "queued"], "lap")

(* The consequence of an observation: one more run of the chain.           *)
AppendRun(s) ==
    LET released == [s EXCEPT !.link.held = FALSE]
        appended == [released EXCEPT !.link.runs = @ + 1]
    IN  IF s.link.disposed THEN released
        ELSE IF s.link.runs = 0 THEN StartRun(appended) ELSE appended

(* scheduleDurableConsequence of a flush, which is never within a callback *)
FlushOutbound(s) ==
    IF Gate!Releases(s.gate) THEN AppendRun(s)
    ELSE Held([s EXCEPT !.link.held = TRUE], "flush")

(* What a delivery of the queue q tells the link.                          *)
Observed(s, q) ==
    LET seen == SelectSeq(Delivered(q), LAMBDA entry : entry.cell = Source)
    IN  IF seen = <<>> \/ s.link.disposed THEN s
        ELSE FlushOutbound([s EXCEPT !.link.eligible = Last(seen).after])

EndRun(s) ==
    LET ended == [s EXCEPT !.link.runs = @ - 1, !.link.phase = "idle"]
    IN  IF ended.link.runs = 0 THEN ended ELSE StartRun(ended)

EndAll(s) == [s EXCEPT !.link.runs = 0, !.link.phase = "idle"]

(* Mutant: what was held is let go without a run.                          *)
HeldForgotten(s, consequence) ==
    IF consequence.key = "flush" THEN [s EXCEPT !.link.held = FALSE]
    ELSE IF s.link.phase = "waiting" THEN StartRun(s) ELSE s

(* A held send starts over in a microtask of its own.                      *)
RunHeld(s, consequence) ==
    IF consequence.key = "flush" THEN AppendRun(s)
    ELSE IF s.link.phase = "waiting" THEN StartRun(s) ELSE s

(* The scope of transaction n settles.  The link defers nothing in a scope *)
(* itself: its flushes are outside every callback.                         *)
Settled(s, n) ==
    LET closed == [s EXCEPT !.gate = Gate!Closed(@, n)]
    IN  IF ~Gate!Releases(closed.gate) THEN closed
        ELSE FoldLeft(RunHeld, [closed EXCEPT !.gate = Gate!Emptied(@)], closed.gate.held)

(* The notifier asks for a flush when its queue q gets a first entry.      *)
Asked(s, q, r) == IF q = <<>> /\ r # <<>> THEN Queued(s, "flush") ELSE s

-----------------------------------------------------------------------------
(* The user's side: an action of the transaction runtime, and what it does *)
(* to the gate, to the microtask queue and, by a flush, to the link.       *)

UserWrite ==
    /\ AuthoredWrite
    /\ Change(Asked(Now, queue, queue'))
    /\ UNCHANGED <<endpoint, waiter>>

(* The opening flush comes before the scope.                               *)
UserOpen ==
    /\ Open
    /\ LET s == Observed(Now, queue)
       IN  Change([s EXCEPT !.gate = Gate!Opened(@, Len(handles) + 1)])
    /\ UNCHANGED <<endpoint, waiter>>

UserReturns ==
    /\ CallbackReturns
    /\ Change(Observed(Now, queue))
    /\ UNCHANGED <<endpoint, waiter>>

MayReject == RejectsUnderWay \/ ~ \E i \in DOMAIN micro : micro[i] = "lap"

(* A scope is settled exactly when its handle is, so a refused rollback    *)
(* leaves it open.                                                         *)
SettledIf(s, n) == IF handles'[n].lifecycle = "pending" THEN s ELSE Settled(s, n)

(* The flush that ends the callback, then the compensation in an empty     *)
(* queue, then the scope.                                                  *)
UserThrows ==
    /\ MayReject
    /\ CallbackThrows
    /\ Change(SettledIf(Asked(Observed(Now, queue), <<>>, queue'), Current))
    /\ UNCHANGED <<endpoint, waiter>>

UserSettles(n) ==
    /\ HandleConfirm(n) \/ (MayReject /\ HandleRollback(n))
    /\ Change(SettledIf(Asked(Now, queue, queue'), n))
    /\ UNCHANGED <<endpoint, waiter>>

-----------------------------------------------------------------------------
(* Microtasks                                                              *)

NextTask(task) == ~Running /\ micro # <<>> /\ Head(micro) = task
Taken == [Now EXCEPT !.micro = Tail(@)]

FlushTask ==
    /\ NextTask("flush")
    /\ \/ Flush
       \/ queue = <<>> /\ UNCHANGED vars
    /\ Change(Observed(Taken, queue))
    /\ UNCHANGED <<endpoint, waiter>>

(* Another microtask on the way to the continuation of the chain.          *)
Hop ==
    /\ NextTask("lap")
    /\ Len(micro) > 1
    /\ micro' = Append(Tail(micro), "lap")
    /\ UNCHANGED <<vars, gate, link, endpoint, waiter>>

(* Mutant: an ended relationship still reaches its endpoint.               *)
SendsWhenever(s) ==
    s.link.eligible # s.link.known /\ Gate!Releases(s.gate)

(* Mutant: the permission of the flush is good for every lap.              *)
SendsUnasked(s) ==
    ~s.link.disposed /\ s.link.eligible # s.link.known

(* What a lap does: a relationship that has ended, or a value the endpoint *)
(* is known to hold, ends the run; an unsettled tree makes it wait.        *)
Sends(s) ==
    /\ ~s.link.disposed
    /\ s.link.eligible # s.link.known
    /\ Gate!Releases(s.gate)

Unsent(s) ==
    IF s.link.disposed THEN EndAll(s)
    ELSE IF s.link.eligible = s.link.known THEN EndRun(s)
    ELSE Held([s EXCEPT !.link.phase = "waiting"], "send")

Lap ==
    /\ NextTask("lap")
    /\ IF Sends(Now)
       THEN /\ Change([Taken EXCEPT !.link.phase = "inflight"])
            /\ endpoint' = [endpoint EXCEPT !.sending = link.eligible, !.landed = FALSE]
       ELSE /\ Change(Unsent(Taken))
            /\ UNCHANGED endpoint
    /\ UNCHANGED <<vars, waiter>>

-----------------------------------------------------------------------------
(* The endpoint                                                            *)

InFlight == endpoint.sending # Nothing

(* endpoint.set() takes effect,                                            *)
Land ==
    /\ ~Running /\ InFlight /\ ~endpoint.landed
    /\ endpoint' = [endpoint EXCEPT !.value = endpoint.sending, !.landed = TRUE]
    /\ UNCHANGED <<vars, gate, micro, link, waiter>>

(* and is acknowledged: the run takes another lap.                         *)
Acknowledge ==
    /\ ~Running /\ InFlight /\ endpoint.landed
    /\ endpoint' = [endpoint EXCEPT !.sending = Nothing, !.landed = FALSE]
    /\ Change(StartRun([Now EXCEPT !.link.known = endpoint.sending, !.link.failed = FALSE]))
    /\ UNCHANGED <<vars, waiter>>

(* Or it fails, whether or not it took effect, and the run ends: the next  *)
(* change is the retry.                                                    *)
Refuse ==
    /\ ~Running /\ InFlight
    /\ endpoint' = [endpoint EXCEPT !.sending = Nothing, !.landed = FALSE]
    /\ Change(EndRun([Now EXCEPT !.link.failed = TRUE]))
    /\ UNCHANGED <<vars, waiter>>

(* Mutant: what is acquired is not remembered as the endpoint's.           *)
AcquiredOnly(s, v) == [s EXCEPT !.link.eligible = v]

Acquired(s, v) == [s EXCEPT !.link.eligible = v, !.link.known = v]

(* The endpoint changes by itself and emits: the value is external truth.  *)
Emit(v) ==
    /\ ~Running /\ ~link.disposed
    /\ EmitsInFlight \/ ~InFlight
    /\ EmitsUndelivered \/ queue = <<>> \/ v # tree[Source]
    /\ v # endpoint.value
    /\ endpoint' = [endpoint EXCEPT !.value = v]
    /\ IF v = tree[Source] THEN UNCHANGED vars
       ELSE Write(Source, v, "replace", "realized", Standing!Settled)
    /\ Change(Asked(Acquired(Now, v), queue, queue'))
    /\ UNCHANGED waiter

-----------------------------------------------------------------------------
(* The handle: settled() and dispose()                                     *)

(* A call of settled(), after the writes made so far: wait for the chain,  *)
CallSettled ==
    /\ ~Running /\ waiter.stage = "none"
    /\ waiter' = [stage |-> "chain", at |-> writes]
    /\ UNCHANGED <<vars, gate, micro, link, endpoint>>

ChainDrained ==
    /\ ~Running /\ waiter.stage = "chain"
    /\ link.runs = 0 \/ link.disposed
    /\ waiter' = [waiter EXCEPT !.stage = "look"]
    /\ micro' = Append(micro, "look")
    /\ UNCHANGED <<vars, gate, link, endpoint>>

(* Mutant: one look is enough.                                             *)
FoundOnce(l) == "done"

(* look again at the chain and at what is held back,                       *)
Found(l) ==
    IF l.disposed THEN "done"
    ELSE IF l.runs > 0 THEN "chain"
    ELSE IF l.held THEN "held" ELSE "done"

Look ==
    /\ NextTask("look")
    /\ waiter' = [waiter EXCEPT !.stage = Found(link)]
    /\ micro' = Tail(micro)
    /\ UNCHANGED <<vars, gate, link, endpoint>>

(* and wait for its release.                                               *)
Release ==
    /\ ~Running /\ waiter.stage = "held" /\ ~link.held
    /\ waiter' = [waiter EXCEPT !.stage = "chain"]
    /\ UNCHANGED <<vars, gate, micro, link, endpoint>>

(* Whoever waits is released; a send in flight is not called back.         *)
Dispose ==
    /\ ~Running /\ ~link.disposed
    /\ Change([Now EXCEPT !.link.disposed = TRUE, !.link.held = FALSE,
                          !.link.runs = IF @ > 0 /\ link.phase = "waiting" THEN 0 ELSE @,
                          !.link.phase = IF @ = "waiting" THEN "idle" ELSE @])
    /\ UNCHANGED <<vars, endpoint, waiter>>

-----------------------------------------------------------------------------

LinkInit ==
    /\ Init
    /\ gate = Gate!InitialGate
    /\ micro = <<>>
    /\ link = InitialLink
    /\ endpoint = [value |-> Initially, sending |-> Nothing, landed |-> FALSE]
    /\ waiter = [stage |-> "none", at |-> 0]

User ==
    \/ UserWrite \/ UserOpen \/ UserReturns \/ UserThrows
    \/ \E n \in DOMAIN handles : UserSettles(n)
    \/ CallSettled \/ Dispose

Microtask == FlushTask \/ Hop \/ Lap \/ Look \/ ChainDrained \/ Release
Outside == Land \/ Acknowledge \/ Refuse \/ (\E v \in Value : Emit(v))

LinkNext == User \/ Microtask \/ Outside

(* Microtasks run, and the endpoint answers.                               *)
LinkSpec ==
    /\ LinkInit /\ [][LinkNext]_allVars
    /\ WF_allVars(Microtask)
    /\ WF_allVars(Land \/ Acknowledge \/ Refuse)

-----------------------------------------------------------------------------
(* Correctness                                                             *)

Tasks == {"flush", "lap", "look"}

(* The variables of the link have their types; the chain has one           *)
(* continuation at a time, and a send in flight belongs to it.             *)
LinkTypeOK ==
    /\ link.eligible \in Value /\ link.known \in Value \cup {Nothing}
    /\ micro \in Seq(Tasks)
    /\ (link.phase = "idle") <=> (link.runs = 0)
    /\ (link.phase = "inflight") <=> InFlight
    /\ Len(SelectSeq(micro, LAMBDA t : t = "lap")) = (IF link.phase = "queued" THEN 1 ELSE 0)
    /\ link.phase = "waiting" => \E i \in DOMAIN gate.held : gate.held[i].key = "send"
    /\ link.held => \E i \in DOMAIN gate.held : gate.held[i].key = "flush"

(* "a transaction that is rolled back never reaches the endpoint"          *)
(* (link.ts:630): what the link hands to the endpoint is the first value   *)
(* of the location or one that a write settled or never in question gave   *)
(* it.                                                                     *)
NoRejectedValueIsSent ==
    [][ endpoint.sending = Nothing /\ endpoint.sending' # Nothing
          => endpoint.sending' \in {Initially} \cup
                {layers[Source][i].value :
                    i \in {j \in DOMAIN layers[Source] :
                              layers[Source][j].by = Standing!Settled}} ]_allVars

Unsettled == gate.open # {}
Quiet == ~Running /\ micro = <<>> /\ ~Unsettled /\ link.runs = 0

(* When nothing is under way, unsettled or refused, the two sides agree,   *)
(* whatever writes, emissions, settlements and answers came in which       *)
(* order: no change of either is missed.                                   *)
Converged ==
    Quiet /\ ~link.failed /\ ~link.disposed => endpoint.value = tree[Source]

(* settled() "means the durable write actually landed"                     *)
(* (link-persistence-conformance.spec.ts): when it resolves and nothing    *)
(* was written since the call, the endpoint holds what the tree shows.     *)
SettledMeansLanded ==
    [][ waiter.stage # "done" /\ waiter'.stage = "done"
          /\ ~link.failed /\ ~link.disposed /\ writes = waiter.at
          => endpoint.value = tree[Source] ]_allVars

(* After dispose() the endpoint is not called again.                       *)
DisposedIsSilent ==
    [][ link.disposed /\ endpoint.sending' # endpoint.sending
          => endpoint.sending' = Nothing ]_allVars

(* A difference is sent or excused: no observation and no send is left     *)
(* behind a gate that has opened.                                          *)
OutboundArrives ==
    endpoint.value # tree[Source] /\ ~Unsettled
      ~> \/ endpoint.value = tree[Source] \/ Unsettled
         \/ link.failed \/ link.disposed
=============================================================================
