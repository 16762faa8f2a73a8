--------------------- MODULE SnapshotPublicationProofs ---------------------
(***************************************************************************)
(* Proofs about the publication protocol of one replica, for any set of    *)
(* handlers and manifests and any bounds, and about the offline            *)
(* publication of the files that replicas load, for any finite set of runs *)
(* of the two tools and any number of crashes.                             *)
(***************************************************************************)
EXTENDS SnapshotPublication, DurablePublish, FiniteSetTheorems, TLAPS

Calls == [pc : CallStates, m : Manifests \union {None}, g : Generations,
          token : 0..MaxToken, file : Ids \union {None}, prepared : Snapshots \union {None}]

\* The fence, the slot's manifest and generation, and what generations are bound to.
FenceIsBound ==
    /\ status.highest >= serving.identity.gen
    /\ status.state \in {"PREPARING", "READY_TO_ACTIVATE"} => status.highest > serving.identity.gen
    /\ generation = 0 => status.highest = serving.identity.gen
    /\ generation # 0 => /\ generation = status.highest
                         /\ manifest \in Manifests
                         /\ bound[generation] = manifest
    /\ \A g \in Generations : g > status.highest => bound[g] = None

\* Without publication no call is admitted; with it the replica is managed.
ManagedOnly ==
    /\ enabled => serving.identity.gen # 0
    /\ ~enabled => status.state = "SERVING" /\ \A h \in Handlers : call[h].pc = "idle"

\* Every admitted call has a token of its own, the last one issued or an older one.
Admitted == {"transfer", "complete", "loading", "installing", "replying", "failing"}
TokensAreUnique ==
    \A h \in Handlers :
        /\ call[h].token <= token
        /\ call[h].token # 0 <=> call[h].pc \in Admitted
        /\ \A k \in Handlers : call[k].token = call[h].token /\ call[h].token # 0 => k = h

\* A call in preparation owns the slot and carries the slot's manifest, and
\* PREPARING always has an owner.
SlotIsHeld ==
    /\ \A h \in Handlers : call[h].pc \in InPreparation =>
          OwnsSlot(h) /\ call[h].m = manifest /\ call[h].g = generation
    /\ status.state = "PREPARING" =>
          /\ status.candidate = Identity(manifest, generation)
          /\ \E h \in Handlers : call[h].pc \in InPreparation \union {"failing"} /\ OwnsSlot(h)

\* c is the next snapshot of the store, verified against the slot's manifest.
IsNext(c) ==
    /\ c \in Snapshots
    /\ manifest.loads /\ c.index = manifest.id
    /\ c.identity = Identity(manifest, generation)
    /\ c.version = serving.version + 1

PreparedIsNext ==
    /\ \A h \in Handlers : call[h].pc = "installing" => IsNext(call[h].prepared)
    /\ status.state = "READY_TO_ACTIVATE" => IsNext(candidate) /\ status.candidate = candidate.identity

\* The inductive invariant.
IInv == /\ TypeOK
        /\ FenceIsBound
        /\ ManagedOnly
        /\ TokensAreUnique
        /\ SlotIsHeld
        /\ PreparedIsNext
        /\ ServedIsVerified

\* Replacing one handler's call record keeps the table well typed.
LEMMA CallType ==
  ASSUME TypeOK, NEW h \in Handlers
  PROVE  /\ call \in [Handlers -> Calls] /\ call[h] \in Calls
         /\ \A c \in Calls : [call EXCEPT ![h] = c] \in [Handlers -> Calls]
<1>1. call \in [Handlers -> Calls]
  BY DEF TypeOK, Calls
<1>2. call[h] \in Calls
  BY <1>1
<1> QED BY <1>1, <1>2

\* No call has started, or the last one is over.
LEMMA IdleType == Idle \in Calls
BY BoundsAssumption DEF Idle, Calls, CallStates, Generations

\* snapshot_identity gives an identity.
LEMMA IdentityType ==
  ASSUME NEW m \in Manifests, NEW g \in Generations
  PROVE  Identity(m, g) \in Identities
BY DEF Identity, Identities, Ids, Revs

\* Every step of the manager, the handlers and the store keeps the state well typed.
LEMMA TypeStep ==
  ASSUME IInv, [Next]_vars
  PROVE  TypeOK'
<1>0. TypeOK
  BY DEF IInv
<1>c. call \in [Handlers -> Calls]
  BY <1>0, CallType DEF TypeOK, Calls
<1>t. ASSUME call' \in [Handlers -> Calls],
             serving' \in Snapshots,
             status' \in [state : States, lastResult : Outcomes, highest : Generations,
                          candidate : Identities \union {None}],
             candidate' \in Snapshots \union {None},
             UNCHANGED <<enabled, manifest, generation, token, bound>>
      PROVE  TypeOK'
  BY <1>0, <1>t DEF TypeOK, Calls
<1>1. ASSUME NEW h \in Handlers, NEW m \in Manifests, NEW g \in Generations, BeginAccept(h, m, g)
      PROVE  TypeOK'
  <2>1. token + 1 \in 0..MaxToken
    BY <1>0, <1>1, BoundsAssumption DEF BeginAccept, TypeOK
  <2>2. call' \in [Handlers -> Calls]
    <3>1. [Idle EXCEPT !.pc = "transfer", !.m = m, !.g = g, !.token = token + 1] \in Calls
      BY <2>1, IdleType DEF Calls, CallStates
    <3> QED BY <1>0, <1>1, <3>1, CallType DEF BeginAccept
  <2>3. status' \in [state : States, lastResult : Outcomes, highest : Generations,
                     candidate : Identities \union {None}]
    BY <1>0, <1>1, IdentityType DEF BeginAccept, TypeOK, States, Outcomes
  <2>4. bound' \in [Generations -> Manifests \union {None}]
    BY <1>0, <1>1 DEF BeginAccept, TypeOK
  <2> QED BY <1>0, <1>1, <2>1, <2>2, <2>3, <2>4 DEF BeginAccept, TypeOK, Calls
<1>2. ASSUME NEW h \in Handlers, BeginThrow(h) \/ Reply(h) PROVE TypeOK'
  <2>1. [Idle EXCEPT !.pc = "rejecting"] \in Calls
    BY IdleType DEF Calls, CallStates
  <2>2. call' \in [Handlers -> Calls]
    BY <1>0, <1>2, <2>1, IdleType, CallType DEF BeginThrow, Reply
  <2> QED BY <1>0, <1>2, <1>t, <2>2 DEF BeginThrow, Reply, TypeOK
<1>3. ASSUME NEW h \in Handlers, TransferFails(h) \/ LoadFails(h) \/ ReplyFails(h) PROVE TypeOK'
  <2>1. call' \in [Handlers -> Calls]
    BY <1>c, <1>3 DEF TransferFails, LoadFails, ReplyFails, Calls, CallStates
  <2> QED BY <1>0, <1>3, <1>t, <2>1 DEF TransferFails, LoadFails, ReplyFails, TypeOK
<1>4. ASSUME NEW h \in Handlers, TransferEnds(h) PROVE TypeOK'
  <2>1. PICK d \in Ids : call' = [call EXCEPT ![h].pc = "complete", ![h].file = d]
    BY <1>4 DEF TransferEnds
  <2>2. call' \in [Handlers -> Calls]
    <3> DEFINE new == [call[h] EXCEPT !.pc = "complete", !.file = d]
    <3>1. call[h] \in Calls
      BY <1>c
    <3>2. new \in Calls
      BY <3>1 DEF Calls, CallStates
    <3>3. call' = [call EXCEPT ![h] = new]
      BY <1>c, <2>1
    <3> HIDE DEF new
    <3> QED BY <1>c, <3>2, <3>3
  <2> QED BY <1>0, <1>4, <1>t, <2>2 DEF TransferEnds, TypeOK
<1>5. ASSUME NEW h \in Handlers, CompleteEnter(h) PROVE TypeOK'
  <2>1. CASE OwnsSlot(h)
    <3>1. call' = [call EXCEPT ![h].pc = "loading", ![h].m = manifest, ![h].g = generation]
      BY <1>5, <2>1 DEF CompleteEnter
    <3>2. manifest \in Manifests \union {None} /\ generation \in Generations
      BY <1>0 DEF TypeOK
    <3>3. call' \in [Handlers -> Calls]
      <4> DEFINE new == [call[h] EXCEPT !.pc = "loading", !.m = manifest, !.g = generation]
      <4>1. call[h] \in Calls
        BY <1>c
      <4>2. new \in Calls
        BY <3>2, <4>1 DEF Calls, CallStates
      <4>3. call' = [call EXCEPT ![h] = new]
        BY <1>c, <3>1
      <4> HIDE DEF new
      <4> QED BY <1>c, <4>2, <4>3
    <3> QED BY <1>0, <1>5, <1>t, <3>3 DEF CompleteEnter, TypeOK
  <2>2. CASE ~OwnsSlot(h)
    <3>1. call' \in [Handlers -> Calls]
      BY <1>c, <1>5, <2>2 DEF CompleteEnter, Calls, CallStates
    <3> QED BY <1>0, <1>5, <1>t, <3>1 DEF CompleteEnter, TypeOK
  <2> QED BY <2>1, <2>2
<1>6. ASSUME NEW h \in Handlers, Load(h) PROVE TypeOK'
  <2> DEFINE new == [index |-> call[h].file, version |-> serving.version + 1,
                     identity |-> Identity(call[h].m, call[h].g)]
  <2>1. call' = [call EXCEPT ![h].pc = "installing", ![h].prepared = new]
    BY <1>6 DEF Load
  <2>2. call[h].m \in Manifests /\ call[h].g \in Generations /\ call[h].file \in Ids
    <3>1. call[h].m = manifest /\ status.state = "PREPARING"
      BY <1>6 DEF Load, IInv, SlotIsHeld, InPreparation, OwnsSlot
    <3>2. manifest \in Manifests
      BY <1>0, <3>1, BoundsAssumption DEF IInv, FenceIsBound, TypeOK, Snapshots, Identities, Generations
    <3>3. call[h].file = call[h].m.id /\ call[h].g \in Generations
      BY <1>c, <1>6 DEF Load, Verified, Calls
    <3> QED BY <3>1, <3>2, <3>3 DEF Ids
  <2>3. serving.version + 1 \in Versions
    BY <1>0, <1>6, BoundsAssumption DEF Load, Preparable, TypeOK, Snapshots, Versions
  <2>4. new \in Snapshots
    BY <2>2, <2>3, IdentityType DEF Snapshots
  <2> HIDE DEF new
  <2>5. call' \in [Handlers -> Calls]
    <3> DEFINE loaded == [call[h] EXCEPT !.pc = "installing", !.prepared = new]
    <3>1. call[h] \in Calls
      BY <1>c
    <3>2. loaded \in Calls
      BY <2>4, <3>1 DEF Calls, CallStates
    <3>3. call' = [call EXCEPT ![h] = loaded]
      BY <1>c, <2>1
    <3> HIDE DEF loaded
    <3> QED BY <1>c, <3>2, <3>3
  <2> QED BY <1>0, <1>6, <1>t, <2>5 DEF Load, TypeOK
<1>7. ASSUME NEW h \in Handlers, Install(h) \/ InstallThrows(h) PROVE TypeOK'
  <2>1. call' \in [Handlers -> Calls]
    BY <1>c, <1>7 DEF Install, InstallThrows, Calls, CallStates
  <2>2. candidate' \in Snapshots \union {None}
    BY <1>c, <1>7 DEF Install, InstallThrows, Calls
  <2>3. status' \in [state : States, lastResult : Outcomes, highest : Generations,
                     candidate : Identities \union {None}]
    BY <1>0, <1>7 DEF Install, InstallThrows, TypeOK, States, Outcomes
  <2> QED BY <1>0, <1>7, <1>t, <2>1, <2>2, <2>3 DEF Install, InstallThrows, TypeOK
<1>8. ASSUME NEW h \in Handlers, Fail(h) \/ Rejected(h) PROVE TypeOK'
  <2>1. call' \in [Handlers -> Calls]
    BY <1>0, <1>8, CallType, IdleType DEF Fail, Rejected
  <2>2. candidate' \in Snapshots \union {None}
    BY <1>0, <1>8 DEF Fail, Rejected, TypeOK
  <2>3. status' \in [state : States, lastResult : Outcomes, highest : Generations,
                     candidate : Identities \union {None}]
    BY <1>0, <1>8 DEF Fail, Rejected, StateAfterRejection, TypeOK, States, Outcomes
  <2> QED BY <1>0, <1>8, <1>t, <2>1, <2>2, <2>3 DEF Fail, Rejected, TypeOK
<1>9. ASSUME NEW i, NEW g, Activate(i, g) \/ AlreadyActive(i, g) \/ ActivationRejected(i, g) PROVE TypeOK'
  <2>1. serving' \in Snapshots /\ candidate' \in Snapshots \union {None}
    BY <1>0, <1>9 DEF Activate, Activatable, AlreadyActive, ActivationRejected, TypeOK
  <2>2. status' \in [state : States, lastResult : Outcomes, highest : Generations,
                     candidate : Identities \union {None}]
    BY <1>0, <1>9 DEF Activate, AlreadyActive, ActivationRejected, TypeOK, States, Outcomes
  <2> QED BY <1>0, <1>c, <1>9, <1>t, <2>1, <2>2 DEF Activate, AlreadyActive, ActivationRejected, TypeOK
<1>10. ASSUME NEW d \in Ids, ReplaceIndex(d) PROVE TypeOK'
  <2>1. serving.version + 1 \in Versions /\ 0 \in Generations
    BY <1>0, <1>10, BoundsAssumption DEF ReplaceIndex, Replaceable, TypeOK, Snapshots, Versions, Generations
  <2>2. serving' \in Snapshots
    BY <1>10, <2>1 DEF ReplaceIndex, Snapshots, Identities
  <2> QED BY <1>0, <1>c, <1>10, <1>t, <2>2 DEF ReplaceIndex, TypeOK
<1>11. CASE UNCHANGED vars
  BY <1>0, <1>11 DEF vars, TypeOK
<1> QED BY <1>1, <1>2, <1>3, <1>4, <1>5, <1>6, <1>7, <1>8, <1>9, <1>10, <1>11 DEF Next, Advance, Transfer

\* The parts of the state that the proofs below do arithmetic with.
LEMMA NumbersType ==
  ASSUME TypeOK
  PROVE  /\ serving.identity.gen \in Nat /\ serving.identity.gen \in Generations
         /\ serving.version \in Nat /\ status.highest \in Nat /\ status.highest \in Generations
         /\ generation \in Nat /\ token \in Nat /\ status.state \in States
         /\ \A h \in Handlers : call[h].token \in Nat /\ call[h].pc \in CallStates
BY BoundsAssumption DEF TypeOK, Snapshots, Identities, Generations, Versions

\* What a step of a handler leaves alone, and the places it can come from.
HandlerFrame(h) ==
    /\ UNCHANGED <<enabled, serving, manifest, generation, token, bound>>
    /\ status'.highest = status.highest
    /\ \A k \in Handlers \ {h} : call'[k] = call[k]

\* Outside begin() a handler's step changes its own call, the status and the
\* candidate, and never the fence.
LEMMA HandlerSteps ==
  ASSUME TypeOK, NEW h \in Handlers, BeginThrow(h) \/ Advance(h) \/ Transfer(h)
  PROVE  HandlerFrame(h)
<1>1. status \in [state : States, lastResult : Outcomes, highest : Generations,
                  candidate : Identities \union {None}]
      /\ call \in [Handlers -> Calls]
  BY DEF TypeOK, Calls
<1>2. status'.highest = status.highest
  <2>1. CASE Install(h) \/ InstallThrows(h) \/ Fail(h) \/ Rejected(h)
    BY <1>1, <2>1 DEF Install, InstallThrows, Fail, Rejected
  <2>2. CASE ~(Install(h) \/ InstallThrows(h) \/ Fail(h) \/ Rejected(h))
    BY <2>2 DEF Advance, Transfer, BeginThrow, CompleteEnter, Load, LoadFails, Reply, ReplyFails, TransferEnds,
       TransferFails
  <2> QED BY <2>1, <2>2
<1>3. \A k \in Handlers \ {h} : call'[k] = call[k]
  BY <1>1 DEF Advance, Transfer, BeginThrow, CompleteEnter, Load, LoadFails, Install, InstallThrows, Reply,
     ReplyFails, Fail, Rejected, TransferEnds, TransferFails
<1>4. UNCHANGED <<enabled, serving, manifest, generation, token, bound>>
  BY DEF Advance, Transfer, BeginThrow, CompleteEnter, Load, LoadFails, Install, InstallThrows, Reply,
     ReplyFails, Fail, Rejected, TransferEnds, TransferFails
<1> QED BY <1>2, <1>3, <1>4 DEF HandlerFrame

\* Where a handler's step takes its own call, and what it does to the slot: only
\* the owner of the slot installs or fails it.
HandlerMove(h) ==
    LET old == call[h] new == call'[h] IN
    \/ /\ old.pc = "idle" /\ new.pc = "rejecting" /\ new.token = 0
       /\ UNCHANGED <<status, candidate>>
    \/ /\ old.pc = "rejecting" /\ new.pc = "idle" /\ new.token = 0
       /\ UNCHANGED candidate
       /\ status'.state = StateAfterRejection(status.state) /\ status'.candidate = status.candidate
    \/ /\ old.pc = "transfer" /\ new.pc = "complete" /\ new.token = old.token
       /\ new.m = old.m /\ new.g = old.g /\ UNCHANGED <<status, candidate>>
    \/ /\ old.pc = "complete" /\ new.pc = "loading" /\ new.token = old.token
       /\ new.m = manifest /\ new.g = generation /\ OwnsSlot(h) /\ UNCHANGED <<status, candidate>>
    \/ /\ old.pc = "loading" /\ new.pc = "installing" /\ new.token = old.token
       /\ new.m = old.m /\ new.g = old.g /\ UNCHANGED <<status, candidate>>
       /\ Verified(h) /\ new.prepared = [index |-> old.file, version |-> serving.version + 1,
                                         identity |-> Identity(old.m, old.g)]
    \/ /\ old.pc = "installing" /\ new.pc = "replying" /\ new.token = old.token
       /\ OwnsSlot(h) /\ candidate' = old.prepared
       /\ status'.state = "READY_TO_ACTIVATE" /\ status'.candidate = status.candidate
    \/ /\ old.pc = "installing" /\ new.pc = "failing" /\ new.token = old.token
       /\ OwnsSlot(h) /\ candidate' = old.prepared
       /\ status'.state \in {status.state, "READY_TO_ACTIVATE"} /\ status'.candidate = status.candidate
    \/ /\ old.pc \in {"transfer", "complete", "loading", "replying"}
       /\ new.pc = "failing" /\ new.token = old.token
       /\ UNCHANGED <<status, candidate>>
    \/ /\ old.pc = "replying" /\ new.pc = "idle" /\ new.token = 0
       /\ UNCHANGED <<status, candidate>>
    \/ /\ old.pc = "failing" /\ new.pc = "idle" /\ new.token = 0
       /\ \/ OwnsSlot(h) /\ status'.state = "FAILED" /\ candidate' = None
          \/ ~OwnsSlot(h) /\ UNCHANGED <<status, candidate>>

\* Outside begin() a handler's step is one of the moves.
LEMMA HandlerMoves ==
  ASSUME TypeOK, NEW h \in Handlers, BeginThrow(h) \/ Advance(h) \/ Transfer(h)
  PROVE  HandlerMove(h)
<1>1. status \in [state : States, lastResult : Outcomes, highest : Generations,
                  candidate : Identities \union {None}]
      /\ call \in [Handlers -> Calls] /\ call[h] \in Calls
  BY DEF TypeOK, Calls
<1>2. CASE BeginThrow(h)
  BY <1>1, <1>2 DEF BeginThrow, Idle, HandlerMove
<1>3. CASE Rejected(h)
  BY <1>1, <1>3 DEF Rejected, Idle, HandlerMove
<1>4. CASE TransferEnds(h)
  BY <1>1, <1>4 DEF TransferEnds, Calls, HandlerMove
<1>5. CASE TransferFails(h) \/ LoadFails(h) \/ ReplyFails(h)
  BY <1>1, <1>5 DEF TransferFails, LoadFails, ReplyFails, Calls, HandlerMove
<1>6. CASE CompleteEnter(h)
  BY <1>1, <1>6 DEF CompleteEnter, Calls, HandlerMove
<1>7. CASE Load(h)
  <2> DEFINE new == [index |-> call[h].file, version |-> serving.version + 1,
                     identity |-> Identity(call[h].m, call[h].g)]
  <2>1. /\ call' = [call EXCEPT ![h].pc = "installing", ![h].prepared = new]
        /\ call[h].pc = "loading" /\ Verified(h) /\ UNCHANGED <<status, candidate>>
    BY <1>7 DEF Load
  <2> HIDE DEF new
  <2>2. /\ call'[h].pc = "installing" /\ call'[h].prepared = new /\ call'[h].token = call[h].token
        /\ call'[h].m = call[h].m /\ call'[h].g = call[h].g
    BY <1>1, <2>1 DEF Calls
  <2> QED BY <2>1, <2>2 DEF HandlerMove, new
<1>8. CASE Install(h)
  BY <1>1, <1>8 DEF Install, Calls, HandlerMove
<1>9. CASE InstallThrows(h)
  BY <1>1, <1>9 DEF InstallThrows, Calls, HandlerMove
<1>10. CASE Reply(h)
  BY <1>1, <1>10 DEF Reply, Idle, HandlerMove
<1>11. CASE Fail(h)
  BY <1>1, <1>11 DEF Fail, MayFail, OwnsSlot, Idle, HandlerMove
<1> QED BY <1>2, <1>3, <1>4, <1>5, <1>6, <1>7, <1>8, <1>9, <1>10, <1>11 DEF Advance, Transfer

\* Every step keeps the fence above what is served and the bindings below the fence.
LEMMA FenceStep ==
  ASSUME IInv, [Next]_vars
  PROVE  FenceIsBound'
<1>0. TypeOK /\ FenceIsBound /\ SlotIsHeld /\ PreparedIsNext
  BY DEF IInv
<1>n. /\ serving.identity.gen \in Nat /\ status.highest \in Nat /\ generation \in Nat
      /\ \A g \in Generations : g \in Nat
  BY <1>0, NumbersType, BoundsAssumption DEF Generations
<1>f. ASSUME status'.highest = status.highest, serving'.identity.gen = serving.identity.gen,
             UNCHANGED <<manifest, generation, bound>>,
             status'.state \in {"PREPARING", "READY_TO_ACTIVATE"}
                => status.state \in {"PREPARING", "READY_TO_ACTIVATE"}
      PROVE  FenceIsBound'
  BY <1>0, <1>f DEF FenceIsBound
<1>1. ASSUME NEW h \in Handlers, NEW m \in Manifests, NEW g \in Generations, BeginAccept(h, m, g)
      PROVE  FenceIsBound'
  <2>1. /\ generation' = g /\ manifest' = m /\ bound'[g] = m
        /\ status'.highest = g /\ serving' = serving
        /\ \A k \in Generations \ {g} : bound'[k] = bound[k]
    BY <1>0, <1>1 DEF BeginAccept, TypeOK
  <2>2. g > serving.identity.gen /\ g >= status.highest /\ g # 0
    BY <1>1 DEF BeginAccept, Acceptable
  <2> QED BY <1>0, <1>n, <2>1, <2>2 DEF FenceIsBound
<1>2. ASSUME NEW h \in Handlers, BeginThrow(h) \/ Advance(h) \/ Transfer(h) PROVE FenceIsBound'
  <2>1. HandlerFrame(h) /\ HandlerMove(h)
    BY <1>0, <1>2, HandlerSteps, HandlerMoves
  <2>2. status'.state \in {"PREPARING", "READY_TO_ACTIVATE"}
           => status.state \in {"PREPARING", "READY_TO_ACTIVATE"}
    BY <2>1 DEF HandlerMove, StateAfterRejection, OwnsSlot
  <2> QED BY <1>f, <2>1, <2>2 DEF HandlerFrame
<1>3. ASSUME NEW i, NEW g, Activate(i, g) PROVE FenceIsBound'
  <2>1. /\ status' = [status EXCEPT !.state = "SERVING", !.lastResult = "ACTIVATED", !.candidate = None]
        /\ serving' = candidate /\ status.state = "READY_TO_ACTIVATE"
        /\ UNCHANGED <<manifest, generation, bound>>
    BY <1>3 DEF Activate, Activatable
  <2>2. candidate.identity.gen = generation
    BY <1>0, <2>1 DEF PreparedIsNext, IsNext, Identity
  <2>3. status'.state = "SERVING" /\ status'.highest = status.highest
    BY <1>0, <2>1 DEF TypeOK
  <2>4. generation # 0 /\ generation = status.highest
    BY <1>0, <1>n, <2>1 DEF FenceIsBound
  <2> QED BY <1>0, <1>n, <2>1, <2>2, <2>3, <2>4 DEF FenceIsBound
<1>4. ASSUME NEW i, NEW g, AlreadyActive(i, g) \/ ActivationRejected(i, g) PROVE FenceIsBound'
  BY <1>0, <1>f, <1>4 DEF AlreadyActive, ActivationRejected, TypeOK
<1>5. ASSUME NEW d \in Ids, ReplaceIndex(d) PROVE FenceIsBound'
  BY <1>0, <1>f, <1>5 DEF ReplaceIndex, Replaceable
<1>6. CASE UNCHANGED vars
  BY <1>f, <1>6 DEF vars
<1> QED BY <1>1, <1>2, <1>3, <1>4, <1>5, <1>6 DEF Next

\* Every step keeps publication to the replicas that are managed.
LEMMA ManagedStep ==
  ASSUME IInv, [Next]_vars
  PROVE  ManagedOnly'
<1>0. TypeOK /\ ManagedOnly /\ FenceIsBound /\ PreparedIsNext
  BY DEF IInv
<1>1. ASSUME NEW h \in Handlers, NEW m \in Manifests, NEW g \in Generations, BeginAccept(h, m, g)
      PROVE  ManagedOnly'
  BY <1>0, <1>1 DEF BeginAccept, ManagedOnly
<1>2. ASSUME NEW h \in Handlers, BeginThrow(h) \/ Advance(h) \/ Transfer(h) PROVE ManagedOnly'
  <2>1. HandlerFrame(h)
    BY <1>0, <1>2, HandlerSteps
  <2>2. enabled
    <3>1. call[h].pc = "idle" => enabled
      BY <1>2 DEF BeginThrow, Advance, Transfer, CompleteEnter, Load, LoadFails, Install, InstallThrows, Reply,
         ReplyFails, Fail, Rejected, TransferEnds, TransferFails
    <3> QED BY <1>0, <3>1 DEF ManagedOnly
  <2> QED BY <1>0, <2>1, <2>2 DEF ManagedOnly, HandlerFrame
<1>3. ASSUME NEW i, NEW g, Activate(i, g) PROVE ManagedOnly'
  <2>1. serving' = candidate /\ enabled /\ enabled' = enabled /\ status.state = "READY_TO_ACTIVATE"
    BY <1>3 DEF Activate, Activatable
  <2>2. candidate.identity.gen = generation
    BY <1>0, <2>1 DEF PreparedIsNext, IsNext, Identity
  <2>3. generation # 0
    BY <1>0, <2>1, NumbersType DEF FenceIsBound
  <2> QED BY <2>1, <2>2, <2>3 DEF ManagedOnly
<1>4. ASSUME NEW i, NEW g, AlreadyActive(i, g) \/ ActivationRejected(i, g) PROVE ManagedOnly'
  BY <1>0, <1>4 DEF AlreadyActive, ActivationRejected, ManagedOnly
<1>5. ASSUME NEW d \in Ids, ReplaceIndex(d) PROVE ManagedOnly'
  BY <1>0, <1>5 DEF ReplaceIndex, Replaceable, ManagedOnly
<1>6. CASE UNCHANGED vars
  BY <1>0, <1>6 DEF vars, ManagedOnly
<1> QED BY <1>1, <1>2, <1>3, <1>4, <1>5, <1>6 DEF Next

\* Every step keeps the tokens of admitted calls apart.
LEMMA TokensStep ==
  ASSUME IInv, [Next]_vars
  PROVE  TokensAreUnique'
<1>0. TypeOK /\ TokensAreUnique
  BY DEF IInv
<1>n. token \in Nat /\ \A h \in Handlers : call[h].token \in Nat
  BY <1>0, NumbersType
<1>1. ASSUME NEW h \in Handlers, NEW m \in Manifests, NEW g \in Generations, BeginAccept(h, m, g)
      PROVE  TokensAreUnique'
  <2>1. /\ token' = token + 1 /\ call'[h].token = token + 1 /\ call'[h].pc = "transfer"
        /\ \A k \in Handlers \ {h} : call'[k] = call[k]
    BY <1>0, <1>1 DEF BeginAccept, TypeOK, Idle
  <2> QED BY <1>0, <1>n, <2>1 DEF TokensAreUnique, Admitted
<1>2. ASSUME NEW h \in Handlers, BeginThrow(h) \/ Advance(h) \/ Transfer(h) PROVE TokensAreUnique'
  <2>1. /\ token' = token /\ \A k \in Handlers \ {h} : call'[k] = call[k]
    BY <1>0, <1>2, HandlerSteps DEF HandlerFrame
  <2>2. \/ call'[h].token = 0 /\ call'[h].pc \notin Admitted
        \/ call'[h].token = call[h].token /\ call'[h].pc \in Admitted /\ call[h].pc \in Admitted
    BY <1>0, <1>2, HandlerMoves DEF HandlerMove, Admitted
  <2> QED BY <1>0, <1>n, <2>1, <2>2 DEF TokensAreUnique
<1>3. ASSUME NEW i, NEW g, Activate(i, g) \/ AlreadyActive(i, g) \/ ActivationRejected(i, g) PROVE TokensAreUnique'
  BY <1>0, <1>3 DEF Activate, AlreadyActive, ActivationRejected, TokensAreUnique
<1>4. CASE UNCHANGED vars \/ \E d \in Ids : ReplaceIndex(d)
  BY <1>0, <1>4 DEF vars, ReplaceIndex, TokensAreUnique
<1> QED BY <1>1, <1>2, <1>3, <1>4 DEF Next

\* The fence is above what is served while the slot is in use, so a repeated
\* activation of the current generation cannot take the slot away.
LEMMA AlreadyActiveIsIdle ==
  ASSUME IInv, NEW i, NEW g, AlreadyActive(i, g)
  PROVE  status.state \notin {"PREPARING", "READY_TO_ACTIVATE"}
<1>1. FenceIsBound /\ serving.identity.gen \in Nat /\ status.highest \in Nat
  BY NumbersType DEF IInv
<1>2. serving.identity.gen = g /\ ~(g < status.highest)
  BY DEF AlreadyActive, Current, Fenced
<1> QED BY <1>1, <1>2 DEF FenceIsBound

\* Every step keeps the slot with its owner.
LEMMA SlotStep ==
  ASSUME IInv, [Next]_vars
  PROVE  SlotIsHeld'
<1>0. TypeOK /\ TokensAreUnique /\ SlotIsHeld /\ FenceIsBound
  BY DEF IInv
<1>n. token \in Nat /\ \A h \in Handlers : call[h].token \in Nat
  BY <1>0, NumbersType
<1>1. ASSUME NEW h \in Handlers, NEW m \in Manifests, NEW g \in Generations, BeginAccept(h, m, g)
      PROVE  SlotIsHeld'
  <2>1. \A k \in Handlers : call[k].pc \notin InPreparation
    BY <1>0, <1>1 DEF BeginAccept, SlotFree, SlotIsHeld, OwnsSlot
  <2>2. /\ token' = token + 1 /\ call'[h].token = token + 1 /\ call'[h].pc = "transfer"
        /\ call'[h].m = m /\ call'[h].g = g /\ manifest' = m /\ generation' = g
        /\ \A k \in Handlers \ {h} : call'[k] = call[k]
    BY <1>0, <1>1 DEF BeginAccept, TypeOK, Idle
  <2>3. status'.state = "PREPARING" /\ status'.candidate = Identity(manifest', generation')
    BY <1>0, <1>1 DEF BeginAccept, TypeOK
  <2> QED BY <2>1, <2>2, <2>3 DEF SlotIsHeld, OwnsSlot, InPreparation
<1>2. ASSUME NEW h \in Handlers, BeginThrow(h) \/ Advance(h) \/ Transfer(h) PROVE SlotIsHeld'
  <2>1. /\ HandlerFrame(h) /\ HandlerMove(h)
        /\ UNCHANGED <<token, manifest, generation>>
        /\ \A k \in Handlers \ {h} : call'[k] = call[k]
    BY <1>0, <1>2, HandlerSteps, HandlerMoves DEF HandlerFrame
  <2>2. ASSUME NEW k \in Handlers, call'[k].pc \in InPreparation
        PROVE  OwnsSlot(k)' /\ call'[k].m = manifest' /\ call'[k].g = generation'
    <3>1. CASE k = h
      BY <1>0, <2>1, <2>2, <3>1 DEF SlotIsHeld, OwnsSlot, HandlerMove, InPreparation
    <3>2. CASE k # h
      <4>1. OwnsSlot(k) /\ call[k].m = manifest /\ call[k].g = generation /\ call'[k] = call[k]
            /\ call[k].token # 0
        BY <1>0, <2>1, <2>2, <3>2 DEF SlotIsHeld, TokensAreUnique, Admitted, InPreparation
      <4>2. ~OwnsSlot(h)
        BY <1>0, <3>2, <4>1 DEF TokensAreUnique, OwnsSlot
      <4>3. status'.state = status.state
        BY <1>0, <2>1, <4>1, <4>2 DEF HandlerMove, OwnsSlot, StateAfterRejection
      <4> QED BY <2>1, <4>1, <4>3 DEF OwnsSlot
    <3> QED BY <3>1, <3>2
  <2>3. ASSUME status'.state = "PREPARING"
        PROVE  /\ status'.candidate = Identity(manifest', generation')
               /\ \E k \in Handlers : call'[k].pc \in InPreparation \union {"failing"} /\ OwnsSlot(k)'
    <3>1. status.state = "PREPARING" /\ status'.candidate = status.candidate
      BY <2>1, <2>3 DEF HandlerMove, StateAfterRejection
    <3>2. PICK k \in Handlers : call[k].pc \in InPreparation \union {"failing"} /\ OwnsSlot(k)
      BY <1>0, <3>1 DEF SlotIsHeld
    <3>3. call'[k].pc \in InPreparation \union {"failing"} /\ call'[k].token = call[k].token
      <4>1. CASE k # h
        BY <2>1, <3>2, <4>1
      <4>2. CASE k = h
        BY <2>1, <2>3, <3>2, <4>2 DEF HandlerMove, InPreparation
      <4> QED BY <4>1, <4>2
    <3>4. OwnsSlot(k)'
      BY <2>1, <2>3, <3>2, <3>3 DEF OwnsSlot
    <3> QED BY <1>0, <2>1, <3>1, <3>3, <3>4 DEF SlotIsHeld
  <2> QED BY <2>2, <2>3 DEF SlotIsHeld
<1>3. ASSUME NEW i, NEW g, Activate(i, g) \/ AlreadyActive(i, g) PROVE SlotIsHeld'
  <2>1. status.state # "PREPARING" /\ call' = call
    BY <1>3, AlreadyActiveIsIdle DEF Activate, Activatable, AlreadyActive
  <2>2. \A h \in Handlers : call[h].pc \notin InPreparation
    BY <1>0, <2>1 DEF SlotIsHeld, OwnsSlot
  <2>3. status'.state = "SERVING"
    BY <1>0, <1>3 DEF Activate, AlreadyActive, TypeOK
  <2> QED BY <2>1, <2>2, <2>3 DEF SlotIsHeld
<1>4. ASSUME NEW i, NEW g, ActivationRejected(i, g) PROVE SlotIsHeld'
  BY <1>0, <1>4 DEF ActivationRejected, SlotIsHeld, OwnsSlot, TypeOK
<1>5. CASE UNCHANGED vars \/ \E d \in Ids : ReplaceIndex(d)
  BY <1>0, <1>5 DEF vars, ReplaceIndex, SlotIsHeld, OwnsSlot
<1> QED BY <1>1, <1>2, <1>3, <1>4, <1>5 DEF Next

\* Every step keeps what is prepared or ready the next snapshot of the store.
LEMMA PreparedStep ==
  ASSUME IInv, [Next]_vars
  PROVE  PreparedIsNext'
<1>0. TypeOK /\ SlotIsHeld /\ FenceIsBound /\ ManagedOnly /\ PreparedIsNext
  BY DEF IInv
<1>t. TypeOK'
  BY TypeStep
<1>1. ASSUME NEW h \in Handlers, NEW m \in Manifests, NEW g \in Generations, BeginAccept(h, m, g)
      PROVE  PreparedIsNext'
  <2>1. \A k \in Handlers : call[k].pc # "installing"
    BY <1>0, <1>1 DEF BeginAccept, SlotFree, SlotIsHeld, OwnsSlot, InPreparation
  <2>2. \A k \in Handlers : call'[k].pc # "installing"
    BY <1>0, <1>1, <2>1 DEF BeginAccept, TypeOK, Idle
  <2>3. status'.state = "PREPARING"
    BY <1>0, <1>1 DEF BeginAccept, TypeOK
  <2> QED BY <2>2, <2>3 DEF PreparedIsNext
<1>2. ASSUME NEW h \in Handlers, BeginThrow(h) \/ Advance(h) \/ Transfer(h) PROVE PreparedIsNext'
  <2>1. /\ HandlerMove(h) /\ UNCHANGED <<serving, manifest, generation>>
        /\ \A k \in Handlers \ {h} : call'[k] = call[k]
    BY <1>0, <1>2, HandlerSteps, HandlerMoves DEF HandlerFrame
  <2>3. ASSUME NEW k \in Handlers, call'[k].pc = "installing" PROVE IsNext(call[k].prepared)'
    <3>1. CASE k # h
      BY <1>0, <2>1, <2>3, <3>1 DEF PreparedIsNext, IsNext
    <3>2. CASE k = h
      <4>1. /\ call[h].pc = "loading" /\ Verified(h)
            /\ call'[h].prepared = [index |-> call[h].file, version |-> serving.version + 1,
                                    identity |-> Identity(call[h].m, call[h].g)]
        BY <2>1, <2>3, <3>2 DEF HandlerMove
      <4>2. call[h].m = manifest /\ call[h].g = generation /\ status.state = "PREPARING"
        BY <1>0, <4>1 DEF SlotIsHeld, InPreparation, OwnsSlot
      <4>3. generation # 0 /\ manifest \in Manifests
        BY <1>0, <4>2, NumbersType DEF FenceIsBound
      <4>4. call'[h].prepared \in Snapshots
        <5>1. call'[h].prepared \in Snapshots \union {None}
          BY <1>t DEF TypeOK
        <5>2. call[h].file \in Ids
          BY <4>1, <4>2, <4>3 DEF Verified, Ids
        <5>3. Identity(call[h].m, call[h].g) \in Identities
          BY <1>0, <4>2, <4>3, IdentityType DEF TypeOK
        <5>4. serving.version + 1 \in Versions
          <6>1. Load(h)
            BY <1>2, <2>3, <3>2, <4>1, <1>0 DEF BeginThrow, Advance, Transfer, CompleteEnter, LoadFails, Install,
               InstallThrows, Reply, ReplyFails, Fail, Rejected, TransferEnds, TransferFails, TypeOK, Idle
          <6> QED BY <1>0, <6>1, BoundsAssumption DEF Load, Preparable, TypeOK, Snapshots, Versions
        <5> QED BY <4>1, <5>2, <5>3, <5>4 DEF Snapshots
      <4> QED BY <2>1, <3>2, <4>1, <4>2, <4>4 DEF IsNext, Verified
    <3> QED BY <3>1, <3>2
  <2>4. ASSUME status'.state = "READY_TO_ACTIVATE"
        PROVE  IsNext(candidate)' /\ status'.candidate = candidate'.identity
    <3>1. CASE candidate' = candidate /\ status'.candidate = status.candidate
               /\ status.state = "READY_TO_ACTIVATE"
      BY <1>0, <2>1, <3>1 DEF PreparedIsNext, IsNext
    <3>2. CASE call[h].pc = "installing" /\ candidate' = call[h].prepared /\ OwnsSlot(h)
               /\ status'.candidate = status.candidate
      <4>1. IsNext(call[h].prepared) /\ status.candidate = Identity(manifest, generation)
        BY <1>0, <3>2 DEF PreparedIsNext, SlotIsHeld, OwnsSlot
      <4> QED BY <2>1, <3>2, <4>1 DEF IsNext
    <3> QED BY <2>1, <2>4, <3>1, <3>2 DEF HandlerMove, StateAfterRejection
  <2> QED BY <2>3, <2>4 DEF PreparedIsNext
<1>3. ASSUME NEW i, NEW g, Activate(i, g) \/ AlreadyActive(i, g) PROVE PreparedIsNext'
  <2>1. status.state # "PREPARING" /\ call' = call
    BY <1>3, AlreadyActiveIsIdle DEF Activate, Activatable, AlreadyActive
  <2>2. \A h \in Handlers : call[h].pc # "installing"
    BY <1>0, <2>1 DEF SlotIsHeld, OwnsSlot, InPreparation
  <2>3. status'.state = "SERVING"
    BY <1>0, <1>3 DEF Activate, AlreadyActive, TypeOK
  <2> QED BY <2>1, <2>2, <2>3 DEF PreparedIsNext
<1>4. ASSUME NEW i, NEW g, ActivationRejected(i, g) PROVE PreparedIsNext'
  BY <1>0, <1>4 DEF ActivationRejected, PreparedIsNext, IsNext, TypeOK
<1>5. ASSUME NEW d \in Ids, ReplaceIndex(d) PROVE PreparedIsNext'
  BY <1>0, <1>5 DEF ReplaceIndex, Replaceable, ManagedOnly, PreparedIsNext
<1>6. CASE UNCHANGED vars
  BY <1>0, <1>6 DEF vars, PreparedIsNext, IsNext
<1> QED BY <1>1, <1>2, <1>3, <1>4, <1>5, <1>6 DEF Next

\* Every step keeps what is served verified: begin() binds no generation that is
\* served, and activate() serves what the slot's manifest was checked against.
LEMMA VerifiedStep ==
  ASSUME IInv, [Next]_vars
  PROVE  ServedIsVerified'
<1>0. TypeOK /\ FenceIsBound /\ PreparedIsNext /\ ServedIsVerified
  BY DEF IInv
<1>n. serving.identity.gen \in Nat /\ status.highest \in Nat /\ serving.identity.gen \in Generations
  BY <1>0, NumbersType
<1>1. ASSUME NEW h \in Handlers, NEW m \in Manifests, NEW g \in Generations, BeginAccept(h, m, g)
      PROVE  ServedIsVerified'
  <2>1. serving' = serving /\ g # serving.identity.gen
    BY <1>n, <1>1, BoundsAssumption DEF BeginAccept, Acceptable, Generations
  <2>2. bound'[serving.identity.gen] = bound[serving.identity.gen]
    BY <1>0, <1>n, <1>1, <2>1 DEF BeginAccept, TypeOK
  <2> QED BY <1>0, <2>1, <2>2 DEF ServedIsVerified
<1>2. ASSUME UNCHANGED <<serving, bound>> PROVE ServedIsVerified'
  BY <1>0, <1>2 DEF ServedIsVerified
<1>3. ASSUME NEW h \in Handlers, BeginThrow(h) \/ Advance(h) \/ Transfer(h) PROVE ServedIsVerified'
  BY <1>0, <1>2, <1>3, HandlerSteps DEF HandlerFrame
<1>4. ASSUME NEW i, NEW g, Activate(i, g) PROVE ServedIsVerified'
  <2>1. serving' = candidate /\ bound' = bound /\ status.state = "READY_TO_ACTIVATE"
    BY <1>4 DEF Activate, Activatable
  <2>2. IsNext(candidate)
    BY <1>0, <2>1 DEF PreparedIsNext
  <2>3. generation # 0 /\ manifest \in Manifests /\ bound[generation] = manifest
    BY <1>0, <1>n, <2>1 DEF FenceIsBound
  <2>4. candidate.identity.gen = generation /\ candidate.identity = Identity(manifest, generation)
    BY <2>2 DEF IsNext, Identity
  <2> QED BY <2>1, <2>2, <2>3, <2>4, ManifestsAssumption DEF ServedIsVerified, IsNext
<1>5. ASSUME NEW d \in Ids, ReplaceIndex(d) PROVE ServedIsVerified'
  BY <1>5 DEF ReplaceIndex, ServedIsVerified
<1>6. CASE UNCHANGED vars
  BY <1>2, <1>6 DEF vars
<1> QED BY <1>1, <1>2, <1>3, <1>4, <1>5, <1>6 DEF Next, AlreadyActive, ActivationRejected

\* The inductive invariant holds when the server has loaded its startup snapshot.
LEMMA InitIInv == Init => IInv
<1> SUFFICES ASSUME Init PROVE IInv
  OBVIOUS
<1>g. /\ 0 \in Generations /\ StartGeneration \in Generations /\ StartGeneration # 0 /\ 1 \in Versions
      /\ 0 \in 0..MaxToken
  BY BoundsAssumption DEF Generations, Versions
<1>s. /\ serving.index = Startup.id /\ serving.version = 1
      /\ serving.identity \in Identities
      /\ serving.identity \in {Identity(Startup, StartGeneration), [id |-> None, gen |-> 0, rev |-> None]}
      /\ serving \in Snapshots
  <2>1. Startup.id \in Ids /\ Identity(Startup, StartGeneration) \in Identities
    BY <1>g, IdentityType, ManifestsAssumption DEF Ids
  <2>2. [id |-> None, gen |-> 0, rev |-> None] \in Identities
    BY <1>g DEF Identities
  <2> QED BY <1>g, <2>1, <2>2 DEF Init, Snapshots
<1>1. TypeOK
  <2>1. call \in [Handlers -> Calls]
    BY IdleType DEF Init
  <2>2. status \in [state : States, lastResult : Outcomes, highest : Generations,
                    candidate : Identities \union {None}]
    BY <1>s DEF Init, States, Outcomes, Identities
  <2>3. bound \in [Generations -> Manifests \union {None}]
    BY ManifestsAssumption DEF Init
  <2>4. enabled \in BOOLEAN /\ manifest = None /\ generation = 0 /\ token = 0 /\ candidate = None
    BY DEF Init
  <2> QED BY <1>g, <1>s, <2>1, <2>2, <2>3, <2>4 DEF TypeOK, Calls
<1>n. serving.identity.gen \in Nat /\ serving.identity.gen \in Generations
  BY <1>1, NumbersType
<1>2. FenceIsBound
  <2>1. status.state = "SERVING" /\ status.highest = serving.identity.gen /\ generation = 0
    BY DEF Init
  <2>2. \A g \in Generations : g > serving.identity.gen => bound[g] = None
    BY <1>n DEF Init
  <2> QED BY <1>n, <2>1, <2>2 DEF FenceIsBound
<1>3. \A h \in Handlers : call[h].pc = "idle" /\ call[h].token = 0
  BY DEF Init, Idle
<1>4. ManagedOnly /\ TokensAreUnique /\ SlotIsHeld /\ PreparedIsNext
  BY <1>3 DEF Init, ManagedOnly, TokensAreUnique, Admitted, SlotIsHeld, InPreparation, PreparedIsNext
<1>5. ServedIsVerified
  <2> SUFFICES ASSUME serving.identity.gen # 0 PROVE ServedIsVerified
    BY DEF ServedIsVerified
  <2>1. serving.identity = Identity(Startup, StartGeneration)
    BY <1>s
  <2>2. serving.identity.gen = StartGeneration /\ bound[StartGeneration] = Startup
    BY <1>g, <2>1 DEF Identity, Init
  <2> QED BY <1>s, <2>1, <2>2, ManifestsAssumption DEF ServedIsVerified
<1> QED BY <1>1, <1>2, <1>4, <1>5 DEF IInv

\* The inductive invariant is kept by every step.
LEMMA StepIInv == IInv /\ [Next]_vars => IInv'
BY TypeStep, FenceStep, ManagedStep, TokensStep, SlotStep, PreparedStep, VerifiedStep DEF IInv

\* The inductive invariant holds in every reachable state of a replica.
THEOREM Invariance == Spec => []IInv
BY InitIInv, StepIInv, PTL DEF Spec

\* The preparation slot is never orphaned and never shared, and a READY candidate
\* is one the store will accept: activate() cannot throw after it has answered
\* for the fence, whatever calls failed, were rejected or came late.
THEOREM SlotStaysSound == Spec => []SlotIsSound
<1>1. IInv => SlotIsSound
  <2> SUFFICES ASSUME IInv PROVE SlotIsSound
    OBVIOUS
  <2>0. TypeOK /\ FenceIsBound /\ TokensAreUnique /\ SlotIsHeld /\ PreparedIsNext
    BY DEF IInv
  <2>n. /\ serving.identity.gen \in Nat /\ status.highest \in Nat /\ serving.version \in Nat
        /\ \A h \in Handlers : call[h].pc \in CallStates
    BY <2>0, NumbersType
  <2>1. ASSUME status.state = "PREPARING"
        PROVE  \E h \in Handlers : /\ call[h].pc \in InPreparation \union {"failing"}
                                   /\ OwnsSlot(h)
                                   /\ \A k \in Handlers \ {h} : call[k].pc # "idle" => call[k].token # token
    <3>1. PICK h \in Handlers : call[h].pc \in InPreparation \union {"failing"} /\ OwnsSlot(h)
      BY <2>0, <2>1 DEF SlotIsHeld
    <3>2. call[h].token = token /\ token # 0
      BY <2>0, <3>1 DEF OwnsSlot, TokensAreUnique, Admitted, InPreparation
    <3>3. \A k \in Handlers \ {h} : call[k].token # token
      BY <2>0, <3>2 DEF TokensAreUnique
    <3> QED BY <3>1, <3>3
  <2>2. SlotIsOwned
    BY <2>0, <2>1 DEF SlotIsOwned, FenceIsBound, SlotIsHeld
  <2>3. ReadyIsActivatable
    <3> SUFFICES ASSUME status.state = "READY_TO_ACTIVATE"
                 PROVE  /\ candidate # None /\ ~StoreRefuses(candidate)
                        /\ candidate.identity.gen = status.highest /\ status.candidate = candidate.identity
      BY DEF ReadyIsActivatable
    <3>1. IsNext(candidate) /\ status.candidate = candidate.identity
      BY <2>0 DEF PreparedIsNext
    <3>2. candidate # None /\ candidate.version = serving.version + 1 /\ candidate.identity.gen = generation
      BY <3>1, NoneAssumption DEF IsNext, Identity
    <3>3. generation = status.highest /\ status.highest > serving.identity.gen
      BY <2>0, <2>n DEF FenceIsBound
    <3> QED BY <2>n, <3>1, <3>2, <3>3 DEF StoreRefuses
  <2> QED BY <2>2, <2>3 DEF SlotIsSound
<1> QED BY <1>1, Invariance, PTL

\* What a managed replica serves was verified against the manifest that its
\* generation was accepted with.
THEOREM ServedStaysVerified == Spec => []ServedIsVerified
<1>1. IInv => ServedIsVerified
  BY DEF IInv
<1> QED BY <1>1, Invariance, PTL

\* What one step may do to a READY candidate.
ReadyKeptStep ==
    status.state = "READY_TO_ACTIVATE" /\ (candidate' # candidate \/ status'.state # status.state)
        => serving' = candidate \/ token' = token + 1

\* No rejected command, late failure or repeated activation takes a READY
\* candidate away: only its activation and a newly accepted begin() do.
LEMMA ReadyKeptLemma == IInv /\ [Next]_vars => ReadyKeptStep
<1> SUFFICES ASSUME IInv, [Next]_vars, status.state = "READY_TO_ACTIVATE",
                    candidate' # candidate \/ status'.state # status.state
             PROVE  serving' = candidate \/ token' = token + 1
  BY DEF ReadyKeptStep
<1>0. TypeOK
  BY DEF IInv
<1>1. ASSUME NEW h \in Handlers, BeginThrow(h) \/ Advance(h) \/ Transfer(h) PROVE FALSE
  <2>1. HandlerMove(h)
    BY <1>0, <1>1, HandlerMoves
  <2> QED BY <2>1 DEF HandlerMove, OwnsSlot, StateAfterRejection
<1>2. ASSUME NEW i, NEW g, AlreadyActive(i, g) \/ ActivationRejected(i, g) PROVE FALSE
  BY <1>0, <1>2, AlreadyActiveIsIdle DEF AlreadyActive, ActivationRejected, TypeOK
<1>3. CASE UNCHANGED vars \/ \E d \in Ids : ReplaceIndex(d)
  BY <1>3 DEF vars, ReplaceIndex
<1> QED BY <1>1, <1>2, <1>3 DEF Next, BeginAccept, Activate

\* A READY candidate waits for its activation until a newer preparation is accepted.
THEOREM ReadyStaysReady == Spec => ReadyIsKept
<1>1. IInv /\ [Next]_vars => [ReadyKeptStep]_vars
  BY ReadyKeptLemma
<1>2. Spec => [][ReadyKeptStep]_vars
  BY <1>1, Invariance, PTL DEF Spec
<1> QED BY <1>2 DEF ReadyIsKept, ReadyKeptStep

\* The description each generation is bound to, as the register sees it.
Proposed == [g \in Generations |-> IF bound[g] = None THEN None ELSE Described(bound[g])]
Descriptions == {Described(m) : m \in Manifests}

\* A started replica is an initial state of the register.
LEMMA RegisterInit == Init => Register!Init
<1> SUFFICES ASSUME Init PROVE Register!Init
  OBVIOUS
<1>0. TypeOK /\ serving.identity.gen \in Generations
  BY InitIInv, NumbersType DEF IInv
<1>1. serving.index = Startup.id /\ Startup.id \in Ids /\ serving.identity.rev \in Revs \union {None}
  BY <1>0, ManifestsAssumption DEF Init, TypeOK, Snapshots, Identities, Ids
<1>2. Proposed = [g \in Generations |-> IF g = serving.identity.gen THEN Described(Startup) ELSE None]
  BY ManifestsAssumption DEF Init, Proposed
<1>3. Described(Startup) \in Descriptions
  BY ManifestsAssumption DEF Descriptions
<1>4. serving.identity.gen # 0 => [id |-> serving.index, rev |-> serving.identity.rev] = Described(Startup)
  BY <1>1 DEF Init, Identity, Described
<1>5. status.highest = serving.identity.gen
  BY DEF Init
<1> QED BY <1>0, <1>1, <1>2, <1>3, <1>4, <1>5 DEF Register!Init, Proposed, Descriptions

\* Every step of a replica is a step of the register or leaves it as it is:
\* begin() proposes, activate() releases, and a reload replaces what is unmanaged.
LEMMA RegisterStep == IInv /\ [Next]_vars => [Register!Next]_(Register!vars)
<1> SUFFICES ASSUME IInv, [Next]_vars PROVE [Register!Next]_(Register!vars)
  OBVIOUS
<1>0. TypeOK /\ FenceIsBound /\ PreparedIsNext
  BY DEF IInv
<1>n. /\ serving.identity.gen \in Nat /\ status.highest \in Nat /\ status.highest \in Generations
      /\ \A g \in Generations : g \in Nat
  BY <1>0, NumbersType, BoundsAssumption DEF Generations
<1>f. ASSUME UNCHANGED <<bound, serving>>, status'.highest = status.highest PROVE UNCHANGED Register!vars
  BY <1>f DEF Register!vars
<1>1. ASSUME NEW h \in Handlers, NEW m \in Manifests, NEW g \in Generations, BeginAccept(h, m, g)
      PROVE  Register!Propose(g, Described(m))
  <2>1. /\ g >= status.highest /\ g > serving.identity.gen /\ g # 0
        /\ g = status.highest => m = manifest
        /\ bound' = [bound EXCEPT ![g] = m] /\ serving' = serving
    BY <1>1 DEF BeginAccept, Acceptable
  <2>2. status'.highest = g
    BY <1>0, <1>1 DEF BeginAccept, TypeOK
  <2>3. bound[g] \in {None, m}
    <3>1. CASE g > status.highest
      BY <1>0, <3>1 DEF FenceIsBound
    <3>2. CASE g = status.highest
      <4>1. generation # 0
        BY <1>0, <1>n, <2>1, <3>2 DEF FenceIsBound
      <4> QED BY <1>0, <2>1, <3>2, <4>1 DEF FenceIsBound
    <3> QED BY <1>n, <2>1, <3>1, <3>2
  <2>4. Proposed[g] \in {None, Described(m)}
    BY <2>3 DEF Proposed
  <2>5. Proposed' = [Proposed EXCEPT ![g] = Described(m)]
    <3>1. bound \in [Generations -> Manifests \union {None}] /\ m # None
      BY <1>0, ManifestsAssumption DEF TypeOK
    <3> QED BY <2>1, <3>1 DEF Proposed
  <2> QED BY <2>1, <2>2, <2>4, <2>5 DEF Register!Propose, Proposed
<1>2. ASSUME NEW h \in Handlers, BeginThrow(h) \/ Advance(h) \/ Transfer(h) PROVE UNCHANGED Register!vars
  BY <1>0, <1>2, <1>f, HandlerSteps DEF HandlerFrame
<1>3. ASSUME NEW i, NEW g, Activate(i, g) PROVE Register!Release(status.highest)
  <2>1. serving' = candidate /\ bound' = bound /\ status.state = "READY_TO_ACTIVATE"
    BY <1>3 DEF Activate, Activatable
  <2>2. status'.highest = status.highest
    BY <1>0, <1>3 DEF Activate, TypeOK
  <2>3. /\ generation = status.highest /\ status.highest > serving.identity.gen
        /\ manifest \in Manifests /\ bound[status.highest] = manifest
    BY <1>0, <1>n, <2>1 DEF FenceIsBound
  <2>4. /\ candidate.index = manifest.id /\ candidate.identity.gen = status.highest
        /\ candidate.identity.rev = manifest.rev
    BY <1>0, <2>1, <2>3 DEF PreparedIsNext, IsNext, Identity
  <2>5. Proposed[status.highest] = Described(manifest) /\ Described(manifest) # None
    BY <1>n, <2>3, ManifestsAssumption, NoneAssumption DEF Proposed
  <2>6. [id |-> serving'.index, rev |-> serving'.identity.rev] = Described(manifest)
    BY <2>1, <2>4 DEF Described
  <2> QED BY <2>1, <2>2, <2>3, <2>4, <2>5, <2>6 DEF Register!Release, Proposed
<1>4. ASSUME NEW i, NEW g, AlreadyActive(i, g) \/ ActivationRejected(i, g) PROVE UNCHANGED Register!vars
  BY <1>0, <1>4, <1>f DEF AlreadyActive, ActivationRejected, TypeOK
<1>5. ASSUME NEW d \in Ids, ReplaceIndex(d) PROVE Register!Reload([id |-> d, rev |-> None])
  BY <1>5 DEF ReplaceIndex, Replaceable, Register!Reload
<1>6. CASE UNCHANGED vars
  BY <1>6, <1>f DEF vars
<1>7. \A d \in Ids : [id |-> d, rev |-> None] \in [id : Ids, rev : Revs \union {None}]
  OBVIOUS
<1>8. \A m \in Manifests : Described(m) \in {Described(x) : x \in Manifests}
  OBVIOUS
<1> QED BY <1>1, <1>2, <1>3, <1>4, <1>5, <1>6, <1>7, <1>8, <1>n DEF Next, Register!Next

\* A replica implements the register of releases: one description for each
\* generation for good, and only the generation at the fence is released.
THEOREM ReplicaImplementsRegister == Spec => ImplementsRegister
<1>1. Spec => Register!Init /\ [][Register!Next]_(Register!vars)
  BY RegisterInit, RegisterStep, Invariance, PTL DEF Spec
<1> QED BY <1>1 DEF ImplementsRegister, Register!Spec

-----------------------------------------------------------------------------
(* The offline publication of the files *)

\* A run that has not published is not an entry, on disk or in memory, and
\* what it goes on to flush and publish has been read back whole.
Unpublished == {"idle", "created", "saved", "verified", "synced"}
WritersAreSound ==
    \A r \in Runs :
        /\ pc[r] \in Unpublished => r \notin possible /\ rank[r] = 0
        /\ pc[r] \in {"verified", "synced"} => data[r] = "whole"
        /\ pc[r] = "synced" => r \in synced

\* Every entry that a crash can leave names a whole file on disk.
EntriesAreWhole == \A f \in possible \ {Absent, Previous} : data[f] = "whole" /\ f \in synced

\* Ranks count publications, and no publisher that still runs is ahead of the
\* entry in memory.
Ranked == {f \in Files : rank[f] # 0}
OutputIsNewest ==
    /\ \A f \in Entries : rank[f] <= Newest
    /\ \A r \in Runs : pc[r] \in {"linked", "published"} => rank[output] >= rank[r]

\* The inductive invariant.
PublishIInv == PublishTypeOK /\ WritersAreSound /\ EntriesAreWhole /\ OutputIsNewest /\ SuccessIsDurable

\* The number of publications so far is a natural number.
LEMMA RankedFinite == IsFiniteSet(Ranked) /\ Newest = Cardinality(Ranked) /\ Newest \in Nat
<1>1. IsFiniteSet(Files)
  BY RunsAssumption, FS_AddElement DEF Files
<1>2. IsFiniteSet(Ranked) /\ Newest = Cardinality(Ranked)
  BY <1>1, FS_Subset DEF Ranked, Newest
<1> QED BY <1>2, FS_CardinalityType

\* A publication is counted once and comes after all earlier ones.
LEMMA PublicationIsNewest ==
  ASSUME PublishIInv, NEW r \in Runs, pc[r] = "synced", SetOutput(r)
  PROVE  /\ Newest' = Newest + 1
         /\ rank' \in [Entries -> Nat]
         /\ rank'[r] = Newest + 1
         /\ \A f \in Entries \ {r} : rank'[f] = rank[f]
         /\ \A f \in Entries : rank'[f] <= Newest'
<1>0. PublishTypeOK /\ rank \in [Entries -> Nat] /\ rank[r] = 0 /\ Newest \in Nat /\ r \in Files /\ r \in Entries
  BY RankedFinite DEF PublishIInv, PublishTypeOK, WritersAreSound, Unpublished, Files, Entries
<1>1. rank' = [rank EXCEPT ![r] = Newest + 1]
  BY DEF SetOutput
<1>2. /\ rank' \in [Entries -> Nat] /\ rank'[r] = Newest + 1
      /\ \A f \in Entries \ {r} : rank'[f] = rank[f]
  BY <1>0, <1>1
<1>3. Ranked' = Ranked \union {r} /\ r \notin Ranked
  BY <1>0, <1>2 DEF Ranked, Entries, Files
<1>4. Newest' = Newest + 1
  <2>1. Newest' = Cardinality(Ranked')
    BY DEF Newest, Ranked
  <2> QED BY <1>3, <2>1, RankedFinite, FS_AddElement
<1>5. \A f \in Entries : rank[f] <= Newest
  BY DEF PublishIInv, OutputIsNewest
<1> QED BY <1>0, <1>2, <1>4, <1>5

\* Every step of a run and every crash keeps the state well typed.
LEMMA PublishTypeStep ==
  ASSUME PublishIInv, [PublishNext]_publishVars
  PROVE  PublishTypeOK'
<1>0. PublishTypeOK
  BY DEF PublishIInv
<1>1. ASSUME NEW r \in Runs, Start(r) \/ Refuse(r) \/ Save(r) \/ Verify(r) \/ SyncFile(r) \/ Unlink(r)
                             \/ Throw(r) \/ CleanUp(r)
      PROVE  PublishTypeOK'
  BY <1>0, <1>1 DEF Start, Refuse, Save, Verify, SyncFile, Unlink, Throw, CleanUp, Go, PublishTypeOK, Places
<1>2. ASSUME NEW r \in Runs, Rename(r) \/ Link(r) PROVE PublishTypeOK'
  <2>1. pc[r] = "synced" /\ SetOutput(r)
    BY <1>2 DEF Rename, Link, Publishable
  <2>2. rank' \in [Entries -> Nat]
    BY <2>1, PublicationIsNewest
  <2> QED BY <1>0, <1>2, <2>1, <2>2 DEF Rename, Link, SetOutput, PublishTypeOK, Places, Entries, Files
<1>3. ASSUME NEW r \in Runs, SyncDirectory(r) PROVE PublishTypeOK'
  BY <1>0, <1>3 DEF SyncDirectory, Flushed, Go, PublishTypeOK, Places
<1>4. CASE Crash
  BY <1>0, <1>4, CrashesAssumption DEF Crash, PublishTypeOK, Places
<1>5. CASE UNCHANGED publishVars
  BY <1>0, <1>5 DEF publishVars, PublishTypeOK
<1> QED BY <1>1, <1>2, <1>3, <1>4, <1>5 DEF PublishNext, Run

\* Every step keeps what a run publishes whole, and what is found after a crash.
LEMMA WholeStep ==
  ASSUME PublishIInv, [PublishNext]_publishVars
  PROVE  WritersAreSound' /\ EntriesAreWhole'
<1>0. PublishTypeOK /\ WritersAreSound /\ EntriesAreWhole
  BY DEF PublishIInv
<1> USE DEF WritersAreSound, EntriesAreWhole, Unpublished
<1>1. ASSUME NEW r \in Runs, Start(r) \/ Refuse(r) \/ Verify(r) \/ SyncFile(r) \/ Unlink(r) \/ CleanUp(r)
      PROVE  WritersAreSound' /\ EntriesAreWhole'
  BY <1>0, <1>1 DEF Start, Refuse, Verify, Verifiable, SyncFile, Unlink, CleanUp, Go, PublishTypeOK
<1>2. ASSUME NEW r \in Runs, Save(r) \/ Throw(r) PROVE WritersAreSound' /\ EntriesAreWhole'
  <2>1. \A f \in Runs \ {r} : data'[f] = data[f] /\ pc'[f] = pc[f]
    BY <1>0, <1>2 DEF Save, Throw, Go, PublishTypeOK
  <2>2. data'[r] = data[r] \/ r \notin possible
    BY <1>0, <1>2 DEF Save, Throw, Go
  <2>3. possible' = possible /\ synced' = synced /\ rank' = rank
    BY <1>2 DEF Save, Throw
  <2>4. pc'[r] \in {"saved", "failing"} /\ (pc'[r] = "saved" => pc[r] = "created")
    BY <1>0, <1>2 DEF Save, Throw, Go, PublishTypeOK
  <2>5. \A f \in possible \ {Absent, Previous} : f \in Runs
    BY <1>0 DEF PublishTypeOK, Entries, Files
  <2> QED BY <1>0, <2>1, <2>2, <2>3, <2>4, <2>5
<1>3. ASSUME NEW r \in Runs, Rename(r) \/ Link(r) PROVE WritersAreSound' /\ EntriesAreWhole'
  <2>1. /\ pc[r] = "synced" /\ SetOutput(r) /\ UNCHANGED <<data, synced>>
        /\ pc'[r] \in {"published", "linked"} /\ \A q \in Runs \ {r} : pc'[q] = pc[q]
    BY <1>0, <1>3 DEF Rename, Link, Publishable, PublishTypeOK
  <2>2. possible' = possible \union {r}
    BY <2>1 DEF SetOutput
  <2>3. \A q \in Runs \ {r} : rank'[q] = rank[q]
    BY <2>1, PublicationIsNewest DEF Entries, Files
  <2> QED BY <1>0, <2>1, <2>2, <2>3
<1>4. ASSUME NEW r \in Runs, SyncDirectory(r) PROVE WritersAreSound' /\ EntriesAreWhole'
  BY <1>0, <1>4 DEF SyncDirectory, Flushed, Go, PublishTypeOK
<1>5. CASE Crash
  <2>1. possible' \subseteq possible /\ rank' = rank /\ \A r \in Runs : r \in synced => data'[r] = data[r]
    BY <1>0, <1>5 DEF Crash, PublishTypeOK
  <2>2. \A r \in Runs : pc'[r] \in Unpublished => pc'[r] = "idle" /\ pc[r] = "idle"
    BY <1>0, <1>5 DEF Crash, PublishTypeOK
  <2>3. \A f \in possible' \ {Absent, Previous} : f \in Runs /\ f \in synced /\ pc[f] # "idle"
    BY <1>0, <2>1 DEF PublishTypeOK, Entries, Files
  <2>4. EntriesAreWhole'
    BY <1>0, <1>5, <2>1, <2>3 DEF Crash
  <2>5. WritersAreSound'
    BY <1>0, <2>1, <2>2
  <2> QED BY <2>4, <2>5
<1>6. CASE UNCHANGED publishVars
  BY <1>0, <1>6 DEF publishVars
<1> QED BY <1>1, <1>2, <1>3, <1>4, <1>5, <1>6 DEF PublishNext, Run

\* Every step keeps the entry in memory the newest publication since the last
\* crash, and what a successful run published, or something newer, on disk.
LEMMA DurableStep ==
  ASSUME PublishIInv, [PublishNext]_publishVars
  PROVE  OutputIsNewest' /\ SuccessIsDurable'
<1>0. PublishTypeOK /\ WritersAreSound /\ OutputIsNewest /\ SuccessIsDurable /\ Newest \in Nat
      /\ output \in Entries /\ possible \subseteq Entries /\ rank \in [Entries -> Nat] /\ Runs \subseteq Entries
  BY RankedFinite DEF PublishIInv, PublishTypeOK, Entries, Files
<1> USE DEF OutputIsNewest, SuccessIsDurable
<1>1. ASSUME UNCHANGED <<rank, output, possible>>,
             \A r \in Runs : /\ pc'[r] \in {"linked", "published"} => pc[r] \in {"linked", "published"}
                             /\ pc'[r] = "done" => pc[r] = "done"
      PROVE  OutputIsNewest' /\ SuccessIsDurable'
  <2>1. Newest' = Newest
    BY <1>1 DEF Newest
  <2> QED BY <1>0, <1>1, <2>1
<1>2. ASSUME NEW r \in Runs, Start(r) \/ Refuse(r) \/ Save(r) \/ Verify(r) \/ SyncFile(r) \/ Unlink(r)
                             \/ Throw(r) \/ CleanUp(r)
      PROVE  OutputIsNewest' /\ SuccessIsDurable'
  <2>1. UNCHANGED <<rank, output, possible>>
    BY <1>2 DEF Start, Refuse, Save, Verify, SyncFile, Unlink, Throw, CleanUp
  <2>2. \A q \in Runs : /\ pc'[q] \in {"linked", "published"} => pc[q] \in {"linked", "published"}
                        /\ pc'[q] = "done" => pc[q] = "done"
    BY <1>0, <1>2 DEF Start, Refuse, Save, Verify, SyncFile, Unlink, Throw, CleanUp, Go, PublishTypeOK
  <2> QED BY <1>1, <2>1, <2>2
<1>3. ASSUME NEW r \in Runs, Rename(r) \/ Link(r) PROVE OutputIsNewest' /\ SuccessIsDurable'
  <2>1. /\ pc[r] = "synced" /\ SetOutput(r) /\ output' = r /\ possible' = possible \union {r}
        /\ pc'[r] \in {"published", "linked"} /\ \A q \in Runs \ {r} : pc'[q] = pc[q]
    BY <1>0, <1>3 DEF Rename, Link, Publishable, PublishTypeOK, SetOutput
  <2>2. /\ Newest' = Newest + 1 /\ rank'[r] = Newest + 1
        /\ \A f \in Entries \ {r} : rank'[f] = rank[f]
        /\ \A f \in Entries : rank'[f] <= Newest' /\ rank'[f] \in Nat
    BY <2>1, PublicationIsNewest
  <2>3. OutputIsNewest'
    BY <1>0, <2>1, <2>2
  <2>4. ASSUME NEW q \in Runs, pc'[q] = "done", NEW f \in possible' PROVE rank'[f] >= rank'[q]
    <3>1. q # r /\ pc[q] = "done" /\ rank'[q] = rank[q] /\ rank[q] <= Newest /\ rank[q] \in Nat
      BY <1>0, <2>1, <2>2, <2>4
    <3>2. CASE f = r
      BY <1>0, <2>2, <3>1, <3>2
    <3>3. CASE f # r
      BY <1>0, <2>1, <2>2, <2>4, <3>1, <3>3
    <3> QED BY <3>2, <3>3
  <2> QED BY <2>3, <2>4
<1>4. ASSUME NEW r \in Runs, SyncDirectory(r) PROVE OutputIsNewest' /\ SuccessIsDurable'
  <2>1. /\ UNCHANGED <<rank, output>> /\ possible' = {output} /\ output \in possible
        /\ pc[r] = "published" /\ pc'[r] = "done" /\ \A q \in Runs \ {r} : pc'[q] = pc[q]
    BY <1>0, <1>4 DEF SyncDirectory, Flushed, Go, PublishTypeOK
  <2>2. Newest' = Newest
    BY <2>1 DEF Newest
  <2> QED BY <1>0, <2>1, <2>2
<1>5. CASE Crash
  <2>1. rank' = rank /\ possible' \subseteq possible
    BY <1>0, <1>5 DEF Crash
  <2>2. \A r \in Runs : pc'[r] \notin {"linked", "published"} /\ (pc'[r] = "done" => pc[r] = "done")
    BY <1>0, <1>5 DEF Crash, PublishTypeOK
  <2>3. Newest' = Newest
    BY <2>1 DEF Newest
  <2> QED BY <1>0, <2>1, <2>2, <2>3
<1>6. CASE UNCHANGED publishVars
  BY <1>1, <1>6 DEF publishVars
<1> QED BY <1>2, <1>3, <1>4, <1>5, <1>6 DEF PublishNext, Run

\* The inductive invariant holds before the first run starts.
LEMMA InitPublishIInv == PublishInit => PublishIInv
<1> SUFFICES ASSUME PublishInit PROVE PublishIInv
  OBVIOUS
<1>1. PublishTypeOK
  BY CrashesAssumption DEF PublishInit, PublishTypeOK, Places, Entries, Files
<1>2. WritersAreSound /\ EntriesAreWhole
  BY RunsAssumption DEF PublishInit, WritersAreSound, EntriesAreWhole, Entries, Files
<1>3. OutputIsNewest /\ SuccessIsDurable
  BY RankedFinite DEF PublishInit, OutputIsNewest, SuccessIsDurable
<1> QED BY <1>1, <1>2, <1>3 DEF PublishIInv

\* The inductive invariant is kept by every step of a run and by a crash.
LEMMA StepPublishIInv == PublishIInv /\ [PublishNext]_publishVars => PublishIInv'
BY PublishTypeStep, WholeStep, DurableStep DEF PublishIInv

\* The inductive invariant holds in every reachable state.
THEOREM PublishInvariance == PublishSpec => []PublishIInv
BY InitPublishIInv, StepPublishIInv, PTL DEF PublishSpec

\* Whoever opens the output path finds a whole index, at any time and after any
\* number of crashes.
THEOREM OutputStaysWhole == PublishSpec => []OutputIsWhole
<1>1. PublishIInv => OutputIsWhole
  BY DEF PublishIInv, EntriesAreWhole, OutputIsWhole
<1> QED BY <1>1, PublishInvariance, PTL

\* A success that a tool reported is never undone by a crash.
THEOREM SuccessSurvives == PublishSpec => []SuccessIsDurable
<1>1. PublishIInv => SuccessIsDurable
  BY DEF PublishIInv
<1> QED BY <1>1, PublishInvariance, PTL

\* What one step may do to the entry in memory.
ReplaceStep ==
    output' # output => \/ output = Absent
                        \/ \E r \in Overwriters : output' = r /\ pc[r] = "synced"
                        \/ crashes' # crashes

\* Only rename() in a run with overwrite replaces an existing output.
THEOREM OutputIsReplacedOnPurpose == PublishSpec => OnlyOverwritersReplace
<1>1. PublishIInv /\ [PublishNext]_publishVars => [ReplaceStep]_publishVars
  <2> SUFFICES ASSUME PublishIInv, PublishNext PROVE ReplaceStep
    OBVIOUS
  <2>1. CASE Crash
    BY <2>1, CrashesAssumption DEF PublishIInv, PublishTypeOK, Crash, ReplaceStep
  <2>2. ASSUME NEW r \in Runs, Run(r) PROVE ReplaceStep
    BY <2>2 DEF Run, Start, Refuse, Save, Verify, SyncFile, Rename, Link, Linkable, SetOutput, Publishable, Unlink,
       SyncDirectory, Throw, CleanUp, ReplaceStep
  <2> QED BY <2>1, <2>2 DEF PublishNext
<1>2. PublishSpec => [][ReplaceStep]_publishVars
  BY <1>1, PublishInvariance, PTL DEF PublishSpec
<1> QED BY <1>2 DEF OnlyOverwritersReplace, ReplaceStep
=============================================================================
