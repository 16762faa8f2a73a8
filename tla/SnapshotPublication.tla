------------------------ MODULE SnapshotPublication ------------------------
(***************************************************************************)
(* Snapshot publication on one replica: the manager                        *)
(* (src/service/snapshot_publication.cpp), the read-only half of the store *)
(* (src/src/vector_store.cpp), and the threads that run the                *)
(* PrepareSnapshot and ActivateSnapshot handlers and the SIGHUP reload.    *)
(*                                                                         *)
(* A critical section of the manager's mutex_ is one action; transfer,     *)
(* verification and loading run outside it, between two sections of the    *)
(* same PrepareSnapshot call.  An allocation may fail where a preparation  *)
(* is admitted, loaded, installed or answered; a failure inside the        *)
(* reporting of a rejection or of a failed preparation is not modelled.    *)
(*                                                                         *)
(* A manifest is a record: id (the SHA-256 of the file), rev (the          *)
(* embedding revision), valid (validate_manifest accepts it; one that is   *)
(* not also stands for a first frame without a manifest) and loads (the    *)
(* file with digest id has the format version and shape it states, so the  *)
(* loader accepts it).  Two manifests may share id: the same bytes,        *)
(* relabelled.  Not modelled, since no code reads them back: last_attempt, *)
(* byte counts, timings and the peak RSS in the status.                    *)
(***************************************************************************)
EXTENDS Naturals, FiniteSets

CONSTANTS
    Handlers,       \* threads that serve PrepareSnapshot, one call at a time
    Manifests,      \* the manifests that publishers send
    Startup,        \* the manifest the replica was started with
    StartGeneration,\* --generation
    MaxGeneration,  \* bound: the largest generation a publisher uses
    MaxVersion,     \* the largest snapshot version (2^64 - 1 in the code)
    MaxToken,       \* the largest preparation token (2^64 - 1 in the code)
    None            \* no snapshot, no manifest, no identity

ASSUME ManifestsAssumption ==
    /\ None \notin Manifests
    /\ Startup \in Manifests
    /\ \A m \in Manifests : /\ DOMAIN m = {"id", "rev", "valid", "loads"}
                            /\ m.valid \in BOOLEAN /\ m.loads \in BOOLEAN
    /\ Startup.valid /\ Startup.loads
ASSUME BoundsAssumption ==
    /\ MaxGeneration \in Nat /\ StartGeneration \in 1..MaxGeneration
    /\ MaxVersion \in Nat \ {0} /\ MaxToken \in Nat

VARIABLES
    enabled,    \* config_.enabled
    serving,    \* VectorStore::snapshot_
    status,     \* status_
    manifest,   \* manifest_
    generation, \* generation_
    token,      \* token_
    candidate,  \* candidate_
    call,       \* the PrepareSnapshot call each handler is in
    bound       \* history: the manifest each generation was accepted with

vars == <<enabled, serving, status, manifest, generation, token, candidate, call, bound>>

Generations == 0..MaxGeneration
Versions == 1..MaxVersion
Ids == {m.id : m \in Manifests}
Revs == {m.rev : m \in Manifests}

\* SnapshotIdentity; the empty id and revision are None.
Identities == [id : Ids \union {None}, gen : Generations, rev : Revs \union {None}]

\* snapshot_identity(manifest, generation)
Identity(m, g) == [id |-> m.id, gen |-> g, rev |-> m.rev]

\* ServingSnapshot: the digest of the bytes the index was loaded from, the
\* publication sequence number and the identity.
Snapshots == [index : Ids \union {None}, version : Versions, identity : Identities]

\* What a manifest says of a release, apart from its generation.
Described(m) == [id |-> m.id, rev |-> m.rev]

\* An absent snapshot or description is not one of them.
ASSUME NoneAssumption == None \notin Snapshots /\ \A m \in Manifests : None # Described(m)

States == {"SERVING", "PREPARING", "READY_TO_ACTIVATE", "FAILED"}
Outcomes == {"NONE", "PREPARING", "READY_TO_ACTIVATE", "PREPARE_FAILED", "REJECTED",
             "ACTIVATION_REJECTED", "ALREADY_ACTIVE", "ACTIVATED"}

\* A PrepareSnapshot call: its place, the request, its token, the digest of
\* the staged file and the snapshot it has prepared.
Idle == [pc |-> "idle", m |-> None, g |-> 0, token |-> 0, file |-> None, prepared |-> None]
CallStates == {"idle", "rejecting", "transfer", "complete", "loading", "installing", "replying", "failing"}

\* Type invariant.
TypeOK ==
    /\ enabled \in BOOLEAN
    /\ serving \in Snapshots
    /\ status \in [state : States, lastResult : Outcomes, highest : Generations,
                   candidate : Identities \union {None}]
    /\ manifest \in Manifests \union {None}
    /\ generation \in Generations
    /\ token \in 0..MaxToken
    /\ candidate \in Snapshots \union {None}
    /\ call \in [Handlers -> [pc : CallStates, m : Manifests \union {None}, g : Generations,
                              token : 0..MaxToken, file : Ids \union {None},
                              prepared : Snapshots \union {None}]]
    /\ bound \in [Generations -> Manifests \union {None}]

\* A read-only replica starts with a managed identity or, for SIGHUP
\* reloads, with none; publication needs the managed one.
Init ==
    /\ serving \in {[index |-> Startup.id, version |-> 1, identity |-> Identity(Startup, StartGeneration)],
                    [index |-> Startup.id, version |-> 1, identity |-> [id |-> None, gen |-> 0, rev |-> None]]}
    /\ enabled \in BOOLEAN
    /\ enabled => serving.identity.gen # 0
    /\ status = [state |-> "SERVING", lastResult |-> "NONE", highest |-> serving.identity.gen,
                 candidate |-> None]
    /\ manifest = None
    /\ generation = 0
    /\ token = 0
    /\ candidate = None
    /\ call = [h \in Handlers |-> Idle]
    /\ bound = [g \in Generations |-> IF g = serving.identity.gen THEN Startup ELSE None]

-----------------------------------------------------------------------------
(* PrepareSnapshot *)

\* Mutation: a generation may be prepared again with another manifest.
AcceptableAnyManifest(m, g) ==
    g # 0 /\ g > serving.identity.gen /\ g >= status.highest

\* The generation and manifest conditions of begin().
Acceptable(m, g) ==
    /\ g # 0
    /\ g > serving.identity.gen
    /\ g >= status.highest
    /\ g = status.highest => m = manifest

\* Mutation: a second preparation may start while one is in progress.
SlotAlwaysFree == TRUE

SlotFree == status.state # "PREPARING"

\* begin() succeeds: the fence rises, an older READY candidate is dropped.
BeginAccept(h, m, g) ==
    /\ enabled
    /\ call[h].pc = "idle"
    /\ m.valid
    /\ SlotFree
    /\ Acceptable(m, g)
    /\ token < MaxToken
    /\ status' = [status EXCEPT !.state = "PREPARING", !.lastResult = "PREPARING", !.highest = g,
                                !.candidate = Identity(m, g)]
    /\ manifest' = m
    /\ generation' = g
    /\ candidate' = None
    /\ token' = token + 1
    /\ call' = [call EXCEPT ![h] = [Idle EXCEPT !.pc = "transfer", !.m = m, !.g = g, !.token = token + 1]]
    /\ bound' = [bound EXCEPT ![g] = m]
    /\ UNCHANGED <<enabled, serving>>

\* begin() throws, for one of the conditions above or because it cannot
\* allocate, for whatever request; nothing has changed yet.
BeginThrow(h) ==
    /\ enabled
    /\ call[h].pc = "idle"
    /\ call' = [call EXCEPT ![h] = [Idle EXCEPT !.pc = "rejecting"]]
    /\ UNCHANGED <<enabled, serving, status, manifest, generation, token, candidate, bound>>

\* Mutation: a rejected command resets the state whatever it was.
RejectionResets(s) == "FAILED"

StateAfterRejection(s) == IF s \in {"SERVING", "FAILED"} THEN "FAILED" ELSE s

\* rejected(): a later critical section of the handler whose begin() threw.
Rejected(h) ==
    /\ call[h].pc = "rejecting"
    /\ status' = [status EXCEPT !.lastResult = "REJECTED", !.state = StateAfterRejection(@)]
    /\ call' = [call EXCEPT ![h] = Idle]
    /\ UNCHANGED <<enabled, serving, manifest, generation, token, candidate, bound>>

\* The stream ends and the staged file is complete: its length is right, its
\* bytes may not be.
TransferEnds(h) ==
    /\ call[h].pc = "transfer"
    /\ \E d \in Ids : call' = [call EXCEPT ![h].pc = "complete", ![h].file = d]
    /\ UNCHANGED <<enabled, serving, status, manifest, generation, token, candidate, bound>>

\* The stream is cancelled, aborted, malformed, short or long, or staging fails.
TransferFails(h) ==
    /\ call[h].pc = "transfer"
    /\ call' = [call EXCEPT ![h].pc = "failing"]
    /\ UNCHANGED <<enabled, serving, status, manifest, generation, token, candidate, bound>>

\* Both token checks of complete().
OwnsSlot(h) == call[h].token = token /\ status.state = "PREPARING"

\* complete(), first critical section: copy manifest_ and generation_.
CompleteEnter(h) ==
    /\ call[h].pc = "complete"
    /\ call' = IF OwnsSlot(h)
               THEN [call EXCEPT ![h].pc = "loading", ![h].m = manifest, ![h].g = generation]
               ELSE [call EXCEPT ![h].pc = "failing"]
    /\ UNCHANGED <<enabled, serving, status, manifest, generation, token, candidate, bound>>

\* Mutation: the digest of the staged file is not compared.
VerifiedShapeOnly(h) == call[h].m.loads

\* load_verified_snapshot: the digest, the version, the loader and the shape.
Verified(h) == call[h].file = call[h].m.id /\ call[h].m.loads

\* VectorStore::prepare_snapshot accepts the generation and has a version left.
Preparable(g) == g > serving.identity.gen /\ serving.version < MaxVersion

\* complete(), between its critical sections.
Load(h) ==
    /\ call[h].pc = "loading"
    /\ Verified(h)
    /\ Preparable(call[h].g)
    /\ call' = [call EXCEPT ![h].pc = "installing",
                            ![h].prepared = [index |-> call[h].file, version |-> serving.version + 1,
                                             identity |-> Identity(call[h].m, call[h].g)]]
    /\ UNCHANGED <<enabled, serving, status, manifest, generation, token, candidate, bound>>

\* Verification, loading or an allocation failed.
LoadFails(h) ==
    /\ call[h].pc = "loading"
    /\ call' = [call EXCEPT ![h].pc = "failing"]
    /\ UNCHANGED <<enabled, serving, status, manifest, generation, token, candidate, bound>>

\* complete(), second critical section.
Install(h) ==
    /\ call[h].pc = "installing"
    /\ OwnsSlot(h)
    /\ candidate' = call[h].prepared
    /\ status' = [status EXCEPT !.state = "READY_TO_ACTIVATE", !.lastResult = "READY_TO_ACTIVATE"]
    /\ call' = [call EXCEPT ![h].pc = "replying"]
    /\ UNCHANGED <<enabled, serving, manifest, generation, token, bound>>

\* The same, when one of the status strings cannot be allocated: the
\* assignments before it stand.
InstallThrows(h) ==
    /\ call[h].pc = "installing"
    /\ OwnsSlot(h)
    /\ candidate' = call[h].prepared
    /\ status' \in {status,
                    [status EXCEPT !.state = "READY_TO_ACTIVATE"],
                    [status EXCEPT !.state = "READY_TO_ACTIVATE", !.lastResult = "READY_TO_ACTIVATE"]}
    /\ call' = [call EXCEPT ![h].pc = "failing"]
    /\ UNCHANGED <<enabled, serving, manifest, generation, token, bound>>

\* The response is filled from status() and the RPC returns.
Reply(h) ==
    /\ call[h].pc = "replying"
    /\ call' = [call EXCEPT ![h] = Idle]
    /\ UNCHANGED <<enabled, serving, status, manifest, generation, token, candidate, bound>>

\* Copying the status throws: the catch block calls fail() for a candidate
\* that is ready, or that others have activated or replaced by now.
ReplyFails(h) ==
    /\ call[h].pc = "replying"
    /\ call' = [call EXCEPT ![h].pc = "failing"]
    /\ UNCHANGED <<enabled, serving, status, manifest, generation, token, candidate, bound>>

\* Mutation: fail() is skipped once a candidate has been stored.
MayFailUnstored(h) == call[h].token = token /\ status.state = "PREPARING" /\ candidate = None

\* fail() acts only for the preparation that still owns the slot.
MayFail(h) == call[h].token = token /\ status.state = "PREPARING"

\* fail(token), from the cancellation exits and the catch block.
Fail(h) ==
    /\ call[h].pc = "failing"
    /\ \/ /\ MayFail(h)
          /\ candidate' = None
          /\ status' = [status EXCEPT !.candidate = None, !.state = "FAILED",
                                      !.lastResult = "PREPARE_FAILED"]
       \/ ~MayFail(h) /\ UNCHANGED <<candidate, status>>
    /\ call' = [call EXCEPT ![h] = Idle]
    /\ UNCHANGED <<enabled, serving, manifest, generation, token, bound>>

-----------------------------------------------------------------------------
(* ActivateSnapshot *)

Fenced(g) == g < status.highest

Current(i, g) == serving.identity.id = i /\ serving.identity.gen = g

\* VectorStore::activate_snapshot refuses c.
StoreRefuses(c) ==
    c.identity.gen <= serving.identity.gen \/ c.version # serving.version + 1

Activatable(i, g) ==
    /\ status.state = "READY_TO_ACTIVATE"
    /\ candidate # None
    /\ candidate.identity.id = i
    /\ candidate.identity.gen = g

Activate(i, g) ==
    /\ enabled
    /\ ~Fenced(g)
    /\ ~Current(i, g)
    /\ Activatable(i, g)
    /\ ~StoreRefuses(candidate)
    /\ serving' = candidate
    /\ candidate' = None
    /\ status' = [status EXCEPT !.state = "SERVING", !.lastResult = "ACTIVATED",
                                !.candidate = None]
    /\ UNCHANGED <<enabled, manifest, generation, token, call, bound>>

AlreadyActive(i, g) ==
    /\ enabled
    /\ ~Fenced(g)
    /\ Current(i, g)
    /\ status' = [status EXCEPT !.state = "SERVING", !.lastResult = "ALREADY_ACTIVE"]
    /\ UNCHANGED <<enabled, serving, manifest, generation, token, candidate, call, bound>>

\* The lambda reject() of activate(); the request's id may be any text.
ActivationRejected(i, g) ==
    /\ enabled
    /\ Fenced(g) \/ (~Current(i, g) /\ ~Activatable(i, g))
    /\ status' = [status EXCEPT !.lastResult = "ACTIVATION_REJECTED"]
    /\ UNCHANGED <<enabled, serving, manifest, generation, token, candidate, call, bound>>

-----------------------------------------------------------------------------
(* SIGHUP reload: VectorStore::replace_index -> publish_snapshot *)

Replaceable == serving.identity.gen = 0 /\ serving.version < MaxVersion

ReplaceIndex(d) ==
    /\ Replaceable
    /\ serving' = [index |-> d, version |-> serving.version + 1,
                   identity |-> [id |-> None, gen |-> 0, rev |-> None]]
    /\ UNCHANGED <<enabled, status, manifest, generation, token, candidate, call, bound>>

-----------------------------------------------------------------------------

\* What a call does by itself, and what its client's stream decides.
Advance(h) ==
    \/ CompleteEnter(h) \/ Load(h) \/ LoadFails(h) \/ Install(h) \/ InstallThrows(h)
    \/ Reply(h) \/ ReplyFails(h) \/ Fail(h) \/ Rejected(h)
Transfer(h) == TransferEnds(h) \/ TransferFails(h)

Next ==
    \/ \E h \in Handlers, m \in Manifests, g \in Generations : BeginAccept(h, m, g)
    \/ \E h \in Handlers : BeginThrow(h) \/ Advance(h) \/ Transfer(h)
    \/ \E i \in Ids \union {None}, g \in Generations :
          Activate(i, g) \/ AlreadyActive(i, g) \/ ActivationRejected(i, g)
    \/ \E d \in Ids : ReplaceIndex(d)

Spec == Init /\ [][Next]_vars

\* A handler thread that can run does, and gets the mutex.  Nothing is assumed
\* of new calls or of a stream: the server puts no time limit on a client that
\* has stopped sending.
FairSpec == Spec /\ \A h \in Handlers : WF_vars(Advance(h))

-----------------------------------------------------------------------------
(* Safety *)

\* A READY candidate can always be activated: it is the one the status names,
\* it is at the fence, above what is served, and its version is next, so
\* VectorStore::activate_snapshot cannot throw inside activate().
ReadyIsActivatable ==
    status.state = "READY_TO_ACTIVATE" =>
        /\ candidate # None
        /\ ~StoreRefuses(candidate)
        /\ candidate.identity.gen = status.highest
        /\ status.candidate = candidate.identity

\* The state is well typed; the fence is ahead of what is served while a
\* candidate is prepared or ready; and the preparation slot is never orphaned
\* and never shared: PREPARING holds exactly while one call, the one with the
\* current token, is between begin() and complete() or fail().
InPreparation == {"transfer", "complete", "loading", "installing"}
SlotIsOwned ==
    /\ TypeOK
    /\ status.state \in {"PREPARING", "READY_TO_ACTIVATE"} => status.highest > serving.identity.gen
    /\ \A h \in Handlers : call[h].pc \in InPreparation => OwnsSlot(h)
    /\ status.state = "PREPARING" =>
          \E h \in Handlers : /\ call[h].pc \in InPreparation \union {"failing"}
                              /\ OwnsSlot(h)
                              /\ \A k \in Handlers \ {h} : call[k].pc # "idle" => call[k].token # token

\* The preparation slot has one owner, and what it leaves READY can be activated.
SlotIsSound == SlotIsOwned /\ ReadyIsActivatable

\* The bytes being served were verified against the manifest that their
\* generation was accepted with, and carry its identity.
ServedIsVerified ==
    serving.identity.gen # 0 =>
        /\ bound[serving.identity.gen] # None
        /\ bound[serving.identity.gen].loads
        /\ serving.index = bound[serving.identity.gen].id
        /\ serving.identity = Identity(bound[serving.identity.gen], serving.identity.gen)

-----------------------------------------------------------------------------
(* Action properties *)

\* A READY candidate is lost only by being activated or by a newly accepted
\* preparation; rejected commands and late failures of other calls leave it.
ReadyIsKept ==
    [][status.state = "READY_TO_ACTIVATE" /\ (candidate' # candidate \/ status'.state # status.state)
          => serving' = candidate \/ token' = token + 1]_vars

\* One replica implements the register of releases: what is served is always
\* what the generation at the fence was proposed with.
Register == INSTANCE ReleaseRegister WITH
    Descriptions <- {Described(m) : m \in Manifests},
    Contents <- [id : Ids, rev : Revs \union {None}],
    fence <- status.highest,
    proposed <- [g \in Generations |-> IF bound[g] = None THEN None ELSE Described(bound[g])],
    released <- serving.identity.gen,
    content <- [id |-> serving.index, rev |-> serving.identity.rev]
ImplementsRegister == Register!Spec

-----------------------------------------------------------------------------
(* Liveness, under FairSpec *)

\* Once the stream of the accepted preparation is over, the slot is released,
\* whatever fails after that.
SlotIsReleased ==
    (status.state = "PREPARING" /\ \A h \in Handlers : call[h].pc # "transfer")
        ~> status.state # "PREPARING"

-----------------------------------------------------------------------------
(* A claim of the documentation that the code does not keep *)

\* "An admitted failure clears the candidate, reports FAILED": a call that
\* ends through the catch block or a cancellation exit, and that no later
\* preparation has displaced, leaves no READY candidate behind.
AdmittedFailureClears ==
    [][\A h \in Handlers :
          call[h].pc = "failing" /\ call'[h].pc = "idle" /\ call[h].token = token
              => status'.state # "READY_TO_ACTIVATE"]_vars
=============================================================================
