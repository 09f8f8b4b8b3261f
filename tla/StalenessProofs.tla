---------------------------- MODULE StalenessProofs ----------------------------
(***************************************************************************)
(* What a reconcile can rely on although it works on copies: the cached    *)
(* AuthRegistration it started from, the answers of the API server, and    *)
(* the cached Secret.  For one operator; the finalizer is what makes the   *)
(* difference.                                                             *)
(***************************************************************************)
EXTENDS OperatorProofs

-------------------------------------------------------------------------------
(***************************************************************************)
(* Versions of an AuthRegistration.  live is the object in the API server  *)
(* or None, born the number of times it has been created, a a copy.        *)
(***************************************************************************)

Same(live, a) == live # None /\ live.uid = a.uid

\* a is a version there has been: of the object that is there now, what was set
\* is still set, and a version of this generation has its spec.
Earlier(live, born, a) ==
    /\ a.uid <= born
    /\ Same(live, a) =>
        /\ a.finalizer => live.finalizer
        /\ a.deleting => live.deleting
        /\ a.gen <= live.gen
        /\ a.gen = live.gen => a.spec = live.spec /\ a.deleting = live.deleting

LiveOK(live, born) ==
    live # None => live.uid = born /\ (live.deleting => live.finalizer)

\* The cache knows every object that has the finalizer, and an object it shows
\* with finalizer and not deleted is still there.
CachedOK(live, born, a) ==
    /\ a # None =>
        /\ Earlier(live, born, a)
        /\ a.deleting => a.finalizer
        /\ a.finalizer /\ ~a.deleting => Same(live, a)
    /\ live # None /\ live.finalizer => a # None /\ a.uid = live.uid

\* Labels of handleReconcile.
Reconciling == Resolved \union {"invalidRef", "invalidPublished", "invalidCompleted"}

\* The object a worker is in handleReconcile for is there and has the finalizer;
\* one it is in handleDeletion for is being deleted, or gone and not finalized
\* again.
JobHolds(label, live, born, a, cached) ==
    /\ Earlier(live, born, a)
    /\ label \in Reconciling => Same(live, a) /\ live.finalizer
    /\ label = "finalize" =>
        /\ ~a.deleting /\ ~a.finalizer
        /\ Same(live, a) => cached # None /\ cached.uid = a.uid
    /\ label \in {"delete", "unfinalize"} =>
        /\ a.deleting /\ a.finalizer
        /\ cached # None /\ cached.uid = a.uid => cached.deleting
        /\ live # None /\ live.finalizer => live.uid = a.uid

\* The object goes on to a later version with the finalizer it has.
LEMMA AdvanceHolds ==
  ASSUME NEW born \in Nat, NEW old \in AuthRegistrationObjects,
         NEW new \in AuthRegistrationObjects, LiveOK(old, born),
         new.uid = old.uid, Earlier(new, born, old), new.finalizer = old.finalizer,
         new.deleting => new.finalizer
  PROVE  /\ LiveOK(new, born)
         /\ \A a \in AuthRegistrationObjects :
                Earlier(old, born, a) => Earlier(new, born, a)
         /\ \A a \in AuthRegistrationObjects \union {None} :
                CachedOK(old, born, a) => CachedOK(new, born, a)
         /\ \A label \in Labels, a \in AuthRegistrationObjects,
               cached \in AuthRegistrationObjects \union {None} :
                JobHolds(label, old, born, a, cached) => JobHolds(label, new, born, a, cached)
  <1>1. old # None /\ new # None
    BY OperatorAssumption
  <1>2. LiveOK(new, born)
    BY <1>1 DEF LiveOK, Earlier, Same
  <1>3. ASSUME NEW a \in AuthRegistrationObjects, Earlier(old, born, a)
        PROVE  Earlier(new, born, a)
    BY <1>1, <1>3 DEF Earlier, Same, AuthRegistrationObjects
  <1>4. ASSUME NEW a \in AuthRegistrationObjects \union {None}, CachedOK(old, born, a)
        PROVE  CachedOK(new, born, a)
    BY <1>1, <1>3, <1>4 DEF CachedOK, Same
  <1>5. ASSUME NEW label \in Labels, NEW a \in AuthRegistrationObjects,
               NEW cached \in AuthRegistrationObjects \union {None},
               JobHolds(label, old, born, a, cached)
        PROVE  JobHolds(label, new, born, a, cached)
    BY <1>1, <1>3, <1>5 DEF JobHolds, Same
  <1> QED BY <1>2, <1>3, <1>4, <1>5

\* The object is created: nobody has a copy of it.
LEMMA BirthHolds ==
  ASSUME NEW born \in Nat, NEW new \in AuthRegistrationObjects,
         new.uid = born + 1, ~new.finalizer, ~new.deleting
  PROVE  /\ LiveOK(new, born + 1)
         /\ \A a \in AuthRegistrationObjects \union {None} :
                CachedOK(None, born, a) => CachedOK(new, born + 1, a)
         /\ \A label \in Labels, a \in AuthRegistrationObjects,
               cached \in AuthRegistrationObjects \union {None} :
                JobHolds(label, None, born, a, cached)
                    => JobHolds(label, new, born + 1, a, cached)
  <1>1. new # None
    BY OperatorAssumption
  <1>2. LiveOK(new, born + 1)
    BY DEF LiveOK
  <1>3. ASSUME NEW a \in AuthRegistrationObjects, Earlier(None, born, a)
        PROVE  Earlier(new, born + 1, a) /\ ~Same(new, a)
    BY <1>3 DEF Earlier, Same, AuthRegistrationObjects
  <1>4. ASSUME NEW a \in AuthRegistrationObjects \union {None}, CachedOK(None, born, a)
        PROVE  CachedOK(new, born + 1, a)
    BY <1>3, <1>4 DEF CachedOK, Same
  <1>5. ASSUME NEW label \in Labels, NEW a \in AuthRegistrationObjects,
               NEW cached \in AuthRegistrationObjects \union {None},
               JobHolds(label, None, born, a, cached)
        PROVE  JobHolds(label, new, born + 1, a, cached)
    BY <1>3, <1>5 DEF JobHolds, Same
  <1> QED BY <1>2, <1>4, <1>5

\* The object goes away while it has no finalizer.
LEMMA DiscardHolds ==
  ASSUME NEW born \in Nat, NEW old \in AuthRegistrationObjects, ~old.finalizer
  PROVE  /\ LiveOK(None, born)
         /\ \A a \in AuthRegistrationObjects \union {None} :
                CachedOK(old, born, a) => CachedOK(None, born, a)
         /\ \A label \in Labels, a \in AuthRegistrationObjects,
               cached \in AuthRegistrationObjects \union {None} :
                JobHolds(label, old, born, a, cached) => JobHolds(label, None, born, a, cached)
  <1>1. old # None
    BY OperatorAssumption
  <1>2. ASSUME NEW a \in AuthRegistrationObjects, Earlier(old, born, a)
        PROVE  Earlier(None, born, a) /\ (Same(old, a) => ~a.finalizer)
    BY <1>1, <1>2 DEF Earlier, Same
  <1>3. ASSUME NEW a \in AuthRegistrationObjects \union {None}, CachedOK(old, born, a)
        PROVE  CachedOK(None, born, a)
    BY <1>1, <1>2, <1>3 DEF CachedOK, Same
  <1>4. ASSUME NEW label \in Labels, NEW a \in AuthRegistrationObjects,
               NEW cached \in AuthRegistrationObjects \union {None},
               JobHolds(label, old, born, a, cached)
        PROVE  JobHolds(label, None, born, a, cached)
    BY <1>1, <1>2, <1>4 DEF JobHolds, Same
  <1> QED BY <1>3, <1>4 DEF LiveOK

\* What users make of an object.
LEMMA EditedLater ==
  ASSUME NEW born \in Nat, NEW obj \in AuthRegistrationObjects, LiveOK(obj, born),
         NEW spec \in Specs
  PROVE  LET new == [obj EXCEPT !.spec = spec, !.gen = obj.gen + 1]
         IN  /\ new \in AuthRegistrationObjects /\ new.uid = obj.uid
             /\ new.finalizer = obj.finalizer /\ (new.deleting => new.finalizer)
             /\ Earlier(new, born, obj)
  <1> DEFINE new == [obj EXCEPT !.spec = spec, !.gen = obj.gen + 1]
  <1>1. obj.gen \in Nat /\ obj.gen + 1 \in Nat /\ obj # None /\ obj.uid \in Nat
    BY OperatorAssumption DEF AuthRegistrationObjects
  <1>2. new \in AuthRegistrationObjects
    BY <1>1 DEF AuthRegistrationObjects
  <1>3. new.uid = obj.uid /\ new.gen = obj.gen + 1
    BY <1>1 DEF AuthRegistrationObjects
  <1>4. new.finalizer = obj.finalizer
    BY DEF AuthRegistrationObjects
  <1>5. new.deleting = obj.deleting
    BY DEF AuthRegistrationObjects
  <1> HIDE DEF new
  <1>6. (new.deleting => new.finalizer)
    BY <1>1, <1>4, <1>5 DEF LiveOK
  <1>7. obj.uid <= born
    BY <1>1 DEF LiveOK
  <1>8. Earlier(new, born, obj)
    BY <1>1, <1>3, <1>4, <1>5, <1>7 DEF Earlier
  <1> QED BY <1>2, <1>3, <1>4, <1>6, <1>8 DEF new

LEMMA DeletedLater ==
  ASSUME NEW born \in Nat, NEW obj \in AuthRegistrationObjects, LiveOK(obj, born),
         obj.finalizer
  PROVE  LET new == [obj EXCEPT !.deleting = TRUE, !.gen = obj.gen + 1]
         IN  /\ new \in AuthRegistrationObjects /\ new.uid = obj.uid
             /\ new.finalizer = obj.finalizer
             /\ Earlier(new, born, obj)
  <1> DEFINE new == [obj EXCEPT !.deleting = TRUE, !.gen = obj.gen + 1]
  <1>1. obj.gen \in Nat /\ obj.gen + 1 \in Nat /\ obj # None /\ obj.uid \in Nat
    BY OperatorAssumption DEF AuthRegistrationObjects
  <1>2. new \in AuthRegistrationObjects
    BY <1>1 DEF AuthRegistrationObjects
  <1>3. new.uid = obj.uid /\ new.gen = obj.gen + 1
    BY <1>1 DEF AuthRegistrationObjects
  <1>4. new.finalizer = obj.finalizer
    BY DEF AuthRegistrationObjects
  <1>5. new.deleting = TRUE
    BY DEF AuthRegistrationObjects
  <1> HIDE DEF new
  <1>6. obj.uid <= born
    BY <1>1 DEF LiveOK
  <1>7. Earlier(new, born, obj)
    BY <1>1, <1>3, <1>4, <1>5, <1>6 DEF Earlier
  <1> QED BY <1>2, <1>3, <1>4, <1>7 DEF new

\* The informer catches up.
LEMMA SyncHolds ==
  ASSUME NEW born \in Nat, NEW live \in AuthRegistrationObjects \union {None},
         LiveOK(live, born)
  PROVE  /\ CachedOK(live, born, live)
         /\ \A label \in Labels, a \in AuthRegistrationObjects,
               cached \in AuthRegistrationObjects \union {None} :
                JobHolds(label, live, born, a, cached) => JobHolds(label, live, born, a, live)
  <1>1. live # None => Earlier(live, born, live)
    BY DEF Earlier, LiveOK, Same, AuthRegistrationObjects
  <1>2. CachedOK(live, born, live)
    BY <1>1 DEF CachedOK, LiveOK, Same
  <1>3. ASSUME NEW label \in Labels, NEW a \in AuthRegistrationObjects,
               NEW cached \in AuthRegistrationObjects \union {None},
               JobHolds(label, live, born, a, cached)
        PROVE  JobHolds(label, live, born, a, live)
    BY <1>3 DEF JobHolds, Earlier, Same
  <1> QED BY <1>2, <1>3

-------------------------------------------------------------------------------
(***************************************************************************)
(* The invariant                                                           *)
(***************************************************************************)

WorkerHolds(o) ==
    LET n == job[o].name
    IN  pc[o] # "idle" => JobHolds(pc[o], ars[n], births[n], job[o].obj, arCache[o][n])

HoldInv ==
    /\ \A n \in Names : LiveOK(ars[n], births[n])
    /\ \A o \in Operators, n \in Names : CachedOK(ars[n], births[n], arCache[o][n])
    /\ \A o \in Operators : WorkerHolds(o)

\* What the types say about versions and jobs.
LEMMA HoldTypes ==
  ASSUME OperatorInv
  PROVE  /\ ars \in [Names -> AuthRegistrationObjects \union {None}]
         /\ births \in [Names -> Nat]
         /\ arCache \in [Operators -> [Names -> AuthRegistrationObjects \union {None}]]
         /\ pc \in [Operators -> Labels]
         /\ job \in [Operators -> Jobs]
         /\ \A o \in Operators :
                pc[o] # "idle" => job[o].name \in Names /\ job[o].obj \in AuthRegistrationObjects
  BY DEF OperatorInv, K8sTypeOK, LocalTypeOK, WorkerOK, JobOK

\* A worker at one label may go on to another on the same object, or return.
Stays(from, to) ==
    \/ from = to
    \/ from \in Reconciling /\ to \in Reconciling
    \/ from = "delete" /\ to = "unfinalize"

StaysOrReturns(o) ==
    \/ pc'[o] = "idle"
    \/ /\ pc[o] # "idle" /\ Stays(pc[o], pc'[o])
       /\ job'[o].name = job[o].name /\ job'[o].obj = job[o].obj

\* Steps that touch no AuthRegistration and take up no new one.
LEMMA QuietHolds ==
  ASSUME HoldInv, UNCHANGED <<ars, births, arCache>>,
         \A o \in Operators : StaysOrReturns(o)
  PROVE  HoldInv'
  <1>1. ASSUME NEW o \in Operators, pc'[o] # "idle"
        PROVE  JobHolds(pc'[o], ars[job'[o].name], births[job'[o].name], job'[o].obj,
                        arCache[o][job'[o].name])
    <2> DEFINE n == job[o].name
    <2>1. /\ pc[o] # "idle" /\ Stays(pc[o], pc'[o])
          /\ job'[o].name = n /\ job'[o].obj = job[o].obj
      BY <1>1 DEF StaysOrReturns
    <2>2. JobHolds(pc[o], ars[n], births[n], job[o].obj, arCache[o][n])
      BY <2>1 DEF HoldInv, WorkerHolds
    <2> QED BY <2>1, <2>2 DEF JobHolds, Stays, Reconciling, Resolved
  <1>2. \A o \in Operators : WorkerHolds(o)'
    BY <1>1 DEF WorkerHolds
  <1> QED BY <1>2 DEF HoldInv

\* Steps that change one AuthRegistration and no worker's view of it.
LEMMA LiveHolds ==
  ASSUME OperatorInv, HoldInv, NEW n \in Names, NEW live, NEW born,
         ars' = [ars EXCEPT ![n] = live], births' = [births EXCEPT ![n] = born],
         arCache' = arCache, LiveOK(live, born),
         \A o \in Operators : CachedOK(live, born, arCache[o][n]),
         \A o \in Operators :
            \/ pc'[o] = "idle"
            \/ /\ pc[o] # "idle" /\ pc'[o] = pc[o] /\ job'[o] = job[o]
               /\ job[o].name = n => JobHolds(pc[o], live, born, job[o].obj, arCache[o][n])
            \/ /\ pc'[o] # "idle" /\ job'[o].name = n
               /\ JobHolds(pc'[o], live, born, job'[o].obj, arCache[o][n])
  PROVE  HoldInv'
  <1>1. /\ ars'[n] = live /\ births'[n] = born
        /\ \A m \in Names : m # n => ars'[m] = ars[m] /\ births'[m] = births[m]
    BY HoldTypes
  <1>2. \A m \in Names : LiveOK(ars'[m], births'[m])
    BY <1>1 DEF HoldInv
  <1>3. \A o \in Operators, m \in Names : CachedOK(ars'[m], births'[m], arCache'[o][m])
    BY <1>1 DEF HoldInv
  <1>4. ASSUME NEW o \in Operators, pc'[o] # "idle"
        PROVE  JobHolds(pc'[o], ars'[job'[o].name], births'[job'[o].name], job'[o].obj,
                        arCache'[o][job'[o].name])
    <2>1. CASE /\ pc[o] # "idle" /\ pc'[o] = pc[o] /\ job'[o] = job[o]
               /\ job[o].name = n => JobHolds(pc[o], live, born, job[o].obj, arCache[o][n])
      <3>1. job[o].name \in Names
        BY <2>1, HoldTypes
      <3>2. CASE job[o].name = n
        BY <1>1, <2>1, <3>2
      <3>3. CASE job[o].name # n
        BY <1>1, <2>1, <3>1, <3>3 DEF HoldInv, WorkerHolds
      <3> QED BY <3>2, <3>3
    <2>2. CASE /\ pc'[o] # "idle" /\ job'[o].name = n
               /\ JobHolds(pc'[o], live, born, job'[o].obj, arCache[o][n])
      BY <1>1, <2>2
    <2> QED BY <1>4, <2>1, <2>2
  <1>5. \A o \in Operators : WorkerHolds(o)'
    BY <1>4 DEF WorkerHolds
  <1> QED BY <1>2, <1>3, <1>5 DEF HoldInv

LEMMA HoldInvInit == Init => HoldInv
  BY OperatorAssumption DEF Init, HoldInv, LiveOK, CachedOK, WorkerHolds

-------------------------------------------------------------------------------
(***************************************************************************)
(* Its steps                                                               *)
(***************************************************************************)

LEMMA UserHolds ==
  ASSUME OperatorInv, HoldInv, UserStep
  PROVE  HoldInv'
  <1>1. /\ ars \in [Names -> AuthRegistrationObjects \union {None}]
        /\ births \in [Names -> Nat]
        /\ arCache \in [Operators -> [Names -> AuthRegistrationObjects \union {None}]]
        /\ \A o \in Operators : pc[o] \in Labels
        /\ \A o \in Operators :
                pc[o] # "idle" => job[o].name \in Names /\ job[o].obj \in AuthRegistrationObjects
    BY HoldTypes
  <1>2. UNCHANGED <<arCache, pc, job>>
    BY DEF UserStep, UserCreates, UserEdits, UserDeletes, UserWritesSecret, UserDeletesSecret,
           AdminSetsFqdn, localVars
  <1>3. /\ \A m \in Names : LiveOK(ars[m], births[m])
        /\ \A o \in Operators, m \in Names : CachedOK(ars[m], births[m], arCache[o][m])
        /\ \A o \in Operators : pc[o] # "idle" =>
                JobHolds(pc[o], ars[job[o].name], births[job[o].name], job[o].obj,
                         arCache[o][job[o].name])
    BY DEF HoldInv, WorkerHolds
  <1>4. ASSUME NEW n \in Names, NEW spec \in UserSpecs[n], UserCreates(n, spec)
        PROVE  HoldInv'
    <2> DEFINE new == [uid |-> births[n] + 1, gen |-> 1, deleting |-> FALSE,
                       finalizer |-> FALSE, spec |-> spec, status |-> NoStatus]
    <2>1. NoStatus \in Statuses /\ spec \in Specs
      BY OperatorAssumption DEF NoStatus, Statuses, Conditions
    <2>2. new \in AuthRegistrationObjects
      BY <1>1, <2>1 DEF AuthRegistrationObjects
    <2>3. new.uid = births[n] + 1 /\ ~new.finalizer /\ ~new.deleting
      OBVIOUS
    <2>4. /\ ars[n] = None /\ ars' = [ars EXCEPT ![n] = new]
          /\ births' = [births EXCEPT ![n] = births[n] + 1]
      BY <1>4 DEF UserCreates
    <2> HIDE DEF new
    <2>5. /\ LiveOK(new, births[n] + 1)
          /\ \A o \in Operators : CachedOK(new, births[n] + 1, arCache[o][n])
          /\ \A o \in Operators : pc[o] # "idle" /\ job[o].name = n =>
                JobHolds(pc[o], new, births[n] + 1, job[o].obj, arCache[o][n])
      BY <1>1, <1>3, <2>2, <2>3, <2>4, BirthHolds
    <2> QED BY <1>2, <2>4, <2>5, LiveHolds
  <1>5. ASSUME NEW n \in Names, NEW new \in AuthRegistrationObjects, ars[n] # None,
               ars' = [ars EXCEPT ![n] = new], births' = births, new.uid = ars[n].uid,
               Earlier(new, births[n], ars[n]), new.finalizer = ars[n].finalizer,
               new.deleting => new.finalizer
        PROVE  HoldInv'
    <2>1. ars[n] \in AuthRegistrationObjects /\ births[n] \in Nat
      BY <1>1, <1>5
    <2>2. /\ LiveOK(new, births[n])
          /\ \A o \in Operators : CachedOK(new, births[n], arCache[o][n])
          /\ \A o \in Operators : pc[o] # "idle" /\ job[o].name = n =>
                JobHolds(pc[o], new, births[n], job[o].obj, arCache[o][n])
      BY <1>1, <1>3, <1>5, <2>1, AdvanceHolds
    <2>3. births' = [births EXCEPT ![n] = births[n]]
      BY <1>1, <1>5
    <2> QED BY <1>2, <1>5, <2>2, <2>3, LiveHolds
  <1>6. ASSUME NEW n \in Names, NEW spec \in UserSpecs[n], UserEdits(n, spec)
        PROVE  HoldInv'
    <2> DEFINE obj == ars[n]
               new == [obj EXCEPT !.spec = spec, !.gen = obj.gen + 1]
    <2>1. spec \in Specs
      BY OperatorAssumption
    <2>2. /\ obj \in AuthRegistrationObjects /\ obj # None
          /\ ars' = [ars EXCEPT ![n] = new] /\ births' = births
      BY <1>1, <1>6 DEF UserEdits
    <2>3. LiveOK(obj, births[n]) /\ births[n] \in Nat
      BY <1>1, <1>3
    <2>4. /\ new \in AuthRegistrationObjects /\ new.uid = obj.uid
          /\ new.finalizer = obj.finalizer /\ (new.deleting => new.finalizer)
          /\ Earlier(new, births[n], obj)
      <3> HIDE DEF obj
      <3> QED BY <2>1, <2>2, <2>3, EditedLater
    <2> HIDE DEF new
    <2> QED BY <1>5, <2>2, <2>4
  <1>7. ASSUME NEW n \in Names, UserDeletes(n)
        PROVE  HoldInv'
    <2> DEFINE obj == ars[n]
               new == [obj EXCEPT !.deleting = TRUE, !.gen = obj.gen + 1]
    <2>1. /\ obj \in AuthRegistrationObjects /\ obj # None /\ births' = births
          /\ obj.finalizer => ars' = [ars EXCEPT ![n] = new]
          /\ ~obj.finalizer => ars' = [ars EXCEPT ![n] = None]
      BY <1>1, <1>7 DEF UserDeletes
    <2>2. LiveOK(obj, births[n]) /\ births[n] \in Nat
      BY <1>1, <1>3
    <2>3. CASE obj.finalizer
      <3>1. /\ new \in AuthRegistrationObjects /\ new.uid = obj.uid
            /\ new.finalizer = obj.finalizer /\ Earlier(new, births[n], obj)
        <4> HIDE DEF obj
        <4> QED BY <2>1, <2>2, <2>3, DeletedLater
      <3> HIDE DEF new
      <3>2. new.finalizer
        BY <2>3, <3>1
      <3> QED BY <1>5, <2>1, <2>3, <3>1, <3>2
    <2>4. CASE ~obj.finalizer
      <3>1. /\ LiveOK(None, births[n])
            /\ \A o \in Operators : CachedOK(None, births[n], arCache[o][n])
            /\ \A o \in Operators : pc[o] # "idle" /\ job[o].name = n =>
                    JobHolds(pc[o], None, births[n], job[o].obj, arCache[o][n])
        BY <1>1, <1>3, <2>1, <2>2, <2>4, DiscardHolds
      <3>2. births' = [births EXCEPT ![n] = births[n]]
        BY <1>1, <2>1
      <3> QED BY <1>2, <2>1, <2>4, <3>1, <3>2, LiveHolds
    <2> QED BY <2>3, <2>4
  <1>8. CASE UNCHANGED <<ars, births>>
    <2>1. \A o \in Operators : StaysOrReturns(o)
      BY <1>2 DEF StaysOrReturns, Stays
    <2> QED BY <1>2, <1>8, <2>1, QuietHolds
  <1>9. CASE \E s \in SecretNames :
                \/ \E data \in UserData, type \in UserSecretTypes :
                        UserWritesSecret(s, data, type)
                \/ UserDeletesSecret(s)
    BY <1>8, <1>9 DEF UserWritesSecret, UserDeletesSecret
  <1>10. CASE \E f \in Fqdns : AdminSetsFqdn(f)
    BY <1>8, <1>10 DEF AdminSetsFqdn, k8sVars
  <1> QED BY <1>4, <1>6, <1>7, <1>9, <1>10, OperatorAssumption DEF UserStep

LEMMA BeginHolds ==
  ASSUME OperatorInv, HoldInv, NEW o \in Operators, NEW n \in Names, Begin(o, n)
  PROVE  HoldInv'
  <1> DEFINE obj  == arCache[o][n]
             job0 == [NoJob EXCEPT !.name = n, !.obj = obj]
  <1>1. UNCHANGED <<ars, births, arCache>>
    BY DEF Begin, k8sVars
  <1>2. /\ births[n] \in Nat /\ pc \in [Operators -> Labels] /\ job \in [Operators -> Jobs]
        /\ obj \in AuthRegistrationObjects \union {None}
        /\ ars' = [ars EXCEPT ![n] = ars[n]] /\ births' = [births EXCEPT ![n] = births[n]]
    BY <1>1, HoldTypes
  <1>3. LiveOK(ars[n], births[n]) /\ \A p \in Operators : CachedOK(ars[n], births[n], arCache[p][n])
    BY DEF HoldInv
  <1>4. ASSUME NEW label \in Labels \ {"idle"}, NEW j, pc' = [pc EXCEPT ![o] = label],
               job' = [job EXCEPT ![o] = j], j.name = n, j.obj = obj,
               JobHolds(label, ars[n], births[n], obj, obj)
        PROVE  HoldInv'
    <2>1. ASSUME NEW p \in Operators
          PROVE  \/ pc'[p] = "idle"
                 \/ /\ pc[p] # "idle" /\ pc'[p] = pc[p] /\ job'[p] = job[p]
                    /\ job[p].name = n =>
                        JobHolds(pc[p], ars[n], births[n], job[p].obj, arCache[p][n])
                 \/ /\ pc'[p] # "idle" /\ job'[p].name = n
                    /\ JobHolds(pc'[p], ars[n], births[n], job'[p].obj, arCache[p][n])
      <3>1. CASE p = o
        BY <1>2, <1>4, <3>1
      <3>2. CASE p # o
        BY <1>2, <1>4, <3>2 DEF HoldInv, WorkerHolds
      <3> QED BY <3>1, <3>2
    <2> QED BY <1>1, <1>2, <1>3, <2>1, LiveHolds
  <1>5. obj # None => job0.name = n /\ job0.obj = obj
    BY DEF NoJob
  <1>6. CASE UNCHANGED <<pc, job>>
    <2>1. \A p \in Operators : StaysOrReturns(p)
      BY <1>6 DEF StaysOrReturns, Stays
    <2> QED BY <1>1, <2>1, QuietHolds
  <1>7. CASE /\ obj # None /\ obj.deleting /\ obj.finalizer
             /\ pc' = [pc EXCEPT ![o] = "delete"] /\ job' = [job EXCEPT ![o] = job0]
    <2>1. JobHolds("delete", ars[n], births[n], obj, obj)
      BY <1>3, <1>7 DEF CachedOK, JobHolds, Reconciling, Resolved
    <2> HIDE DEF job0
    <2> QED BY <1>4, <1>5, <1>7, <2>1 DEF Labels
  <1>8. CASE /\ obj # None /\ ~obj.deleting /\ ~obj.finalizer
             /\ pc' = [pc EXCEPT ![o] = "finalize"] /\ job' = [job EXCEPT ![o] = job0]
    <2>1. JobHolds("finalize", ars[n], births[n], obj, obj)
      BY <1>3, <1>8 DEF CachedOK, JobHolds, Reconciling, Resolved, Same
    <2> HIDE DEF job0
    <2> QED BY <1>4, <1>5, <1>8, <2>1 DEF Labels
  <1>9. CASE /\ obj # None /\ ~obj.deleting /\ obj.finalizer
             /\ pc' = [pc EXCEPT ![o] = StartOfReconcile(n, obj)]
             /\ job' = [job EXCEPT ![o] = Started(n, obj)]
    <2>1. StartOfReconcile(n, obj) \in {"invalidRef", "read"}
      BY DEF StartOfReconcile
    <2>2. JobHolds(StartOfReconcile(n, obj), ars[n], births[n], obj, obj)
      BY <1>3, <1>9, <2>1 DEF CachedOK, JobHolds, Earlier, Same
    <2>3. Started(n, obj).name = n /\ Started(n, obj).obj = obj
      BY DEF Started, NoJob
    <2> QED BY <1>4, <1>9, <2>1, <2>2, <2>3 DEF Labels
  <1> QED BY <1>6, <1>7, <1>8, <1>9 DEF Begin

Patches(o) ==
    \/ PatchInvalidSpec(o) \/ PatchRegistrationFailed(o) \/ PatchResolvedSecretRef(o)
    \/ PatchSecretReconcileFailed(o) \/ PatchCredentialsPublished(o)
    \/ PatchRegistrationSucceeded(o)

\* Where a status patch may lead to.
AfterPatch == {"invalidPublished", "invalidCompleted", "secret", "blocked", "succeeded"}

LEMMA PatchesKind ==
  ASSUME OperatorInv, NEW o \in Operators, Patches(o)
  PROVE  /\ pc[o] \in Reconciling \ {"read", "upsert"}
         /\ \E after \in Statuses, next \in AfterPatch \union {"done", "retry"} :
                PatchStatus(o, after, next)
  <1>1. pc[o] \in Reconciling \ {"read", "upsert"}
    BY DEF Patches, PatchInvalidSpec, PatchRegistrationFailed, PatchResolvedSecretRef,
           PatchSecretReconcileFailed, PatchCredentialsPublished, PatchRegistrationSucceeded,
           Reconciling, Resolved
  <1>2. job[o].obj \in AuthRegistrationObjects /\ job[o].secretName \in SecretNames \union {None}
    <2>1. pc[o] # "idle" /\ job[o] \in Jobs
      BY <1>1, HoldTypes DEF Reconciling, Resolved
    <2> QED BY <2>1, HoldTypes DEF Jobs
  <1>3. /\ \A ref \in SecretNames \union {None} : WithRef(job[o].obj, ref) \in Statuses
        /\ \A r \in PublishedReasons : WithPublished(job[o].obj, r) \in Statuses
        /\ \A r \in CompletedReasons : WithCompleted(job[o].obj, r) \in Statuses
    BY <1>2, StatusType
  <1>4. /\ WithRef(job[o].obj, None) \in Statuses
        /\ WithRef(job[o].obj, job[o].secretName) \in Statuses
        /\ WithPublished(job[o].obj, "InvalidSpec") \in Statuses
        /\ WithPublished(job[o].obj, "SecretReconcileFailed") \in Statuses
        /\ WithPublished(job[o].obj, "SecretReconciled") \in Statuses
        /\ WithCompleted(job[o].obj, "InvalidSpec") \in Statuses
        /\ WithCompleted(job[o].obj, "Blocked") \in Statuses
        /\ WithCompleted(job[o].obj, "RegistrationFailed") \in Statuses
        /\ WithCompleted(job[o].obj, "RegistrationSucceeded") \in Statuses
    BY <1>2, <1>3 DEF PublishedReasons, CompletedReasons
  <1>5. /\ {"done", "retry"} \subseteq AfterPatch \union {"done", "retry"}
        /\ {"invalidPublished", "invalidCompleted", "secret", "blocked", "succeeded"}
                \subseteq AfterPatch \union {"done", "retry"}
    BY DEF AfterPatch
  <1>6. CASE PatchInvalidSpec(o)
    BY <1>1, <1>4, <1>5, <1>6 DEF PatchInvalidSpec
  <1>7. CASE PatchResolvedSecretRef(o) \/ PatchCredentialsPublished(o)
    BY <1>1, <1>4, <1>5, <1>7 DEF PatchResolvedSecretRef, PatchCredentialsPublished
  <1>8. CASE PatchSecretReconcileFailed(o)
    BY <1>1, <1>4, <1>5, <1>8 DEF PatchSecretReconcileFailed
  <1>9. CASE PatchRegistrationSucceeded(o) \/ PatchRegistrationFailed(o)
    BY <1>1, <1>4, <1>5, <1>9 DEF PatchRegistrationSucceeded, PatchRegistrationFailed
  <1> QED BY <1>6, <1>7, <1>8, <1>9 DEF Patches

\* A patch keeps everything but the status.
LEMMA MergePatchKeeps ==
  ASSUME NEW live \in AuthRegistrationObjects, NEW before \in Statuses, NEW after \in Statuses
  PROVE  LET m == MergePatch(live, before, after)
         IN  /\ m \in AuthRegistrationObjects /\ m # None
             /\ m.uid = live.uid /\ m.gen = live.gen /\ m.deleting = live.deleting
             /\ m.finalizer = live.finalizer /\ m.spec = live.spec
  <1> DEFINE m == MergePatch(live, before, after)
  <1>1. m \in AuthRegistrationObjects
    BY MergePatchType
  <1>2. m # None
    BY <1>1, OperatorAssumption
  <1>3. m.uid = live.uid /\ m.gen = live.gen /\ m.spec = live.spec
    BY DEF MergePatch, AuthRegistrationObjects
  <1>4. m.deleting = live.deleting /\ m.finalizer = live.finalizer
    BY DEF MergePatch, AuthRegistrationObjects
  <1> QED BY <1>1, <1>2, <1>3, <1>4

Left(o) == pc' = [pc EXCEPT ![o] = "idle"] /\ job' = [job EXCEPT ![o] = NoJob]

\* What a status patch does to the object and to the worker.
LEMMA PatchKind ==
  ASSUME OperatorInv, NEW o \in Operators, Patches(o)
  PROVE  LET n == job[o].name
         IN  /\ pc[o] \in Reconciling \ {"read", "upsert"} /\ n \in Names
             /\ \/ /\ ars' = ars
                   /\ \/ Left(o)
                      \/ \E next \in AfterPatch : Goto(o, next, job[o])
                \/ \E m \in AuthRegistrationObjects :
                    /\ ars[n] # None /\ ars' = [ars EXCEPT ![n] = m]
                    /\ m.uid = ars[n].uid /\ m.gen = ars[n].gen
                    /\ m.deleting = ars[n].deleting /\ m.finalizer = ars[n].finalizer
                    /\ m.spec = ars[n].spec
                    /\ \/ Left(o)
                       \/ \E next \in AfterPatch : Goto(o, next, [job[o] EXCEPT !.obj = m])
  <1> DEFINE n      == job[o].name
             before == job[o].obj.status
  <1>1. pc[o] \in Reconciling \ {"read", "upsert"} /\ n \in Names
    BY PatchesKind, HoldTypes DEF Reconciling, Resolved
  <1>2. PICK after \in Statuses, next \in AfterPatch \union {"done", "retry"} :
            PatchStatus(o, after, next)
    BY PatchesKind
  <1> DEFINE m       == MergePatch(ars[n], before, after)
             patched == [ars EXCEPT ![n] = m]
  <1>3. ASSUME NEW j, Proceed(o, next, j)
        PROVE  Left(o) \/ \E label \in AfterPatch : Goto(o, label, j)
    BY <1>3 DEF Proceed, Done, Retry, Left
  <1>4. before \in Statuses /\ ars[n] \in AuthRegistrationObjects \union {None}
    <2>1. job[o].obj \in AuthRegistrationObjects
      BY <1>1, HoldTypes DEF Reconciling, Resolved
    <2> QED BY <1>1, <2>1, HoldTypes DEF AuthRegistrationObjects
  <1>5. ars[n] # None =>
            /\ m \in AuthRegistrationObjects
            /\ m.uid = ars[n].uid /\ m.gen = ars[n].gen /\ m.deleting = ars[n].deleting
            /\ m.finalizer = ars[n].finalizer /\ m.spec = ars[n].spec
    <2> HIDE DEF n, before
    <2> QED BY <1>4, MergePatchKeeps
  <1>6. patched[n] = m
    BY <1>1, HoldTypes
  <1>7. CASE ars' = ars
    <2>1. Proceed(o, next, job[o]) \/ Retry(o) \/
            (ars[n] # None /\ ars' = patched /\ Proceed(o, next, [job[o] EXCEPT !.obj = patched[n]]))
      BY <1>2 DEF PatchStatus
    <2> HIDE DEF m, patched
    <2>2. CASE Proceed(o, next, job[o]) \/ Retry(o)
      BY <1>1, <1>3, <1>7, <2>2 DEF Retry, Left
    <2>3. CASE ars[n] # None /\ ars' = patched
                /\ Proceed(o, next, [job[o] EXCEPT !.obj = patched[n]])
      <3>1. ars' = [ars EXCEPT ![n] = m]
        BY <2>3 DEF patched
      <3>2. Left(o) \/ \E label \in AfterPatch : Goto(o, label, [job[o] EXCEPT !.obj = m])
        BY <1>3, <1>6, <2>3
      <3> QED BY <1>1, <1>5, <2>3, <3>1, <3>2
    <2> QED BY <2>1, <2>2, <2>3
  <1>8. CASE ars' # ars
    <2>1. /\ ars[n] # None /\ ars' = patched
          /\ Proceed(o, next, [job[o] EXCEPT !.obj = patched[n]]) \/ Retry(o)
      BY <1>2, <1>8 DEF PatchStatus
    <2>2. ars' = [ars EXCEPT ![n] = m]
      BY <2>1
    <2> HIDE DEF m, patched
    <2>3. Left(o) \/ \E label \in AfterPatch : Goto(o, label, [job[o] EXCEPT !.obj = m])
      BY <1>3, <1>6, <2>1 DEF Retry, Left
    <2> QED BY <1>1, <1>5, <2>1, <2>2, <2>3
  <1> QED BY <1>7, <1>8

\* The two cases above for the worker of the only operator.
LEMMA OneQuietHolds ==
  ASSUME OneOperator, HoldInv, NEW o \in Operators, UNCHANGED <<ars, births, arCache>>,
         StaysOrReturns(o)
  PROVE  HoldInv'
  <1>1. ASSUME NEW p \in Operators
        PROVE  StaysOrReturns(p)
    <2>1. p = o
      BY DEF OneOperator
    <2> QED BY <2>1
  <1> QED BY <1>1, QuietHolds

LEMMA OneLiveHolds ==
  ASSUME OneOperator, OperatorInv, HoldInv, NEW o \in Operators, NEW n \in Names, NEW live,
         ars' = [ars EXCEPT ![n] = live], UNCHANGED <<births, arCache>>,
         LiveOK(live, births[n]), CachedOK(live, births[n], arCache[o][n]),
         \/ pc'[o] = "idle"
         \/ /\ pc'[o] # "idle" /\ job'[o].name = n
            /\ JobHolds(pc'[o], live, births[n], job'[o].obj, arCache[o][n])
  PROVE  HoldInv'
  <1>1. births' = [births EXCEPT ![n] = births[n]]
    BY HoldTypes
  <1>2. ASSUME NEW p \in Operators
        PROVE  /\ CachedOK(live, births[n], arCache[p][n])
               /\ \/ pc'[p] = "idle"
                  \/ /\ pc'[p] # "idle" /\ job'[p].name = n
                     /\ JobHolds(pc'[p], live, births[n], job'[p].obj, arCache[p][n])
    <2>1. p = o
      BY DEF OneOperator
    <2> QED BY <2>1
  <1> QED BY <1>1, <1>2, LiveHolds

LEMMA PatchHolds ==
  ASSUME OneOperator, OperatorInv, HoldInv, NEW o \in Operators, Patches(o),
         UNCHANGED <<births, arCache>>
  PROVE  HoldInv'
  <1> DEFINE n == job[o].name
  <1>1. /\ pc[o] \in Reconciling /\ n \in Names
        /\ AfterPatch \subseteq Reconciling /\ AfterPatch \subseteq Labels
        /\ "idle" \notin AfterPatch
    BY PatchKind DEF AfterPatch, Reconciling, Resolved, Labels
  <1>2. /\ pc \in [Operators -> Labels] /\ job \in [Operators -> Jobs]
        /\ ars[n] \in AuthRegistrationObjects \union {None} /\ births[n] \in Nat
        /\ \A p \in Operators : arCache[p][n] \in AuthRegistrationObjects \union {None}
    BY <1>1, HoldTypes
  <1>3. CASE /\ ars' = ars
             /\ Left(o) \/ \E next \in AfterPatch : Goto(o, next, job[o])
    <2>1. StaysOrReturns(o)
      BY <1>1, <1>2, <1>3 DEF StaysOrReturns, Stays, Left, Goto, Reconciling, Resolved
    <2> QED BY <1>3, <2>1, OneQuietHolds
  <1>4. ASSUME NEW m \in AuthRegistrationObjects,
               ars[n] # None, ars' = [ars EXCEPT ![n] = m],
               m.uid = ars[n].uid, m.gen = ars[n].gen, m.deleting = ars[n].deleting,
               m.finalizer = ars[n].finalizer, m.spec = ars[n].spec,
               \/ Left(o)
               \/ \E next \in AfterPatch : Goto(o, next, [job[o] EXCEPT !.obj = m])
        PROVE  HoldInv'
    <2> DEFINE live == ars[n]
    <2>1. /\ live \in AuthRegistrationObjects /\ LiveOK(live, births[n])
          /\ \A p \in Operators : CachedOK(live, births[n], arCache[p][n])
          /\ JobHolds(pc[o], live, births[n], job[o].obj, arCache[o][n])
      BY <1>1, <1>2, <1>4 DEF HoldInv, WorkerHolds, Reconciling, Resolved
    <2>2. live.finalizer /\ live # None /\ m # None
      BY <1>1, <1>4, <2>1, OperatorAssumption DEF JobHolds
    <2>3. /\ Earlier(m, births[n], live) /\ Earlier(m, births[n], m)
          /\ m.finalizer /\ (m.deleting => m.finalizer)
      <3>1. m.uid <= births[n] /\ live.uid <= births[n] /\ m.gen \in Nat
        BY <1>2, <1>4, <2>1, <2>2 DEF LiveOK, AuthRegistrationObjects
      <3> QED BY <1>4, <2>1, <2>2, <3>1 DEF Earlier, LiveOK
    <2>4. /\ LiveOK(m, births[n])
          /\ \A p \in Operators : CachedOK(m, births[n], arCache[p][n])
      <3> HIDE DEF n
      <3> QED BY <1>2, <1>4, <2>1, <2>3, AdvanceHolds
    <2>5. \A next \in AfterPatch : JobHolds(next, m, births[n], m, arCache[o][n])
      BY <1>1, <2>2, <2>3 DEF JobHolds, Same, AfterPatch
    <2>6. \/ pc'[o] = "idle"
          \/ /\ pc'[o] # "idle" /\ job'[o].name = n
             /\ JobHolds(pc'[o], m, births[n], job'[o].obj, arCache[o][n])
      <3>1. CASE Left(o)
        BY <1>2, <3>1 DEF Left
      <3>2. ASSUME NEW next \in AfterPatch, Goto(o, next, [job[o] EXCEPT !.obj = m])
            PROVE  /\ pc'[o] # "idle" /\ job'[o].name = n
                   /\ JobHolds(pc'[o], m, births[n], job'[o].obj, arCache[o][n])
        <4> DEFINE j == [job[o] EXCEPT !.obj = m]
        <4>1. j.name = n /\ j.obj = m
          BY <1>2 DEF Jobs
        <4>2. pc'[o] = next /\ job'[o] = j
          BY <1>2, <3>2 DEF Goto
        <4> HIDE DEF j, n
        <4> QED BY <1>1, <2>5, <4>1, <4>2
      <3> QED BY <1>4, <3>1, <3>2
    <2> HIDE DEF n, live
    <2> QED BY <1>1, <1>4, <2>4, <2>6, OneLiveHolds
  <1> QED BY <1>3, <1>4, PatchKind

LEMMA FinalizeHolds ==
  ASSUME OneOperator, OperatorInv, HoldInv, NEW o \in Operators, Finalize(o)
  PROVE  HoldInv'
  <1> DEFINE n     == job[o].name
             obj   == job[o].obj
             added == [obj EXCEPT !.finalizer = TRUE]
  <1>1. pc[o] = "finalize" /\ UNCHANGED <<births, arCache>>
    BY DEF Finalize
  <1>2. /\ pc \in [Operators -> Labels] /\ job \in [Operators -> Jobs] /\ n \in Names
        /\ obj \in AuthRegistrationObjects /\ births[n] \in Nat
        /\ arCache[o][n] \in AuthRegistrationObjects \union {None}
    BY <1>1, HoldTypes
  <1>3. CASE ars' = ars /\ Retry(o)
    <2>1. StaysOrReturns(o)
      BY <1>2, <1>3 DEF StaysOrReturns, Retry
    <2> QED BY <1>1, <1>3, <2>1, OneQuietHolds
  <1>4. CASE /\ ars[n] = obj /\ ars' = [ars EXCEPT ![n] = added]
             /\ Retry(o) \/ Goto(o, StartOfReconcile(n, added), Started(n, added))
    <2>1. /\ LiveOK(obj, births[n]) /\ CachedOK(obj, births[n], arCache[o][n])
          /\ JobHolds("finalize", obj, births[n], obj, arCache[o][n])
      BY <1>1, <1>2, <1>4 DEF HoldInv, WorkerHolds
    <2>2. /\ obj # None /\ ~obj.deleting /\ ~obj.finalizer /\ obj.uid = births[n]
          /\ arCache[o][n] # None /\ arCache[o][n].uid = obj.uid
      BY <1>2, <2>1, OperatorAssumption DEF JobHolds, LiveOK, Same
    <2> HIDE DEF obj, n
    <2>3. /\ added \in AuthRegistrationObjects
          /\ added.uid = obj.uid /\ added.gen = obj.gen /\ added.spec = obj.spec
      BY <1>2 DEF AuthRegistrationObjects
    <2>4. added.finalizer = TRUE /\ added.deleting = obj.deleting
      BY <1>2 DEF AuthRegistrationObjects
    <2>5. /\ Started(n, added).name = n /\ Started(n, added).obj = added
          /\ StartOfReconcile(n, added) \in {"invalidRef", "read"}
      BY DEF Started, NoJob, StartOfReconcile
    <2>6. added # None
      BY <2>3, OperatorAssumption
    <2> HIDE DEF added
    <2>7. LiveOK(added, births[n]) /\ Earlier(added, births[n], added)
      <3>1. added.uid <= births[n] /\ added.gen \in Nat
        BY <1>2, <2>2, <2>3 DEF AuthRegistrationObjects
      <3> QED BY <2>2, <2>3, <2>4, <3>1 DEF LiveOK, Earlier
    <2>8. CachedOK(added, births[n], arCache[o][n])
      <3> DEFINE a == arCache[o][n]
      <3>1. Earlier(obj, births[n], a) /\ (a.deleting => a.finalizer)
        BY <2>1, <2>2 DEF CachedOK
      <3> HIDE DEF a
      <3>2. Earlier(added, births[n], a)
        BY <2>2, <2>3, <2>4, <3>1 DEF Earlier, Same
      <3> QED BY <2>2, <2>3, <2>4, <2>6, <3>1, <3>2 DEF CachedOK, Same, a
    <2>9. JobHolds(StartOfReconcile(n, added), added, births[n], added, arCache[o][n])
      BY <2>4, <2>5, <2>6, <2>7 DEF JobHolds, Same
    <2>10. \/ pc'[o] = "idle"
           \/ /\ pc'[o] # "idle" /\ job'[o].name = n
              /\ JobHolds(pc'[o], added, births[n], job'[o].obj, arCache[o][n])
      BY <1>2, <1>4, <2>5, <2>9 DEF Retry, Goto
    <2> QED BY <1>1, <1>2, <1>4, <2>7, <2>8, <2>10, OneLiveHolds
  <1> QED BY <1>3, <1>4 DEF Finalize

LEMMA UnfinalizeHolds ==
  ASSUME OneOperator, OperatorInv, HoldInv, NEW o \in Operators, Unfinalize(o)
  PROVE  HoldInv'
  <1> DEFINE n   == job[o].name
             obj == job[o].obj
  <1>1. pc[o] = "unfinalize" /\ UNCHANGED <<births, arCache>>
    BY DEF Unfinalize
  <1>2. /\ pc \in [Operators -> Labels] /\ job \in [Operators -> Jobs] /\ n \in Names
        /\ obj \in AuthRegistrationObjects
    BY <1>1, HoldTypes
  <1>3. pc'[o] = "idle"
    BY <1>2 DEF Unfinalize, Done, Retry
  <1>4. CASE ars' = ars
    BY <1>1, <1>3, <1>4, OneQuietHolds DEF StaysOrReturns
  <1>5. CASE ars[n] = obj /\ ars' = [ars EXCEPT ![n] = None]
    <2>1. /\ CachedOK(obj, births[n], arCache[o][n])
          /\ JobHolds("unfinalize", obj, births[n], obj, arCache[o][n])
      BY <1>1, <1>2, <1>5 DEF HoldInv, WorkerHolds
    <2>2. LiveOK(None, births[n]) /\ CachedOK(None, births[n], arCache[o][n])
      BY <2>1 DEF LiveOK, CachedOK, JobHolds, Earlier, Same
    <2> HIDE DEF n, obj
    <2> QED BY <1>1, <1>2, <1>3, <1>5, <2>2, OneLiveHolds
  <1> QED BY <1>4, <1>5 DEF Unfinalize

LEMMA SyncAuthRegistrationHolds ==
  ASSUME OperatorInv, HoldInv, NEW o \in Operators, NEW n \in Names,
         SyncAuthRegistration(o, n)
  PROVE  HoldInv'
  <1>1. /\ UNCHANGED <<ars, births, pc, job>>
        /\ arCache' = [arCache EXCEPT ![o][n] = ars[n]]
    BY DEF SyncAuthRegistration, k8sVars
  <1>2. /\ ars \in [Names -> AuthRegistrationObjects \union {None}]
        /\ births \in [Names -> Nat]
        /\ arCache \in [Operators -> [Names -> AuthRegistrationObjects \union {None}]]
        /\ \A p \in Operators : pc[p] \in Labels
        /\ \A p \in Operators :
                pc[p] # "idle" => job[p].name \in Names /\ job[p].obj \in AuthRegistrationObjects
    BY HoldTypes
  <1>3. \A p \in Operators, m \in Names : arCache'[p][m] \in {arCache[p][m], ars[m]}
    BY <1>1, <1>2
  <1>4. /\ \A m \in Names : LiveOK(ars[m], births[m])
        /\ \A p \in Operators, m \in Names : CachedOK(ars[m], births[m], arCache[p][m])
        /\ \A p \in Operators : pc[p] # "idle" =>
                JobHolds(pc[p], ars[job[p].name], births[job[p].name], job[p].obj,
                         arCache[p][job[p].name])
    BY DEF HoldInv, WorkerHolds
  <1>5. \A p \in Operators, m \in Names : CachedOK(ars[m], births[m], arCache'[p][m])
    BY <1>2, <1>3, <1>4, SyncHolds
  <1>6. \A p \in Operators : pc[p] # "idle" =>
            JobHolds(pc[p], ars[job[p].name], births[job[p].name], job[p].obj,
                     arCache'[p][job[p].name])
    BY <1>2, <1>3, <1>4, SyncHolds
  <1> QED BY <1>1, <1>4, <1>5, <1>6 DEF HoldInv, WorkerHolds

LEMMA CrashHolds ==
  ASSUME OneOperator, OperatorInv, HoldInv, NEW o \in Operators, Crash(o)
  PROVE  HoldInv'
  <1>1. /\ UNCHANGED <<ars, births>>
        /\ \A p \in Operators : arCache'[p] = ars /\ pc'[p] = "idle"
    BY HoldTypes DEF Crash, OneOperator
  <1>2. \A n \in Names : CachedOK(ars[n], births[n], ars[n])
    BY HoldTypes, SyncHolds DEF HoldInv
  <1> QED BY <1>1, <1>2 DEF HoldInv, WorkerHolds

\* The other steps of the worker stay with their object or return.
LEMMA OtherWorkerSteps ==
  ASSUME OneOperator, OperatorInv, HoldInv, NEW o \in Operators,
         \/ ReadRegistrationData(o) \/ BackendStep(o) \/ Upserted(o) \/ ReconcileSecret(o)
         \/ CleanupObsoleteGeneratedSecret(o) \/ Deleted(o)
  PROVE  HoldInv'
  <1>1. UNCHANGED <<ars, births, arCache>>
    BY DEF ReadRegistrationData, BackendStep, Upserted, ReconcileSecret,
           CleanupObsoleteGeneratedSecret, Deleted, k8sVars, localVars
  <1> SUFFICES StaysOrReturns(o)
    BY <1>1, OneQuietHolds
  <1>2. pc \in [Operators -> Labels] /\ job \in [Operators -> Jobs]
    BY HoldTypes
  <1>3. ASSUME NEW label, Goto(o, label, job[o]), pc[o] # "idle", Stays(pc[o], label)
        PROVE  StaysOrReturns(o)
    BY <1>2, <1>3 DEF Goto, StaysOrReturns
  <1>4. ASSUME Retry(o)
        PROVE  StaysOrReturns(o)
    BY <1>2, <1>4 DEF Retry, StaysOrReturns
  <1>5. CASE ReadRegistrationData(o)
    BY <1>3, <1>5 DEF ReadRegistrationData, Stays, Reconciling, Resolved
  <1>6. CASE BackendStep(o)
    BY <1>6 DEF BackendStep, localVars, StaysOrReturns, Stays
  <1>7. CASE Upserted(o)
    <2> DEFINE j == [job[o] EXCEPT !.protocol = call[o].reg.protocol,
                                   !.result = call[o].result]
    <2>1. j.name = job[o].name /\ j.obj = job[o].obj
      BY <1>2 DEF Jobs
    <2>2. CASE Goto(o, "patchRef", j)
      <3> HIDE DEF j
      <3> QED BY <1>2, <1>7, <2>1, <2>2
              DEF Upserted, Goto, StaysOrReturns, Stays, Reconciling, Resolved
    <2>3. CASE Goto(o, "registrationFailed", job[o])
      BY <1>3, <1>7, <2>3 DEF Upserted, Stays, Reconciling, Resolved
    <2> QED BY <1>7, <2>2, <2>3 DEF Upserted
  <1>8. CASE ReconcileSecret(o)
    <2>1. Goto(o, "cleanup", job[o]) \/ Goto(o, "secretFailed", job[o])
      BY <1>8 DEF ReconcileSecret
    <2>2. pc[o] = "secret"
      BY <1>8 DEF ReconcileSecret
    <2> QED BY <1>3, <2>1, <2>2 DEF Stays, Reconciling, Resolved
  <1>9. CASE CleanupObsoleteGeneratedSecret(o)
    <2>1. pc[o] = "cleanup" /\ (Goto(o, "published", job[o]) \/ Retry(o))
      BY <1>9 DEF CleanupObsoleteGeneratedSecret
    <2> QED BY <1>3, <1>4, <2>1 DEF Stays, Reconciling, Resolved
  <1>10. CASE Deleted(o)
    BY <1>3, <1>4, <1>10 DEF Deleted, Stays
  <1> QED
    BY <1>5, <1>6, <1>7, <1>8, <1>9, <1>10

\* The invariant is kept by every step: one case per kind of step.
LEMMA HoldInvStep ==
  ASSUME OneOperator, OperatorInv, HoldInv, [Next]_vars
  PROVE  HoldInv'
  <1>1. ASSUME UNCHANGED <<ars, births, arCache, pc, job>>
        PROVE  HoldInv'
    BY <1>1, QuietHolds DEF StaysOrReturns, Stays
  <1>2. ASSUME NEW o \in Operators, WorkerStep(o)
        PROVE  HoldInv'
    <2>1. CASE Patches(o)
      <3>1. UNCHANGED <<births, arCache>>
        BY <2>1 DEF Patches, PatchInvalidSpec, PatchRegistrationFailed, PatchResolvedSecretRef,
                    PatchSecretReconcileFailed, PatchCredentialsPublished,
                    PatchRegistrationSucceeded, PatchStatus
      <3> QED BY <2>1, <3>1, PatchHolds
    <2> QED BY <1>2, <2>1, FinalizeHolds, UnfinalizeHolds, OtherWorkerSteps
            DEF WorkerStep, Patches
  <1>3. ASSUME NEW o \in Operators, OperatorStep(o)
        PROVE  HoldInv'
    <2>1. CASE \E s \in SecretNames : SyncSecret(o, s) \/ ResyncSecret(o, s)
      BY <1>1, <2>1 DEF SyncSecret, ResyncSecret, k8sVars
    <2> QED BY <1>2, <1>3, <2>1, BeginHolds, SyncAuthRegistrationHolds, CrashHolds
            DEF OperatorStep
  <1>4. CASE (\E s \in SecretNames : GarbageCollect(s)) \/ LateWriteArrives \/ UNCHANGED vars
    BY <1>1, <1>4 DEF GarbageCollect, LateWriteArrives, vars, k8sVars, localVars
  <1> QED BY <1>3, <1>4, UserHolds DEF Next

\* While a worker is in handleReconcile, the AuthRegistration it works on is
\* there and keeps the finalizer; handleDeletion works on one that is being
\* deleted or is gone, never on an object created since under the same name
\* that carries the finalizer: whatever the cache shows, whatever requests fail
\* and wherever the operator crashes.
THEOREM FinalizerHolds ==
  ASSUME OneOperator
  PROVE  Spec => []HoldInv
  BY HoldInvInit, HoldInvStep, OperatorInvInit, OperatorInvStep, PTL DEF Spec

-------------------------------------------------------------------------------
(***************************************************************************)
(* Cached Secrets                                                          *)
(***************************************************************************)

\* The cached copy of a Secret no event is outstanding for is the Secret.
SeenInv ==
    \A o \in Operators, s \in SecretNames :
        s \notin unseen[o] => secCache[o][s] = secrets[s]

\* What a step may do to Secrets and to the operators' view of them.
LEMMA SecretSteps ==
  ASSUME OperatorInv, [Next]_vars
  PROVE  \/ UNCHANGED <<secrets, unseen, secCache>>
         \/ \E s \in SecretNames : \E secret : WriteSecret(s, secret) /\ secCache' = secCache
         \/ \E o \in Operators, s \in SecretNames : SyncSecret(o, s)
         \/ \E o \in Operators : Crash(o)
  <1> DEFINE Kinds ==
        \/ UNCHANGED <<secrets, unseen, secCache>>
        \/ \E s \in SecretNames : \E secret : WriteSecret(s, secret) /\ secCache' = secCache
        \/ \E o \in Operators, s \in SecretNames : SyncSecret(o, s)
        \/ \E o \in Operators : Crash(o)
  <1> SUFFICES Kinds
    OBVIOUS
  <1>1. ASSUME NEW o \in Operators, WorkerStep(o)
        PROVE  Kinds
    <2>1. CASE Finalize(o) \/ Unfinalize(o)
      BY <2>1 DEF Finalize, Unfinalize
    <2>2. CASE Patches(o)
      BY <2>2 DEF Patches, PatchInvalidSpec, PatchRegistrationFailed, PatchResolvedSecretRef,
                  PatchSecretReconcileFailed, PatchCredentialsPublished,
                  PatchRegistrationSucceeded, PatchStatus
    <2>3. CASE ReadRegistrationData(o) \/ BackendStep(o) \/ Upserted(o) \/ Deleted(o)
      BY <2>3 DEF ReadRegistrationData, BackendStep, Upserted, Deleted, k8sVars, localVars
    <2>4. CASE ReconcileSecret(o)
      <3>1. job[o].secretName \in SecretNames
        BY <2>4 DEF ReconcileSecret, OperatorInv, WorkerOK, JobOK, Resolved
      <3> QED BY <2>4, <3>1 DEF ReconcileSecret
    <2>5. CASE CleanupObsoleteGeneratedSecret(o)
      <3>1. job[o].prev \in SecretNames \union {None}
        BY HoldTypes DEF Jobs
      <3> QED BY <2>5, <3>1 DEF CleanupObsoleteGeneratedSecret, DeleteSecret
    <2> HIDE DEF Kinds
    <2> QED BY <1>1, <2>1, <2>2, <2>3, <2>4, <2>5 DEF WorkerStep, Patches
  <1>2. ASSUME NEW o \in Operators, OperatorStep(o)
        PROVE  Kinds
    <2>1. CASE \E n \in Names : Begin(o, n) \/ SyncAuthRegistration(o, n)
      BY <2>1 DEF Begin, SyncAuthRegistration, k8sVars
    <2>2. CASE \E s \in SecretNames : SyncSecret(o, s) \/ ResyncSecret(o, s)
      BY <2>2 DEF ResyncSecret, k8sVars
    <2>3. CASE Crash(o)
      BY <2>3
    <2> HIDE DEF Kinds
    <2> QED BY <1>1, <1>2, <2>1, <2>2, <2>3 DEF OperatorStep
  <1>3. CASE UserStep
    <2>1. CASE \/ \E n \in Names :
                    \E spec \in UserSpecs[n] : UserCreates(n, spec) \/ UserEdits(n, spec)
               \/ \E n \in Deletable : UserDeletes(n)
               \/ \E f \in Fqdns : AdminSetsFqdn(f)
      BY <2>1 DEF UserCreates, UserEdits, UserDeletes, AdminSetsFqdn, k8sVars, localVars
    <2>2. CASE \E s \in SecretNames :
                    \/ \E data \in UserData, type \in UserSecretTypes :
                            UserWritesSecret(s, data, type)
                    \/ UserDeletesSecret(s)
      BY <2>2 DEF UserWritesSecret, UserDeletesSecret, localVars
    <2> HIDE DEF Kinds
    <2> QED BY <1>3, <2>1, <2>2 DEF UserStep
  <1>4. CASE (\E s \in SecretNames : GarbageCollect(s)) \/ LateWriteArrives \/ UNCHANGED vars
    BY <1>4 DEF GarbageCollect, LateWriteArrives, vars, k8sVars, localVars
  <1> HIDE DEF Kinds
  <1> QED BY <1>2, <1>3, <1>4 DEF Next

LEMMA SeenInvInit == Init => SeenInv
  BY DEF Init, SeenInv

LEMMA SeenInvStep ==
  ASSUME OperatorInv, SeenInv, [Next]_vars
  PROVE  SeenInv'
  <1>1. /\ secrets \in [SecretNames -> Secrets \union {None}]
        /\ unseen \in [Operators -> SUBSET SecretNames]
        /\ secCache \in [Operators -> [SecretNames -> Secrets \union {None}]]
    BY DEF OperatorInv, K8sTypeOK, LocalTypeOK
  <1>2. CASE UNCHANGED <<secrets, unseen, secCache>>
    BY <1>2 DEF SeenInv
  <1>3. ASSUME NEW s \in SecretNames, NEW secret, WriteSecret(s, secret), secCache' = secCache
        PROVE  SeenInv'
    BY <1>1, <1>3 DEF SeenInv, WriteSecret
  <1>4. ASSUME NEW o \in Operators, NEW s \in SecretNames, SyncSecret(o, s)
        PROVE  SeenInv'
    BY <1>1, <1>4 DEF SeenInv, SyncSecret
  <1>5. ASSUME NEW o \in Operators, Crash(o)
        PROVE  SeenInv'
    BY <1>1, <1>5 DEF SeenInv, Crash
  <1> QED BY <1>2, <1>3, <1>4, <1>5, SecretSteps

\* Who writes to a Secret: the Secret reconciler, and users its data; everybody
\* else only removes it.
LEMMA SecretWriters ==
  ASSUME OperatorInv, [Next]_vars, NEW s \in SecretNames, secrets'[s] # secrets[s],
         secrets'[s] # None
  PROVE  \/ \E o \in Operators : ReconcileSecret(o)
         \/ /\ secrets[s] # None => \E data \in UserData :
                                        secrets'[s] = [secrets[s] EXCEPT !.data = data]
            /\ secrets[s] = None => secrets'[s].owner = None
            /\ tampers' # tampers
  <1> DEFINE Users == /\ secrets[s] # None =>
                            \E data \in UserData : secrets'[s] = [secrets[s] EXCEPT !.data = data]
                      /\ secrets[s] = None => secrets'[s].owner = None
                      /\ tampers' # tampers
             Kinds == (\E o \in Operators : ReconcileSecret(o)) \/ Users
  <1> SUFFICES Kinds
    OBVIOUS
  <1>1. secrets \in [SecretNames -> Secrets \union {None}] /\ tampers \in Nat
    BY OperatorAssumption DEF OperatorInv, K8sTypeOK, LocalTypeOK
  <1>2. ASSUME NEW t \in SecretNames, WriteSecret(t, None)
        PROVE  Kinds
    BY <1>1, <1>2 DEF WriteSecret
  <1>3. CASE secrets' = secrets
    BY <1>3
  <1>4. ASSUME NEW o \in Operators, WorkerStep(o)
        PROVE  Kinds
    <2>1. CASE Finalize(o) \/ Unfinalize(o)
      BY <1>3, <2>1 DEF Finalize, Unfinalize
    <2>2. CASE Patches(o)
      BY <1>3, <2>2
         DEF Patches, PatchInvalidSpec, PatchRegistrationFailed, PatchResolvedSecretRef,
             PatchSecretReconcileFailed, PatchCredentialsPublished,
             PatchRegistrationSucceeded, PatchStatus
    <2>3. CASE ReadRegistrationData(o) \/ BackendStep(o) \/ Upserted(o) \/ Deleted(o)
      BY <1>3, <2>3 DEF ReadRegistrationData, BackendStep, Upserted, Deleted, k8sVars
    <2>4. CASE CleanupObsoleteGeneratedSecret(o)
      <3>1. job[o].prev \in SecretNames \union {None}
        BY HoldTypes DEF Jobs
      <3>2. secrets' = secrets \/ \E t \in SecretNames : WriteSecret(t, None)
        BY <2>4, <3>1 DEF CleanupObsoleteGeneratedSecret, DeleteSecret
      <3> QED BY <1>2, <1>3, <3>2
    <2> QED BY <1>4, <2>1, <2>2, <2>3, <2>4 DEF WorkerStep, Patches
  <1>5. ASSUME NEW o \in Operators, OperatorStep(o)
        PROVE  Kinds
    <2>1. CASE \E n \in Names : Begin(o, n) \/ SyncAuthRegistration(o, n)
      BY <1>3, <2>1 DEF Begin, SyncAuthRegistration, k8sVars
    <2>2. CASE \E t \in SecretNames : SyncSecret(o, t) \/ ResyncSecret(o, t)
      BY <1>3, <2>2 DEF SyncSecret, ResyncSecret, k8sVars
    <2>3. CASE Crash(o)
      BY <1>3, <2>3 DEF Crash
    <2> HIDE DEF Kinds
    <2> QED BY <1>4, <1>5, <2>1, <2>2, <2>3 DEF OperatorStep
  <1>6. CASE UserStep
    <2>1. CASE \/ \E n \in Names :
                    \E spec \in UserSpecs[n] : UserCreates(n, spec) \/ UserEdits(n, spec)
               \/ \E n \in Deletable : UserDeletes(n)
               \/ \E f \in Fqdns : AdminSetsFqdn(f)
      BY <1>3, <2>1 DEF UserCreates, UserEdits, UserDeletes, AdminSetsFqdn, k8sVars
    <2>2. ASSUME NEW t \in SecretNames, NEW data \in UserData, NEW type \in UserSecretTypes,
                 UserWritesSecret(t, data, type)
          PROVE  Kinds
      <3> DEFINE written == IF secrets[t] = None
                            THEN [type |-> type, label |-> None, owner |-> None, data |-> data]
                            ELSE [secrets[t] EXCEPT !.data = data]
      <3>1. secrets' = [secrets EXCEPT ![t] = written] /\ tampers' # tampers
        BY <1>1, <2>2 DEF UserWritesSecret, WriteSecret, Tamper
      <3>2. s = t
        BY <1>1, <3>1
      <3>3. secrets'[s] = written
        BY <1>1, <3>1, <3>2
      <3>4. Users
        BY <3>1, <3>2, <3>3
      <3> QED BY <3>4
    <2>3. CASE \E t \in SecretNames : UserDeletesSecret(t)
      BY <1>2, <2>3 DEF UserDeletesSecret
    <2> HIDE DEF Kinds
    <2> QED BY <1>6, <2>1, <2>2, <2>3 DEF UserStep
  <1>7. CASE (\E t \in SecretNames : GarbageCollect(t)) \/ LateWriteArrives \/ UNCHANGED vars
    <2>1. CASE \E t \in SecretNames : GarbageCollect(t)
      BY <1>2, <2>1 DEF GarbageCollect
    <2>2. CASE LateWriteArrives \/ UNCHANGED vars
      BY <1>3, <2>2 DEF LateWriteArrives, vars, k8sVars
    <2> QED BY <1>7, <2>1, <2>2
  <1> HIDE DEF Kinds
  <1> QED BY <1>5, <1>6, <1>7 DEF Next

\* What the Secret reconciler writes: a new Secret where there is none, or the
\* Secret it has read with its own keys merged in.
LEMMA ReconcileWrites ==
  ASSUME OperatorInv, SeenInv, NEW o \in Operators, ReconcileSecret(o),
         NEW s \in SecretNames, secrets'[s] # secrets[s]
  PROVE  /\ pc[o] = "secret" /\ s = job[o].secretName
         /\ secrets[s] = None => secrets'[s] = NewSecret(job[o])
         /\ secrets[s] # None =>
                /\ secrets'[s] = MergedSecret(job[o], secrets[s])
                /\ ~AlreadyOwned(job[o], secrets[s])
  <1> DEFINE j        == job[o]
             t        == j.secretName
             current  == secCache[o][t]
             desired  == IF current = None THEN NewSecret(j) ELSE MergedSecret(j, current)
             accepted == IF current = None THEN secrets[t] = None
                         ELSE t \notin unseen[o] /\ current.type = "Opaque"
  <1>1. /\ secrets \in [SecretNames -> Secrets \union {None}]
        /\ pc[o] = "secret" /\ t \in SecretNames
    BY DEF ReconcileSecret, OperatorInv, K8sTypeOK, WorkerOK, JobOK, Resolved
  <1>2. /\ secrets' = [secrets EXCEPT ![t] = desired]
        /\ accepted /\ ~AlreadyOwned(j, current)
    BY DEF ReconcileSecret, WriteSecret
  <1>3. s = t
    BY <1>1, <1>2
  <1>4. current = secrets[s]
    BY <1>1, <1>2, <1>3 DEF SeenInv
  <1>5. secrets'[s] = desired
    BY <1>1, <1>2, <1>3
  <1> QED BY <1>1, <1>2, <1>3, <1>4, <1>5

\* While an AuthRegistration exists, no other one takes over the Secret it
\* controls: SetControllerReference compares names only, on a cached Secret, but
\* the Update is refused for a stale copy, and the finalizer keeps the object
\* being reconciled, with its uid, in the API server.
THEOREM ControlKept ==
  ASSUME OneOperator
  PROVE  Spec => ControlNotStolen
  <1> DEFINE Kept == \A s \in SecretNames :
                        LET owner == secrets[s].owner
                        IN  (/\ secrets[s] # None
                             /\ owner # None
                             /\ ars[owner.name] # None
                             /\ ars[owner.name].uid = owner.uid
                             /\ secrets'[s] # None)
                            => secrets'[s].owner = owner
  <1>1. ASSUME OperatorInv, HoldInv, SeenInv, [Next]_vars
        PROVE  Kept
    <2> SUFFICES ASSUME NEW s \in SecretNames, secrets[s] # None, secrets[s].owner # None,
                        ars[secrets[s].owner.name] # None,
                        ars[secrets[s].owner.name].uid = secrets[s].owner.uid,
                        secrets'[s] # None, secrets'[s] # secrets[s]
                 PROVE  secrets'[s].owner = secrets[s].owner
      OBVIOUS
    <2> DEFINE old == secrets[s]
    <2>1. old \in Secrets /\ old.owner \in Owners
      BY <1>1 DEF OperatorInv, K8sTypeOK, Secrets
    <2>2. CASE \E data \in UserData : secrets'[s] = [old EXCEPT !.data = data]
      BY <2>1, <2>2 DEF Secrets
    <2>3. ASSUME NEW o \in Operators, ReconcileSecret(o)
          PROVE  secrets'[s].owner = old.owner
      <3>1. /\ pc[o] = "secret" /\ secrets'[s] = MergedSecret(job[o], old)
            /\ ~AlreadyOwned(job[o], old)
        BY <1>1, <2>3, ReconcileWrites
      <3>2. Same(ars[job[o].name], job[o].obj)
        BY <1>1, <3>1 DEF HoldInv, WorkerHolds, JobHolds, Reconciling, Resolved
      <3>3. CASE ~job[o].managed
        BY <3>1, <3>3 DEF MergedSecret
      <3>4. CASE job[o].managed
        <4>1. secrets'[s].owner = [name |-> job[o].name, uid |-> job[o].obj.uid]
          BY <3>1, <3>4 DEF MergedSecret, OwnerReference
        <4>2. old.owner.name = job[o].name
          BY <3>1, <3>4 DEF AlreadyOwned
        <4>3. old.owner.uid = job[o].obj.uid
          BY <3>2, <4>2 DEF Same
        <4>4. old.owner = [name |-> old.owner.name, uid |-> old.owner.uid]
          BY <2>1 DEF Owners
        <4> QED BY <4>1, <4>2, <4>3, <4>4
      <3> QED BY <3>3, <3>4
    <2> QED BY <1>1, <2>2, <2>3, SecretWriters
  <1>2. Spec => [](OperatorInv /\ HoldInv /\ SeenInv)
    BY FinalizerHolds, OperatorInvInit, OperatorInvStep, SeenInvInit, SeenInvStep, PTL DEF Spec
  <1>3. OperatorInv /\ HoldInv /\ SeenInv /\ [Next]_vars => [Kept]_vars
    BY <1>1
  <1>4. Spec => [][Kept]_vars
    BY <1>2, <1>3, PTL DEF Spec
  <1> QED BY <1>4 DEF ControlNotStolen

================================================================================
