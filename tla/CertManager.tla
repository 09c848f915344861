----------------------------- MODULE CertManager -----------------------------
(***************************************************************************)
(* The certificate manager and those who depend on it.  Every three hours  *)
(* the manager checks the secret with the CA and the server certificate,   *)
(* renews what is about to expire and injects the CA bundle into the       *)
(* webhook configurations and the CRDs.  The operators copy the server     *)
(* certificate from the secret when they start and every six hours.  The   *)
(* API server can call an operator's webhook if the certificate it serves  *)
(* is valid and issued by a CA in the bundle.                              *)
(*                                                                         *)
(* Time is counted in units of the manager's interval.  Retries, which     *)
(* come within minutes, happen at the same time as what they retry.        *)
(***************************************************************************)
EXTENDS Integers, FiniteSets

CONSTANTS
    Webhooks,        \* the webhook configurations
    CRDs,            \* the CRDs with a conversion webhook
    Servers,         \* the operators that serve webhooks
    RootLife,        \* how long a CA certificate is valid
    ServerLife,      \* how long a server certificate is valid
    Threshold,       \* renewalThreshold
    WatchInterval,   \* certificateRenewalInterval of the operators' watcher
    MaxTime,         \* bound: the time
    MaxFailures,     \* bound: failed calls
    MaxDisturbances  \* bound: secrets deleted and bundles reset by others

\* The resources that the manager lists by their label.
Configs == Webhooks \cup CRDs

ASSUME CertAssumption ==
    /\ {RootLife, ServerLife, Threshold, WatchInterval} \subseteq Nat \ {0}
    /\ Threshold < ServerLife /\ ServerLife <= RootLife
    /\ WatchInterval < Threshold /\ Threshold + WatchInterval <= RootLife
    /\ MaxTime \in Nat /\ MaxFailures \in Nat /\ MaxDisturbances \in Nat

VARIABLES
    now,           \* the time
    secret,        \* the secret keptn-certs
    copy,          \* the manager's informer's copy of it
    bundle,        \* the CA certificates in the bundle of each configuration
    round,         \* the reconciliation in progress
    due,           \* when the next one is due
    serving,       \* the certificate each operator serves
    poll,          \* when it will look at the secret again
    lastRoot,      \* the number of the latest CA certificate
    missed,        \* history: why an operator's last read of the secret failed
    disturbed,     \* history: the secret was deleted or a bundle reset
    outage,        \* for how long, since the last disturbance, the API server could
                   \* not call each operator's webhooks
    failures, disturbances

certVars == <<now, secret, copy, bundle, round, due, serving, poll, lastRoot, missed,
          disturbed, outage, failures, disturbances>>

-----------------------------------------------------------------------------
NoRoot == [id |-> 0, exp |-> -1]
NoCert == [root |-> NoRoot, exp |-> -1]

\* The secret, with the CA, the one before it and the server certificate.
NoSecret == [there |-> FALSE, root |-> NoRoot, old |-> NoRoot, server |-> NoCert]

Idle == [pc |-> "idle", base |-> NoSecret, data |-> NoSecret, todo |-> {}, changed |-> {},
         fail |-> FALSE]

\* What goes wrong goes wrong early enough to see how it ends before MaxTime.
Early == now + 2 * WatchInterval <= MaxTime

Failure == Early /\ failures < MaxFailures /\ failures' = failures + 1

\* Mutant: a certificate is renewed when it has expired.
Expired(exp) == now > exp

\* A certificate is renewed this long before it expires.
AboutToExpire(exp) == now > exp - Threshold

\* Mutant: the CA certificate that is replaced is forgotten.
ValidateForgetting(s) ==
    LET renewRoot == AboutToExpire(s.root.exp)
        root      == IF renewRoot THEN [id |-> lastRoot + 1, exp |-> now + RootLife] ELSE s.root
    IN  [there |-> TRUE,
         root |-> root,
         old |-> NoRoot,
         server |-> IF renewRoot \/ AboutToExpire(s.server.exp)
                    THEN [root |-> root, exp |-> now + ServerLife]
                    ELSE s.server]

\* Certs.Validate: renews the CA, keeping the certificate it replaces, and then
\* or when it has to, the server certificate.
Validate(s) ==
    LET renewRoot == AboutToExpire(s.root.exp)
        root      == IF renewRoot THEN [id |-> lastRoot + 1, exp |-> now + RootLife] ELSE s.root
    IN  [there |-> TRUE,
         root |-> root,
         old |-> IF renewRoot THEN s.root ELSE s.old,
         server |-> IF renewRoot \/ AboutToExpire(s.server.exp)
                    THEN [root |-> root, exp |-> now + ServerLife]
                    ELSE s.server]

\* loadCombinedBundle
CombinedBundle(s) == {s.root, s.old} \ {NoRoot}

\* isBundleValid: the bundle is the CA certificate alone.
IsBundleValid(c, s) == bundle[c] = {s.root}

\* The API server trusts the certificate of o when it uses configuration c.
Trusted(o, c) == serving[o].root \in bundle[c]

\* An outage of an operator that has started ends when every configuration trusts
\* it again.
Callable(o) == serving[o] = NoCert \/ missed[o] = "fault" \/ \A c \in Configs : Trusted(o, c)
CountOutage(ticks) ==
    outage' = [o \in Servers |-> IF Callable(o)' THEN 0 ELSE outage[o] + ticks]

-----------------------------------------------------------------------------
(***************************************************************************)
(* The manager's reconciliation.                                           *)
(***************************************************************************)
Begin == round = Idle /\ due <= now

\* Reading the secret fails, or listing the configurations: the list is then nil and
\* the reconciliation panics on it, which the controller turns into an error.  Either
\* way the reconciliation is retried.
ListFails ==
    /\ Begin
    /\ Failure
    /\ UNCHANGED <<now, secret, copy, bundle, round, due, serving, poll, lastRoot, missed,
                   disturbed, outage, disturbances>>

\* Mutant: the bundles are not looked at.
UpToDateSecret == Validate(copy) = copy

\* Everything is recent and valid ...
UpToDate == Validate(copy) = copy /\ \A c \in Configs : IsBundleValid(c, copy)

\* ... so there is nothing to do.
SkipUpdate ==
    /\ Begin
    /\ UpToDate
    /\ due' = now + 1
    /\ UNCHANGED <<now, secret, copy, bundle, round, serving, poll, lastRoot, missed,
                   disturbed, outage, failures, disturbances>>

StartUpdate ==
    /\ Begin
    /\ ~UpToDate
    /\ round' = [pc |-> "secret", base |-> copy, data |-> Validate(copy), todo |-> Configs,
               changed |-> {}, fail |-> FALSE]
    /\ UNCHANGED <<now, secret, copy, bundle, due, serving, poll, lastRoot, missed,
                   disturbed, outage, failures, disturbances>>

\* createOrUpdateIfNecessary: the call is refused if the secret is not the one
\* that was read, and the reconciliation is retried.
WriteSecret ==
    LET write == secret' = round.data /\ lastRoot' = round.data.root.id
    IN  /\ round.pc = "secret"
        /\ \/ /\ round.data = round.base
              /\ round' = [round EXCEPT !.pc = "inject"]
              /\ UNCHANGED <<secret, lastRoot, failures>>
           \/ /\ round.data # round.base
              /\ \/ /\ round.base = secret
                    /\ write
                    /\ round' = [round EXCEPT !.pc = "inject"]
                    /\ UNCHANGED failures
                 \/ /\ round.base # secret
                    /\ round' = Idle
                    /\ UNCHANGED <<secret, lastRoot, failures>>
                 \/ /\ Failure
                    /\ round' = Idle
                    /\ (round.base = secret /\ write) \/ UNCHANGED <<secret, lastRoot>>
        /\ UNCHANGED <<now, copy, bundle, due, serving, poll, missed, disturbed, outage,
                       disturbances>>

\* The webhook configurations come first.
NextConfigs == IF round.todo \cap Webhooks # {} THEN round.todo \cap Webhooks ELSE round.todo

Inject(c) ==
    /\ round.pc = "inject"
    /\ c \in NextConfigs \ round.changed
    /\ bundle' = [bundle EXCEPT ![c] = CombinedBundle(round.data)]
    /\ round' = [round EXCEPT !.todo = @ \ {c}]
    /\ UNCHANGED <<now, secret, copy, due, serving, poll, lastRoot, missed, disturbed,
                   failures, disturbances>>
    /\ CountOutage(0)

\* The update of a webhook configuration that fails, also because it has changed
\* since it was listed, ends the reconciliation, that of a CRD lets it go on to
\* the others.
InjectFails(c) ==
    /\ round.pc = "inject"
    /\ c \in NextConfigs
    /\ Failure \/ (c \in round.changed /\ UNCHANGED failures)
    /\ round' = IF c \in Webhooks THEN Idle ELSE [round EXCEPT !.todo = @ \ {c}, !.fail = TRUE]
    /\ UNCHANGED <<now, secret, copy, bundle, due, serving, poll, lastRoot, missed,
                   disturbed, outage, disturbances>>

\* Done for SuccessDuration, unless a CRD could not be updated.
EndUpdate ==
    /\ round.pc = "inject"
    /\ round.todo = {}
    /\ round' = Idle
    /\ due' = IF round.fail THEN due ELSE now + 1
    /\ UNCHANGED <<now, secret, copy, bundle, serving, poll, lastRoot, missed, disturbed,
                   outage, failures, disturbances>>

SyncSecret ==
    /\ copy # secret
    /\ copy' = secret
    /\ UNCHANGED <<now, secret, bundle, round, due, serving, poll, lastRoot, missed,
                   disturbed, outage, failures, disturbances>>

\* The manager is restarted, and reconciles at once.
RestartManager ==
    /\ Failure
    /\ round' = Idle
    /\ due' = now
    /\ copy' = secret
    /\ UNCHANGED <<now, secret, bundle, serving, poll, lastRoot, missed, disturbed, outage,
                   disturbances>>

-----------------------------------------------------------------------------
(***************************************************************************)
(* The operators' certificate watcher.                                     *)
(***************************************************************************)
\* WaitForCertificates, watchForCertificatesSecret: the files are written.
UpdateCertificates(o) ==
    /\ poll[o] <= now
    /\ secret.there
    /\ serving' = [serving EXCEPT ![o] = secret.server]
    /\ poll' = [poll EXCEPT ![o] = now + WatchInterval]
    /\ missed' = [missed EXCEPT ![o] = "no"]
    /\ UNCHANGED <<now, secret, copy, bundle, round, due, lastRoot, disturbed, failures,
                   disturbances>>
    /\ CountOutage(0)

\* Mutant: an operator that could not read the secret does not try again.
MissForGood(o) ==
    /\ poll[o] <= now
    /\ poll' = [poll EXCEPT ![o] = MaxTime + 1]
    /\ \/ ~secret.there /\ missed' = [missed EXCEPT ![o] = "absent"] /\ UNCHANGED failures
       \/ Failure /\ missed' = [missed EXCEPT ![o] = "fault"]
    /\ UNCHANGED <<now, secret, copy, bundle, round, due, serving, lastRoot, disturbed,
                   disturbances>>
    /\ CountOutage(0)

\* The secret is not there or cannot be read: the next try is an interval later.
MissCertificates(o) ==
    /\ poll[o] <= now
    /\ poll' = [poll EXCEPT ![o] = now + WatchInterval]
    /\ \/ ~secret.there /\ missed' = [missed EXCEPT ![o] = "absent"] /\ UNCHANGED failures
       \/ Failure /\ missed' = [missed EXCEPT ![o] = "fault"]
    /\ UNCHANGED <<now, secret, copy, bundle, round, due, serving, lastRoot, disturbed,
                   disturbances>>
    /\ CountOutage(0)

-----------------------------------------------------------------------------
(***************************************************************************)
(* Others, and time.                                                       *)
(***************************************************************************)
Disturb ==
    /\ Early
    /\ disturbances < MaxDisturbances
    /\ disturbances' = disturbances + 1
    /\ disturbed' = TRUE
    /\ outage' = [o \in Servers |-> 0]

DeleteSecret ==
    /\ secret.there
    /\ Disturb
    /\ secret' = NoSecret
    /\ UNCHANGED <<now, copy, bundle, round, due, serving, poll, lastRoot, missed, failures>>

\* A configuration is applied anew, without a bundle.
ResetBundle(c) ==
    /\ bundle[c] # {}
    /\ Disturb
    /\ bundle' = [bundle EXCEPT ![c] = {}]
    /\ round' = IF round # Idle /\ c \in Webhooks
                THEN [round EXCEPT !.changed = @ \cup {c}]
                ELSE round
    /\ UNCHANGED <<now, secret, copy, due, serving, poll, lastRoot, missed, failures>>

\* Three hours pass when nothing is due and the informer has caught up.
TimePasses ==
    /\ now < MaxTime
    /\ copy = secret
    /\ round = Idle
    /\ due > now
    /\ \A o \in Servers : poll[o] > now
    /\ now' = now + 1
    /\ UNCHANGED <<secret, copy, bundle, round, due, serving, poll, lastRoot, missed,
                   disturbed, failures, disturbances>>
    /\ CountOutage(1)

-----------------------------------------------------------------------------
InitCerts ==
    /\ now = 0
    /\ secret = NoSecret
    /\ copy = NoSecret
    /\ bundle = [c \in Configs |-> {}]
    /\ round = Idle
    /\ due = 0
    /\ serving = [o \in Servers |-> NoCert]
    /\ poll = [o \in Servers |-> 0]
    /\ lastRoot = 0
    /\ missed = [o \in Servers |-> "no"]
    /\ disturbed = FALSE
    /\ outage = [o \in Servers |-> 0]
    /\ failures = 0
    /\ disturbances = 0

Manager ==
    \/ ListFails \/ SkipUpdate \/ StartUpdate \/ WriteSecret \/ EndUpdate
    \/ \E c \in Configs : Inject(c) \/ InjectFails(c)

NextCerts ==
    \/ Manager \/ SyncSecret \/ RestartManager
    \/ \E o \in Servers : UpdateCertificates(o) \/ MissCertificates(o)
    \/ DeleteSecret \/ (\E c \in Configs : ResetBundle(c))
    \/ TimePasses

CertSpec == InitCerts /\ [][NextCerts]_certVars

\* The manager runs, its informer delivers and the operators look at the secret.
FairCertSpec ==
    /\ CertSpec
    /\ WF_certVars(Manager) /\ WF_certVars(SyncSecret) /\ WF_certVars(TimePasses)
    /\ \A o \in Servers : WF_certVars(UpdateCertificates(o) \/ MissCertificates(o))

-----------------------------------------------------------------------------
\* What an operator serves has not expired, nor has the CA that issued it, unless
\* the operator could not read the secret when it wanted to: the manager renews
\* early enough for the watcher to notice (renewalThreshold, SuccessDuration,
\* certificateRenewalInterval).
ServedIsValid ==
    \A o \in Servers :
        serving[o] # NoCert /\ missed[o] = "no" =>
            now <= serving[o].exp /\ now <= serving[o].root.exp

\* Once the manager is done for now, every operator's certificate is trusted by
\* every configuration, also while some still serve the one from before the CA was
\* renewed, if nobody has deleted the secret or reset a bundle
\* and the operator could read the secret (loadCombinedBundle, updateConfigurations).
TrustedWhenDone ==
    ~disturbed /\ round = Idle /\ due > now =>
        \A o \in Servers, c \in Configs :
            serving[o] # NoCert /\ missed[o] # "fault" => Trusted(o, c)

\* However often secrets are deleted and bundles reset, webhooks cannot be called
\* for no longer than it takes the manager to reconcile and the operator to look at
\* the secret, counted from the last disturbance, unless the operator could not read
\* the secret (SuccessDuration, certificateRenewalInterval).
OutageBounded ==
    \A o \in Servers : missed[o] # "fault" => outage[o] <= 1 + WatchInterval

\* Whatever failed, was deleted or reset, in the end every operator serves a
\* certificate that every configuration trusts (Reconcile, WaitForCertificates,
\* watchForCertificatesSecret).
CallableInTheEnd == <>[](\A o \in Servers, c \in Configs : Trusted(o, c))
=============================================================================
