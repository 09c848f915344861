-------------------------- MODULE CertManagerProofs --------------------------
(***************************************************************************)
(* Proofs about CertManager, for any operators and configurations, any     *)
(* lifetimes and intervals that fit together, and every bound.  Manager    *)
(* and operators never speak to each other; they meet because of the       *)
(* clock.  The manager has looked at the secret in every interval, so that *)
(* an operator that looks finds a certificate which outlives the wait for  *)
(* its next look, and it has told all configurations of the CA before the  *)
(* interval is over.                                                       *)
(***************************************************************************)
EXTENDS CertManager, TLAPS

Roots   == [id : Nat, exp : Int]
Certs   == [root : Roots, exp : Int]
Secrets == [there : BOOLEAN, root : Roots, old : Roots, server : Certs]
Recs    == [pc : {"idle", "secret", "inject"}, base : Secrets, data : Secrets,
            todo : SUBSET Configs, changed : SUBSET Configs, fail : BOOLEAN]

Types ==
    /\ now \in Nat /\ due \in Nat /\ lastRoot \in Nat
    /\ secret \in Secrets /\ copy \in Secrets
    /\ bundle \in [Configs -> SUBSET Roots]
    /\ round \in Recs /\ (round.pc = "idle" => round = Idle)
    /\ serving \in [Servers -> Certs]
    /\ poll \in [Servers -> Nat]
    /\ missed \in [Servers -> {"no", "absent", "fault"}]
    /\ outage \in [Servers -> Nat]
    /\ disturbed \in BOOLEAN

\* Nothing in the secret is about to expire.
Recent(s) == s.there /\ now + Threshold <= s.root.exp /\ now + Threshold <= s.server.exp

\* The secret was deleted or a bundle reset in this interval.
Upset == disturbed /\ \A o \in Servers : outage[o] = 0

\* A copy of the secret has its two CAs, or those of before the present one.
Known(s) ==
    /\ s.root.id <= lastRoot /\ s.old.id <= lastRoot
    /\ secret.there => \/ s.root = secret.root /\ s.old = secret.old
                       \/ secret.root \notin {s.root, s.old}

\* The secret is recent when the manager is done, so nearly so an interval later.
SecretOK ==
    /\ secret.there \/ secret = NoSecret
    /\ secret.there =>
        /\ secret.server.root = secret.root
        /\ secret.root.id = lastRoot /\ lastRoot # 0 /\ secret.old.id <= lastRoot
        /\ now + Threshold <= secret.root.exp + 1
        /\ now + Threshold <= secret.server.exp + 1
        /\ secret # copy => Recent(secret)
        /\ due > now => Recent(secret)
    /\ Known(copy)
    /\ copy # secret => Upset \/ ~Recent(copy)

ClockOK ==
    /\ due <= now + 1
    /\ \A o \in Servers : now <= poll[o] /\ poll[o] <= now + WatchInterval

\* What is injected is the secret, or nothing that lasts.
RecOK ==
    /\ round.pc # "idle" =>
        /\ due <= now
        /\ round.base # secret => ~secret.there \/ Recent(secret)
        /\ round.base # secret => Upset \/ ~Recent(round.base)
        /\ Known(round.base)
    /\ round.pc = "secret" => round.data = Validate(round.base) /\ round.todo = Configs /\ ~round.fail
    /\ round.pc = "inject" =>
        /\ Recent(round.data)
        /\ Known(round.data)
        /\ ~secret.there \/ Recent(secret)
        /\ Upset \/ round.data = secret
        /\ round.fail \/ Upset \/ \A c \in Configs \ round.todo : secret.root \in bundle[c]

\* Whoever trusts the CA trusts the one before.
BundleOK ==
    \A c \in Configs :
        /\ \A x \in bundle[c] : x.id <= lastRoot
        /\ secret.there /\ secret.root \in bundle[c] => secret.old \in bundle[c] \cup {NoRoot}

\* The certificate of an operator is of this CA, or of the one before, and then
\* the operator will look before that one is forgotten.
Good(o) ==
    /\ secret.there
    /\ serving[o].root # NoRoot
    /\ \/ serving[o].root = secret.root
       \/ /\ serving[o].root = secret.old
          /\ poll[o] + RootLife <= secret.root.exp + WatchInterval

ServedOK(o) ==
    /\ outage[o] <= 1 + WatchInterval
    /\ missed[o] = "no" /\ serving[o] # NoCert =>
            poll[o] <= serving[o].exp /\ poll[o] <= serving[o].root.exp
    /\ missed[o] # "fault" /\ serving[o] # NoCert =>
            Good(o) \/ (disturbed /\ poll[o] + outage[o] <= (now + 1) + WatchInterval)
    /\ ~secret.there => outage[o] <= 1 /\ (serving[o] = NoCert \/ disturbed)

DoneOK ==
    due > now /\ round.pc = "idle" =>
        Upset \/ (secret.there /\ \A c \in Configs : secret.root \in bundle[c])

CertInv ==
    /\ Types /\ SecretOK /\ ClockOK /\ RecOK /\ BundleOK /\ DoneOK
    /\ \A o \in Servers : ServedOK(o)

-----------------------------------------------------------------------------
(***************************************************************************)
(* What the operators of the model compute.                                *)
(***************************************************************************)
LEMMA TimeFacts ==
    /\ RootLife \in Nat /\ ServerLife \in Nat /\ Threshold \in Nat /\ WatchInterval \in Nat
    /\ 1 <= WatchInterval /\ WatchInterval + 1 <= Threshold
    /\ Threshold + 1 <= ServerLife /\ Threshold + 1 <= RootLife
    /\ Threshold + WatchInterval <= RootLife
  BY CertAssumption

LEMMA NoSecretType ==
    /\ NoRoot \in Roots /\ NoRoot.id = 0 /\ NoRoot.exp = -1
    /\ NoCert \in Certs /\ NoCert.root = NoRoot
    /\ NoSecret \in Secrets /\ ~NoSecret.there
    /\ NoSecret.root = NoRoot /\ NoSecret.old = NoRoot
    /\ Idle \in Recs /\ Idle.pc = "idle"
  BY DEF NoRoot, NoCert, NoSecret, Idle, Roots, Certs, Secrets, Recs

LEMMA Expiry ==
    ASSUME now \in Nat, NEW exp \in Int
    PROVE  AboutToExpire(exp) <=> ~(now + Threshold <= exp)
  BY TimeFacts DEF AboutToExpire

\* Certs.Validate leaves alone what is recent, and makes recent what is not.
LEMMA ValidateFacts ==
    ASSUME Types, NEW s \in Secrets
    PROVE  /\ Validate(s) \in Secrets
           /\ Recent(Validate(s))
           /\ Validate(s) = s <=> Recent(s)
           /\ \/ /\ Validate(s).root = s.root /\ Validate(s).old = s.old
                 /\ now + Threshold <= s.root.exp
                 /\ s.server.root = s.root => Validate(s).server.root = s.root
              \/ /\ Validate(s).root = [id |-> lastRoot + 1, exp |-> now + RootLife]
                 /\ Validate(s).old = s.root
                 /\ Validate(s).server.root = Validate(s).root
                 /\ ~(now + Threshold <= s.root.exp)
  <1> DEFINE v == Validate(s)
             newRoot == [id |-> lastRoot + 1, exp |-> now + RootLife]
  <1>1. /\ now \in Nat /\ lastRoot \in Nat
        /\ s.there \in BOOLEAN /\ s.root \in Roots /\ s.old \in Roots /\ s.server \in Certs
        /\ s.root.exp \in Int /\ s.server.exp \in Int /\ s.server.root \in Roots
    BY DEF Types, Secrets, Certs, Roots
  <1>2. /\ newRoot \in Roots /\ newRoot.exp = now + RootLife
        /\ now + Threshold <= now + RootLife /\ now + Threshold <= now + ServerLife
        /\ now + ServerLife \in Int
    BY <1>1, TimeFacts DEF Roots
  <1>3. CASE ~AboutToExpire(s.root.exp)
    <2>1. now + Threshold <= s.root.exp
      BY <1>1, <1>3, Expiry
    <2>2. v.there = TRUE /\ v.root = s.root /\ v.old = s.old
      BY <1>3 DEF Validate
    <2>3. CASE ~AboutToExpire(s.server.exp)
      <3>1. v = [there |-> TRUE, root |-> s.root, old |-> s.old, server |-> s.server]
        BY <1>3, <2>3 DEF Validate
      <3>2. now + Threshold <= s.server.exp
        BY <1>1, <2>3, Expiry
      <3>3. s = [there |-> s.there, root |-> s.root, old |-> s.old, server |-> s.server]
        BY DEF Secrets
      <3> QED
        BY <1>1, <2>1, <3>1, <3>2, <3>3 DEF Secrets, Recent
    <2>4. CASE AboutToExpire(s.server.exp)
      <3>1. v = [there |-> TRUE, root |-> s.root, old |-> s.old,
                 server |-> [root |-> s.root, exp |-> now + ServerLife]]
        BY <1>3, <2>4 DEF Validate
      <3>2. ~(now + Threshold <= s.server.exp)
        BY <1>1, <2>4, Expiry
      <3>3. v.server.exp = now + ServerLife /\ v.server.root = s.root
        BY <3>1
      <3>4. v \in Secrets
        BY <1>1, <1>2, <3>1 DEF Secrets, Certs
      <3>5. Recent(v) /\ ~Recent(s)
        BY <1>2, <2>1, <2>2, <3>2, <3>3 DEF Recent
      <3> QED
        BY <2>1, <2>2, <3>3, <3>4, <3>5
    <2> QED
      BY <2>3, <2>4
  <1>4. CASE AboutToExpire(s.root.exp)
    <2>1. ~(now + Threshold <= s.root.exp)
      BY <1>1, <1>4, Expiry
    <2>2. v = [there |-> TRUE, root |-> newRoot, old |-> s.root,
               server |-> [root |-> newRoot, exp |-> now + ServerLife]]
      BY <1>4 DEF Validate
    <2>3. v \in Secrets
      BY <1>1, <1>2, <2>2 DEF Secrets, Certs
    <2>4. v.server.exp = now + ServerLife /\ v.root = newRoot
      BY <2>2
    <2>5. Recent(v) /\ ~Recent(s)
      <3>1. v.there /\ v.root.exp = now + RootLife
        BY <1>2, <2>2
      <3> QED
        BY <1>2, <2>1, <2>4, <3>1 DEF Recent
    <2>6. v.root = newRoot /\ v.old = s.root /\ v.server.root = v.root
      BY <2>2
    <2> QED
      BY <2>1, <2>3, <2>5, <2>6
  <1> QED
    BY <1>3, <1>4

\* When time does not pass, outages only end.
LEMMA OutagesEnd ==
    ASSUME Types, CountOutage(0)
    PROVE  /\ outage' \in [Servers -> Nat]
           /\ \A o \in Servers : outage'[o] = 0 \/ outage'[o] = outage[o]
           /\ \A o \in Servers : outage'[o] = 0 \/ ~Callable(o)'
  <1>1. \A n \in Nat : n + 0 = n
    OBVIOUS
  <1>2. outage' = [o \in Servers |-> IF Callable(o)' THEN 0 ELSE outage[o] + 0]
    BY DEF CountOutage
  <1>3. \A o \in Servers : outage[o] \in Nat /\ outage[o] + 0 = outage[o]
    BY <1>1 DEF Types
  <1>4. \A o \in Servers : outage'[o] = IF Callable(o)' THEN 0 ELSE outage[o]
    BY <1>2, <1>3
  <1>5. outage' = [o \in Servers |-> outage'[o]]
    BY <1>2
  <1>6. \A o \in Servers : outage'[o] \in Nat
    BY <1>3, <1>4
  <1> QED
    BY <1>4, <1>5, <1>6

-----------------------------------------------------------------------------
(***************************************************************************)
(* Steps that leave secret, bundles and operators alone.                   *)
(***************************************************************************)
world == <<now, secret, bundle, serving, poll, lastRoot, missed, disturbed, outage>>

LEMMA Quiet ==
    ASSUME CertInv, UNCHANGED world, copy' \in {copy, secret},
           due' \in Nat, due' <= now + 1, secret.there /\ due' > now => Recent(secret),
           round' \in Recs, round'.pc = "idle" => round' = Idle, RecOK', DoneOK'
    PROVE  CertInv'
  <1>1. Types'
    BY DEF CertInv, Types, world
  <1>2. Known(secret)
    <2>1. secret.there \/ secret = NoSecret
      BY DEF CertInv, SecretOK
    <2>2. CASE secret.there
      BY <2>2 DEF CertInv, Types, SecretOK, Known, Secrets, Roots
    <2>3. CASE secret = NoSecret
      BY <2>3, NoSecretType DEF CertInv, Types, Known
    <2> QED
      BY <2>1, <2>2, <2>3
  <1>3. SecretOK'
    BY <1>2 DEF CertInv, SecretOK, Known, Recent, Upset, world
  <1>4. ClockOK'
    BY DEF CertInv, ClockOK, world
  <1>5. BundleOK'
    BY DEF CertInv, BundleOK, world
  <1>6. \A o \in Servers : ServedOK(o)'
    BY DEF CertInv, ServedOK, Good, world
  <1> QED
    BY <1>1, <1>3, <1>4, <1>5, <1>6 DEF CertInv

\* A reconciliation that ends early, or does not begin.
LEMMA Retries ==
    ASSUME CertInv, UNCHANGED <<world, due>>, copy' \in {copy, secret},
           UNCHANGED round \/ (round' = Idle /\ (due <= now \/ round.pc = "idle"))
    PROVE  CertInv'
  <1>1. due \in Nat /\ due <= now + 1 /\ (secret.there /\ due > now => Recent(secret))
    BY DEF CertInv, Types, ClockOK, SecretOK
  <1>2. round' \in Recs /\ (round'.pc = "idle" => round' = Idle)
    BY NoSecretType DEF CertInv, Types
  <1>3. DoneOK'
    <2>1. due > now => round'.pc = round.pc
      <3>1. due <= now => ~(due > now)
        BY DEF CertInv, Types
      <3> QED
        BY <3>1, NoSecretType
    <2> QED
      BY <2>1 DEF CertInv, DoneOK, Upset, world
  <1>4. RecOK'
    <2>1. CASE UNCHANGED round
      BY <2>1 DEF CertInv, RecOK, Recent, Known, Upset, world, Validate, AboutToExpire
    <2>2. CASE round' = Idle
      BY <2>2, NoSecretType DEF RecOK
    <2> QED
      BY <2>1, <2>2
  <1> QED
    BY <1>1, <1>2, <1>3, <1>4, Quiet

LEMMA StartUpdateInv ==
    ASSUME CertInv, StartUpdate
    PROVE  CertInv'
  <1>1. /\ UNCHANGED <<world, due, copy>> /\ due <= now
        /\ round' = [pc |-> "secret", base |-> copy, data |-> Validate(copy), todo |-> Configs,
                   changed |-> {}, fail |-> FALSE]
    BY DEF StartUpdate, Begin, world
  <1>2. Validate(copy) \in Secrets /\ copy \in Secrets
    BY ValidateFacts DEF CertInv, Types
  <1>3. round' \in Recs /\ round'.pc = "secret" /\ round'.base = copy /\ round'.data = Validate(copy)
        /\ round'.todo = Configs /\ ~round'.fail
    BY <1>1, <1>2 DEF Recs
  <1>4. RecOK'
    <2>1. Validate(copy)' = Validate(copy)
      BY <1>1 DEF Validate, AboutToExpire, world
    <2> QED
      BY <1>1, <1>3, <2>1 DEF CertInv, SecretOK, RecOK, Known, Recent, Upset, Validate,
         AboutToExpire, world
  <1>5. DoneOK'
    BY <1>3 DEF DoneOK
  <1>6. due \in Nat /\ due <= now + 1 /\ ~(due > now) 
    BY <1>1 DEF CertInv, Types, ClockOK
  <1> QED
    BY <1>1, <1>3, <1>4, <1>5, <1>6, Quiet

LEMMA SkipUpdateInv ==
    ASSUME CertInv, SkipUpdate
    PROVE  CertInv'
  <1>1. UNCHANGED <<world, round, copy>> /\ due' = now + 1 /\ round = Idle /\ UpToDate
    BY DEF SkipUpdate, Begin, world
  <1>2. /\ now \in Nat /\ now + 1 \in Nat /\ now + 1 <= now + 1
        /\ round \in Recs /\ round.pc = "idle"
    BY <1>1, NoSecretType DEF CertInv, Types
  <1>3. Recent(copy) /\ \A c \in Configs : bundle[c] = {copy.root}
    BY <1>1, ValidateFacts DEF UpToDate, IsBundleValid, CertInv, Types
  <1>4. RecOK'
    BY <1>1, <1>2 DEF RecOK
  <1>5. DoneOK'
    <2>1. Upset \/ copy = secret
      BY <1>3 DEF CertInv, SecretOK
    <2>2. CASE Upset
      BY <1>1, <2>2 DEF DoneOK, Upset, world
    <2>3. CASE copy = secret
      BY <1>1, <1>3, <2>3 DEF DoneOK, Recent, world
    <2> QED
      BY <2>1, <2>2, <2>3
  <1>6. secret.there => Recent(secret)
    BY <1>3 DEF CertInv, SecretOK
  <1> QED
    BY <1>1, <1>2, <1>4, <1>5, <1>6, Quiet

LEMMA InjectFailsInv ==
    ASSUME CertInv, NEW c \in Configs, InjectFails(c)
    PROVE  CertInv'
  <1>1. /\ UNCHANGED <<world, due, copy>> /\ round.pc = "inject"
        /\ round' = IF c \in Webhooks THEN Idle ELSE [round EXCEPT !.todo = @ \ {c}, !.fail = TRUE]
    BY DEF InjectFails, world
  <1>2. due <= now /\ due \in Nat /\ due <= now + 1 /\ round \in Recs
        /\ (secret.there /\ due > now => Recent(secret))
    BY <1>1 DEF CertInv, RecOK, Types, ClockOK, SecretOK
  <1>3. CASE c \in Webhooks
    BY <1>1, <1>2, <1>3, Retries
  <1>4. CASE c \notin Webhooks
    <2>1. round' = [round EXCEPT !.todo = @ \ {c}, !.fail = TRUE]
      BY <1>1, <1>4
    <2>2. /\ round' \in Recs /\ round'.pc = "inject" /\ round'.base = round.base /\ round'.data = round.data
          /\ round'.fail
      BY <1>1, <1>2, <2>1 DEF Recs
    <2>3. RecOK'
      BY <1>1, <1>2, <2>2 DEF CertInv, RecOK, Recent, Known, Upset, world
    <2>4. DoneOK'
      BY <2>2 DEF DoneOK
    <2> QED
      BY <1>1, <1>2, <2>2, <2>3, <2>4, Quiet
  <1> QED
    BY <1>3, <1>4

LEMMA EndUpdateInv ==
    ASSUME CertInv, EndUpdate
    PROVE  CertInv'
  <1>1. /\ UNCHANGED <<world, copy>> /\ round.pc = "inject" /\ round.todo = {}
        /\ round' = Idle /\ due' = IF round.fail THEN due ELSE now + 1
    BY DEF EndUpdate, world
  <1>2. /\ due <= now /\ due \in Nat /\ due <= now + 1 /\ now \in Nat
        /\ ~secret.there \/ Recent(secret)
        /\ Upset \/ (secret = round.data /\ Recent(round.data))
        /\ round.fail \/ Upset \/ \A c \in Configs : secret.root \in bundle[c]
    BY <1>1 DEF CertInv, RecOK, Types, ClockOK
  <1>3. CASE round.fail
    BY <1>1, <1>2, <1>3, Retries
  <1>4. CASE ~round.fail
    <2>1. due' = now + 1 /\ now + 1 \in Nat /\ now + 1 <= now + 1
      BY <1>1, <1>2, <1>4
    <2>2. RecOK'
      BY <1>1, NoSecretType DEF RecOK
    <2>3. DoneOK'
      BY <1>1, <1>2, <1>4 DEF DoneOK, Upset, Recent, world
    <2> QED
      BY <1>1, <1>2, <2>1, <2>2, <2>3, Quiet, NoSecretType
  <1> QED
    BY <1>3, <1>4

LEMMA CrashInv ==
    ASSUME CertInv, RestartManager
    PROVE  CertInv'
  <1>1. UNCHANGED world /\ copy' = secret /\ round' = Idle /\ due' = now
    BY DEF RestartManager, world
  <1>2. now \in Nat /\ now <= now + 1 /\ ~(now > now)
    BY DEF CertInv, Types
  <1>3. RecOK' /\ DoneOK'
    BY <1>1, <1>2, NoSecretType DEF RecOK, DoneOK, world
  <1> QED
    BY <1>1, <1>2, <1>3, Quiet, NoSecretType

-----------------------------------------------------------------------------
(***************************************************************************)
(* The write of the secret.                                                *)
(***************************************************************************)
\* The CAs stay as they are, or there is a new one, of which nobody knows.
LEMMA WrittenSecret ==
    ASSUME CertInv, round.pc = "secret", round.base = secret, round.data # secret,
           secret' = round.data, lastRoot' = round.data.root.id, UNCHANGED now
    PROVE  /\ secret' \in Secrets /\ lastRoot' \in Nat /\ lastRoot <= lastRoot' /\ lastRoot' # 0
           /\ Recent(secret)' /\ ~Recent(secret)
           /\ secret'.root.id = lastRoot' /\ secret'.old.id <= lastRoot'
           /\ secret'.server.root = secret'.root
           /\ \/ secret.there /\ secret'.root = secret.root /\ secret'.old = secret.old
              \/ /\ secret'.root.exp = now + RootLife /\ secret'.old = secret.root
                 /\ ~(now + Threshold <= secret.root.exp)
                 /\ \A x \in Roots : x.id <= lastRoot => x # secret'.root
  <1> DEFINE v == Validate(secret)
  <1>1. round.data = v /\ Types /\ secret \in Secrets /\ now \in Nat /\ lastRoot \in Nat
    BY DEF CertInv, RecOK, Types
  <1>2. v \in Secrets /\ Recent(v) /\ ~Recent(secret)
    BY <1>1, ValidateFacts
  <1>3. Recent(secret)'
    BY <1>1, <1>2 DEF Recent
  <1>4. CASE /\ v.root = secret.root /\ v.old = secret.old /\ now + Threshold <= secret.root.exp
             /\ secret.server.root = secret.root => v.server.root = secret.root
    <2>1. secret.there
      <3>1. SUFFICES ASSUME secret = NoSecret PROVE FALSE
        BY DEF CertInv, SecretOK
      <3>2. now + Threshold <= -1
        BY <1>4, <3>1, NoSecretType
      <3> QED
        BY <1>1, <3>2, TimeFacts
    <2>2. secret.server.root = secret.root /\ secret.root.id = lastRoot /\ lastRoot # 0
          /\ secret.old.id <= lastRoot
      BY <2>1 DEF CertInv, SecretOK
    <2>3. lastRoot' = lastRoot /\ lastRoot <= lastRoot
      BY <1>1, <1>4, <2>2
    <2> QED
      BY <1>1, <1>2, <1>3, <1>4, <2>1, <2>2, <2>3
  <1>5. CASE /\ v.root = [id |-> lastRoot + 1, exp |-> now + RootLife] /\ v.old = secret.root
             /\ v.server.root = v.root /\ ~(now + Threshold <= secret.root.exp)
    <2>1. v.root.id = lastRoot + 1 /\ v.root.exp = now + RootLife
      BY <1>5
    <2>2. lastRoot' = lastRoot + 1 /\ secret' = v
      BY <1>1, <2>1
    <2>3. lastRoot + 1 \in Nat /\ lastRoot <= lastRoot + 1 /\ lastRoot + 1 # 0
      BY <1>1
    <2>4. secret.root.id <= lastRoot + 1
      <3>1. secret.root.id = lastRoot \/ secret.root.id = 0
        BY NoSecretType DEF CertInv, SecretOK
      <3> QED
        BY <1>1, <3>1
    <2>5. \A x \in Roots : x.id <= lastRoot => x # v.root
      <3>1. ~(lastRoot + 1 <= lastRoot)
        BY <1>1
      <3> QED
        BY <2>1, <3>1
    <2> QED
      BY <1>2, <1>3, <1>5, <2>1, <2>2, <2>3, <2>4, <2>5
  <1> QED
    BY <1>1, <1>4, <1>5, ValidateFacts

LEMMA WrittenInv ==
    ASSUME CertInv, round.pc = "secret", round.base = secret, round.data # secret,
           secret' = round.data, lastRoot' = round.data.root.id,
           UNCHANGED <<now, copy, bundle, due, serving, poll, missed, disturbed, outage>>,
           round' = Idle \/ round' = [round EXCEPT !.pc = "inject"]
    PROVE  CertInv'
  <1> DEFINE renewed ==
        /\ secret'.root.exp = now + RootLife /\ secret'.old = secret.root
        /\ ~(now + Threshold <= secret.root.exp)
        /\ \A x \in Roots : x.id <= lastRoot => x # secret'.root
  <1>1. /\ secret' \in Secrets /\ lastRoot' \in Nat /\ lastRoot <= lastRoot' /\ lastRoot' # 0
        /\ Recent(secret)' /\ ~Recent(secret)
        /\ secret'.root.id = lastRoot' /\ secret'.old.id <= lastRoot'
        /\ secret'.server.root = secret'.root
    BY WrittenSecret
  <1>2. (secret.there /\ secret'.root = secret.root /\ secret'.old = secret.old) \/ renewed
    BY WrittenSecret
  <1>3. /\ Types /\ now \in Nat /\ lastRoot \in Nat /\ due <= now
        /\ secret \in Secrets /\ copy \in Secrets
        /\ round \in Recs /\ round.todo = Configs /\ ~round.fail
    BY DEF CertInv, Types, RecOK
  <1> HIDE DEF renewed
  <1>4. /\ round' \in Recs /\ (round'.pc = "idle" => round' = Idle)
        /\ round'.pc # "idle" => /\ round'.pc = "inject" /\ round'.base = round.base /\ round'.data = round.data
                               /\ round'.todo = round.todo /\ round'.fail = round.fail
    BY <1>3, NoSecretType DEF Recs
  <1>5. Types'
    BY <1>1, <1>3, <1>4 DEF Types
  <1>6. Upset' = Upset
    BY DEF Upset
  <1>7. ASSUME NEW s \in Secrets, Known(s) PROVE Known(s)'
    <2>1. s.root \in Roots /\ s.old \in Roots /\ s.root.id \in Nat /\ s.old.id \in Nat
      BY DEF Secrets, Roots
    <2>2. \A n \in Nat : n <= lastRoot => n <= lastRoot'
      BY <1>1, <1>3
    <2>3. s.root.id <= lastRoot' /\ s.old.id <= lastRoot'
      BY <1>7, <2>1, <2>2 DEF Known
    <2>4. CASE secret.there /\ secret'.root = secret.root /\ secret'.old = secret.old
      BY <1>7, <2>3, <2>4 DEF Known
    <2>5. CASE renewed
      <3>1. s.root # secret'.root /\ s.old # secret'.root
        BY <1>7, <2>1, <2>5 DEF Known, renewed
      <3> QED
        BY <2>3, <3>1 DEF Known
    <2> QED
      BY <1>2, <2>4, <2>5
  <1>8. Known(copy)' /\ Known(round.base) /\ (round'.base = round.base => Known(round.base)')
        /\ (round'.data = round.data => Known(round.data)')
    <2>1. Known(copy) /\ Known(round.base)
      BY DEF CertInv, SecretOK, RecOK
    <2>2. Known(copy)'
      BY <1>3, <1>7, <2>1 DEF Known
    <2>3. round'.base = round.base => Known(round.base)'
      BY <1>3, <1>7, <2>1 DEF Known
    <2>4. round'.data = round.data => Known(round.data)'
      BY <1>1 DEF Known
    <2> QED
      BY <2>1, <2>2, <2>3, <2>4
  <1>9. SecretOK'
    <2>1. secret'.there /\ now + Threshold <= secret'.root.exp
          /\ now + Threshold <= secret'.server.exp
      BY <1>1 DEF Recent
    <2>2. secret'.root.exp \in Int /\ secret'.server.exp \in Int
      BY <1>1 DEF Secrets, Certs, Roots
    <2>3. \A a \in Int : now + Threshold <= a => now + Threshold <= a + 1
      BY <1>3, TimeFacts
    <2>4. now + Threshold <= secret'.root.exp + 1 /\ now + Threshold <= secret'.server.exp + 1
      BY <2>1, <2>2, <2>3
    <2>5. Upset \/ ~Recent(copy)
      BY <1>1 DEF CertInv, SecretOK
    <2>6. Recent(copy)' = Recent(copy)
      BY DEF Recent
    <2> QED
      BY <1>1, <1>6, <1>8, <2>1, <2>4, <2>5, <2>6 DEF SecretOK
  <1>10. ClockOK'
    BY DEF CertInv, ClockOK
  <1>11. RecOK'
    <2>1. CASE round'.pc = "idle"
      BY <2>1 DEF RecOK
    <2>2. CASE round'.pc # "idle"
      <3>1. /\ round'.pc = "inject" /\ round'.base = secret /\ round'.data = secret' /\ ~round'.fail
            /\ round'.todo = Configs
        BY <1>3, <1>4, <2>2
      <3>2. Recent(round.data)' /\ ~Recent(round.base)'
        BY <1>1, <3>1 DEF Recent
      <3>3. Known(round.base)' /\ Known(round.data)'
        BY <1>4, <1>8, <2>2
      <3> QED
        BY <1>1, <1>3, <3>1, <3>2, <3>3 DEF RecOK
    <2> QED
      BY <2>1, <2>2
  <1>12. BundleOK'
    <2>1. SUFFICES ASSUME NEW c \in Configs
                   PROVE  /\ \A x \in bundle[c] : x.id <= lastRoot'
                          /\ secret'.root \in bundle[c] => secret'.old \in bundle[c] \cup {NoRoot}
      BY DEF BundleOK
    <2>2. \A x \in bundle[c] : x \in Roots /\ x.id \in Nat /\ x.id <= lastRoot
      BY DEF CertInv, Types, BundleOK, Roots
    <2>3. \A n \in Nat : n <= lastRoot => n <= lastRoot'
      BY <1>1, <1>3
    <2>4. CASE secret.there /\ secret'.root = secret.root /\ secret'.old = secret.old
      BY <2>2, <2>3, <2>4 DEF CertInv, BundleOK
    <2>5. CASE renewed
      BY <2>2, <2>3, <2>5 DEF renewed
    <2> QED
      BY <1>2, <2>4, <2>5
  <1>13. DoneOK'
    <2>1. ~(due > now)
      BY <1>3 DEF Types
    <2> QED
      BY <2>1 DEF DoneOK
  <1>14. ASSUME NEW o \in Servers PROVE ServedOK(o)'
    <2>1. /\ secret'.there
          /\ ServedOK(o) /\ poll[o] \in Nat /\ now <= poll[o] /\ poll[o] <= now + WatchInterval
      BY <1>1 DEF CertInv, ClockOK, Types, Recent
    <2>2. Good(o) => Good(o)'
      <3>1. CASE secret.there /\ secret'.root = secret.root /\ secret'.old = secret.old
        BY <2>1, <3>1 DEF Good
      <3>2. CASE renewed
        <4>1. SUFFICES ASSUME Good(o) PROVE Good(o)'
          OBVIOUS
        <4>2. secret.root.exp \in Int
          BY <1>3 DEF Secrets, Roots
        <4>3. ~(poll[o] + RootLife <= secret.root.exp + WatchInterval)
          <5>1. ~(now + Threshold <= secret.root.exp)
            BY <3>2 DEF renewed
          <5> QED
            BY <1>3, <2>1, <4>2, <5>1, TimeFacts
        <4>4. serving[o].root = secret.root /\ serving[o].root # NoRoot
          BY <4>1, <4>3 DEF Good
        <4>5. poll[o] + RootLife <= (now + RootLife) + WatchInterval
          BY <1>3, <2>1, TimeFacts
        <4>6. secret'.old = secret.root /\ secret'.root.exp = now + RootLife
          BY <3>2 DEF renewed
        <4> QED
          BY <2>1, <4>4, <4>5, <4>6 DEF Good
      <3> QED
        BY <1>2, <3>1, <3>2
    <2> QED
      BY <2>1, <2>2 DEF ServedOK
  <1> QED
    BY <1>5, <1>9, <1>10, <1>11, <1>12, <1>13, <1>14 DEF CertInv

LEMMA WriteSecretInv ==
    ASSUME CertInv, WriteSecret
    PROVE  CertInv'
  <1>1. /\ round.pc = "secret" /\ round \in Recs /\ round.data = Validate(round.base)
        /\ round.base \in Secrets /\ due <= now /\ due \in Nat /\ due <= now + 1
        /\ (secret.there /\ due > now => Recent(secret)) /\ Types
        /\ round.todo = Configs
    BY DEF CertInv, RecOK, Types, WriteSecret, Recs, ClockOK, SecretOK
  <1>2. UNCHANGED <<now, copy, bundle, due, serving, poll, missed, disturbed, outage>>
    BY DEF WriteSecret
  <1>3. CASE UNCHANGED <<secret, lastRoot>> /\ round' = Idle
    BY <1>1, <1>2, <1>3, Retries DEF world
  <1>4. CASE /\ round.data = round.base /\ round' = [round EXCEPT !.pc = "inject"]
             /\ UNCHANGED <<secret, lastRoot>>
    <2>1. /\ round' \in Recs /\ round'.pc = "inject" /\ round'.base = round.base /\ round'.data = round.base
          /\ round'.todo = Configs
      BY <1>1, <1>4 DEF Recs
    <2>2. Recent(round.base)
      BY <1>1, <1>4, ValidateFacts
    <2>3. /\ Known(round.base)
          /\ round.base # secret => (~secret.there \/ Recent(secret)) /\ Upset
      BY <1>1, <2>2 DEF CertInv, RecOK
    <2>4. RecOK'
      BY <1>1, <1>2, <1>4, <2>1, <2>2, <2>3 DEF RecOK, Recent, Known, Upset
    <2>5. DoneOK'
      BY <2>1 DEF DoneOK
    <2> QED
      BY <1>1, <1>2, <1>4, <2>1, <2>4, <2>5, Quiet DEF world
  <1>5. CASE /\ round.base = secret /\ round.data # secret
             /\ secret' = round.data /\ lastRoot' = round.data.root.id
             /\ round' = Idle \/ round' = [round EXCEPT !.pc = "inject"]
    BY <1>1, <1>2, <1>5, WrittenInv
  <1> QED
    BY <1>3, <1>4, <1>5 DEF WriteSecret

-----------------------------------------------------------------------------
(***************************************************************************)
(* Bundles are injected, and operators look at the secret.                 *)
(***************************************************************************)
LEMMA SecretStays ==
    ASSUME SecretOK, UNCHANGED <<now, secret, copy, due, lastRoot>>, Upset => Upset'
    PROVE  SecretOK'
  BY DEF SecretOK, Known, Recent

LEMMA UpsetStays ==
    ASSUME Types, CountOutage(0), UNCHANGED disturbed, Upset
    PROVE  Upset'
  BY OutagesEnd DEF Upset

\* The bundle of the reconciliation holds its CA, and the one before if there is one.
LEMMA BundleFacts ==
    ASSUME Types, NEW s \in Secrets, Recent(s)
    PROVE  /\ CombinedBundle(s) \subseteq Roots
           /\ s.root \in CombinedBundle(s)
           /\ s.old \in CombinedBundle(s) \cup {NoRoot}
           /\ CombinedBundle(s) \subseteq {s.root, s.old}
  <1>1. s.root \in Roots /\ s.old \in Roots /\ now \in Nat
    BY DEF Types, Secrets
  <1>2. s.root # NoRoot
    <2>1. now + Threshold <= s.root.exp
      BY DEF Recent
    <2>2. ~(now + Threshold <= -1)
      BY <1>1, TimeFacts
    <2> QED
      BY <2>1, <2>2, NoSecretType
  <1> QED
    BY <1>1, <1>2 DEF CombinedBundle

\* What the others of an operator's neighbours do.
LEMMA ServedStays ==
    ASSUME Types, CountOutage(0), NEW o \in Servers, ServedOK(o),
           poll[o] \in Nat, now \in Nat,
           serving'[o] = serving[o], poll'[o] = poll[o], missed'[o] = missed[o],
           UNCHANGED <<now, secret, disturbed>>
    PROVE  ServedOK(o)'
  <1>1. outage[o] \in Nat /\ (outage'[o] = 0 \/ outage'[o] = outage[o])
    BY OutagesEnd DEF Types
  <1>2. 0 <= 1 + WatchInterval /\ 0 <= 1
    BY TimeFacts
  <1>3. poll[o] + outage[o] <= (now + 1) + WatchInterval => poll[o] + 0 <= (now + 1) + WatchInterval
    BY <1>1, TimeFacts
  <1>4. Good(o)' = Good(o)
    BY DEF Good
  <1>5. CASE outage'[o] = 0
    BY <1>2, <1>3, <1>4, <1>5 DEF ServedOK
  <1>6. CASE outage'[o] = outage[o]
    BY <1>4, <1>6 DEF ServedOK
  <1> QED
    BY <1>1, <1>5, <1>6

LEMMA InjectInv ==
    ASSUME CertInv, NEW c \in Configs, Inject(c)
    PROVE  CertInv'
  <1>1. /\ round.pc = "inject" /\ CountOutage(0)
        /\ bundle' = [bundle EXCEPT ![c] = CombinedBundle(round.data)]
        /\ round' = [round EXCEPT !.todo = @ \ {c}]
        /\ UNCHANGED <<now, secret, copy, due, serving, poll, lastRoot, missed, disturbed>>
    BY DEF Inject
  <1>2. /\ Types /\ round \in Recs /\ round.data \in Secrets /\ Recent(round.data) /\ Known(round.data)
        /\ bundle \in [Configs -> SUBSET Roots]
        /\ Upset \/ round.data = secret
    BY <1>1 DEF CertInv, Types, RecOK, Recs
  <1>3. /\ round' \in Recs /\ round'.pc = "inject" /\ round'.base = round.base /\ round'.data = round.data
        /\ round'.todo = round.todo \ {c} /\ round'.fail = round.fail
    BY <1>1, <1>2 DEF Recs
  <1>4. /\ CombinedBundle(round.data) \subseteq Roots
        /\ round.data.root \in CombinedBundle(round.data)
        /\ round.data.old \in CombinedBundle(round.data) \cup {NoRoot}
        /\ CombinedBundle(round.data) \subseteq {round.data.root, round.data.old}
    BY <1>2, BundleFacts
  <1>5. /\ bundle' \in [Configs -> SUBSET Roots] /\ bundle'[c] = CombinedBundle(round.data)
        /\ \A d \in Configs \ {c} : bundle'[d] = bundle[d]
    BY <1>1, <1>2, <1>4
  <1>6. Types'
    BY <1>1, <1>2, <1>3, <1>5, OutagesEnd DEF Types
  <1>7. Upset => Upset'
    BY <1>1, <1>2, UpsetStays
  <1>8. SecretOK'
    BY <1>1, <1>7, SecretStays DEF CertInv
  <1>9. ClockOK'
    BY <1>1 DEF CertInv, ClockOK
  <1>10. RecOK'
    <2>1. round'.fail \/ Upset' \/ \A d \in Configs \ round'.todo : secret.root \in bundle'[d]
      <3>1. CASE round.fail \/ Upset
        BY <1>3, <1>7, <3>1
      <3>2. CASE ~round.fail /\ ~Upset
        <4>1. round.data = secret /\ \A d \in Configs \ round.todo : secret.root \in bundle[d]
          BY <1>1, <1>2, <3>2 DEF CertInv, RecOK
        <4> QED
          BY <1>3, <1>4, <1>5, <4>1
      <3> QED
        BY <3>1, <3>2
    <2> QED
      BY <1>1, <1>3, <1>7, <2>1 DEF CertInv, RecOK, Recent, Known
  <1>11. BundleOK'
    <2>1. ASSUME NEW d \in Configs
          PROVE  /\ \A x \in bundle'[d] : x.id <= lastRoot
                 /\ secret.there /\ secret.root \in bundle'[d] => secret.old \in bundle'[d] \cup {NoRoot}
      <3>1. CASE d = c
        <4>1. round.data.root.id <= lastRoot /\ round.data.old.id <= lastRoot
          BY <1>2 DEF Known
        <4>2. secret.there /\ secret.root \in {round.data.root, round.data.old} => round.data.old = secret.old
          BY <1>2 DEF Known
        <4> QED
          BY <1>4, <1>5, <3>1, <4>1, <4>2
      <3>2. CASE d # c
        BY <1>5, <3>2 DEF CertInv, BundleOK
      <3> QED
        BY <3>1, <3>2
    <2> QED
      BY <1>1, <2>1 DEF BundleOK
  <1>12. DoneOK'
    BY <1>3 DEF DoneOK
  <1>13. ASSUME NEW o \in Servers PROVE ServedOK(o)'
    BY <1>1, <1>2, ServedStays DEF CertInv, Types
  <1> QED
    BY <1>6, <1>8, <1>9, <1>10, <1>11, <1>12, <1>13 DEF CertInv

\* An operator looks at the secret and leaves the manager alone.
LEMMA LookInv ==
    ASSUME CertInv, CountOutage(0), NEW o \in Servers,
           poll' = [poll EXCEPT ![o] = now + WatchInterval],
           serving' \in [Servers -> Certs], missed' \in [Servers -> {"no", "absent", "fault"}],
           \A p \in Servers \ {o} : serving'[p] = serving[p] /\ missed'[p] = missed[p],
           UNCHANGED <<now, secret, copy, bundle, round, due, lastRoot, disturbed>>,
           ServedOK(o)'
    PROVE  CertInv'
  <1>1. Types /\ now \in Nat /\ poll \in [Servers -> Nat]
    BY DEF CertInv, Types
  <1>2. /\ now + WatchInterval \in Nat /\ now <= now + WatchInterval
        /\ now + WatchInterval <= now + WatchInterval
    BY <1>1, TimeFacts
  <1>3. /\ poll' \in [Servers -> Nat] /\ poll'[o] = now + WatchInterval
        /\ \A p \in Servers \ {o} : poll'[p] = poll[p]
    BY <1>1, <1>2
  <1>4. Types'
    BY <1>1, <1>3, OutagesEnd DEF Types
  <1>5. Upset => Upset'
    BY <1>1, UpsetStays
  <1>6. SecretOK'
    BY <1>5, SecretStays DEF CertInv
  <1>7. ClockOK'
    BY <1>2, <1>3 DEF CertInv, ClockOK
  <1>8. RecOK'
    BY <1>5 DEF CertInv, RecOK, Recent, Known, Validate, AboutToExpire
  <1>9. BundleOK' /\ DoneOK'
    BY <1>5 DEF CertInv, BundleOK, DoneOK
  <1>10. ASSUME NEW p \in Servers PROVE ServedOK(p)'
    <2>1. CASE p = o
      BY <2>1
    <2>2. CASE p # o
      BY <1>1, <1>3, <2>2, ServedStays DEF CertInv
    <2> QED
      BY <2>1, <2>2
  <1> QED
    BY <1>4, <1>6, <1>7, <1>8, <1>9, <1>10 DEF CertInv

LEMMA UpdateCertificatesInv ==
    ASSUME CertInv, NEW o \in Servers, UpdateCertificates(o)
    PROVE  CertInv'
  <1>1. /\ secret.there /\ CountOutage(0)
        /\ serving' = [serving EXCEPT ![o] = secret.server]
        /\ poll' = [poll EXCEPT ![o] = now + WatchInterval]
        /\ missed' = [missed EXCEPT ![o] = "no"]
        /\ UNCHANGED <<now, secret, copy, bundle, round, due, lastRoot, disturbed>>
    BY DEF UpdateCertificates
  <1>2. /\ Types /\ now \in Nat /\ secret.server \in Certs /\ serving \in [Servers -> Certs]
        /\ poll \in [Servers -> Nat] /\ missed \in [Servers -> {"no", "absent", "fault"}]
        /\ secret.root.exp \in Int /\ secret.server.exp \in Int /\ outage[o] \in Nat
    BY DEF CertInv, Types, Secrets, Certs, Roots
  <1>3. /\ serving' \in [Servers -> Certs] /\ missed' \in [Servers -> {"no", "absent", "fault"}]
        /\ serving'[o] = secret.server /\ missed'[o] = "no" /\ poll'[o] = now + WatchInterval
        /\ \A p \in Servers \ {o} : serving'[p] = serving[p] /\ missed'[p] = missed[p]
    BY <1>1, <1>2
  <1>4. /\ secret.server.root = secret.root /\ secret.root # NoRoot
        /\ now + Threshold <= secret.root.exp + 1 /\ now + Threshold <= secret.server.exp + 1
    BY <1>1, NoSecretType DEF CertInv, SecretOK
  <1>5. now + WatchInterval <= secret.root.exp /\ now + WatchInterval <= secret.server.exp
    BY <1>2, <1>4, TimeFacts
  <1>6. Good(o)'
    BY <1>1, <1>3, <1>4 DEF Good
  <1>7. outage'[o] <= 1 + WatchInterval
    <2>1. outage[o] <= 1 + WatchInterval /\ 0 <= 1 + WatchInterval
      BY TimeFacts DEF CertInv, ServedOK
    <2> QED
      BY <1>1, <1>2, <2>1, OutagesEnd
  <1>8. ServedOK(o)'
    BY <1>1, <1>3, <1>4, <1>5, <1>6, <1>7 DEF ServedOK
  <1> QED
    BY <1>1, <1>3, <1>8, LookInv

LEMMA MissCertificatesInv ==
    ASSUME CertInv, NEW o \in Servers, MissCertificates(o)
    PROVE  CertInv'
  <1>1. /\ CountOutage(0)
        /\ poll' = [poll EXCEPT ![o] = now + WatchInterval]
        /\ \/ ~secret.there /\ missed' = [missed EXCEPT ![o] = "absent"]
           \/ missed' = [missed EXCEPT ![o] = "fault"]
        /\ UNCHANGED <<now, secret, copy, bundle, round, due, serving, lastRoot, disturbed>>
    BY DEF MissCertificates
  <1>2. /\ Types /\ now \in Nat /\ serving \in [Servers -> Certs] /\ ServedOK(o)
        /\ poll \in [Servers -> Nat] /\ missed \in [Servers -> {"no", "absent", "fault"}]
        /\ outage[o] \in Nat
    BY DEF CertInv, Types
  <1>3. /\ serving' \in [Servers -> Certs] /\ missed' \in [Servers -> {"no", "absent", "fault"}]
        /\ missed'[o] = "fault" \/ (missed'[o] = "absent" /\ ~secret.there)
        /\ poll'[o] = now + WatchInterval /\ serving'[o] = serving[o]
        /\ \A p \in Servers \ {o} : serving'[p] = serving[p] /\ missed'[p] = missed[p]
    BY <1>1, <1>2
  <1>4. outage'[o] = 0 \/ outage'[o] = outage[o]
    BY <1>1, <1>2, OutagesEnd
  <1>5. /\ outage'[o] <= 1 + WatchInterval
        /\ ~secret.there => outage'[o] <= 1 /\ (serving[o] = NoCert \/ disturbed)
    <2>1. 0 <= 1 + WatchInterval /\ 0 <= 1
      BY TimeFacts
    <2> QED
      BY <1>2, <1>4, <2>1 DEF ServedOK
  <1>6. \A n \in Nat : n <= 1 => (now + WatchInterval) + n <= (now + 1) + WatchInterval
    BY <1>2, TimeFacts
  <1>7. ~secret.there => (now + WatchInterval) + outage'[o] <= (now + 1) + WatchInterval
    BY <1>2, <1>4, <1>5, <1>6
  <1>8. ServedOK(o)'
    BY <1>1, <1>3, <1>5, <1>7 DEF ServedOK
  <1> QED
    BY <1>1, <1>3, <1>8, LookInv

-----------------------------------------------------------------------------
(***************************************************************************)
(* Others interfere.                                                       *)
(***************************************************************************)
LEMMA Disturbed ==
    ASSUME CertInv, Disturb
    PROVE  /\ Upset' /\ disturbed' = TRUE
           /\ outage' \in [Servers -> Nat]
           /\ \A o \in Servers : outage'[o] = 0
           /\ \A o \in Servers : poll[o] + 0 <= (now + 1) + WatchInterval
           /\ 0 <= 1 + WatchInterval /\ 0 <= 1
  <1>1. disturbed' = TRUE /\ outage' = [o \in Servers |-> 0]
    BY DEF Disturb
  <1>2. \A o \in Servers : poll[o] + 0 <= (now + 1) + WatchInterval
    BY TimeFacts DEF CertInv, Types, ClockOK
  <1> QED
    BY <1>1, <1>2, TimeFacts DEF Upset

LEMMA DeleteSecretInv ==
    ASSUME CertInv, DeleteSecret
    PROVE  CertInv'
  <1>1. /\ Disturb /\ secret' = NoSecret
        /\ UNCHANGED <<now, copy, bundle, round, due, serving, poll, lastRoot, missed>>
    BY DEF DeleteSecret
  <1>2. /\ Upset' /\ disturbed' = TRUE
        /\ outage' \in [Servers -> Nat]
        /\ \A o \in Servers : outage'[o] = 0
        /\ \A o \in Servers : poll[o] + 0 <= (now + 1) + WatchInterval
        /\ 0 <= 1 + WatchInterval /\ 0 <= 1
    BY <1>1, Disturbed
  <1>3. secret' \in Secrets /\ ~secret'.there
    BY <1>1, NoSecretType
  <1>4. Types'
    BY <1>1, <1>2, <1>3 DEF CertInv, Types
  <1>5. SecretOK'
    BY <1>1, <1>2, <1>3 DEF CertInv, SecretOK, Known
  <1>6. ClockOK'
    BY <1>1 DEF CertInv, ClockOK
  <1>7. RecOK'
    BY <1>1, <1>2, <1>3 DEF CertInv, RecOK, Known, Recent, Validate, AboutToExpire
  <1>8. BundleOK' /\ DoneOK'
    BY <1>1, <1>2, <1>3 DEF CertInv, BundleOK, DoneOK
  <1>9. ASSUME NEW o \in Servers PROVE ServedOK(o)'
    BY <1>1, <1>2 DEF CertInv, ServedOK
  <1> QED
    BY <1>4, <1>5, <1>6, <1>7, <1>8, <1>9 DEF CertInv

LEMMA ResetBundleInv ==
    ASSUME CertInv, NEW c \in Configs, ResetBundle(c)
    PROVE  CertInv'
  <1>1. /\ Disturb /\ bundle' = [bundle EXCEPT ![c] = {}]
        /\ round' = IF round # Idle /\ c \in Webhooks THEN [round EXCEPT !.changed = @ \cup {c}] ELSE round
        /\ UNCHANGED <<now, secret, copy, due, serving, poll, lastRoot, missed>>
    BY DEF ResetBundle
  <1>2. /\ Upset' /\ disturbed' = TRUE
        /\ outage' \in [Servers -> Nat]
        /\ \A o \in Servers : outage'[o] = 0
        /\ \A o \in Servers : poll[o] + 0 <= (now + 1) + WatchInterval
        /\ 0 <= 1 + WatchInterval /\ 0 <= 1
    BY <1>1, Disturbed
  <1>3. /\ bundle' \in [Configs -> SUBSET Roots] /\ bundle'[c] = {}
        /\ \A d \in Configs \ {c} : bundle'[d] = bundle[d]
    BY <1>1 DEF CertInv, Types
  <1>4. round \in Recs /\ (round.pc = "idle" => round = Idle)
    BY DEF CertInv, Types
  <1>5. /\ round' \in Recs /\ round'.pc = round.pc /\ round'.base = round.base /\ round'.data = round.data
        /\ round'.todo = round.todo /\ round'.fail = round.fail
        /\ round.pc = "idle" => round' = Idle
    <2>1. CASE round' = round
      BY <1>4, <2>1
    <2>2. CASE round # Idle /\ round' = [round EXCEPT !.changed = @ \cup {c}]
      BY <1>4, <2>2 DEF Recs
    <2> QED
      BY <1>1, <2>1, <2>2
  <1>6. Types'
    BY <1>1, <1>2, <1>3, <1>5 DEF CertInv, Types
  <1>7. SecretOK'
    BY <1>1, <1>2, SecretStays DEF CertInv
  <1>8. ClockOK'
    BY <1>1 DEF CertInv, ClockOK
  <1>9. RecOK'
    BY <1>1, <1>2, <1>5 DEF CertInv, RecOK, Known, Recent, Validate, AboutToExpire
  <1>10. BundleOK' /\ DoneOK'
    <2>1. ASSUME NEW d \in Configs
          PROVE  /\ \A x \in bundle'[d] : x.id <= lastRoot
                 /\ secret.there /\ secret.root \in bundle'[d] => secret.old \in bundle'[d] \cup {NoRoot}
      <3>1. CASE d = c
        BY <1>3, <3>1
      <3>2. CASE d # c
        BY <1>3, <3>2 DEF CertInv, BundleOK
      <3> QED
        BY <3>1, <3>2
    <2> QED
      BY <1>1, <1>2, <2>1 DEF BundleOK, DoneOK
  <1>11. ASSUME NEW o \in Servers PROVE ServedOK(o)'
    BY <1>1, <1>2 DEF CertInv, ServedOK
  <1> QED
    BY <1>6, <1>7, <1>8, <1>9, <1>10, <1>11 DEF CertInv

-----------------------------------------------------------------------------
(***************************************************************************)
(* An interval passes.                                                     *)
(***************************************************************************)
\* The manager is done: whoever serves a certificate of the CA, or of the one before,
\* is trusted.
LEMMA GoodIsCallable ==
    ASSUME CertInv, NEW o \in Servers, Good(o), \A c \in Configs : secret.root \in bundle[c]
    PROVE  \A c \in Configs : Trusted(o, c)
  BY DEF CertInv, BundleOK, Good, Trusted

LEMMA TickServed ==
    ASSUME CertInv, TimePasses, NEW o \in Servers
    PROVE  ServedOK(o)'
  <1>1. /\ now' = now + 1 /\ round = Idle /\ due > now /\ poll[o] > now /\ CountOutage(1)
        /\ UNCHANGED <<secret, bundle, serving, poll, missed, disturbed>>
    BY DEF TimePasses
  <1>2. /\ now \in Nat /\ poll[o] \in Nat /\ outage[o] \in Nat /\ ServedOK(o)
        /\ poll[o] <= now + WatchInterval
    BY DEF CertInv, Types, ClockOK
  <1>3. Good(o)' = Good(o) /\ Callable(o)' = Callable(o)
    BY <1>1 DEF Good, Callable, Trusted
  <1>4. outage'[o] = IF Callable(o) THEN 0 ELSE outage[o] + 1
    BY <1>1, <1>3 DEF CountOutage
  <1>5. Upset \/ (secret.there /\ \A c \in Configs : secret.root \in bundle[c])
    BY <1>1, NoSecretType DEF CertInv, DoneOK
  <1>6. SUFFICES /\ outage'[o] <= 1 + WatchInterval
                 /\ missed[o] # "fault" /\ serving[o] # NoCert =>
                       \/ Good(o)
                       \/ disturbed /\ poll[o] + outage'[o] <= ((now + 1) + 1) + WatchInterval
                 /\ ~secret.there => outage'[o] <= 1
    BY <1>1, <1>2, <1>3 DEF ServedOK
  <1>7. CASE Callable(o) \/ Upset
    <2>1. outage'[o] \in {0, 1}
      BY <1>2, <1>4, <1>7 DEF Upset
    <2>2. \A n \in {0, 1} : /\ n <= 1 + WatchInterval /\ n <= 1
                            /\ poll[o] + n <= ((now + 1) + 1) + WatchInterval
      BY <1>2, TimeFacts
    <2> QED
      BY <1>2, <2>1, <2>2 DEF ServedOK
  <1>8. CASE ~Callable(o) /\ ~Upset
    <2>1. missed[o] # "fault" /\ serving[o] # NoCert /\ ~Good(o) /\ secret.there
      BY <1>5, <1>8, GoodIsCallable DEF Callable
    <2>2. disturbed /\ poll[o] + outage[o] <= (now + 1) + WatchInterval
      BY <1>2, <2>1 DEF ServedOK
    <2>3. /\ outage[o] + 1 <= 1 + WatchInterval
          /\ poll[o] + (outage[o] + 1) <= ((now + 1) + 1) + WatchInterval
      BY <1>1, <1>2, <2>2, TimeFacts
    <2> QED
      BY <1>4, <1>8, <2>1, <2>2, <2>3
  <1> QED
    BY <1>7, <1>8

LEMMA TickInv ==
    ASSUME CertInv, TimePasses
    PROVE  CertInv'
  <1>1. /\ now' = now + 1 /\ copy = secret /\ round = Idle /\ due > now /\ CountOutage(1)
        /\ \A o \in Servers : poll[o] > now
        /\ UNCHANGED <<secret, copy, bundle, round, due, serving, poll, lastRoot, missed, disturbed>>
    BY DEF TimePasses
  <1>2. /\ Types /\ now \in Nat /\ now + 1 \in Nat /\ due \in Nat /\ due <= now + 1
        /\ secret.root.exp \in Int /\ secret.server.exp \in Int
    BY DEF CertInv, Types, ClockOK, Secrets, Certs, Roots
  <1>3. ~(due > now + 1) /\ due <= (now + 1) + 1
    BY <1>2
  <1>4. Types'
    <2>1. outage' \in [Servers -> Nat]
      <3>1. \A n \in Nat : n + 1 \in Nat
        OBVIOUS
      <3>2. \A o \in Servers : outage[o] + 1 \in Nat
        BY <1>2, <3>1 DEF Types
      <3>3. outage' = [o \in Servers |-> IF Callable(o)' THEN 0 ELSE outage[o] + 1]
        BY <1>1 DEF CountOutage
      <3>4. \A o \in Servers : outage'[o] \in Nat
        BY <3>2, <3>3
      <3> QED
        BY <3>3, <3>4
    <2> QED
      BY <1>1, <1>2, <2>1 DEF Types
  <1>5. SecretOK'
    <2>1. secret.there => /\ now + Threshold <= secret.root.exp
                          /\ now + Threshold <= secret.server.exp
      BY <1>1 DEF CertInv, SecretOK, Recent
    <2>2. secret.there => /\ (now + 1) + Threshold <= secret.root.exp + 1
                          /\ (now + 1) + Threshold <= secret.server.exp + 1
      BY <1>2, <2>1, TimeFacts
    <2> QED
      BY <1>1, <1>3, <2>2 DEF CertInv, SecretOK, Known
  <1>6. ClockOK'
    <2>1. \A o \in Servers : now + 1 <= poll[o] /\ poll[o] <= (now + 1) + WatchInterval
      BY <1>1, <1>2, TimeFacts DEF CertInv, ClockOK, Types
    <2> QED
      BY <1>1, <1>3, <2>1 DEF ClockOK
  <1>7. RecOK'
    BY <1>1, NoSecretType DEF RecOK
  <1>8. BundleOK' /\ DoneOK'
    BY <1>1, <1>3 DEF CertInv, BundleOK, DoneOK
  <1>9. \A o \in Servers : ServedOK(o)'
    BY TickServed
  <1> QED
    BY <1>4, <1>5, <1>6, <1>7, <1>8, <1>9 DEF CertInv

-----------------------------------------------------------------------------
LEMMA InitInv == InitCerts => CertInv
  <1>1. SUFFICES ASSUME InitCerts PROVE CertInv
    OBVIOUS
  <1>2. /\ now = 0 /\ secret = NoSecret /\ copy = NoSecret /\ round = Idle /\ due = 0
        /\ bundle = [c \in Configs |-> {}] /\ lastRoot = 0 /\ disturbed = FALSE
        /\ serving = [o \in Servers |-> NoCert] /\ poll = [o \in Servers |-> 0]
        /\ missed = [o \in Servers |-> "no"] /\ outage = [o \in Servers |-> 0]
    BY <1>1 DEF InitCerts
  <1>3. Types
    BY <1>2, NoSecretType DEF Types
  <1>4. SecretOK
    BY <1>2, NoSecretType DEF SecretOK, Known
  <1>5. ClockOK
    BY <1>2, TimeFacts DEF ClockOK
  <1>6. RecOK /\ DoneOK /\ BundleOK
    BY <1>2, NoSecretType DEF RecOK, DoneOK, BundleOK
  <1>7. \A o \in Servers : ServedOK(o)
    BY <1>2, NoSecretType, TimeFacts DEF ServedOK
  <1> QED
    BY <1>3, <1>4, <1>5, <1>6, <1>7 DEF CertInv

LEMMA StepInv == CertInv /\ [NextCerts]_certVars => CertInv'
  <1>1. SUFFICES ASSUME CertInv, [NextCerts]_certVars PROVE CertInv'
    OBVIOUS
  <1>2. CASE UNCHANGED certVars \/ ListFails \/ SyncSecret
    <2>1. UNCHANGED <<world, due, round>> /\ copy' \in {copy, secret}
      BY <1>2 DEF certVars, world, ListFails, SyncSecret
    <2> QED
      BY <1>1, <2>1, Retries
  <1>3. CASE SkipUpdate \/ StartUpdate \/ WriteSecret \/ EndUpdate \/ RestartManager
    BY <1>1, <1>3, SkipUpdateInv, StartUpdateInv, WriteSecretInv, EndUpdateInv, CrashInv
  <1>4. CASE \E c \in Configs : Inject(c) \/ InjectFails(c)
    BY <1>1, <1>4, InjectInv, InjectFailsInv
  <1>5. CASE \E o \in Servers : UpdateCertificates(o) \/ MissCertificates(o)
    BY <1>1, <1>5, UpdateCertificatesInv, MissCertificatesInv
  <1>6. CASE DeleteSecret \/ \E c \in Configs : ResetBundle(c)
    BY <1>1, <1>6, DeleteSecretInv, ResetBundleInv
  <1>7. CASE TimePasses
    BY <1>1, <1>7, TickInv
  <1> QED
    BY <1>1, <1>2, <1>3, <1>4, <1>5, <1>6, <1>7 DEF NextCerts, Manager

\* The invariant holds in every state: the manager's retries, its crashes, late caches
\* and lost updates of Reconcile, and the operators' watchers, in any order.
THEOREM CertInvHolds == CertSpec => []CertInv
  BY InitInv, StepInv, PTL DEF CertSpec

\* What an operator serves has not expired, nor has its CA, unless the operator could
\* not read the secret: Certs.Validate renews more than one wait of
\* watchForCertificatesSecret before a certificate expires.
THEOREM ServedIsValidHolds == CertSpec => []ServedIsValid
  <1>1. CertInv => ServedIsValid
    <2>1. SUFFICES ASSUME CertInv, NEW o \in Servers, serving[o] # NoCert, missed[o] = "no"
                   PROVE  now <= serving[o].exp /\ now <= serving[o].root.exp
      BY DEF ServedIsValid
    <2>2. /\ now \in Nat /\ poll[o] \in Nat /\ now <= poll[o]
          /\ serving[o].exp \in Int /\ serving[o].root.exp \in Int
      BY <2>1 DEF CertInv, Types, ClockOK, Certs, Roots
    <2>3. poll[o] <= serving[o].exp /\ poll[o] <= serving[o].root.exp
      BY <2>1 DEF CertInv, ServedOK
    <2> QED
      BY <2>2, <2>3
  <1> QED
    BY <1>1, CertInvHolds, PTL

\* Once Reconcile is done for SuccessDuration, every operator's certificate is trusted
\* by every configuration, also across the renewal of the CA (loadCombinedBundle), if
\* nobody interferes.
THEOREM TrustedWhenDoneHolds == CertSpec => []TrustedWhenDone
  <1>1. CertInv => TrustedWhenDone
    <2>1. SUFFICES ASSUME CertInv, ~disturbed, round = Idle, due > now,
                          NEW o \in Servers, serving[o] # NoCert, missed[o] # "fault"
                   PROVE  \A c \in Configs : Trusted(o, c)
      BY DEF TrustedWhenDone
    <2>2. \A c \in Configs : secret.root \in bundle[c]
      BY <2>1, NoSecretType DEF CertInv, DoneOK, Upset
    <2>3. Good(o)
      BY <2>1 DEF CertInv, ServedOK
    <2> QED
      BY <2>1, <2>2, <2>3, GoodIsCallable
  <1> QED
    BY <1>1, CertInvHolds, PTL

\* However often the secret is deleted or a bundle reset, and whenever, the API server
\* can call an operator's webhooks again one interval of the manager and one of the
\* watcher after the last time (Reconcile, watchForCertificatesSecret).
THEOREM OutageBoundedHolds == CertSpec => []OutageBounded
  <1>1. CertInv => OutageBounded
    BY DEF CertInv, ServedOK, OutageBounded
  <1> QED
    BY <1>1, CertInvHolds, PTL
=============================================================================
