--------------------------- MODULE LicenseManager ---------------------------
(***************************************************************************)
(* licensing/license-manager.js: the tier an installation runs with, where  *)
(* it comes from (a licence file, a key, or the free tier), and the daily   *)
(* counters compared with the tier's limits.                                *)
(*                                                                         *)
(* A licence is abstracted to its tier, to what its signature was computed  *)
(* from, and to whether it has expired.  The features Map always holds the  *)
(* features of currentTier; those nothing reads are left out.  All usage is *)
(* of one day.                                                              *)
(***************************************************************************)
EXTENDS Integers, FiniteSets

CONSTANTS
    Infinity,
    NoLicense,      \* license = null; as a file: none configured
    NoKey,
    environmentKey, \* the tier of OMNIX_LICENSE_KEY, or NoKey
    apiCallLimit    \* tier -> limits.apiCalls: 1000, 10000, 100000 and Infinity

VARIABLES
    licenseReady,   \* `initialized'
    currentTier,
    license,
    licenseUsage,   \* the Map `usage': metric -> today's total
    licenseFile     \* what config.licenseFile holds

licenseVars == <<licenseReady, currentTier, license, licenseUsage, licenseFile>>

Tier == {"free", "team", "business", "enterprise"}

\* What each tier switches on, and its limits.
tiers ==
    LET team == {"distributedExecution", "teamCollaboration", "scheduling"}
        Limits(tier, users, storage, concurrentPipelines) ==
            [users |-> users, apiCalls |-> apiCallLimit[tier], storage |-> storage,
             concurrentPipelines |-> concurrentPipelines]
    IN  [free |-> [features |-> {}, limits |-> Limits("free", 1, 100, 1)],
         team |-> [features |-> team, limits |-> Limits("team", 5, 10000, 5)],
         business |-> [features |-> team \cup {"ssoIntegration"},
                       limits |-> Limits("business", 20, 100000, 20)],
         enterprise |-> [features |-> team \cup {"ssoIntegration"},
                         limits |-> Limits("enterprise", Infinity, Infinity, Infinity)]]

\* Of the metrics that are reported: one that no tier limits, and the two that
\* have a limit.
Metric == {"executions", "apiCalls", "storage"}

NoUsage == [m \in Metric |-> 0]

\* generateLicense() signs the whole licence, validateLicenseKey() the key.
License == [tier : Tier, signed : {"licence", "key"}, expired : BOOLEAN]

ASSUME LicenseAssumption ==
    /\ environmentKey \in Tier \cup {NoKey}
    /\ apiCallLimit \in [Tier -> (Nat \ {0}) \cup {Infinity}]
    /\ {NoLicense, NoKey} \cap (License \cup Tier) = {}
    /\ Infinity \notin Int

hasFeature(feature) == feature \in tiers[currentTier].features

\* A limit that is not defined is `undefined', and no number exceeds it.
ExceedsLimit(metric, total) ==
    LET limits == tiers[currentTier].limits
    IN  metric \in DOMAIN limits /\ limits[metric] # Infinity /\ total > limits[metric]

\* trackUsage() adds first and throws afterwards.
trackUsage(usage, metric, value) == [usage EXCEPT ![metric] = @ + value]

-----------------------------------------------------------------------------
(* Where the tier comes from                                               *)

setTier(tier) == currentTier' = tier

\* validateLicense(): the licence has not expired and its signature is the hash
\* of its content.
validateLicense(file) == file # NoLicense /\ ~file.expired /\ file.signed = "licence"

\* Mutant: the tier is activated before the licence is stored, and storing it
\* is forgotten.
ActivateOnly(tier) == setTier(tier) /\ UNCHANGED license

\* validateLicenseKey() of a key of the right form: a licence for one year.
validateLicenseKey(tier) ==
    /\ license' = [tier |-> tier, signed |-> "key", expired |-> FALSE]
    /\ setTier(tier)

\* init(licenseFile): a configured file that cannot be loaded leaves the free
\* tier, and the licence that was there.
initLicenseManager(file) ==
    /\ licenseReady' = TRUE
    /\ \/ /\ validateLicense(file)
          /\ license' = file
          /\ setTier(file.tier)
       \/ /\ file = NoLicense /\ environmentKey # NoKey
          /\ validateLicenseKey(environmentKey)
       \/ /\ ~validateLicense(file)
          /\ file # NoLicense \/ environmentKey = NoKey
          /\ setTier("free")
          /\ UNCHANGED license

LicenseInit ==
    /\ licenseReady = FALSE
    /\ currentTier = "free"
    /\ license = NoLicense
    /\ licenseUsage = NoUsage

\* saveLicense(): the file is read at the next start.
SaveLicense ==
    /\ license # NoLicense
    /\ licenseFile' = license
    /\ UNCHANGED <<licenseReady, currentTier, license, licenseUsage>>

\* A year passes: nothing looks at expiresAt again until init().
Expire ==
    /\ licenseFile # NoLicense
    /\ licenseFile' = [licenseFile EXCEPT !.expired = TRUE]
    /\ license' = IF license = NoLicense THEN license ELSE [license EXCEPT !.expired = TRUE]
    /\ UNCHANGED <<licenseReady, currentTier, licenseUsage>>

LicenseTypeOK ==
    /\ licenseReady \in BOOLEAN
    /\ currentTier \in Tier
    /\ license \in License \cup {NoLicense}
    /\ licenseUsage \in [Metric -> Nat]
    /\ licenseFile \in License \cup {NoLicense}

\* A paid tier is backed by the licence the manager holds: whatever the order
\* of loading, upgrading, saving and restarting, the tier it runs with is the
\* tier of `license', which is what getInfo() shows and saveLicense() stores.
\* (license-manager.js:198-269)
PaidTierIsBacked ==
    currentTier # "free" => license # NoLicense /\ license.tier = currentTier
=============================================================================
